----------------------------- MODULE OrderBook -----------------------------
(***************************************************************************)
(* class OrderBook (okx/marketdata/order_book.{hpp,cpp}): two PriceLevels, *)
(* arrays of at most Capacity levels with the best price first, as         *)
(* operators on sequences.  Prices and sizes are small integers; the code  *)
(* compares doubles parsed from the same decimal text, so equality is      *)
(* equality of the text's value.                                           *)
(***************************************************************************)
EXTENDS Integers, Sequences

CONSTANT Capacity  \* kCapacity

Sides == {"bids", "asks"}

(* std::greater<> for bids, std::less<> for asks. *)
Compare(side, p, q) == IF side = "bids" THEN p > q ELSE p < q

(* The number of levels before the place of a price, by bisection. *)
LowerBound(side, levels, price) ==
    LET n == Len(levels)
        search[r \in (0..n) \X (0..n)] ==
            LET begin == r[1]
                end == r[2]
                mid == begin + (end - begin) \div 2
            IN  IF begin >= end THEN begin
                ELSE IF Compare(side, levels[mid + 1].price, price) THEN search[<<mid + 1, end>>]
                ELSE search[<<begin, mid>>]
    IN  search[<<0, n>>]

(* InsertAt: the levels from i on move up, and what does not fit falls off. *)
Inserted(levels, i, level) ==
    LET last == IF Len(levels) = Capacity THEN Len(levels) - 1 ELSE Len(levels)
    IN  IF i >= Capacity
        THEN levels
        ELSE [k \in 1..(last + 1) |->
                 IF k <= i THEN levels[k] ELSE IF k = i + 1 THEN level ELSE levels[k - 1]]

(* RemoveAt: the levels behind i move down. *)
Removed(levels, i) ==
    [k \in 1..(Len(levels) - 1) |-> IF k <= i THEN levels[k] ELSE levels[k + 1]]

(* PriceLevels::Set. *)
Found(side, levels, price) ==
    LET i == LowerBound(side, levels, price)
    IN  i < Len(levels) /\ levels[i + 1].price = price

Set(side, levels, level) ==
    LET i == LowerBound(side, levels, level.price)
    IN  IF ~Found(side, levels, level.price)
        THEN Inserted(levels, i, level)
        ELSE IF level.size = 0
             THEN Removed(levels, i)
             ELSE [levels EXCEPT ![i + 1].size = level.size]

(* A level that has no room, or takes another one's. *)
Overflows(side, levels, level) ==
    ~Found(side, levels, level.price) /\ Len(levels) = Capacity

(* What the bisection of LowerBound needs: strictly sorted, best price first. *)
Sorted(side, levels) ==
    \A i, j \in DOMAIN levels : i < j => Compare(side, levels[i].price, levels[j].price)

NoPrice == 0

(* Best: the front's price, or nullopt. *)
Best(levels) == IF levels = <<>> THEN NoPrice ELSE levels[1].price

NewBook == [bids |-> <<>>, asks |-> <<>>, lastSeqId |-> -1, hasSnapshot |-> FALSE]

BeginSnapshot(book) == [book EXCEPT !.bids = <<>>, !.asks = <<>>, !.hasSnapshot = TRUE]

SetSeqId(book, seqId) == [book EXCEPT !.lastSeqId = seqId]
=============================================================================
