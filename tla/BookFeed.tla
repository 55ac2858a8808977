------------------------------ MODULE BookFeed ------------------------------
(***************************************************************************)
(* JsonBookSource: the order book kept from the books channel, the request *)
(* for a fresh snapshot when a push is missed, and the mid the quoter      *)
(* takes from it.  The exchange and the connection are external: pushes    *)
(* arrive in order, the exchange may fail to send one, and the session may *)
(* be lost with all that is on its way.  exch, seen, overflowed, gapped    *)
(* and staleQuote are not in the code.                                     *)
(***************************************************************************)
EXTENDS Integers, Sequences, FiniteSets, OrderBook

CONSTANTS
    Prices,          \* the prices of each side
    Sizes,           \* the sizes a level may have, 0 among them
    MaxSeq,          \* bound: changes of the exchange's book
    MaxMissed,       \* bound: pushes the exchange fails to send
    MaxDisconnects,  \* bound: times the session is lost
    MaxOnTheWay      \* bound: pushes on their way before the book changes again

ASSUME FeedAssumption ==
    /\ Capacity \in Nat \ {0}
    /\ Prices \in [Sides -> SUBSET (Nat \ {NoPrice})]
    /\ Sizes \subseteq Nat
    /\ {MaxSeq, MaxMissed, MaxDisconnects, MaxOnTheWay} \subseteq Nat

VARIABLES
    book,         \* book_
    mid,          \* last_quoted_mid_, doubled
    connected,    \* whether ws_client_ has a session
    requests,     \* subscriptions on their way to the exchange
    pushes,       \* messages on their way to the engine
    exch,         \* the exchange's book
    seq,          \* its seqId
    subscribed,   \* whether the exchange pushes changes on this session
    seen,         \* the exchange's book as of the latest push applied
    overflowed,   \* a level has found no room since the latest snapshot
    gapped,       \* a gap was detected and no snapshot has come since
    staleQuote,   \* the quoter placed orders from a book that was gapped
    missed, disconnects

feedVars == <<book, mid, seen, overflowed, gapped>>
sessionVars == <<connected, requests, pushes, disconnects>>
exchangeVars == <<exch, seq, subscribed, missed>>
vars == <<feedVars, staleQuote, sessionVars, exchangeVars>>

NoMid == 0
SnapshotSeqId == -1

Level == [price : Prices["bids"] \cup Prices["asks"], size : Sizes]
Books == {b \in [Sides -> [Prices["bids"] \cup Prices["asks"] -> Sizes]] :
             \A side \in Sides : \A p \in DOMAIN b[side] \ Prices[side] : b[side][p] = 0}

-----------------------------------------------------------------------------
(* ApplyBookMessage. *)

(* A non-snapshot push that does not chain onto the latest one applied. *)
MutIsGap(push) ==
    push.prevSeqId # SnapshotSeqId /\ book.hasSnapshot /\ push.prevSeqId < book.lastSeqId

IsGap(push) ==
    push.prevSeqId # SnapshotSeqId /\ book.hasSnapshot /\ push.prevSeqId # book.lastSeqId

(* ApplyLevels: every level of the array in turn; the side before the first, and
   after each of them.  CHOOSE from a singleton makes TLC evaluate each result
   once. *)
Held(side, levels, array) ==
    LET held[i \in 0..Len(array)] ==
            IF i = 0
            THEN levels
            ELSE CHOOSE after \in {Set(side, before, array[i]) : before \in {held[i - 1]}} : TRUE
    IN  held

ApplyLevels(side, levels, array) == Held(side, levels, array)[Len(array)]

Start(push) == IF push.prevSeqId = SnapshotSeqId THEN BeginSnapshot(book) ELSE book

Applied(push) ==
    SetSeqId([Start(push) EXCEPT !.bids = ApplyLevels("bids", @, push.bids),
                                 !.asks = ApplyLevels("asks", @, push.asks)],
             push.seqId)

(* Some level of the push finds the array full. *)
PushOverflows(push) ==
    \E side \in Sides : \E i \in DOMAIN push[side] :
        Overflows(side, Held(side, Start(push)[side], push[side])[i - 1], push[side][i])

(* NaiveQuoter::OnBookUpdate: a mid needs both sides; a new mid is quoted if
   it is far enough from the last. *)
MidsAfter(b) ==
    LET bid == Best(b.bids)
        ask == Best(b.asks)
    IN  IF bid = NoPrice \/ ask = NoPrice
        THEN {mid}
        ELSE {bid + ask} \cup IF mid = NoMid THEN {} ELSE {mid}

(* ApplyBookMessage with a push that applies.  ApplyLevels throws at a level
   without a price or a size, in the middle of a side; nothing between it and
   main catches that, so no one sees the book it leaves, and the exchange of
   this model sends no such level. *)
OnApplied ==
    LET push == Head(pushes)
    IN  /\ pushes # <<>>
        /\ push.channel = "books"
        /\ ~IsGap(push)
        /\ book' = Applied(push)
        /\ mid' \in MidsAfter(book')
        /\ seen' = push.exch
        /\ overflowed' = ((overflowed /\ push.prevSeqId # SnapshotSeqId) \/ PushOverflows(push))
        /\ gapped' = (gapped /\ push.prevSeqId # SnapshotSeqId)
        /\ pushes' = Tail(pushes)
        /\ UNCHANGED <<staleQuote, connected, requests, disconnects, exchangeVars>>

MutResubscribe == <<"unsubscribe">>

Resubscribe == <<"unsubscribe", "subscribe">>

MutOnGap ==
    /\ pushes # <<>>
    /\ Head(pushes).channel = "books"
    /\ IsGap(Head(pushes))
    /\ book' = SetSeqId(book, Head(pushes).seqId)
    /\ requests' = requests \o Resubscribe
    /\ gapped' = TRUE
    /\ pushes' = Tail(pushes)
    /\ UNCHANGED <<mid, seen, overflowed, staleQuote, connected, disconnects, exchangeVars>>

OnGap ==
    /\ pushes # <<>>
    /\ Head(pushes).channel = "books"
    /\ IsGap(Head(pushes))
    /\ requests' = requests \o Resubscribe
    /\ gapped' = TRUE
    /\ pushes' = Tail(pushes)
    /\ UNCHANGED <<book, mid, seen, overflowed, staleQuote, connected, disconnects, exchangeVars>>

(* Another channel's push, or the answer to a subscription. *)
OnIgnored ==
    /\ pushes # <<>>
    /\ Head(pushes).channel = "other"
    /\ pushes' = Tail(pushes)
    /\ UNCHANGED <<feedVars, staleQuote, connected, requests, disconnects, exchangeVars>>

(* NaiveQuoter::OnTimer places what is missing at the last mid, whatever has
   become of the book. *)
OnTimer ==
    /\ mid # NoMid
    /\ staleQuote' = (staleQuote \/ gapped)
    /\ UNCHANGED <<feedVars, sessionVars, exchangeVars>>

(* SetOnConnected's callback; the book stays as it is. *)
OnConnected ==
    /\ ~connected
    /\ connected' = TRUE
    /\ requests' = <<"subscribe">>
    /\ UNCHANGED <<feedVars, staleQuote, pushes, disconnects, exchangeVars>>

Disconnect ==
    /\ connected
    /\ disconnects < MaxDisconnects
    /\ disconnects' = disconnects + 1
    /\ connected' = FALSE
    /\ requests' = <<>>
    /\ pushes' = <<>>
    /\ subscribed' = FALSE
    /\ UNCHANGED <<feedVars, staleQuote, exch, seq, missed>>

-----------------------------------------------------------------------------
(* The exchange. *)

(* A snapshot lists the levels of a side, best first. *)
LevelsOf(f) == {[price |-> p, size |-> f[p]] : p \in {q \in DOMAIN f : f[q] > 0}}

Listings(side) ==
    LET levels == LevelsOf(exch[side])
    IN  {list \in UNION {[1..n -> levels] : n \in 0..Cardinality(levels)} :
            Sorted(side, list) /\ {list[i] : i \in DOMAIN list} = levels}

ExchangeSubscribes ==
    /\ requests # <<>>
    /\ Head(requests) = "subscribe"
    /\ requests' = Tail(requests)
    /\ subscribed' = TRUE
    /\ \E bids \in Listings("bids"), asks \in Listings("asks") :
          pushes' = pushes \o <<[channel |-> "other"],
                                [channel |-> "books", prevSeqId |-> SnapshotSeqId, seqId |-> seq,
                                 bids |-> bids, asks |-> asks, exch |-> exch]>>
    /\ UNCHANGED <<feedVars, staleQuote, connected, disconnects, exch, seq, missed>>

ExchangeUnsubscribes ==
    /\ requests # <<>>
    /\ Head(requests) = "unsubscribe"
    /\ requests' = Tail(requests)
    /\ subscribed' = FALSE
    /\ UNCHANGED <<feedVars, staleQuote, connected, pushes, disconnects, exch, seq, missed>>

(* A level of the exchange's book changes; the push carries the new size, 0
   for a level that is gone. *)
ExchangeMoves(side, level) ==
    /\ seq < MaxSeq
    /\ Len(pushes) < MaxOnTheWay
    /\ exch[side][level.price] # level.size
    /\ exch' = [exch EXCEPT ![side][level.price] = level.size]
    /\ seq' = seq + 1
    /\ \/ /\ subscribed
          /\ pushes' = Append(pushes, [channel |-> "books", prevSeqId |-> seq, seqId |-> seq + 1,
                                       bids |-> IF side = "bids" THEN <<level>> ELSE <<>>,
                                       asks |-> IF side = "asks" THEN <<level>> ELSE <<>>,
                                       exch |-> exch'])
          /\ UNCHANGED missed
       \/ /\ subscribed
          /\ missed < MaxMissed
          /\ missed' = missed + 1
          /\ UNCHANGED pushes
       \/ /\ ~subscribed
          /\ UNCHANGED <<pushes, missed>>
    /\ UNCHANGED <<feedVars, staleQuote, connected, requests, disconnects, subscribed>>

(* Nothing is on its way. *)
Rests == connected /\ requests = <<>> /\ pushes = <<>> /\ UNCHANGED vars

Init ==
    /\ book = NewBook
    /\ mid = NoMid
    /\ connected = FALSE
    /\ requests = <<>>
    /\ pushes = <<>>
    /\ exch \in Books
    /\ seq = 0
    /\ subscribed = FALSE
    /\ seen = [side \in Sides |-> [p \in Prices["bids"] \cup Prices["asks"] |-> 0]]
    /\ overflowed = FALSE
    /\ gapped = FALSE
    /\ staleQuote = FALSE
    /\ missed = 0
    /\ disconnects = 0

OnMessage == OnApplied \/ OnGap \/ OnIgnored

Next ==
    \/ OnMessage
    \/ OnTimer
    \/ OnConnected
    \/ Disconnect
    \/ ExchangeSubscribes
    \/ ExchangeUnsubscribes
    \/ \E side \in Sides, level \in Level :
          level.price \in Prices[side] /\ ExchangeMoves(side, level)
    \/ Rests

Spec == Init /\ [][Next]_vars

(* The reactor handles what arrives, the client reconnects, and the exchange
   answers a subscription. *)
Fairness ==
    /\ WF_vars(OnMessage)
    /\ WF_vars(OnConnected)
    /\ WF_vars(ExchangeSubscribes \/ ExchangeUnsubscribes)

FairSpec == Spec /\ Fairness

-----------------------------------------------------------------------------
(* Properties. *)

(* After any mixture of snapshots, changes, missed pushes and reconnects, each
   side fits its array and is sorted, full arrays included, and the book a push
   leaves behind is the exchange's as of that push, level for level, unless some
   level has found no room since the snapshot. *)
BookIsExchanges ==
    \A side \in Sides :
        /\ Len(book[side]) <= Capacity
        /\ Sorted(side, book[side])
        /\ ~overflowed => {book[side][i] : i \in DOMAIN book[side]} = LevelsOf(seen[side])

(* While a gap is open no push is applied to the book but a snapshot, even if
   later pushes chain onto one another. *)
GapBlocksUpdates == [][gapped /\ seen' # seen => ~gapped']_vars

(* Every gap is closed by a fresh snapshot, whatever is missed or lost in the
   meantime. *)
GapIsClosed == gapped ~> ~gapped

(* What the README and a comment say. *)

(* README.md: "The engine maintains a live L2 order book": a best price given
   to the strategy is one the exchange had a level at as of the push. *)
BestPricesExist ==
    \A side \in Sides : Best(book[side]) # NoPrice => seen[side][Best(book[side])] > 0

(* market_data.cpp: after a gap the book "is stale and must not be trusted
   until a fresh snapshot resets it". *)
StaleBookIsNotQuoted == ~staleQuote
=============================================================================
