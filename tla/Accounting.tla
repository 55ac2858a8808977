---------------------------- MODULE Accounting ----------------------------
(***************************************************************************)
(* What the engine knows of its money: Position, fed by the fills of the   *)
(* orders channel, the realised loss that triggers the kill switch, and    *)
(* AccountState, fed by the account channel.  Doubles are exact fractions. *)
(* What becomes of the orders themselves is TradingEngine's.  The exchange *)
(* and the session are external: pushes arrive in order, and those on      *)
(* their way are lost with a session.                                      *)
(***************************************************************************)
EXTENDS Integers, Sequences

LOCAL INSTANCE SequencesExt

CONSTANTS
    Prices, Quantities,  \* of a fill
    Currencies,
    kCapacity,           \* of AccountState, 16 in the code
    kMaxRealizedLoss,    \* 50 in the code
    MaxFills,            \* bound: fills
    MaxUpdates,          \* bound: pushes that report no fill, and bad ones
    MaxTransfers,        \* bound: balance changes
    MaxLosses,           \* bound: times the session is lost
    MaxOnTheWay          \* bound: pushes on their way before another is sent

ASSUME AccountingAssumption ==
    /\ Prices \subseteq Nat \ {0}
    /\ Quantities \subseteq Nat \ {0}
    /\ {kCapacity, kMaxRealizedLoss} \subseteq Nat
    /\ {MaxFills, MaxUpdates, MaxTransfers, MaxLosses, MaxOnTheWay} \subseteq Nat

VARIABLES
    running,     \* no exception has left Engine::Run
    position,    \* position_: [netQty, avgEntryPx, realizedPnl]
    triggered,   \* kill_switch_.triggered_
    balances,    \* account_state_: the first count_ entries of balances_
    pushes,      \* pushes on their way to the engine
    subscribed,  \* whether the exchange pushes on this session
    held,        \* the account's quantity at the exchange
    wallet,      \* the account's balances at the exchange
    cash,        \* history: what the fills applied so far have earned and cost
    missed,      \* history: a fill happened that no push brought
    fills, updates, transfers, losses

engineVars == <<running, position, triggered, balances, cash>>
bounds == <<fills, updates, transfers, losses>>
vars == <<engineVars, pushes, subscribed, held, wallet, missed, bounds>>

(* Fractions in lowest terms. *)
Magnitude(n) == IF n < 0 THEN -n ELSE n

Fraction(n, d) ==
    LET common == CHOOSE k \in 1..d :
                    /\ d % k = 0 /\ Magnitude(n) % k = 0
                    /\ \A j \in (k + 1)..d : d % j # 0 \/ Magnitude(n) % j # 0
    IN  [n |-> IF n < 0 THEN -(Magnitude(n) \div common) ELSE n \div common, d |-> d \div common]
Plus(x, y) == Fraction(x.n * y.d + y.n * x.d, x.d * y.d)
Times(x, k) == Fraction(x.n * k, x.d)
Less(x, y) == x.n * y.d < y.n * x.d
Whole(k) == [n |-> k, d |-> 1]

Flat == [netQty |-> 0, avgEntryPx |-> Whole(0), realizedPnl |-> Whole(0)]

Init ==
    /\ running = TRUE
    /\ position = Flat
    /\ triggered = FALSE
    /\ balances = <<>>
    /\ pushes = <<>>
    /\ subscribed = FALSE
    /\ held = 0
    /\ wallet = [c \in Currencies |-> 0]
    /\ cash = 0
    /\ missed = FALSE
    /\ fills = 0 /\ updates = 0 /\ transfers = 0 /\ losses = 0

-----------------------------------------------------------------------------
(* Position. *)

SignedQty(side, qty) == IF side = "buy" THEN qty ELSE -qty

(* Adding to the position realises nothing. *)
Added(p, qty, px) ==
    LET cost == Plus(Times(p.avgEntryPx, Magnitude(p.netQty)), Whole(Magnitude(qty) * px))
        newQty == p.netQty + qty
    IN  [p EXCEPT !.netQty = newQty,
                  !.avgEntryPx = Fraction(cost.n, cost.d * Magnitude(newQty))]

ClosingQty(p, qty) ==
    IF Magnitude(qty) < Magnitude(p.netQty) THEN Magnitude(qty) ELSE Magnitude(p.netQty)

PnlPerUnit(p, px) ==
    IF p.netQty > 0 THEN Plus(Whole(px), Times(p.avgEntryPx, -1))
                    ELSE Plus(p.avgEntryPx, Whole(-px))

MutAvgAfterClosing(p, newQty, px) == IF newQty = 0 THEN Whole(0) ELSE p.avgEntryPx

AvgAfterClosing(p, newQty, px) ==
    IF newQty = 0 THEN Whole(0)
    ELSE IF (newQty > 0) # (p.netQty > 0) THEN Whole(px)
    ELSE p.avgEntryPx

Closed(p, qty, px) ==
    [netQty |-> p.netQty + qty,
     avgEntryPx |-> AvgAfterClosing(p, p.netQty + qty, px),
     realizedPnl |-> Plus(p.realizedPnl, Times(PnlPerUnit(p, px), ClosingQty(p, qty)))]

ApplyFill(p, qty, px) ==
    IF p.netQty = 0 \/ (p.netQty > 0) = (qty > 0) THEN Added(p, qty, px) ELSE Closed(p, qty, px)

-----------------------------------------------------------------------------
(* The orders channel. *)

States == {"live", "partially_filled", "filled", "canceled"}

(* ClassifyFill returns a fill; an absent or empty field is 0. *)
HasFill(push) == push.fillPx > 0 /\ push.fillSz > 0

MutIsFill(push) == HasFill(push)

IsFill(push) == push.state \in {"partially_filled", "filled"} /\ HasFill(push)

MutLossBreached(p) == Less(Whole(kMaxRealizedLoss), p.realizedPnl)

LossBreached(p) == Less(p.realizedPnl, Whole(-kMaxRealizedLoss))

(* HandleOrderEvent, or the exception of a state ClassifyState does not know. *)
OnOrderPush(push) ==
    \/ /\ push.state \notin States
       /\ running' = FALSE
       /\ UNCHANGED <<position, triggered, balances, cash>>
    \/ /\ push.state \in States
       /\ IsFill(push)
       /\ LET qty == SignedQty(push.side, push.fillSz)
          IN  /\ position' = ApplyFill(position, qty, push.fillPx)
              /\ cash' = cash - qty * push.fillPx
       /\ triggered' = (triggered \/ LossBreached(position'))
       /\ UNCHANGED <<running, balances>>
    \/ /\ push.state \in States
       /\ ~IsFill(push)
       /\ UNCHANGED engineVars

-----------------------------------------------------------------------------
(* The account channel. *)

Places(array, ccy) == {i \in 1..Len(array) : array[i].ccy = ccy}

MutWithDetail(array, detail) ==
    IF Len(array) = kCapacity THEN array
    ELSE IF Places(array, detail.ccy) = {} THEN Append(array, detail)
    ELSE [array EXCEPT ![CHOOSE i \in Places(array, detail.ccy) : TRUE] = detail]

(* One detail; a currency that finds no room is left out. *)
WithDetail(array, detail) ==
    IF Places(array, detail.ccy) # {}
    THEN [array EXCEPT ![CHOOSE i \in Places(array, detail.ccy) : TRUE] = detail]
    ELSE IF Len(array) < kCapacity THEN Append(array, detail)
    ELSE array

ApplyMessage(push) == FoldLeft(WithDetail, balances, push.details)

OnAccountPush(push) ==
    /\ balances' = ApplyMessage(push)
    /\ UNCHANGED <<running, position, triggered, cash>>

(* OnPrivateWsMessage. *)
OnPush ==
    /\ running
    /\ pushes # <<>>
    /\ pushes' = Tail(pushes)
    /\ \/ Head(pushes).channel = "orders" /\ OnOrderPush(Head(pushes))
       \/ Head(pushes).channel = "account" /\ OnAccountPush(Head(pushes))
    /\ UNCHANGED <<subscribed, held, wallet, missed, bounds>>

-----------------------------------------------------------------------------
(* The exchange and the session. *)

OrderPush(state, side, px, sz) ==
    [channel |-> "orders", state |-> state, side |-> side, fillPx |-> px, fillSz |-> sz]

AccountPush(order) ==
    [channel |-> "account",
     details |-> [i \in DOMAIN order |-> [ccy |-> order[i], bal |-> wallet'[order[i]]]]]

Send(push) ==
    /\ Len(pushes) < MaxOnTheWay
    /\ pushes' = IF subscribed THEN Append(pushes, push) ELSE pushes

(* Login and subscription; the account channel begins with every balance. *)
Subscribe ==
    /\ running
    /\ ~subscribed
    /\ subscribed' = TRUE
    /\ UNCHANGED wallet
    /\ \E order \in SetToSeqs(Currencies) : pushes' = <<AccountPush(order)>>
    /\ UNCHANGED <<engineVars, held, missed, bounds>>

LoseSession ==
    /\ running
    /\ subscribed
    /\ losses < MaxLosses
    /\ losses' = losses + 1
    /\ subscribed' = FALSE
    /\ missed' = (missed \/ \E i \in DOMAIN pushes :
                                pushes[i].channel = "orders" /\ IsFill(pushes[i]))
    /\ pushes' = <<>>
    /\ UNCHANGED <<engineVars, held, wallet, fills, updates, transfers>>

(* An order fills, with the session or without it. *)
Fill(side, px, sz, state) ==
    /\ running
    /\ fills < MaxFills
    /\ fills' = fills + 1
    /\ held' = held + SignedQty(side, sz)
    /\ missed' = (missed \/ ~subscribed)
    /\ Send(OrderPush(state, side, px, sz))
    /\ UNCHANGED <<engineVars, subscribed, wallet, updates, transfers, losses>>

(* An order goes live, is amended or canceled, or gets a state the engine does
   not know.  The push of a cancel repeats the last fill of its order; the one
   of an amend comes with an empty fillPx or a fillSz of 0. *)
Update(push) ==
    /\ running
    /\ updates < MaxUpdates
    /\ updates' = updates + 1
    /\ Send(push)
    /\ UNCHANGED <<engineVars, subscribed, held, wallet, missed, fills, transfers, losses>>

Updates ==
    {OrderPush("live", "buy", 0, 0), OrderPush("partially_filled", "sell", 0, 0),
     OrderPush("unknown", "buy", 0, 0)}
    \cup {OrderPush("partially_filled", "buy", px, 0) : px \in Prices}
    \cup {OrderPush("canceled", "sell", px, sz) : px \in Prices, sz \in Quantities}

Transfer(ccy) ==
    /\ running
    /\ transfers < MaxTransfers
    /\ transfers' = transfers + 1
    /\ wallet' = [wallet EXCEPT ![ccy] = @ + 1]
    /\ Send(AccountPush(<<ccy>>))
    /\ UNCHANGED <<engineVars, subscribed, held, missed, fills, updates, losses>>

Next ==
    \/ OnPush
    \/ Subscribe
    \/ LoseSession
    \/ \E side \in {"buy", "sell"}, px \in Prices, sz \in Quantities,
          state \in {"partially_filled", "filled"} : Fill(side, px, sz, state)
    \/ \E push \in Updates : Update(push)
    \/ \E ccy \in Currencies : Transfer(ccy)

Spec == Init /\ [][Next]_vars

-----------------------------------------------------------------------------
(* Properties. *)

(* What the position has cost at AvgEntryPx and the P&L realised account for
   every fill applied: whatever was bought, sold, closed or turned around, and
   in which order, RealizedPnl() + UnrealizedPnl(mark) is the cash the fills
   moved plus the quantity held at the mark. *)
PnlIsCashFlow ==
    position.realizedPnl = Plus(Whole(cash), Times(position.avgEntryPx, position.netQty))

(* Once every push is handled, the engine's net quantity is the exchange's, pushes
   without a fill and sessions lost without one included, as long as every fill
   was pushed.  Nothing fetches the fills of a lost session. *)
PositionIsExchanges == running /\ pushes = <<>> /\ ~missed => position.netQty = held

(* A position closed with less cash than kMaxRealizedLoss allows has triggered the
   kill switch, though each loss on the way was smaller. *)
LossTriggersKillSwitch ==
    position.netQty = 0 /\ cash < -kMaxRealizedLoss => triggered

(* Every currency has one entry, and on a session whose pushes are handled the
   entries are the exchange's balances, those that changed while there was no
   session included; a currency is missing only for want of room. *)
BalancesAreExchanges ==
    /\ \A c \in Currencies : \A i, j \in Places(balances, c) : i = j
    /\ running /\ subscribed /\ pushes = <<>> =>
        /\ \A i \in DOMAIN balances : balances[i].bal = wallet[balances[i].ccy]
        /\ \A c \in Currencies : Places(balances, c) = {} => Len(balances) = kCapacity
=============================================================================
