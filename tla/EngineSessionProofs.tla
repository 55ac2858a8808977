------------------------- MODULE EngineSessionProofs ------------------------
(*****************************************************************************)
(* Proofs about TradingEngine, part 1: orders, the initial state, the end of *)
(* the process, the exchange, then the session with its login and the        *)
(* reconciliation.  IInv, the inductive invariant, is defined in             *)
(* TradingEngine and model-checked as well; every action has a lemma that    *)
(* says it keeps IInv, and TradingEngineProofs combines them.                *)
(*****************************************************************************)
EXTENDS TradingEngine, TLAPS

(* The provers a leaf is given to, in turn, when it names none. *)
USE ZenonT(3), SMTT(25), ZenonT(30), Z3T(25)

(* Order::ApplyEvent on a working order: the order stays working or ends, gets
   its ordId, never enters PendingAmend or PendingCancel, never goes back; only
   a fill in full or a cancel ends it. *)
LEMMA ApplyEventType ==
    ASSUME NEW o \in WorkingOrder, NEW type \in EventTypes
    PROVE  /\ ~IsTerminal(ApplyEvent(o, type).state) => ApplyEvent(o, type) \in WorkingOrder
           /\ ApplyEvent(o, type).ordId = TRUE
           /\ ApplyEvent(o, type).state # "PendingAmend"
           /\ ApplyEvent(o, type).state = "PendingCancel" => o.state = "PendingCancel"
           /\ Progress(ApplyEvent(o, type)) >= Progress(o)
           /\ IsTerminal(ApplyEvent(o, type).state) => type \in {"Fill", "Cancel"}
<1> DEFINE next == AfterEvent(o, type)
           p == ApplyEvent(o, type)
<1>1. /\ o.state \in {"PendingNew", "New", "PartiallyFilled", "PendingCancel", "PendingAmend"}
      /\ o.pre \in {"PendingNew", "New", "PartiallyFilled"}
  BY DEF WorkingOrder
<1>2. p.state = next /\ p.pre = o.pre /\ p.ordId = TRUE
  BY DEF ApplyEvent, WorkingOrder
<1>3. CASE type = "Live"
  <2>1. next = AfterLive(o)
    BY <1>3 DEF AfterEvent
  <2>2. /\ next \in {"New", "PartiallyFilled", "PendingCancel"}
        /\ next = "PendingCancel" => o.state = "PendingCancel"
    BY <1>1, <2>1 DEF AfterLive
  <2>3. p \in WorkingOrder
    BY <2>2, Zenon DEF ApplyEvent, WorkingOrder
  <2>4. Progress(p) >= Progress(o)
    BY <1>1, <1>2, <2>1 DEF AfterLive, Progress, EffectiveState
  <2>5. ~IsTerminal(p.state)
    BY <1>2, <2>2 DEF IsTerminal, TerminalStates
  <2> QED BY <1>2, <2>2, <2>3, <2>4, <2>5
<1>4. CASE type = "PartialFill"
  <2>1. next = "PartiallyFilled"
    BY <1>4 DEF AfterEvent
  <2>2. p \in WorkingOrder
    BY <2>1, Zenon DEF ApplyEvent, WorkingOrder
  <2>3. Progress(p) >= Progress(o)
    BY <1>1, <1>2, <2>1 DEF Progress, EffectiveState
  <2>4. ~IsTerminal(p.state)
    BY <1>2, <2>1 DEF IsTerminal, TerminalStates
  <2> QED BY <1>2, <2>1, <2>2, <2>3, <2>4
<1>5. CASE type \in {"Fill", "Cancel"}
  <2>1. next \in TerminalStates
    BY <1>5 DEF AfterEvent, TerminalStates
  <2> QED BY <1>1, <1>2, <1>5, <2>1 DEF IsTerminal, TerminalStates, Progress, EffectiveState
<1> QED BY <1>3, <1>4, <1>5, Zenon DEF EventTypes

-----------------------------------------------------------------------------
(* Sequences. *)

(* An element of Append(q, e) is e or an element of q. *)
LEMMA AppendFacts ==
    ASSUME NEW S, NEW q \in Seq(S), NEW e \in S
    PROVE  /\ Append(q, e) \in Seq(S)
           /\ Append(q, e) # <<>>
           /\ \A i \in DOMAIN Append(q, e) :
                 Append(q, e)[i] = e \/ (i \in DOMAIN q /\ Append(q, e)[i] = q[i])
OBVIOUS

(* The empty sequence is the one of length zero. *)
LEMMA EmptySequence ==
    ASSUME NEW S
    PROVE  <<>> \in Seq(S) /\ \A q \in Seq(S) : Len(q) = 0 => q = <<>>
OBVIOUS

(* The head and the tail of a sequence that is not empty. *)
LEMMA TailFacts ==
    ASSUME NEW S, NEW q \in Seq(S), q # <<>>
    PROVE  /\ Tail(q) \in Seq(S)
           /\ Head(q) \in S
           /\ 1 \in DOMAIN q
           /\ Head(q) = q[1]
           /\ \A i \in DOMAIN Tail(q) : i + 1 \in DOMAIN q /\ Tail(q)[i] = q[i + 1]
OBVIOUS

-----------------------------------------------------------------------------
(* Orders. *)

(* NoOrder is not an order, and a working order has not ended. *)
LEMMA NoOrderFacts ==
    /\ NoOrder.state = "Absent"
    /\ NoOrder.ordId = FALSE
    /\ ~Present(NoOrder)
    /\ NoOrder \notin WorkingOrder
    /\ \A o \in WorkingOrder : /\ Present(o)
                               /\ ~IsTerminal(o.state)
                               /\ o \in Order
                               /\ o.ordId \in BOOLEAN
BY DEF NoOrder, Present, WorkingOrder, IsTerminal, TerminalStates, Order, OrderStates,
       PendingStates

(* Order::Order makes a working order without an ordId. *)
LEMMA NewOrderFacts ==
    /\ NewOrder \in WorkingOrder
    /\ NewOrder.ordId = FALSE
    /\ NewOrder.state = "PendingNew"
BY DEF NewOrder, WorkingOrder

(* OnAmendRequested: throws only from PendingAmend when the order is working,
   and neither loses the ordId nor the progress of the order. *)
LEMMA AmendFacts ==
    ASSUME NEW o \in WorkingOrder
    PROVE  /\ ~OnAmendRequestedThrows(o) => OnAmendRequested(o) \in WorkingOrder
           /\ OnAmendRequestedThrows(o) <=> o.state = "PendingAmend"
           /\ OnAmendRequested(o).ordId = o.ordId
           /\ OnAmendRequested(o).state = "PendingAmend"
           /\ ~OnAmendRequestedThrows(o) => Progress(OnAmendRequested(o)) = Progress(o)
BY ZenonT(30) DEF WorkingOrder, OnAmendRequested, OnAmendRequestedThrows, Progress, EffectiveState

(* OnCancelRequested: throws only from PendingCancel when the order is working,
   and neither loses the ordId nor the progress of the order. *)
LEMMA CancelFacts ==
    ASSUME NEW o \in WorkingOrder
    PROVE  /\ ~OnCancelRequestedThrows(o) => OnCancelRequested(o) \in WorkingOrder
           /\ OnCancelRequestedThrows(o) <=> o.state = "PendingCancel"
           /\ OnCancelRequested(o).ordId = o.ordId
           /\ OnCancelRequested(o).state = "PendingCancel"
           /\ ~OnCancelRequestedThrows(o) => Progress(OnCancelRequested(o)) = Progress(o)
BY ZenonT(30) DEF WorkingOrder, OnCancelRequested, OnCancelRequestedThrows, Progress, EffectiveState

(* OnRequestRejected brings a working order back to a state without a request in
   flight, and keeps its progress unless it throws. *)
LEMMA RejectFacts ==
    ASSUME NEW o \in WorkingOrder
    PROVE  /\ OnRequestRejected(o) \in WorkingOrder
           /\ OnRequestRejected(o).state \notin {"PendingAmend", "PendingCancel"}
           /\ OnRequestRejected(o).ordId = o.ordId
           /\ ~OnRequestRejectedThrows(o) => Progress(OnRequestRejected(o)) = Progress(o)
BY DEF WorkingOrder, OnRequestRejected, OnRequestRejectedThrows, Progress, EffectiveState

(* What IInv says about ids, for the proofs that need nothing else of it. *)
LEMMA IdTypes ==
    ASSUME IInv
    PROVE  /\ lastId \in 0..MaxOrders /\ lastId \in Nat
           /\ rtId \in OrderIds \cup {NoId}
           /\ quote \in [Sides -> OrderIds \cup {NoId}]
           /\ \A a \in awaiting : a[2] \in OrderIds
<1>1. /\ lastId \in 0..MaxOrders
      /\ rtId \in OrderIds \cup {NoId}
      /\ quote \in [Sides -> OrderIds \cup {NoId}]
      /\ awaiting \subseteq {"order", "amend", "cancel"} \X OrderIds
  BY DEF IInv, TypeOK, EngineTypeOK
<1> QED BY <1>1, BoundsAssumption

(* No id in use is past the last one GenerateId gave out. *)
LEMMA IdsBounded ==
    ASSUME IInv
    PROVE  /\ \A c \in OrderIds : c > lastId => ~Tracked(c) /\ exch[c] = "none" /\ c \notin late
           /\ \A s \in Sides : quote[s] <= lastId
           /\ rtId <= lastId
           /\ \A a \in awaiting : a[2] <= rtId
BY DEF IInv, IdsIssued, RoundTripShape

(* A step that keeps within the budget of refused REST calls. *)
LEMMA RestErrorsFacts ==
    ASSUME IInv, NEW happened \in BOOLEAN, happened => restErrors < MaxRestErrors
    PROVE  RestErrorsAfter(happened) \in 0..MaxRestErrors
BY BoundsAssumption DEF IInv, TypeOK, ExchangeTypeOK, RestErrorsAfter

(* NaiveQuoter::OnOrderRemoved forgets the removed ids and touches nothing else. *)
LEMMA OnOrderRemovedFacts ==
    ASSUME IInv, NEW ids \in SUBSET OrderIds
    PROVE  /\ OnOrderRemoved(quote, ids) \in [Sides -> OrderIds \cup {NoId}]
           /\ \A s \in Sides : \/ OnOrderRemoved(quote, ids)[s] = NoId
                               \/ /\ OnOrderRemoved(quote, ids)[s] = quote[s]
                                  /\ quote[s] \notin ids
<1>1. quote \in [Sides -> OrderIds \cup {NoId}]
  BY DEF IInv, TypeOK, EngineTypeOK
<1>2. \A s \in Sides : quote[s] # NoId => \A t \in Sides \ {s} : quote[t] # quote[s]
  BY DEF IInv, QuoterTracksStore
<1>3. NoId \notin OrderIds
  BY BoundsAssumption DEF NoId, OrderIds
<1> QED BY <1>1, <1>2, <1>3 DEF OnOrderRemoved, Sides

-----------------------------------------------------------------------------
(* Frames. *)

(* What a step does to the session cannot disturb the round trip when the
   store, the quotes and the round trip stay, every response left was there
   before or is the login's, and every request left was there before or is not
   awaited. *)
LEMMA RoundTripFrame ==
    ASSUME RoundTripShape,
           store' = store, quote' = quote, rtId' = rtId, awaiting' = awaiting,
           \A i \in DOMAIN responses' :
              \/ responses'[i].op = "login"
              \/ \E j \in DOMAIN responses : responses'[i] = responses[j],
           \A i \in DOMAIN requests' :
              \/ <<requests'[i].op, requests'[i].id>> \notin awaiting
              \/ \E j \in DOMAIN requests : requests'[i] = requests[j]
    PROVE  RoundTripShape'
<1>1. \A i \in DOMAIN responses' :
         responses'[i].op # "login" => responses'[i].id = rtId /\ rtId # NoId
  BY DEF RoundTripShape
<1>2. \A i \in DOMAIN requests' :
         <<requests'[i].op, requests'[i].id>> \in awaiting => requests'[i].id = rtId
  BY DEF RoundTripShape
<1> QED BY <1>1, <1>2, Zenon DEF RoundTripShape

(* The exchange has still received what it speaks about when its orders and the
   store stay, and it says nothing new. *)
LEMMA AcknowledgedFrame ==
    ASSUME Acknowledged,
           store' = store, exch' = exch,
           \A c \in OrderIds : pushes'[c] = <<>> \/ pushes'[c] = pushes[c],
           \A i \in DOMAIN responses' :
              \/ responses'[i].op = "login"
              \/ \E j \in DOMAIN responses : responses'[i] = responses[j],
           \A i \in DOMAIN requests' :
              \/ requests'[i].op = "login"
              \/ \E j \in DOMAIN requests : requests'[i] = requests[j]
    PROVE  Acknowledged'
<1>1. NoPhantomAcknowledgement'
  <2>1. NoPhantomAcknowledgement
    BY DEF Acknowledged
  <2>2. \A i \in DOMAIN requests' :
           requests'[i].op \in {"amend", "cancel"} => exch'[requests'[i].id] # "none"
    BY <2>1 DEF NoPhantomAcknowledgement
  <2> QED BY <2>1, <2>2, Zenon DEF NoPhantomAcknowledgement
<1>2. \A c \in OrderIds : pushes'[c] # <<>> => exch'[c] # "none"
  BY Zenon DEF Acknowledged
<1>3. \A i \in DOMAIN responses' :
         responses'[i].op # "login" => exch'[responses'[i].id] # "none"
  BY DEF Acknowledged
<1> QED BY <1>1, <1>2, <1>3, Zenon DEF Acknowledged

-----------------------------------------------------------------------------
(* Initially IInv holds. *)
LEMMA InitIInv == Init => IInv
<1> SUFFICES ASSUME Init PROVE IInv
  OBVIOUS
<1>1. EngineTypeOK
  <2>1. lastId \in 0..MaxOrders
    BY BoundsAssumption DEF Init
  <2>2. store \in [OrderIds -> Order \cup {NoOrder}] /\ quote \in [Sides -> OrderIds \cup {NoId}]
    BY DEF Init
  <2>3. awaiting \subseteq ({"order", "amend", "cancel"} \X OrderIds)
    BY DEF Init
  <2>4. /\ status \in {"boot", "running", "stopped"} \cup ThrowSites
        /\ rtId \in OrderIds \cup {NoId}
    BY DEF Init
  <2>5. killed \in BOOLEAN /\ quoted \in BOOLEAN
    BY Zenon DEF Init
  <2> QED BY <2>1, <2>2, <2>3, <2>4, <2>5 DEF EngineTypeOK
<1>2. SessionTypeOK
  <2>1. pushes \in [OrderIds -> Seq(Pushes)]
    BY DEF Init
  <2>2. requests \in Seq(Requests) /\ responses \in Seq(Responses)
    BY DEF Init
  <2>3. conn \in BOOLEAN /\ auth \in BOOLEAN
    BY Zenon DEF Init
  <2> QED BY <2>1, <2>2, <2>3 DEF SessionTypeOK
<1>3. ExchangeTypeOK
  <2>1. exch \in [OrderIds -> ExchangeStates]
    BY DEF Init, ExchangeStates
  <2>2. subscribed \in BOOLEAN
    BY Zenon DEF Init
  <2>3. /\ late \subseteq OrderIds
        /\ disconnects \in 0..MaxDisconnects /\ restErrors \in 0..MaxRestErrors
    BY BoundsAssumption DEF Init
  <2> QED BY <2>1, <2>2, <2>3 DEF ExchangeTypeOK
<1>4. store \in Stores
  BY DEF Init, Stores
<1> USE NoOrderFacts, BoundsAssumption
<1>5. IdsIssued
  <2>1. lastId \in Nat
    BY DEF Init
  <2>2. \A c \in OrderIds : c > lastId => ~Tracked(c) /\ exch[c] = "none" /\ c \notin late
    BY <2>1 DEF Init, Tracked, OrderIds
  <2> QED BY <2>1, <2>2 DEF Init, IdsIssued, NoId
<1>6. SessionShape /\ RoundTripShape /\ QuoterTracksStore /\ NoIllegalTransition
  BY DEF Init, SessionShape, RoundTripShape, QuoterTracksStore, NoIllegalTransition,
         Sides, NoId
<1>7. Acknowledged
  BY DEF Init, Acknowledged, NoPhantomAcknowledgement
<1> QED BY <1>1, <1>2, <1>3, <1>4, <1>5, <1>6, <1>7 DEF IInv, TypeOK

(* What a step may do to the exchange's view without touching the invariant. *)
ExchangeSteps(e) ==
    /\ e \in [OrderIds -> ExchangeStates]
    /\ \A c \in OrderIds : e[c] # exch[c] => exch[c] # "none" /\ e[c] # "none"

(* Cancelling open orders is a step the exchange may take. *)
LEMMA CloseOrdersSteps ==
    ASSUME IInv, NEW ids \in SUBSET OpenOrders
    PROVE  ExchangeSteps(CloseOrders(ids))
BY DEF IInv, TypeOK, ExchangeTypeOK, ExchangeSteps, CloseOrders, OpenOrders, Open, ExchangeStates

(* A process that ends leaves nothing behind that could break the invariant. *)
LEMMA ProcessEndsIInv ==
    ASSUME IInv, NEW how \in {"stopped", "Add", "Rest", "GetOrder", "OnRequestRejected"},
           ProcessEnds(how), ExchangeSteps(exch')
    PROVE  IInv'
<1> USE NoOrderFacts, BoundsAssumption
<1>1. EngineTypeOK'
  <2>1. /\ (store \in [OrderIds -> Order \cup {NoOrder}])'
        /\ (quote \in [Sides -> OrderIds \cup {NoId}])'
    BY DEF ProcessEnds
  <2>2. (awaiting \subseteq ({"order", "amend", "cancel"} \X OrderIds))'
    BY DEF ProcessEnds
  <2> QED BY <2>1, <2>2, Zenon DEF IInv, TypeOK, EngineTypeOK, ProcessEnds, ThrowSites
<1>2. SessionTypeOK'
  <2>1. (pushes \in [OrderIds -> Seq(Pushes)])'
    BY DEF ProcessEnds
  <2>2. (requests \in Seq(Requests))' /\ (responses \in Seq(Responses))'
    BY DEF ProcessEnds
  <2>3. conn' \in BOOLEAN /\ auth' \in BOOLEAN
    BY Zenon DEF ProcessEnds
  <2> QED BY <2>1, <2>2, <2>3 DEF SessionTypeOK
<1>3. ExchangeTypeOK'
  BY Zenon DEF IInv, TypeOK, ExchangeTypeOK, ProcessEnds, ExchangeSteps, faultVars
<1>4. (store \in Stores)'
  BY DEF ProcessEnds, Stores
<1>5. IdsIssued'
  <2>1. lastId' = lastId /\ lastId \in Nat /\ late' = late
    BY DEF IInv, TypeOK, EngineTypeOK, ProcessEnds
  <2>2. \A c \in OrderIds : c > lastId => ~Tracked(c)' /\ exch'[c] = "none" /\ c \notin late'
    BY <2>1 DEF IInv, IdsIssued, ProcessEnds, ExchangeSteps, Tracked
  <2> QED BY <2>1, <2>2 DEF IdsIssued, ProcessEnds, NoId
<1>6. SessionShape' /\ QuoterTracksStore' /\ NoIllegalTransition'
  BY ZenonT(30) DEF ProcessEnds, SessionShape, QuoterTracksStore, NoIllegalTransition, NoId, Sides
<1>7. RoundTripShape'
  BY DEF ProcessEnds, RoundTripShape
<1>8. Acknowledged'
  BY DEF ProcessEnds, Acknowledged, NoPhantomAcknowledgement
<1> QED BY <1>1, <1>2, <1>3, <1>4, <1>5, <1>6, <1>7, <1>8 DEF IInv, TypeOK

(* A handler that throws keeps the invariant: the process is over. *)
LEMMA ThrowIInv ==
    ASSUME IInv, NEW site \in {"Add", "Rest", "GetOrder", "OnRequestRejected"}, Throw(site)
    PROVE  IInv'
<1>1. ExchangeSteps(exch')
  BY DEF Throw, ExchangeSteps, IInv, TypeOK, ExchangeTypeOK
<1> QED BY <1>1, ProcessEndsIInv DEF Throw

-----------------------------------------------------------------------------
(* The exchange.  Every exchange action but the answers to a login and to a
   subscription is a step of this shape: it consumes requests, answers those
   of the current round trip, and pushes to logged-in sessions only. *)

ExchangeActs ==
    /\ UNCHANGED <<status, engineVars, conn, auth, subscribed, faultVars>>
    /\ late' \subseteq late
    /\ exch' \in [OrderIds -> ExchangeStates]
    /\ \A c \in OrderIds : exch'[c] # exch[c] => exch'[c] # "none" /\ c <= lastId
    /\ requests' \in Seq(Requests)
    /\ \A i \in DOMAIN requests' : \E j \in DOMAIN requests : requests'[i] = requests[j]
    /\ responses' \in Seq(Responses)
    /\ \A i \in DOMAIN responses' :
          \/ \E j \in DOMAIN responses : responses'[i] = responses[j]
          \/ /\ responses'[i].op # "login"
             /\ responses'[i].id = rtId
             /\ rtId # NoId
             /\ exch'[rtId] # "none"
    /\ pushes' \in [OrderIds -> Seq(Pushes)]
    /\ \A c \in OrderIds : pushes'[c] # <<>> => pushes[c] # <<>> \/ exch'[c] # "none"
    /\ ~auth => UNCHANGED <<requests, responses, pushes>>

(* A step of that shape keeps the invariant. *)
LEMMA ExchangeActsIInv ==
    ASSUME IInv, ExchangeActs
    PROVE  IInv'
<1>1. EngineTypeOK' /\ (store \in Stores)' /\ QuoterTracksStore' /\ NoIllegalTransition'
  BY ZenonT(30) DEF ExchangeActs, IInv, TypeOK, EngineTypeOK, QuoterTracksStore, NoIllegalTransition,
         Tracked, engineVars
<1>2. SessionTypeOK'
  BY DEF ExchangeActs, IInv, TypeOK, SessionTypeOK
<1>3. ExchangeTypeOK'
  BY DEF ExchangeActs, IInv, TypeOK, ExchangeTypeOK, faultVars
<1>4. /\ requests \in Seq(Requests)
      /\ responses \in Seq(Responses)
      /\ lastId \in Nat
      /\ rtId \in OrderIds \cup {NoId}
  BY DEF IInv, TypeOK, EngineTypeOK, SessionTypeOK
<1>5. IdsIssued'
  <2>1. \A c \in OrderIds : c > lastId => ~Tracked(c)' /\ exch'[c] = "none" /\ c \notin late'
    <3> SUFFICES ASSUME NEW c \in OrderIds, c > lastId
                 PROVE  ~Tracked(c)' /\ exch'[c] = "none" /\ c \notin late'
      OBVIOUS
    <3>1. ~(c <= lastId)
      BY <1>4, BoundsAssumption DEF OrderIds
    <3> QED BY <3>1, Zenon DEF ExchangeActs, IInv, IdsIssued, Tracked, engineVars
  <2> QED BY <2>1 DEF ExchangeActs, IInv, IdsIssued, engineVars
<1>6. SessionShape'
  BY ZenonT(30) DEF ExchangeActs, IInv, SessionShape
<1>7. RoundTripShape'
  BY DEF ExchangeActs, IInv, RoundTripShape, engineVars
<1>8. Acknowledged'
  <2>1. \A c \in OrderIds : exch[c] # "none" => exch'[c] # "none"
    BY ZenonT(30) DEF ExchangeActs
  <2>2. \A i \in DOMAIN requests : requests[i].op \in {"amend", "cancel"} =>
                                      exch'[requests[i].id] # "none"
    <3> SUFFICES ASSUME NEW i \in DOMAIN requests, requests[i].op \in {"amend", "cancel"}
                 PROVE  exch'[requests[i].id] # "none"
      OBVIOUS
    <3>1. requests[i] \in Requests
      BY <1>4
    <3>2. requests[i].id \in OrderIds
      BY <3>1 DEF IInv, IdsIssued, Requests, NoId
    <3> QED BY <2>1, <3>2, ZenonT(30) DEF IInv, Acknowledged, NoPhantomAcknowledgement
  <2>3. \A i \in DOMAIN responses : responses[i].op # "login" =>
                                      exch'[responses[i].id] # "none"
    BY <1>4, <2>1, ZenonT(30) DEF IInv, Acknowledged, RoundTripShape
  <2> QED BY <2>1, <2>2, <2>3 DEF ExchangeActs, IInv, Acknowledged, NoPhantomAcknowledgement,
             engineVars
<1> QED BY <1>1, <1>2, <1>3, <1>5, <1>6, <1>7, <1>8 DEF IInv, TypeOK

-----------------------------------------------------------------------------
(* A push reaches only the orders it is for, and only a session that is logged in. *)
LEMMA PushToFacts ==
    ASSUME IInv, NEW p \in [OrderIds -> Seq(Pushes)], NEW ids \in SUBSET OrderIds,
           NEW e \in Pushes
    PROVE  /\ PushTo(p, ids, e) \in [OrderIds -> Seq(Pushes)]
           /\ \A c \in OrderIds : PushTo(p, ids, e)[c] # <<>> => p[c] # <<>> \/ c \in ids
           /\ ~auth => PushTo(p, ids, e) = p
BY DEF PushTo, IInv, SessionShape

(* A push about one order that the exchange has keeps what IInv says of pushes. *)
LEMMA PushOneFacts ==
    ASSUME IInv, NEW c \in OrderIds, NEW e \in Pushes, exch'[c] # "none",
           pushes' = pushes \/ pushes' = PushTo(pushes, {c}, e)
    PROVE  /\ pushes' \in [OrderIds -> Seq(Pushes)]
           /\ \A k \in OrderIds : pushes'[k] # <<>> => pushes[k] # <<>> \/ exch'[k] # "none"
           /\ ~auth => pushes' = pushes
<1>1. pushes \in [OrderIds -> Seq(Pushes)]
  BY DEF IInv, TypeOK, SessionTypeOK
<1>2. CASE pushes' = pushes
  BY <1>1, <1>2
<1>3. CASE pushes' = PushTo(pushes, {c}, e)
  <2>1. /\ PushTo(pushes, {c}, e) \in [OrderIds -> Seq(Pushes)]
        /\ \A k \in OrderIds : PushTo(pushes, {c}, e)[k] # <<>> => pushes[k] # <<>> \/ k \in {c}
        /\ ~auth => PushTo(pushes, {c}, e) = pushes
    BY <1>1, PushToFacts, ZenonT(30)
  <2> QED BY <1>3, <2>1, Zenon
<1> QED BY <1>2, <1>3

(* A request the exchange takes off a session that is logged in. *)
LEMMA RequestedFacts ==
    ASSUME IInv, NEW op \in {"order", "amend", "cancel"}, Requested(op)
    PROVE  /\ auth
           /\ Head(requests).id \in OrderIds
           /\ Head(requests).id <= lastId
           /\ op \in {"amend", "cancel"} => exch[Head(requests).id] # "none"
           /\ <<op, Head(requests).id>> \in awaiting => Head(requests).id = rtId /\ rtId # NoId
           /\ requests' \in Seq(Requests)
           /\ \A i \in DOMAIN requests' : \E j \in DOMAIN requests : requests'[i] = requests[j]
<1>1. requests \in Seq(Requests) /\ requests # <<>> /\ Head(requests).op = op
  BY DEF IInv, TypeOK, SessionTypeOK, Requested
<1>2. /\ 1 \in DOMAIN requests /\ Head(requests) = requests[1]
      /\ Head(requests) \in Requests
      /\ Tail(requests) \in Seq(Requests)
      /\ \A i \in DOMAIN Tail(requests) : i + 1 \in DOMAIN requests
                                          /\ Tail(requests)[i] = requests[i + 1]
  BY <1>1, TailFacts
<1>3. auth
  <2>1. 1 \in DOMAIN requests /\ requests[1].op # "login" /\ requests # <<>>
    BY <1>1, <1>2
  <2>2. ~auth => requests = <<>> \/ requests = <<[op |-> "login", id |-> NoId]>>
    BY Zenon DEF IInv, SessionShape
  <2> QED BY <2>1, <2>2
<1>4. /\ Head(requests).id \in OrderIds
      /\ Head(requests).id # NoId
      /\ Head(requests).id <= lastId
  BY <1>1, <1>2 DEF IInv, IdsIssued, Requests
<1>5. op \in {"amend", "cancel"} => exch[Head(requests).id] # "none"
  BY <1>1, <1>2, Zenon DEF IInv, Acknowledged, NoPhantomAcknowledgement
<1>6. <<op, Head(requests).id>> \in awaiting => Head(requests).id = rtId
  BY <1>1, <1>2, ZenonT(30) DEF IInv, RoundTripShape
<1> QED BY <1>2, <1>3, <1>4, <1>5, <1>6 DEF Requested

(* An answer is one more response about the order of the round trip, or none. *)
LEMMA RespondFacts ==
    ASSUME IInv, NEW op \in {"order", "amend", "cancel"}, NEW id \in OrderIds,
           NEW ok \in BOOLEAN, Respond(op, id, ok),
           <<op, id>> \in awaiting => id = rtId /\ rtId # NoId,
           exch'[id] # "none"
    PROVE  /\ responses' \in Seq(Responses)
           /\ \A i \in DOMAIN responses' :
                 \/ \E j \in DOMAIN responses : responses'[i] = responses[j]
                 \/ /\ responses'[i].op # "login"
                    /\ responses'[i].id = rtId
                    /\ rtId # NoId
                    /\ exch'[rtId] # "none"
<1> DEFINE r == [op |-> op, id |-> id, ok |-> ok]
<1>1. r \in Responses /\ r.op # "login" /\ r.id = id
  BY DEF Responses
<1>2. responses \in Seq(Responses)
  BY DEF IInv, TypeOK, SessionTypeOK
<1>3. CASE <<op, id>> \in awaiting
  <2>1. responses' = Append(responses, r)
    BY <1>3 DEF Respond
  <2> QED BY <1>1, <1>2, <1>3, <2>1, AppendFacts
<1>4. CASE <<op, id>> \notin awaiting
  <2>1. responses' = responses
    BY <1>4 DEF Respond
  <2> QED BY <1>2, <2>1
<1> QED BY <1>3, <1>4, ZenonT(30)

(* The answer to a placement is a step of that shape. *)
LEMMA ExchangeOrderActs == IInv /\ ExchangeOrder => ExchangeActs
<1> SUFFICES ASSUME IInv, ExchangeOrder PROVE ExchangeActs
  OBVIOUS
<1> DEFINE c == Head(requests).id
<1>1. /\ Requested("order")
      /\ UNCHANGED <<status, engineVars, conn, auth, subscribed, late, faultVars>>
  BY Zenon DEF ExchangeOrder
<1>2. /\ auth
      /\ c \in OrderIds /\ c <= lastId
      /\ <<"order", c>> \in awaiting => c = rtId /\ rtId # NoId
      /\ requests' \in Seq(Requests)
      /\ \A i \in DOMAIN requests' : \E j \in DOMAIN requests : requests'[i] = requests[j]
  BY <1>1, RequestedFacts, Zenon
<1>3. /\ exch \in [OrderIds -> ExchangeStates]
      /\ pushes \in [OrderIds -> Seq(Pushes)]
  BY ZenonT(30) DEF IInv, TypeOK, SessionTypeOK, ExchangeTypeOK
<1>4. PICK x \in {"live", "partial", "closed"}, ok \in BOOLEAN, e \in Pushes :
         /\ exch' = [exch EXCEPT ![c] = x]
         /\ Respond("order", c, ok)
         /\ pushes' = pushes \/ pushes' = PushTo(pushes, {c}, e)
  <2>1. CancelPush \in Pushes
    BY DEF CancelPush, Pushes, EventTypes
  <2>2. CASE \E to \in {"live", "partial", "closed"} :
                /\ exch' = [exch EXCEPT ![c] = to]
                /\ pushes' = PushTo(pushes, {c}, PlacementPush(to))
                /\ Respond("order", c, TRUE)
    <3>1. \A to \in {"live", "partial", "closed"} : PlacementPush(to) \in Pushes
      BY DEF PlacementPush, Pushes, EventTypes
    <3> QED BY <2>2, <3>1, ZenonT(30)
  <2>3. CASE /\ exch' = [exch EXCEPT ![c] = "closed"]
             /\ Respond("order", c, FALSE)
             /\ UNCHANGED pushes
    BY <2>1, <2>3, Zenon
  <2> QED BY <2>2, <2>3, ZenonT(30) DEF ExchangeOrder
<1>5. exch' \in [OrderIds -> ExchangeStates] /\ exch'[c] # "none"
  BY <1>2, <1>3, <1>4, Zenon DEF ExchangeStates
<1>6. /\ pushes' \in [OrderIds -> Seq(Pushes)]
      /\ \A k \in OrderIds : pushes'[k] # <<>> => pushes[k] # <<>> \/ exch'[k] # "none"
  BY <1>2, <1>4, <1>5, PushOneFacts, Zenon
<1> QED BY <1>1, <1>2, <1>3, <1>4, <1>5, <1>6, RespondFacts DEF ExchangeActs

-----------------------------------------------------------------------------
(* The answer to an amend is a step of that shape. *)
LEMMA ExchangeAmendActs == IInv /\ ExchangeAmend => ExchangeActs
<1> SUFFICES ASSUME IInv, ExchangeAmend PROVE ExchangeActs
  OBVIOUS
<1> DEFINE c == Head(requests).id
<1>1. /\ Requested("amend")
      /\ UNCHANGED <<status, engineVars, conn, auth, exchangeVars, faultVars>>
  BY ZenonT(30) DEF ExchangeAmend
<1>2. /\ auth
      /\ c \in OrderIds
      /\ exch[c] # "none"
      /\ <<"amend", c>> \in awaiting => c = rtId /\ rtId # NoId
      /\ requests' \in Seq(Requests)
      /\ \A i \in DOMAIN requests' : \E j \in DOMAIN requests : requests'[i] = requests[j]
  BY <1>1, RequestedFacts, ZenonT(30)
<1>3. exch' = exch /\ late' = late /\ subscribed' = subscribed
  BY <1>1 DEF exchangeVars
<1>4. exch' \in [OrderIds -> ExchangeStates]
  BY <1>3 DEF IInv, TypeOK, ExchangeTypeOK
<1>5. PICK ok \in BOOLEAN, e \in Pushes :
         /\ Respond("amend", c, ok)
         /\ pushes' = pushes \/ pushes' = PushTo(pushes, {c}, e)
  <2>1. [type |-> StateEvent(c), fill |-> FALSE] \in Pushes
    BY DEF StateEvent, Pushes, EventTypes
  <2> QED BY <2>1, ZenonT(30) DEF ExchangeAmend
<1>6. /\ pushes' \in [OrderIds -> Seq(Pushes)]
      /\ \A k \in OrderIds : pushes'[k] # <<>> => pushes[k] # <<>> \/ exch'[k] # "none"
  BY <1>2, <1>3, <1>5, PushOneFacts, ZenonT(30)
<1> QED BY <1>1, <1>2, <1>3, <1>4, <1>5, <1>6, RespondFacts, ZenonT(30) DEF ExchangeActs

(* The answer to a cancel is a step of that shape. *)
LEMMA ExchangeCancelActs == IInv /\ ExchangeCancel => ExchangeActs
<1> SUFFICES ASSUME IInv, ExchangeCancel PROVE ExchangeActs
  OBVIOUS
<1> DEFINE c == Head(requests).id
<1>1. /\ Requested("cancel")
      /\ UNCHANGED <<status, engineVars, conn, auth, subscribed, late, faultVars>>
  BY ZenonT(30) DEF ExchangeCancel
<1>2. /\ auth
      /\ c \in OrderIds /\ c <= lastId
      /\ exch[c] # "none"
      /\ <<"cancel", c>> \in awaiting => c = rtId /\ rtId # NoId
      /\ requests' \in Seq(Requests)
      /\ \A i \in DOMAIN requests' : \E j \in DOMAIN requests : requests'[i] = requests[j]
  BY <1>1, RequestedFacts, ZenonT(30)
<1>3. exch \in [OrderIds -> ExchangeStates]
  BY DEF IInv, TypeOK, ExchangeTypeOK
<1>4. PICK ok \in BOOLEAN, e \in Pushes :
         /\ Respond("cancel", c, ok)
         /\ exch' = exch \/ exch' = CloseOrders({c})
         /\ pushes' = pushes \/ pushes' = PushTo(pushes, {c}, e)
  <2>1. CancelPush \in Pushes
    BY DEF CancelPush, Pushes, EventTypes
  <2> QED BY <2>1, ZenonT(30) DEF ExchangeCancel
<1>5. /\ exch' \in [OrderIds -> ExchangeStates]
      /\ exch'[c] # "none"
      /\ \A k \in OrderIds : exch'[k] # exch[k] => exch'[k] # "none" /\ k = c
  BY <1>2, <1>3, <1>4, ZenonT(30) DEF CloseOrders, ExchangeStates
<1>6. /\ pushes' \in [OrderIds -> Seq(Pushes)]
      /\ \A k \in OrderIds : pushes'[k] # <<>> => pushes[k] # <<>> \/ exch'[k] # "none"
  BY <1>2, <1>4, <1>5, PushOneFacts, ZenonT(30)
<1> QED BY <1>1, <1>2, <1>4, <1>5, <1>6, RespondFacts, ZenonT(30) DEF ExchangeActs

(* What happens to an order without a request of this session. *)
LEMMA ExchangeOwnActs ==
    ASSUME IInv, NEW c \in OrderIds, ExchangeLatePlacement(c) \/ ExchangeMoves(c)
    PROVE  ExchangeActs
<1>1. /\ UNCHANGED <<status, engineVars, conn, auth, requests, responses, subscribed, faultVars>>
      /\ late' \subseteq late
  BY DEF ExchangeLatePlacement, ExchangeMoves
<1>2. c <= lastId
  <2>1. c \in late \/ exch[c] # "none"
    BY ZenonT(30) DEF ExchangeLatePlacement, ExchangeMoves, Open
  <2>2. ~(c > lastId)
    BY <2>1, IdsBounded
  <2> QED BY <2>2, IdTypes, BoundsAssumption DEF OrderIds
<1>3. /\ requests \in Seq(Requests) /\ responses \in Seq(Responses)
      /\ exch \in [OrderIds -> ExchangeStates]
  BY DEF IInv, TypeOK, SessionTypeOK, ExchangeTypeOK
<1>4. PICK e \in Pushes, x \in {"live", "partial", "closed"} :
         /\ exch' = [exch EXCEPT ![c] = x]
         /\ pushes' = PushTo(pushes, {c}, e)
  <2>1. /\ CancelPush \in Pushes
        /\ [type |-> "Live", fill |-> FALSE] \in Pushes
        /\ [type |-> "PartialFill", fill |-> TRUE] \in Pushes
        /\ [type |-> "Fill", fill |-> TRUE] \in Pushes
    BY DEF CancelPush, Pushes, EventTypes
  <2>2. CloseOrders({c}) = [exch EXCEPT ![c] = "closed"]
    BY <1>3, ZenonT(30) DEF CloseOrders
  <2>3. CASE ExchangeLatePlacement(c)
    BY <2>1, <2>3, Zenon DEF ExchangeLatePlacement
  <2>4. CASE ExchangeMoves(c)
    BY <2>1, <2>2, <2>4, Zenon DEF ExchangeMoves
  <2> QED BY <2>3, <2>4
<1>5. /\ exch' \in [OrderIds -> ExchangeStates]
      /\ exch'[c] # "none"
      /\ \A k \in OrderIds : exch'[k] # exch[k] => exch'[k] # "none" /\ k = c
  BY <1>3, <1>4 DEF ExchangeStates
<1>6. /\ pushes' \in [OrderIds -> Seq(Pushes)]
      /\ \A k \in OrderIds : pushes'[k] # <<>> => pushes[k] # <<>> \/ exch'[k] # "none"
      /\ ~auth => pushes' = pushes
  BY <1>4, <1>5, PushOneFacts, Zenon
<1> QED BY <1>1, <1>2, <1>3, <1>5, <1>6, ZenonT(30) DEF ExchangeActs

-----------------------------------------------------------------------------

(* The session. *)

(* The startup checks issue an id that nothing tracks. *)
LEMMA RunStartupChecksIInv == IInv /\ RunStartupChecks => IInv'
<1> SUFFICES ASSUME IInv, RunStartupChecks PROVE IInv'
  OBVIOUS
<1>1. PICK left \in {"live", "closed"} : exch' = [exch EXCEPT ![lastId + 1] = left]
  BY Zenon DEF RunStartupChecks
<1>2. /\ lastId \in 0..MaxOrders /\ lastId < MaxOrders /\ lastId' = lastId + 1
      /\ exch \in [OrderIds -> ExchangeStates]
      /\ quote \in [Sides -> OrderIds \cup {NoId}]
      /\ requests \in Seq(Requests) /\ responses \in Seq(Responses)
      /\ rtId \in OrderIds \cup {NoId}
  BY DEF RunStartupChecks, IInv, TypeOK, EngineTypeOK, SessionTypeOK, ExchangeTypeOK
<1>3. /\ UNCHANGED <<killed, store, quote, quoted, rtId, awaiting, conn, auth, requests,
                     responses, pushes, subscribed, late, disconnects, restErrors>>
      /\ status' \in {"running", "Rest"}
  BY DEF RunStartupChecks, sessionVars, faultVars
<1>4. EngineTypeOK'
  BY <1>2, <1>3, BoundsAssumption DEF IInv, TypeOK, EngineTypeOK, ThrowSites
<1>5. SessionTypeOK' /\ SessionShape'
  BY <1>3 DEF IInv, TypeOK, SessionTypeOK, SessionShape
<1>6. ExchangeTypeOK'
  BY <1>1, <1>2, <1>3, Zenon DEF IInv, TypeOK, ExchangeTypeOK, ExchangeStates
<1>7. RoundTripShape' /\ QuoterTracksStore' /\ (store \in Stores)' /\ NoIllegalTransition'
  BY <1>3 DEF IInv, RoundTripShape, QuoterTracksStore, Tracked, NoIllegalTransition
<1>8. IdsIssued'
  <2>1. \A c \in OrderIds : c > lastId' =>
           ~Tracked(c)' /\ exch'[c] = "none" /\ c \notin late'
    BY <1>1, <1>2, <1>3, BoundsAssumption DEF IInv, IdsIssued, Tracked, OrderIds
  <2>2. \A s \in Sides : quote'[s] <= lastId'
    <3>1. \A s \in Sides : quote[s] <= lastId
      BY DEF IInv, IdsIssued
    <3>2. \A s \in Sides : quote[s] \in Int
      BY <1>2 DEF OrderIds, NoId
    <3> QED BY <1>2, <1>3, <3>1, <3>2
  <2>3. rtId' <= lastId'
    <3>1. rtId <= lastId
      BY DEF IInv, IdsIssued
    <3> QED BY <1>2, <1>3, <3>1 DEF OrderIds, NoId
  <2>4. \A i \in DOMAIN requests : requests[i].id <= lastId'
    <3>1. \A i \in DOMAIN requests : requests[i] \in Requests
      BY <1>2
    <3>2. \A i \in DOMAIN requests : requests[i].id \in OrderIds \cup {NoId}
      BY <3>1 DEF Requests
    <3>3. \A i \in DOMAIN requests : requests[i].id <= lastId
      BY Zenon DEF IInv, IdsIssued
    <3>4. OrderIds \cup {NoId} \subseteq Int /\ lastId \in Int /\ lastId' = lastId + 1
      BY <1>2 DEF OrderIds, NoId
    <3>5. \A x \in Int : x <= lastId => x <= lastId'
      BY <3>4
    <3> QED BY <3>2, <3>3, <3>4, <3>5, Zenon
  <2> QED BY <1>3, <2>1, <2>2, <2>3, <2>4 DEF IInv, IdsIssued
<1>9. Acknowledged'
  <2>1. \A c : exch[c] # "none" => exch'[c] # "none"
    BY <1>1, <1>2
  <2> QED BY <1>3, <2>1 DEF IInv, Acknowledged, NoPhantomAcknowledgement
<1> QED BY <1>4, <1>5, <1>6, <1>7, <1>8, <1>9 DEF IInv, TypeOK

(* A new session carries the login and nothing else. *)
LEMMA ConnectIInv == IInv /\ Connect => IInv'
<1> SUFFICES ASSUME IInv, Connect PROVE IInv'
  OBVIOUS
<1> DEFINE login == [op |-> "login", id |-> NoId]
<1>1. /\ UNCHANGED <<status, killed, store, lastId, quote, quoted, rtId, awaiting, responses,
                     pushes, exch, subscribed, late, disconnects, restErrors>>
      /\ lastId \in Nat
      /\ rtId \in OrderIds \cup {NoId}
      /\ awaiting \subseteq ({"order", "amend", "cancel"} \X OrderIds)
  BY DEF Connect, engineVars, exchangeVars, faultVars, IInv, TypeOK, EngineTypeOK
<1>2. conn' = TRUE /\ auth' = FALSE
  BY DEF Connect
<1>3. auth = FALSE /\ requests = <<>> /\ responses = <<>>
  BY DEF Connect, IInv, SessionShape, TypeOK, SessionTypeOK
<1>4. requests' = <<login>> /\ login \in Requests
  BY <1>3 DEF Connect, Requests
<1>5. EngineTypeOK' /\ ExchangeTypeOK' /\ (store \in Stores)' /\ QuoterTracksStore'
      /\ NoIllegalTransition'
  BY <1>1 DEF IInv, TypeOK, EngineTypeOK, ExchangeTypeOK, QuoterTracksStore, Tracked,
              NoIllegalTransition
<1>6. SessionTypeOK'
  <2>1. conn' \in BOOLEAN /\ auth' \in BOOLEAN
    BY <1>2, Zenon
  <2>2. requests' \in Seq(Requests)
    BY <1>4
  <2> QED BY <1>1, <2>1, <2>2 DEF IInv, TypeOK, SessionTypeOK
<1>7. IdsIssued'
  <2>1. IdsIssued
    BY DEF IInv
  <2>2. /\ store' = store /\ exch' = exch /\ late' = late /\ quote' = quote
        /\ rtId' = rtId /\ lastId' = lastId
    BY <1>1, Zenon
  <2>3. \A i \in DOMAIN requests' : requests'[i].op = "login" /\ requests'[i].id = NoId
    BY <1>4
  <2>4. NoId <= lastId
    <3>1. lastId \in Nat
      BY <1>1
    <3> QED BY <3>1 DEF NoId
  <2>5. \A i \in DOMAIN requests' :
           /\ requests'[i].id <= lastId'
           /\ requests'[i].op \in {"order", "amend", "cancel"} => requests'[i].id # NoId
    BY <2>2, <2>3, <2>4
  <2> QED BY <2>1, <2>2, <2>5, Zenon DEF IdsIssued, Tracked
<1>8. SessionShape'
  <2>1. pushes' = [c \in OrderIds |-> <<>>] /\ ~subscribed'
    BY <1>1, <1>3 DEF IInv, SessionShape
  <2> QED BY <1>1, <1>2, <1>3, <1>4, <2>1 DEF SessionShape
<1>9. RoundTripShape' /\ Acknowledged'
  <2>0. \A i \in DOMAIN requests' : requests'[i].op = "login"
    BY <1>4
  <2>1. \A i \in DOMAIN requests' : <<requests'[i].op, requests'[i].id>> \notin awaiting
    <3>1. \A id : <<"login", id>> \notin awaiting
      BY <1>1
    <3> QED BY <2>0, <3>1, Zenon
  <2>2. \A i \in DOMAIN responses' : FALSE
    BY <1>1, <1>3
  <2>3. /\ store' = store /\ quote' = quote /\ rtId' = rtId /\ awaiting' = awaiting
        /\ exch' = exch /\ pushes' = pushes
    BY <1>1, Zenon
  <2>4. RoundTripShape /\ Acknowledged
    BY DEF IInv
  <2>5. RoundTripShape'
    BY <2>1, <2>2, <2>3, <2>4, RoundTripFrame, Zenon
  <2>6. Acknowledged'
    BY <2>0, <2>2, <2>3, <2>4, AcknowledgedFrame, Zenon
  <2> QED BY <2>5, <2>6
<1> QED BY <1>5, <1>6, <1>7, <1>8, <1>9 DEF IInv, TypeOK

(* A lost session carries nothing and is not authenticated. *)
LEMMA ScheduleReconnectIInv == IInv /\ ScheduleReconnect => IInv'
<1> SUFFICES ASSUME IInv, ScheduleReconnect PROVE IInv'
  OBVIOUS
<1>1. /\ UNCHANGED <<status, killed, store, lastId, quote, quoted, rtId, awaiting, exch, restErrors>>
      /\ disconnects' = disconnects + 1 /\ disconnects < MaxDisconnects
      /\ requests' = <<>> /\ responses' = <<>> /\ pushes' = [c \in OrderIds |-> <<>>]
      /\ lastId \in Nat
      /\ disconnects \in 0..MaxDisconnects
      /\ late \subseteq OrderIds
      /\ requests \in Seq(Requests)
  <2>1. /\ UNCHANGED <<status, killed, store, lastId, quote, quoted, rtId, awaiting, exch, restErrors>>
        /\ disconnects' = disconnects + 1 /\ disconnects < MaxDisconnects
        /\ requests' = <<>> /\ responses' = <<>> /\ pushes' = [c \in OrderIds |-> <<>>]
    BY DEF ScheduleReconnect, engineVars
  <2>2. lastId \in Nat
    BY DEF IInv, TypeOK, EngineTypeOK
  <2>3. requests \in Seq(Requests)
    BY DEF IInv, TypeOK, SessionTypeOK
  <2>4. disconnects \in 0..MaxDisconnects /\ late \subseteq OrderIds
    BY DEF IInv, TypeOK, ExchangeTypeOK
  <2> QED BY <2>1, <2>2, <2>3, <2>4, Zenon
<1>2. conn' = FALSE /\ auth' = FALSE /\ subscribed' = FALSE
  BY DEF ScheduleReconnect
<1>3. \A k \in late' : k \in OrderIds /\ (k \in late \/ k <= lastId)
  <2>1. \A i \in DOMAIN requests : requests[i].op = "order" =>
           requests[i].id \in OrderIds /\ requests[i].id <= lastId
    <3>1. \A i \in DOMAIN requests : requests[i] \in Requests
      BY <1>1
    <3> QED BY <3>1 DEF IInv, IdsIssued, Requests
  <2> QED BY <1>1, <2>1 DEF ScheduleReconnect
<1>4. EngineTypeOK' /\ (store \in Stores)' /\ QuoterTracksStore' /\ NoIllegalTransition'
  BY <1>1 DEF IInv, TypeOK, EngineTypeOK, QuoterTracksStore, Tracked, NoIllegalTransition
<1>5. SessionTypeOK' /\ SessionShape'
  <2>1. conn' \in BOOLEAN /\ auth' \in BOOLEAN
    BY <1>2, Zenon
  <2>2. pushes' \in [OrderIds -> Seq(Pushes)]
    BY <1>1
  <2>3. SessionTypeOK'
    BY <1>1, <2>1, <2>2 DEF SessionTypeOK
  <2> QED BY <1>1, <1>2, <2>3 DEF SessionShape
<1>6. ExchangeTypeOK'
  <2>1. subscribed' \in BOOLEAN
    BY <1>2, ZenonT(30)
  <2>2. disconnects' \in 0..MaxDisconnects
    BY <1>1, BoundsAssumption
  <2> QED BY <1>1, <1>3, <2>1, <2>2 DEF IInv, TypeOK, ExchangeTypeOK
<1>7. IdsIssued'
  <2>1. \A c \in OrderIds : c > lastId => ~(c <= lastId)
    BY <1>1, BoundsAssumption DEF OrderIds
  <2>2. \A c \in OrderIds : c > lastId => c \notin late'
    BY <1>3, <2>1, IdsBounded
  <2>3. \A c \in OrderIds : c > lastId' => ~Tracked(c)' /\ exch'[c] = "none" /\ c \notin late'
    BY <1>1, <2>2, IdsBounded DEF Tracked
  <2>4. (\A s \in Sides : quote'[s] <= lastId') /\ rtId' <= lastId'
    BY <1>1, IdsBounded
  <2>5. DOMAIN requests' = {}
    BY <1>1
  <2> QED BY <2>3, <2>4, <2>5 DEF IdsIssued
<1>8. RoundTripShape' /\ Acknowledged'
  <2>1. /\ \A i \in DOMAIN requests' : FALSE
        /\ \A i \in DOMAIN responses' : FALSE
        /\ \A c \in OrderIds : pushes'[c] = <<>>
    BY <1>1
  <2>2. /\ store' = store /\ quote' = quote /\ rtId' = rtId /\ awaiting' = awaiting
        /\ exch' = exch
    BY <1>1, Zenon
  <2>3. RoundTripShape /\ Acknowledged
    BY DEF IInv
  <2>4. RoundTripShape'
    BY <2>1, <2>2, <2>3, RoundTripFrame, Zenon
  <2>5. Acknowledged'
    BY <2>1, <2>2, <2>3, AcknowledgedFrame, Zenon
  <2> QED BY <2>4, <2>5
<1> QED BY <1>4, <1>5, <1>6, <1>7, <1>8 DEF IInv, TypeOK

(* The answer to the login takes its place on the session. *)
LEMMA ExchangeLoginIInv == IInv /\ ExchangeLogin => IInv'
<1> SUFFICES ASSUME IInv, ExchangeLogin PROVE IInv'
  OBVIOUS
<1>1. PICK ok \in BOOLEAN : Respond("login", NoId, ok)
  BY DEF ExchangeLogin
<1> DEFINE r == [op |-> "login", id |-> NoId, ok |-> ok]
<1>2. /\ UNCHANGED <<status, killed, store, lastId, quote, quoted, rtId, awaiting, conn, auth,
                     pushes, exch, subscribed, late, disconnects, restErrors>>
      /\ requests \in Seq(Requests) /\ requests # <<>> /\ Head(requests).op = "login"
      /\ requests' = Tail(requests)
      /\ conn
  BY DEF ExchangeLogin, Requested, engineVars, exchangeVars, faultVars, IInv, TypeOK, SessionTypeOK
<1>3. ~auth /\ requests = <<[op |-> "login", id |-> NoId]>> /\ responses = <<>>
  <2>1. 1 \in DOMAIN requests /\ requests[1].op = "login"
    BY <1>2, TailFacts
  <2> QED BY <1>2, <2>1 DEF IInv, SessionShape
<1>4. requests' = <<>>
  BY <1>2, <1>3
<1>5. responses' = <<r>> /\ r \in Responses /\ r.op = "login"
  BY <1>1, <1>3 DEF Respond, Responses
<1>6. EngineTypeOK' /\ ExchangeTypeOK' /\ (store \in Stores)' /\ QuoterTracksStore'
      /\ NoIllegalTransition'
  BY <1>2 DEF IInv, TypeOK, EngineTypeOK, ExchangeTypeOK, QuoterTracksStore, Tracked,
              NoIllegalTransition
<1>7. SessionTypeOK'
  BY <1>2, <1>4, <1>5 DEF IInv, TypeOK, SessionTypeOK
<1>8. IdsIssued'
  BY <1>2, <1>4 DEF IInv, IdsIssued, Tracked
<1>9. SessionShape'
  <2>1. pushes' = [c \in OrderIds |-> <<>>] /\ ~subscribed' /\ conn' /\ ~auth'
    BY <1>2, <1>3 DEF IInv, SessionShape
  <2>2. Len(responses') = 1 /\ responses'[1].op = "login"
    BY <1>5
  <2> QED BY <1>4, <2>1, <2>2 DEF SessionShape
<1>10. RoundTripShape' /\ Acknowledged'
  <2>1. RoundTripShape /\ Acknowledged
    BY DEF IInv
  <2>2. \A i \in DOMAIN responses' : responses'[i].op = "login"
    BY <1>5
  <2>3. \A i \in DOMAIN requests' : FALSE
    BY <1>4
  <2>4. /\ store' = store /\ quote' = quote /\ rtId' = rtId /\ awaiting' = awaiting
        /\ exch' = exch /\ pushes' = pushes
    BY <1>2, Zenon
  <2>5. RoundTripShape'
    BY <2>1, <2>2, <2>3, <2>4, RoundTripFrame, Zenon
  <2>6. Acknowledged'
    BY <2>1, <2>2, <2>3, <2>4, AcknowledgedFrame, Zenon
  <2> QED BY <2>5, <2>6
<1> QED BY <1>6, <1>7, <1>8, <1>9, <1>10 DEF IInv, TypeOK

(* Subscribing changes nothing the invariant ties to orders. *)
LEMMA ExchangeSubscribeIInv == IInv /\ ExchangeSubscribe => IInv'
<1> SUFFICES ASSUME IInv, ExchangeSubscribe PROVE IInv'
  OBVIOUS
<1>1. /\ UNCHANGED <<status, killed, store, lastId, quote, quoted, rtId, awaiting, conn, auth,
                     responses, pushes, exch, late, disconnects, restErrors>>
      /\ requests \in Seq(Requests) /\ requests # <<>> /\ Head(requests).op = "subscribe"
      /\ requests' = Tail(requests)
  BY DEF ExchangeSubscribe, Requested, engineVars, faultVars, IInv, TypeOK, SessionTypeOK
<1>2. /\ 1 \in DOMAIN requests /\ requests[1].op = "subscribe"
      /\ requests' \in Seq(Requests)
      /\ \A i \in DOMAIN requests' : \E j \in DOMAIN requests : requests'[i] = requests[j]
  <2>1. /\ 1 \in DOMAIN requests /\ requests[1].op = "subscribe"
        /\ Tail(requests) \in Seq(Requests)
        /\ \A i \in DOMAIN Tail(requests) : i + 1 \in DOMAIN requests
                                            /\ Tail(requests)[i] = requests[i + 1]
    BY <1>1, TailFacts
  <2> QED BY <1>1, <2>1
<1>3. auth
  <2>1. 1 \in DOMAIN requests /\ requests[1].op = "subscribe" /\ requests # <<>>
    BY <1>1, <1>2, Zenon
  <2>2. ~auth => requests = <<>> \/ requests = <<[op |-> "login", id |-> NoId]>>
    BY Zenon DEF IInv, SessionShape
  <2> QED BY <2>1, <2>2
<1>4. EngineTypeOK' /\ (store \in Stores)' /\ QuoterTracksStore' /\ NoIllegalTransition'
  BY <1>1, ZenonT(30) DEF IInv, TypeOK, EngineTypeOK, QuoterTracksStore, Tracked, NoIllegalTransition
<1>5. SessionTypeOK'
  BY <1>1, <1>2 DEF IInv, TypeOK, SessionTypeOK
<1>6. ExchangeTypeOK'
  <2>1. subscribed' \in BOOLEAN
    BY DEF ExchangeSubscribe
  <2> QED BY <1>1, <2>1 DEF IInv, TypeOK, ExchangeTypeOK
<1>7. IdsIssued'
  BY <1>1, <1>2, ZenonT(30) DEF IInv, IdsIssued, Tracked
<1>8. SessionShape'
  BY <1>1, <1>2, <1>3 DEF IInv, SessionShape
<1>9. RoundTripShape' /\ Acknowledged'
  <2>1. RoundTripShape /\ Acknowledged
    BY DEF IInv
  <2>2. /\ store' = store /\ quote' = quote /\ rtId' = rtId /\ awaiting' = awaiting
        /\ exch' = exch /\ pushes' = pushes /\ responses' = responses
    BY <1>1, Zenon
  <2>3. \A i \in DOMAIN requests' : \E j \in DOMAIN requests : requests'[i] = requests[j]
    BY <1>2
  <2>4. RoundTripShape'
    BY <2>1, <2>2, <2>3, RoundTripFrame, Zenon
  <2>5. Acknowledged'
    BY <2>1, <2>2, <2>3, AcknowledgedFrame, Zenon
  <2> QED BY <2>4, <2>5
<1> QED BY <1>4, <1>5, <1>6, <1>7, <1>8, <1>9 DEF IInv, TypeOK

-----------------------------------------------------------------------------
(* Reconciliation. *)

(* ReconcileOrders keeps or drops what the store has and adopts only working
   orders that the exchange lists. *)
LEMMA ReconciledFacts ==
    ASSUME IInv, NEW listed \in PendingOrdersReplies
    PROVE  /\ listed \subseteq OpenOrders
           /\ Reconciled(listed) \in Stores
           /\ \A c \in OrderIds : c > lastId => ~Present(Reconciled(listed)[c])
           /\ \A c \in OrderIds : c \in TrackedIds(store) /\ c \notin Dropped(listed) =>
                                     Reconciled(listed)[c] = store[c]
           /\ \A c \in OrderIds : Present(Reconciled(listed)[c]) =>
                 /\ c \in listed
                 /\ \/ Reconciled(listed)[c] = store[c]
                    \/ /\ ~Tracked(c)
                       /\ Reconciled(listed)[c].state \in {"New", "PartiallyFilled"}
<1> DEFINE known == Reconciled(listed)
<1>1. listed \subseteq OpenOrders
  BY DEF PendingOrdersReplies
<1>2. \A c \in OrderIds :
         /\ c \notin listed => known[c] = NoOrder
         /\ c \in listed /\ Tracked(c) => known[c] = store[c]
         /\ c \in listed /\ ~Tracked(c) => known[c] = ApplyEvent(NewOrder, StateEvent(c))
  BY DEF Reconciled
<1>3. \A c \in OrderIds :
         LET o == ApplyEvent(NewOrder, StateEvent(c))
         IN  o \in WorkingOrder /\ o.state \in {"New", "PartiallyFilled"}
  <2> SUFFICES ASSUME NEW c \in OrderIds
               PROVE  /\ ApplyEvent(NewOrder, StateEvent(c)) \in WorkingOrder
                      /\ ApplyEvent(NewOrder, StateEvent(c)).state \in {"New", "PartiallyFilled"}
    OBVIOUS
  <2>1. StateEvent(c) \in {"Live", "PartialFill"}
    BY DEF StateEvent
  <2>2. AfterEvent(NewOrder, StateEvent(c)) \in {"New", "PartiallyFilled"}
    BY <2>1, NewOrderFacts DEF AfterEvent, AfterLive
  <2> QED BY <2>2, NewOrderFacts, ZenonT(30) DEF ApplyEvent, WorkingOrder
<1>4. store \in [OrderIds -> WorkingOrder \cup {NoOrder}]
  BY DEF IInv, Stores
<1>5. known \in Stores
  <2>1. \A c \in OrderIds : known[c] \in WorkingOrder \cup {NoOrder}
    BY <1>2, <1>3, <1>4
  <2>2. known = [c \in OrderIds |-> known[c]]
    BY DEF Reconciled
  <2> QED BY <2>1, <2>2 DEF Stores
<1>6. \A c \in OrderIds : c > lastId => ~Present(known[c])
  BY <1>1, <1>2, NoOrderFacts DEF IInv, IdsIssued, OpenOrders, Open
<1> QED BY <1>1, <1>2, <1>3, <1>5, <1>6, NoOrderFacts DEF TrackedIds, Tracked, Dropped
(* What reconciling leaves of the invariant, whoever called it. *)
LEMMA ReconciledQuotes ==
    ASSUME IInv, NEW listed \in PendingOrdersReplies
    PROVE  LET q == OnOrderRemoved(quote, Dropped(listed))
           IN  /\ q \in [Sides -> OrderIds \cup {NoId}]
               /\ \A s \in Sides : q[s] = NoId \/ (q[s] = quote[s] /\ Present(Reconciled(listed)[q[s]]))
<1> DEFINE q == OnOrderRemoved(quote, Dropped(listed))
<1>1. Dropped(listed) \in SUBSET OrderIds
  BY DEF Dropped, TrackedIds
<1>2. /\ q \in [Sides -> OrderIds \cup {NoId}]
      /\ \A s \in Sides : q[s] = NoId \/ (q[s] = quote[s] /\ quote[s] \notin Dropped(listed))
  BY <1>1, OnOrderRemovedFacts
<1>3. \A c \in OrderIds : c \in TrackedIds(store) /\ c \notin Dropped(listed) =>
                             Reconciled(listed)[c] = store[c]
  BY ReconciledFacts
<1>4. \A s \in Sides : q[s] # NoId => Present(Reconciled(listed)[q[s]])
  <2> SUFFICES ASSUME NEW s \in Sides, q[s] # NoId
               PROVE  Present(Reconciled(listed)[q[s]])
    OBVIOUS
  <2>1. q[s] = quote[s] /\ q[s] \notin Dropped(listed) /\ q[s] \in OrderIds
    BY <1>2
  <2>2. Present(store[q[s]])
    BY <2>1 DEF IInv, QuoterTracksStore, Tracked
  <2>3. q[s] \in TrackedIds(store)
    BY <2>1, <2>2 DEF TrackedIds
  <2> HIDE DEF q
  <2> QED BY <1>3, <2>1, <2>2, <2>3
<1> QED BY <1>2, <1>4

(* The timeout monitor keeps the invariant. *)
LEMMA CheckAndResolveIInv == IInv /\ CheckAndResolve => IInv'
<1> SUFFICES ASSUME IInv, CheckAndResolve PROVE IInv'
  OBVIOUS
<1>1. PICK listed \in PendingOrdersReplies :
         IF ReconcileThrows(listed)
         THEN Throw("Add")
         ELSE /\ restErrors' = RestErrorsAfter(listed # OpenOrders)
              /\ store' = Reconciled(listed)
              /\ quote' = OnOrderRemoved(quote, Dropped(listed))
              /\ UNCHANGED <<status, killed, lastId, quoted, rtId, awaiting,
                             sessionVars, exchangeVars, disconnects>>
  BY DEF CheckAndResolve
<1>2. CASE ReconcileThrows(listed)
  BY <1>1, <1>2, ThrowIInv
<1>3. CASE ~ReconcileThrows(listed)
  <2> DEFINE q == OnOrderRemoved(quote, Dropped(listed))
             known == Reconciled(listed)
  <2>1. /\ UNCHANGED <<status, killed, lastId, quoted, rtId, awaiting, conn, auth, requests,
                       responses, pushes, exch, subscribed, late, disconnects>>
        /\ store' = known
        /\ quote' = q
        /\ restErrors' = RestErrorsAfter(listed # OpenOrders)
    BY <1>1, <1>3 DEF sessionVars, exchangeVars
  <2>2. /\ listed \subseteq OpenOrders
        /\ known \in Stores
        /\ \A c \in OrderIds : c > lastId => ~Present(known[c])
        /\ \A c \in OrderIds : Present(known[c]) =>
              /\ c \in listed
              /\ \/ known[c] = store[c]
                 \/ known[c].state \in {"New", "PartiallyFilled"}
    BY ReconciledFacts
  <2>3. /\ q \in [Sides -> OrderIds \cup {NoId}]
        /\ \A s \in Sides : q[s] = NoId \/ (q[s] = quote[s] /\ Present(known[q[s]]))
    BY ReconciledQuotes, ZenonT(30)
  <2> HIDE DEF q, known
  <2>4. EngineTypeOK' /\ (store \in Stores)'
    <3>1. known \in [OrderIds -> Order \cup {NoOrder}]
      BY <2>2, NoOrderFacts DEF Stores
    <3> QED BY <2>1, <2>2, <2>3, <3>1, ZenonT(30) DEF IInv, TypeOK, EngineTypeOK
  <2>5. SessionTypeOK' /\ SessionShape' /\ NoIllegalTransition'
    BY <2>1 DEF IInv, TypeOK, SessionTypeOK, SessionShape, NoIllegalTransition
  <2>6. ExchangeTypeOK'
    <3>1. listed # OpenOrders => restErrors < MaxRestErrors
      BY DEF PendingOrdersReplies
    <3>2. restErrors' \in 0..MaxRestErrors
      BY <2>1, <3>1, RestErrorsFacts, ZenonT(30)
    <3> QED BY <2>1, <3>2 DEF IInv, TypeOK, ExchangeTypeOK
  <2>7. IdsIssued'
    <3>1. IdsIssued
      BY DEF IInv
    <3>2. NoId <= lastId
      BY DEF IInv, TypeOK, EngineTypeOK, NoId
    <3>3. \A c \in OrderIds : c > lastId' => ~Tracked(c)' /\ exch'[c] = "none" /\ c \notin late'
      BY <2>1, <2>2, <3>1, Zenon DEF IdsIssued, Tracked
    <3>4. \A s \in Sides : quote'[s] <= lastId'
      BY <2>1, <2>3, <3>1, <3>2, Zenon DEF IdsIssued
    <3> QED BY <2>1, <3>1, <3>3, <3>4, Zenon DEF IdsIssued
  <2>8. RoundTripShape'
    <3>1. \A op \in {"order", "amend"} : <<op, rtId>> \in awaiting => rtId \in OrderIds
      BY DEF IInv, TypeOK, EngineTypeOK
    <3>2. rtId \in OrderIds => \/ known[rtId] = store[rtId]
                               \/ known[rtId].state \in {"New", "PartiallyFilled", "Absent"}
      BY <2>2 DEF Present
    <3>3. \A a \in awaiting : \A s \in Sides : q[s] # a[2]
      <4>1. \A a \in awaiting : a[2] # NoId
        BY BoundsAssumption DEF IInv, TypeOK, EngineTypeOK, OrderIds, NoId
      <4> QED BY <2>3, <4>1, ZenonT(30) DEF IInv, RoundTripShape
    <3> QED BY <2>1, <3>1, <3>2, <3>3, ZenonT(30) DEF IInv, RoundTripShape
  <2>9. QuoterTracksStore'
    BY <2>1, <2>3, ZenonT(30) DEF IInv, QuoterTracksStore, Tracked
  <2>10. Acknowledged'
    <3>1. \A c \in OrderIds : known[c].ordId => exch[c] # "none"
      BY <2>2, NoOrderFacts, ZenonT(30) DEF OpenOrders, Open, Stores
    <3> QED BY <2>1, <3>1, ZenonT(30) DEF IInv, Acknowledged, NoPhantomAcknowledgement
  <2> QED BY <2>4, <2>5, <2>6, <2>7, <2>8, <2>9, <2>10 DEF IInv, TypeOK
<1> QED BY <1>2, <1>3

(* A failing GET of the pending orders ends the process. *)
LEMMA GetPendingOrdersThrowsIInv == IInv /\ GetPendingOrdersThrows => IInv'
BY ThrowIInv DEF GetPendingOrdersThrows
(* Add of a fresh id, as the round trip and the quoter call it. *)
LEMMA AddFacts ==
    ASSUME NEW st \in Stores, NEW id \in OrderIds
    PROVE  /\ Add(st, id) \in Stores
           /\ Add(st, id)[id] = NewOrder
           /\ \A c \in OrderIds : c # id => Add(st, id)[c] = st[c]
BY NewOrderFacts DEF Add, Stores

(* A login is answered on a session that carried nothing else. *)
LEMMA LoginAnswered ==
    ASSUME IInv, Received("login")
    PROVE  /\ ~auth /\ conn
           /\ requests = <<>>
           /\ Tail(responses) = <<>>
           /\ pushes = [c \in OrderIds |-> <<>>]
           /\ ~subscribed
<1>1. responses \in Seq(Responses) /\ responses # <<>> /\ Head(responses).op = "login"
  BY DEF Received, IInv, TypeOK, SessionTypeOK
<1>2. 1 \in DOMAIN responses /\ responses[1].op = "login"
  BY <1>1, TailFacts
<1>3. ~auth /\ conn
  BY <1>1, <1>2, ZenonT(30) DEF IInv, SessionShape
<1>4. ~subscribed
  BY <1>3, ZenonT(30) DEF IInv, SessionShape
<1>5. requests = <<>> /\ Len(responses) = 1
  BY <1>1, <1>3 DEF IInv, SessionShape
<1>6. pushes = [c \in OrderIds |-> <<>>]
  BY <1>3 DEF IInv, SessionShape
<1>7. Tail(responses) = <<>>
  <2>1. Tail(responses) \in Seq(Responses) /\ Len(Tail(responses)) = 0
    BY <1>1, <1>5
  <2> QED BY <2>1, EmptySequence, Zenon
<1> QED BY <1>3, <1>4, <1>5, <1>6, <1>7

(* A refused login leaves everything as it was. *)
LEMMA LoginRefused ==
    ASSUME IInv, Received("login"), responses' = Tail(responses),
           UNCHANGED <<status, engineVars, conn, auth, requests, pushes, exchangeVars, faultVars>>
    PROVE  IInv'
<1>1. /\ UNCHANGED <<status, killed, store, lastId, quote, quoted, rtId, awaiting, conn, auth,
                     requests, pushes, exch, subscribed, late, disconnects, restErrors>>
      /\ requests = <<>>
      /\ responses' = <<>>
  BY LoginAnswered DEF engineVars, exchangeVars, faultVars
<1>2. EngineTypeOK' /\ ExchangeTypeOK' /\ (store \in Stores)' /\ QuoterTracksStore'
      /\ NoIllegalTransition'
  BY <1>1, ZenonT(30) DEF IInv, TypeOK, EngineTypeOK, ExchangeTypeOK, QuoterTracksStore, Tracked,
              NoIllegalTransition
<1>3. SessionTypeOK'
  <2>1. responses' \in Seq(Responses)
    BY <1>1, EmptySequence, Zenon
  <2> QED BY <1>1, <2>1 DEF IInv, TypeOK, SessionTypeOK
<1>4. IdsIssued' /\ SessionShape'
  <2>1. IdsIssued'
    BY <1>1 DEF IInv, IdsIssued, Tracked
  <2>2. ~auth /\ conn /\ ~subscribed /\ pushes = [c \in OrderIds |-> <<>>]
    BY LoginAnswered
  <2>3. /\ conn' /\ ~auth' /\ ~subscribed' /\ pushes' = [c \in OrderIds |-> <<>>]
        /\ requests' = <<>> /\ responses' = <<>>
    BY <1>1, <2>2
  <2>4. SessionShape'
    BY <2>3, Zenon DEF SessionShape
  <2> QED BY <2>1, <2>4
<1>5. RoundTripShape' /\ Acknowledged'
  <2>1. RoundTripShape /\ Acknowledged
    BY DEF IInv
  <2>2. \A i \in DOMAIN responses' : FALSE
    BY <1>1
  <2>3. /\ store' = store /\ quote' = quote /\ rtId' = rtId /\ awaiting' = awaiting
        /\ exch' = exch /\ pushes' = pushes /\ requests' = requests
    BY <1>1, Zenon
  <2>4. RoundTripShape'
    BY <2>1, <2>2, <2>3, RoundTripFrame, Zenon
  <2>5. Acknowledged'
    BY <2>1, <2>2, <2>3, AcknowledgedFrame, Zenon
  <2> QED BY <2>4, <2>5
<1> QED BY <1>2, <1>3, <1>4, <1>5 DEF IInv, TypeOK

(* What an accepted login does when nothing throws, with and without the round
   trip it may start. *)
LoginDone(listed, start, id) ==
    /\ responses' = Tail(responses)
    /\ auth' = TRUE
    /\ restErrors' = RestErrorsAfter(listed # OpenOrders)
    /\ store' = IF start THEN Add(Reconciled(listed), id) ELSE Reconciled(listed)
    /\ quote' = OnOrderRemoved(quote, Dropped(listed))
    /\ lastId' = IF start THEN id ELSE lastId
    /\ rtId' = IF start THEN id ELSE rtId
    /\ awaiting' = awaiting \cup IF start THEN {<<"order", id>>} ELSE {}
    /\ requests' = IF start
                   THEN Append(Append(requests, [op |-> "subscribe", id |-> NoId]),
                               [op |-> "order", id |-> id])
                   ELSE Append(requests, [op |-> "subscribe", id |-> NoId])
    /\ UNCHANGED <<status, killed, quoted, conn, pushes, exchangeVars, disconnects>>

(* An accepted login reconciles, subscribes and may place one order. *)
LEMMA LoginAccepted ==
    ASSUME IInv, Received("login"), NEW listed \in PendingOrdersReplies,
           NEW start \in BOOLEAN, NEW id, id = lastId + 1,
           start => id \in OrderIds,
           LoginDone(listed, start, id)
    PROVE  IInv'
<1> DEFINE q == OnOrderRemoved(quote, Dropped(listed))
           known == Reconciled(listed)
           sub == [op |-> "subscribe", id |-> NoId]
           ord == [op |-> "order", id |-> id]
<1>1. /\ requests = <<>> /\ responses' = <<>> /\ conn
      /\ UNCHANGED <<status, killed, quoted, conn, pushes, exch, subscribed, late, disconnects>>
  BY LoginAnswered DEF LoginDone, exchangeVars
<1>2. /\ listed \subseteq OpenOrders
      /\ known \in Stores
      /\ \A c \in OrderIds : c > lastId => ~Present(known[c])
      /\ \A c \in OrderIds : Present(known[c]) =>
            /\ c \in listed
            /\ known[c] = store[c] \/ known[c].state \in {"New", "PartiallyFilled"}
  BY ReconciledFacts, ZenonT(30)
<1>3. /\ q \in [Sides -> OrderIds \cup {NoId}]
      /\ \A s \in Sides : q[s] = NoId \/ (q[s] = quote[s] /\ Present(known[q[s]]))
  BY ReconciledQuotes, ZenonT(30)
<1>4. /\ quote' = q
      /\ start => store' = Add(known, id) /\ lastId' = id /\ rtId' = id
                  /\ awaiting' = awaiting \cup {<<"order", id>>}
      /\ ~start => store' = known /\ lastId' = lastId /\ rtId' = rtId /\ awaiting' = awaiting
  BY ZenonT(30) DEF LoginDone
<1> HIDE DEF q, known
<1>5. /\ lastId \in 0..MaxOrders /\ rtId \in OrderIds \cup {NoId}
      /\ awaiting \subseteq ({"order", "amend", "cancel"} \X OrderIds)
      /\ rtId <= lastId
      /\ \A a \in awaiting : a[2] \in OrderIds /\ a[2] <= rtId
      /\ quote \in [Sides -> OrderIds \cup {NoId}]
      /\ \A s \in Sides : quote[s] <= lastId
  BY ZenonT(30) DEF IInv, TypeOK, EngineTypeOK, IdsIssued, RoundTripShape
<1>fresh. lastId \in Int /\ id \in Int /\ lastId < id
  <2>1. lastId \in 0..MaxOrders
    BY <1>5
  <2> QED BY <2>1
<1>held. \A s \in Sides : quote[s] # id
  <2>1. OrderIds \cup {NoId} \subseteq Int
    BY DEF OrderIds, NoId
  <2>2. \A s \in Sides : quote[s] \in Int /\ quote[s] <= lastId
    BY <1>5, <2>1, ZenonT(30)
  <2> QED BY <1>fresh, <2>2
<1>6. /\ store' \in Stores
      /\ \A c \in OrderIds : (start => c # id) => store'[c] = known[c]
      /\ start => store'[id] = NewOrder
      /\ ~start => store' = known
  <2>1. CASE start
    <3>1. known \in Stores /\ id \in OrderIds /\ store' = Add(known, id)
      BY <1>2, <1>4, <2>1, ZenonT(30)
    <3>2. /\ Add(known, id) \in Stores
          /\ Add(known, id)[id] = NewOrder
          /\ \A c \in OrderIds : c # id => Add(known, id)[c] = known[c]
      BY <3>1, AddFacts
    <3> QED BY <2>1, <3>1, <3>2
  <2>2. CASE ~start
    BY <1>2, <1>4, <2>2
  <2> QED BY <2>1, <2>2
<1>7. /\ requests' \in Seq(Requests)
      /\ \A i \in DOMAIN requests' : requests'[i] = sub \/ (start /\ requests'[i] = ord)
  <2>1. sub \in Requests /\ (start => ord \in Requests)
    BY DEF Requests
  <2>2. /\ start => requests' = Append(Append(requests, sub), ord)
        /\ ~start => requests' = Append(requests, sub)
    BY Zenon DEF LoginDone
  <2> HIDE DEF sub, ord
  <2>3. /\ Append(requests, sub) \in Seq(Requests)
        /\ \A i \in DOMAIN Append(requests, sub) : Append(requests, sub)[i] = sub
    <3>1. requests \in Seq(Requests) /\ \A i \in DOMAIN requests : FALSE
      <4>1. requests = <<>>
        BY <1>1
      <4> QED BY <4>1
    <3> QED BY <2>1, <3>1, AppendFacts, Zenon
  <2>4. CASE start
    <3> DEFINE one == Append(requests, sub)
    <3>1. ord \in Requests /\ requests' = Append(one, ord)
      BY <2>1, <2>2, <2>4, Zenon
    <3>2. one \in Seq(Requests) /\ \A i \in DOMAIN one : one[i] = sub
      BY <2>3
    <3> HIDE DEF one
    <3>3. /\ Append(one, ord) \in Seq(Requests)
          /\ \A i \in DOMAIN Append(one, ord) :
                Append(one, ord)[i] = ord \/ (i \in DOMAIN one /\ Append(one, ord)[i] = one[i])
      BY <3>1, <3>2, AppendFacts, Zenon
    <3>4. \A i \in DOMAIN Append(one, ord) : Append(one, ord)[i] = ord \/ Append(one, ord)[i] = sub
      BY <3>2, <3>3, Zenon
    <3> QED BY <2>4, <3>1, <3>3, <3>4, Zenon
  <2>5. CASE ~start
    BY <2>2, <2>3, <2>5, Zenon
  <2> QED BY <2>4, <2>5
<1>8. /\ sub.op = "subscribe" /\ sub.id = NoId /\ ord.op = "order" /\ ord.id = id
      /\ NoId \notin OrderIds
  <2>1. sub.op = "subscribe" /\ sub.id = NoId /\ ord.op = "order" /\ ord.id = id
    OBVIOUS
  <2>2. NoId \notin OrderIds
    BY DEF OrderIds, NoId
  <2> QED BY <2>1, <2>2
<1> HIDE DEF sub, ord
<1>9. EngineTypeOK' /\ (store \in Stores)' /\ NoIllegalTransition'
  <2>1. store' \in [OrderIds -> Order \cup {NoOrder}]
    BY <1>6, NoOrderFacts DEF Stores
  <2>2. awaiting' \subseteq ({"order", "amend", "cancel"} \X OrderIds)
    <3>1. awaiting \subseteq ({"order", "amend", "cancel"} \X OrderIds)
      BY <1>5
    <3>2. awaiting' = awaiting \/ (id \in OrderIds /\ awaiting' = awaiting \cup {<<"order", id>>})
      BY <1>4, Zenon
    <3> QED BY <3>1, <3>2
  <2>3. lastId' \in 0..MaxOrders /\ rtId' \in OrderIds \cup {NoId}
    <3>1. CASE start
      <4>1. lastId' = id /\ rtId' = id /\ id \in OrderIds
        BY <1>4, <3>1, Zenon
      <4>2. OrderIds \subseteq 0..MaxOrders
        BY BoundsAssumption DEF OrderIds
      <4> QED BY <4>1, <4>2, Zenon
    <3>2. CASE ~start
      BY <1>4, <1>5, <3>2, Zenon
    <3> QED BY <3>1, <3>2
  <2> QED BY <1>1, <1>3, <1>4, <1>6, <2>1, <2>2, <2>3, ZenonT(30)
          DEF IInv, TypeOK, EngineTypeOK, NoIllegalTransition
<1>10. SessionTypeOK'
  <2>1. auth' \in BOOLEAN
    BY DEF LoginDone
  <2> QED BY <1>1, <1>7, <2>1 DEF IInv, TypeOK, SessionTypeOK
<1>11. ExchangeTypeOK'
  <2>1. listed # OpenOrders => restErrors < MaxRestErrors
    BY DEF PendingOrdersReplies
  <2>2. restErrors' \in 0..MaxRestErrors
    BY <2>1, RestErrorsFacts, Zenon DEF LoginDone
  <2> QED BY <1>1, <2>2 DEF IInv, TypeOK, ExchangeTypeOK
<1>12. IdsIssued'
  <2>1. \A c \in OrderIds : c > lastId' => c > lastId /\ (start => c # id)
    <3>1. \A c \in OrderIds : c > id => c > lastId /\ c # id
      <4>1. OrderIds \subseteq Int
        BY DEF OrderIds
      <4> QED BY <1>fresh, <4>1
    <3>2. CASE start
      <4>1. lastId' = id
        BY <1>4, <3>2, Zenon
      <4> QED BY <3>1, <4>1, Zenon
    <3>3. CASE ~start
      <4>1. lastId' = lastId
        BY <1>4, <3>3, Zenon
      <4> QED BY <3>3, <4>1, Zenon
    <3> QED BY <3>2, <3>3
  <2>2. \A c \in OrderIds : c > lastId' => ~Tracked(c)' /\ exch'[c] = "none" /\ c \notin late'
    BY <1>1, <1>2, <1>6, <2>1, ZenonT(30) DEF IInv, IdsIssued, Tracked
  <2>3. rtId' <= lastId' /\ lastId <= lastId'
    <3>1. CASE start
      <4>1. rtId' = id /\ lastId' = id
        BY <1>4, <3>1
      <4> QED BY <1>fresh, <4>1
    <3>2. CASE ~start
      <4>1. rtId' = rtId /\ lastId' = lastId
        BY <1>4, <3>2
      <4>2. rtId <= lastId
        BY <1>5
      <4> QED BY <1>fresh, <4>1, <4>2
    <3> QED BY <3>1, <3>2
  <2>4. \A s \in Sides : quote'[s] <= lastId'
    <3>1. NoId <= lastId
      BY <1>5 DEF NoId
    <3>2. \A s \in Sides : q[s] <= lastId
      BY <1>3, <1>5, <3>1, Zenon
    <3>3. CASE start
      <4>1. \A s \in Sides : q[s] \in Int
        BY <1>3 DEF OrderIds, NoId
      <4>2. \A s \in Sides : q[s] <= id
        BY <1>fresh, <3>2, <4>1
      <4> QED BY <1>4, <3>3, <4>2
    <3>4. CASE ~start
      BY <1>4, <3>2, <3>4
    <3> QED BY <3>3, <3>4
  <2>5. \A i \in DOMAIN requests' :
           /\ requests'[i].id <= lastId'
           /\ requests'[i].op \in {"order", "amend", "cancel"} => requests'[i].id # NoId
    <3>1. sub.id <= lastId' /\ sub.op \notin {"order", "amend", "cancel"}
      <4>1. NoId <= lastId /\ NoId <= id
        <5>1. lastId \in 0..MaxOrders
          BY <1>5
        <5> QED BY <1>fresh, <5>1 DEF NoId
      <4>2. lastId' \in {lastId, id}
        BY <1>4, Zenon
      <4>3. NoId <= lastId'
        BY <4>1, <4>2, Zenon
      <4> QED BY <1>8, <4>3
    <3>2. start => ord.id <= lastId' /\ ord.id # NoId
      <4>1. id <= id
        BY <1>fresh
      <4> QED BY <1>4, <1>8, <4>1, Zenon
    <3> QED BY <1>7, <3>1, <3>2, ZenonT(30)
  <2> QED BY <2>2, <2>3, <2>4, <2>5, Zenon DEF IdsIssued
<1>13. SessionShape'
  <2>1. \A i \in DOMAIN requests' : requests'[i].op # "login"
    BY <1>7, <1>8
  <2>2. auth' /\ conn'
    <3>1. auth'
      BY ZenonT(30) DEF LoginDone
    <3>2. conn'
      BY <1>1
    <3> QED BY <3>1, <3>2
  <2>3. \A i \in DOMAIN responses' : FALSE
    <3>1. responses' = <<>>
      BY <1>1
    <3> QED BY <3>1
  <2> QED BY <2>1, <2>2, <2>3, Zenon DEF SessionShape
<1>14. RoundTripShape'
  <2>1. \A a \in awaiting' : a[2] <= rtId'
    <3>1. CASE start
      <4>1. ASSUME NEW a \in awaiting PROVE a[2] <= id
        <5>1. rtId \in Int /\ rtId <= lastId
          BY <1>5 DEF OrderIds, NoId
        <5>2. a[2] \in Int /\ a[2] <= rtId
          BY <1>5 DEF OrderIds
        <5> QED BY <1>fresh, <5>1, <5>2
      <4>2. <<"order", id>>[2] <= id
        BY <1>fresh
      <4> QED BY <1>4, <3>1, <4>1, <4>2
    <3>2. CASE ~start
      BY <1>4, <1>5, <3>2, ZenonT(30)
    <3> QED BY <3>1, <3>2
  <2>2. \A a, b \in awaiting' : a[2] = rtId' /\ b[2] = rtId' => a = b
    <3>1. start => \A a \in awaiting : a[2] # id
      <4>1. rtId \in Int /\ rtId < id /\ OrderIds \subseteq Int
        BY <1>5, BoundsAssumption DEF OrderIds, NoId
      <4> QED BY <1>5, <4>1
    <3> QED BY <1>4, <3>1, ZenonT(30) DEF IInv, RoundTripShape
  <2>3. \A a \in awaiting' : \A s \in Sides : quote'[s] # a[2]
    <3>1. \A s \in Sides : quote[s] # id /\ NoId # id
      <4>1. NoId # id
        <5>1. lastId \in 0..MaxOrders
          BY <1>5
        <5> QED BY <5>1 DEF NoId
      <4> QED BY <1>held, <4>1
    <3>2. \A a \in awaiting : \A s \in Sides : quote[s] # a[2] /\ NoId # a[2]
      <4>1. NoId \notin OrderIds
        BY DEF OrderIds, NoId
      <4>2. \A a \in awaiting : \A s \in Sides : quote[s] # a[2]
        BY ZenonT(30) DEF IInv, RoundTripShape
      <4> QED BY <1>5, <4>1, <4>2, ZenonT(30)
    <3>3. \A s \in Sides : quote'[s] \in {NoId, quote[s]}
      BY <1>3, <1>4
    <3>4. \A a \in awaiting' : a \in awaiting \/ a[2] = id
      <4>1. awaiting' \in {awaiting, awaiting \cup {<<"order", id>>}}
        BY <1>4
      <4>2. <<"order", id>>[2] = id
        OBVIOUS
      <4> QED BY <4>1, <4>2, Zenon
    <3> QED BY <3>1, <3>2, <3>3, <3>4, ZenonT(30)
  <2>4. \A i \in DOMAIN requests' :
           <<requests'[i].op, requests'[i].id>> \in awaiting' => requests'[i].id = rtId'
    <3>1. \A a \in awaiting' : a[1] # "subscribe"
      <4>1. \A a \in awaiting : a[1] # "subscribe"
        BY <1>5, ZenonT(30)
      <4> QED BY <1>4, <4>1
    <3>2. <<"subscribe", NoId>> \notin awaiting'
      BY <3>1
    <3> QED BY <1>4, <1>7, <1>8, <3>2, ZenonT(30)
  <2>5. /\ <<"order", rtId'>> \in awaiting' =>
              store'[rtId'].state \notin {"PendingAmend", "PendingCancel"}
        /\ <<"amend", rtId'>> \in awaiting' => store'[rtId'].state # "PendingCancel"
    <3>1. CASE start
      BY <1>4, <1>6, <3>1, NewOrderFacts, ZenonT(30)
    <3>2. CASE ~start
      <4>1. \A op \in {"order", "amend"} : <<op, rtId>> \in awaiting => rtId \in OrderIds
        BY <1>5
      <4>2. rtId \in OrderIds => \/ known[rtId] = store[rtId]
                                 \/ known[rtId].state \in {"New", "PartiallyFilled", "Absent"}
        BY <1>2 DEF Present
      <4> QED BY <1>4, <3>2, <4>1, <4>2, ZenonT(30) DEF IInv, RoundTripShape
    <3> QED BY <3>1, <3>2, ZenonT(30)
  <2>6. \A i \in DOMAIN responses' : FALSE
    BY <1>1
  <2> QED BY <2>1, <2>2, <2>3, <2>4, <2>5, <2>6, ZenonT(30) DEF RoundTripShape
<1>15. QuoterTracksStore'
  <2> SUFFICES ASSUME NEW s \in Sides, quote'[s] # NoId
               PROVE  /\ Present(store'[quote'[s]])
                      /\ quote'[s] # rtId'
                      /\ \A t \in Sides \ {s} : quote'[t] # quote'[s]
    BY ZenonT(30) DEF QuoterTracksStore, Tracked
  <2>1. quote'[s] = quote[s] /\ Present(known[quote[s]]) /\ quote[s] \in OrderIds
    BY <1>3, <1>4
  <2>2. quote[s] # id
    BY <1>held
  <2>3. Present(store'[quote'[s]])
    BY <1>6, <2>1, <2>2, ZenonT(30)
  <2>4. quote'[s] # rtId'
    BY <1>4, <2>1, <2>2, ZenonT(30) DEF IInv, QuoterTracksStore
  <2> QED BY <1>3, <1>4, <2>1, <2>3, <2>4, ZenonT(30) DEF IInv, QuoterTracksStore
<1>16. Acknowledged'
  <2>1. \A c \in OrderIds : store'[c].ordId => exch[c] # "none"
    BY <1>2, <1>6, NoOrderFacts, NewOrderFacts, ZenonT(30) DEF OpenOrders, Open, Stores
  <2>2. \A i \in DOMAIN requests' : requests'[i].op \notin {"amend", "cancel"}
    BY <1>7, <1>8
  <2>3. Acknowledged
    BY DEF IInv
  <2>4. \A i \in DOMAIN responses' : FALSE
    BY <1>1
  <2>5. NoPhantomAcknowledgement'
    BY <1>1, <2>1, <2>2, ZenonT(30) DEF NoPhantomAcknowledgement
  <2> QED BY <1>1, <2>3, <2>4, <2>5, ZenonT(30) DEF Acknowledged
<1> QED BY <1>9, <1>10, <1>11, <1>12, <1>13, <1>14, <1>15, <1>16 DEF IInv, TypeOK

(* HandleLoginEvent keeps the invariant, on all of its ways out. *)
LEMMA HandleLoginEventIInv == IInv /\ HandleLoginEvent => IInv'
<1> SUFFICES ASSUME IInv, HandleLoginEvent PROVE IInv'
  OBVIOUS
<1>1. Received("login")
  BY ZenonT(30) DEF HandleLoginEvent
<1>2. CASE ~Head(responses).ok
  BY <1>1, <1>2, LoginRefused, ZenonT(30) DEF HandleLoginEvent
<1>3. CASE Head(responses).ok
  <2>1. PICK listed \in PendingOrdersReplies :
           LET start == ~killed /\ RiskCheckPasses(Reconciled(listed))
           IN  /\ start => lastId + 1 \in OrderIds
               /\ IF ReconcileThrows(listed) \/ (start /\ AddThrows(Reconciled(listed)))
                  THEN Throw("Add")
                  ELSE LoginDone(listed, start, lastId + 1)
    BY <1>3, ZenonT(30) DEF HandleLoginEvent, LoginDone
  <2> DEFINE start == ~killed /\ RiskCheckPasses(Reconciled(listed))
  <2>2. start \in BOOLEAN /\ (start => lastId + 1 \in OrderIds)
    BY <2>1
  <2>3. Throw("Add") \/ LoginDone(listed, start, lastId + 1)
    BY <2>1
  <2> HIDE DEF start
  <2>4. CASE Throw("Add")
    BY <2>4, ThrowIInv
  <2>5. CASE LoginDone(listed, start, lastId + 1)
    BY <1>1, <2>2, <2>5, LoginAccepted
  <2> QED BY <2>3, <2>4, <2>5
<1> QED BY <1>2, <1>3
=============================================================================
