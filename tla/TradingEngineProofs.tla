------------------------- MODULE TradingEngineProofs ------------------------
(*****************************************************************************)
(* Proofs about TradingEngine, part 2: pushes, the kill switch, responses of *)
(* the order round trip and the two sides of the quoter, then the theorems.  *)
(*****************************************************************************)
EXTENDS EngineSessionProofs

(* The provers a leaf is given to, in turn, when it names none. *)
USE ZenonT(3), SMTT(25), ZenonT(30), Z3T(25)

(* Pushes and the kill switch. *)

(* The signal handler cancels and ends the process, and keeps the invariant. *)
LEMMA OnShutdownSignalIInv == IInv /\ OnShutdownSignal => IInv'
<1> SUFFICES ASSUME IInv, OnShutdownSignal PROVE IInv'
  OBVIOUS
<1>1. ProcessEnds("stopped")
  BY DEF OnShutdownSignal
<1>2. PICK ids \in SUBSET OpenOrders : exch' = CloseOrders(ids)
  BY DEF OnShutdownSignal
<1> QED BY <1>1, <1>2, CloseOrdersSteps, ProcessEndsIInv

(* A kill switch that throws half-way keeps the invariant. *)
LEMMA KillSwitchThrowsIInv == IInv /\ KillSwitchThrows => IInv'
<1> SUFFICES ASSUME IInv, KillSwitchThrows PROVE IInv'
  OBVIOUS
<1>1. ProcessEnds("Rest")
  BY DEF KillSwitchThrows
<1>2. PICK ids \in SUBSET OpenOrders : exch' = CloseOrders(ids)
  BY DEF KillSwitchThrows
<1> QED BY <1>1, <1>2, CloseOrdersSteps, ProcessEndsIInv

(* What a push does outside the order it is about: nothing, or the kill
   switch closes orders. *)
LEMMA PushOutside ==
    ASSUME IInv, NEW unread \in [OrderIds -> Seq(Pushes)],
           \/ /\ pushes' = unread
              /\ UNCHANGED <<killed, exch, restErrors>>
           \/ \E refused \in RefusedCancels :
                 LET closed == (Cancellable \cap OpenOrders) \ refused
                 IN  /\ killed' = TRUE
                     /\ exch' = CloseOrders(closed)
                     /\ pushes' = PushTo(unread, closed, CancelPush)
                     /\ restErrors' = RestErrorsAfter(refused # {})
    PROVE  /\ killed' \in BOOLEAN
           /\ ExchangeSteps(exch')
           /\ pushes' \in [OrderIds -> Seq(Pushes)]
           /\ \A k \in OrderIds : pushes'[k] # <<>> => unread[k] # <<>> \/ exch'[k] # "none"
           /\ restErrors' \in 0..MaxRestErrors
           /\ ~auth => pushes' = unread
<1>1. CASE pushes' = unread /\ UNCHANGED <<killed, exch, restErrors>>
  BY <1>1 DEF IInv, TypeOK, EngineTypeOK, ExchangeTypeOK, ExchangeSteps
<1>2. ASSUME NEW refused \in RefusedCancels,
             killed' = TRUE,
             exch' = CloseOrders((Cancellable \cap OpenOrders) \ refused),
             pushes' = PushTo(unread, (Cancellable \cap OpenOrders) \ refused, CancelPush),
             restErrors' = RestErrorsAfter(refused # {})
      PROVE  /\ killed' \in BOOLEAN
             /\ ExchangeSteps(exch')
             /\ pushes' \in [OrderIds -> Seq(Pushes)]
             /\ \A k \in OrderIds : pushes'[k] # <<>> => unread[k] # <<>> \/ exch'[k] # "none"
             /\ restErrors' \in 0..MaxRestErrors
             /\ ~auth => pushes' = unread
  <2> DEFINE closed == (Cancellable \cap OpenOrders) \ refused
  <2>1. closed \in SUBSET OpenOrders /\ closed \in SUBSET OrderIds
    BY DEF OpenOrders
  <2>2. exch' = CloseOrders(closed) /\ pushes' = PushTo(unread, closed, CancelPush)
    BY <1>2
  <2> HIDE DEF closed
  <2>3. ExchangeSteps(exch')
    BY <2>1, <2>2, CloseOrdersSteps
  <2>4. CancelPush \in Pushes
    BY DEF CancelPush, Pushes, EventTypes
  <2>5. /\ PushTo(unread, closed, CancelPush) \in [OrderIds -> Seq(Pushes)]
        /\ \A k \in OrderIds : PushTo(unread, closed, CancelPush)[k] # <<>> =>
                                  unread[k] # <<>> \/ k \in closed
        /\ ~auth => PushTo(unread, closed, CancelPush) = unread
    BY <2>1, <2>4, PushToFacts, Zenon
  <2>6. \A k \in closed : exch'[k] = "closed"
    BY <2>1, <2>2 DEF CloseOrders
  <2>7. restErrors' \in 0..MaxRestErrors
    BY <1>2, RestErrorsFacts, ZenonT(30) DEF RefusedCancels
  <2>8. killed' \in BOOLEAN
    BY <1>2
  <2> QED BY <2>2, <2>3, <2>5, <2>6, <2>7, <2>8
<1> QED BY <1>1, <1>2, ZenonT(30)
(* What a push does to the order it is about: the order moves on, or it ends
   and leaves the store and the quoter. *)
OrderMoves(c, type) ==
    LET after == ApplyEvent(store[c], type)
        gone == IF IsTerminal(after.state) THEN {c} ELSE {}
    IN  /\ store' = Remove([store EXCEPT ![c] = after], gone)
        /\ quote' = OnOrderRemoved(quote, gone)

(* What a push does to the store and to the quoter, apart from its order nothing. *)
LEMMA PushInside ==
    ASSUME IInv, NEW c \in OrderIds, NEW type \in EventTypes, Tracked(c), OrderMoves(c, type)
    PROVE  /\ store' \in Stores
           /\ \A k \in OrderIds : k # c => store'[k] = store[k]
           /\ \/ store'[c] = NoOrder
              \/ /\ store'[c].state # "PendingAmend"
                 /\ store'[c].state = "PendingCancel" => store[c].state = "PendingCancel"
           /\ Present(store'[c]) => Progress(store'[c]) >= Progress(store[c])
           /\ ~Present(store'[c]) => type \in {"Fill", "Cancel"}
           /\ quote' \in [Sides -> OrderIds \cup {NoId}]
           /\ \A s \in Sides : \/ quote'[s] = NoId
                               \/ quote'[s] = quote[s] /\ Present(store'[quote[s]])
<1> DEFINE after == ApplyEvent(store[c], type)
           gone == IF IsTerminal(after.state) THEN {c} ELSE {}
<1>0. /\ store' = Remove([store EXCEPT ![c] = after], gone)
      /\ quote' = OnOrderRemoved(quote, gone)
  BY DEF OrderMoves
<1>1. store \in [OrderIds -> WorkingOrder \cup {NoOrder}]
  BY DEF IInv, Stores
<1>2. store[c] \in WorkingOrder
  BY <1>1, NoOrderFacts DEF Tracked
<1>3. /\ ~IsTerminal(after.state) => after \in WorkingOrder
      /\ after.state # "PendingAmend"
      /\ after.state = "PendingCancel" => store[c].state = "PendingCancel"
      /\ Progress(after) >= Progress(store[c])
      /\ IsTerminal(after.state) => type \in {"Fill", "Cancel"}
  BY <1>2, ApplyEventType, ZenonT(30)
<1>10. gone = IF IsTerminal(after.state) THEN {c} ELSE {}
  OBVIOUS
<1> HIDE DEF after, gone
<1>4. \A k \in OrderIds : store'[k] = IF k \in gone THEN NoOrder
                                      ELSE IF k = c THEN after ELSE store[k]
  BY <1>0, <1>1 DEF Remove
<1>5. store' \in Stores
  <2>1. \A k \in OrderIds : store'[k] \in WorkingOrder \cup {NoOrder}
    BY <1>1, <1>3, <1>4, <1>10
  <2>2. store' = [k \in OrderIds |-> store'[k]]
    BY <1>0 DEF Remove
  <2> QED BY <2>1, <2>2 DEF Stores
<1>6. store'[c] = NoOrder \/ (store'[c] = after /\ Present(after) /\ gone = {})
  BY <1>3, <1>4, <1>10, NoOrderFacts
<1>7. /\ quote' \in [Sides -> OrderIds \cup {NoId}]
      /\ \A s \in Sides : quote'[s] = NoId \/ (quote'[s] = quote[s] /\ quote[s] \notin gone)
  <2>1. gone \in SUBSET OrderIds
    BY <1>10
  <2> QED BY <1>0, <2>1, OnOrderRemovedFacts
<1>8. \A s \in Sides : quote'[s] # NoId => Present(store'[quote[s]])
  <2> SUFFICES ASSUME NEW s \in Sides, quote'[s] # NoId PROVE Present(store'[quote[s]])
    OBVIOUS
  <2>1. quote[s] \in OrderIds /\ quote[s] \notin gone /\ Present(store[quote[s]])
    BY <1>7 DEF IInv, QuoterTracksStore, Tracked
  <2>2. CASE quote[s] = c
    BY <1>3, <1>4, <1>10, <2>1, <2>2, NoOrderFacts
  <2>3. CASE quote[s] # c
    BY <1>4, <2>1, <2>3
  <2> QED BY <2>2, <2>3
<1> QED BY <1>3, <1>4, <1>5, <1>6, <1>7, <1>8, <1>10, NoOrderFacts

(* Both together: the facts about HandleOrderEvent that the theorems use. *)
LEMMA HandleOrderEventFacts ==
    ASSUME IInv, NEW c \in OrderIds, HandleOrderEvent(c)
    PROVE  /\ auth
           /\ exch[c] # "none"
           /\ killed' \in BOOLEAN
           /\ ExchangeSteps(exch')
           /\ pushes' \in [OrderIds -> Seq(Pushes)]
           /\ \A k \in OrderIds : pushes'[k] # <<>> => pushes[k] # <<>> \/ exch'[k] # "none"
           /\ restErrors' \in 0..MaxRestErrors
           /\ UNCHANGED <<status, lastId, quoted, rtId, awaiting, conn, auth, requests,
                          responses, subscribed, late, disconnects>>
           /\ store' \in Stores
           /\ \A k \in OrderIds : k # c => store'[k] = store[k]
           /\ \/ store'[c] \in {store[c], NoOrder}
              \/ /\ Tracked(c)
                 /\ store'[c].state # "PendingAmend"
                 /\ store'[c].state = "PendingCancel" => store[c].state = "PendingCancel"
           /\ Tracked(c) /\ Present(store'[c]) => Progress(store'[c]) >= Progress(store[c])
           /\ Tracked(c) /\ ~Present(store'[c]) => Head(pushes[c]).type \in {"Fill", "Cancel"}
           /\ quote' \in [Sides -> OrderIds \cup {NoId}]
           /\ \A s \in Sides : \/ quote'[s] = NoId
                               \/ quote'[s] = quote[s] /\ Present(store'[quote[s]])
<1> DEFINE e == Head(pushes[c])
           unread == [pushes EXCEPT ![c] = Tail(@)]
<1>1. pushes \in [OrderIds -> Seq(Pushes)] /\ pushes[c] \in Seq(Pushes) /\ pushes[c] # <<>>
  BY ZenonT(30) DEF IInv, TypeOK, SessionTypeOK, HandleOrderEvent
<1>2. e \in Pushes /\ Tail(pushes[c]) \in Seq(Pushes)
  BY <1>1, TailFacts
<1>3. e.type \in EventTypes
  BY <1>2 DEF Pushes
<1>4. auth /\ exch[c] # "none"
  BY <1>1 DEF IInv, SessionShape, Acknowledged
<1>5. /\ unread \in [OrderIds -> Seq(Pushes)]
      /\ \A k \in OrderIds : unread[k] # <<>> => pushes[k] # <<>>
  BY <1>1, <1>2
<1>6. ~(Tracked(c) /\ ApplyEventThrows(store[c]))
  <2>1. store[c] \in WorkingOrder \cup {NoOrder}
    BY DEF IInv, Stores
  <2> QED BY <2>1, NoOrderFacts DEF Tracked, ApplyEventThrows
<1>7. /\ \/ pushes' = unread /\ UNCHANGED <<killed, exch, restErrors>>
         \/ \E refused \in RefusedCancels :
               LET closed == (Cancellable \cap OpenOrders) \ refused
               IN  /\ killed' = TRUE
                   /\ exch' = CloseOrders(closed)
                   /\ pushes' = PushTo(unread, closed, CancelPush)
                   /\ restErrors' = RestErrorsAfter(refused # {})
      /\ \/ Tracked(c) /\ OrderMoves(c, e.type)
         \/ ~Tracked(c) /\ UNCHANGED <<store, quote>>
      /\ UNCHANGED <<status, lastId, quoted, rtId, awaiting, conn, auth, requests,
                     responses, subscribed, late, disconnects>>
  BY <1>6, ZenonT(30) DEF HandleOrderEvent, OrderMoves
<1>11. e = Head(pushes[c])
  OBVIOUS
<1> HIDE DEF unread, e
<1>8. /\ killed' \in BOOLEAN
      /\ ExchangeSteps(exch')
      /\ pushes' \in [OrderIds -> Seq(Pushes)]
      /\ \A k \in OrderIds : pushes'[k] # <<>> => unread[k] # <<>> \/ exch'[k] # "none"
      /\ restErrors' \in 0..MaxRestErrors
  BY <1>5, <1>7, PushOutside, ZenonT(30)
<1>9. CASE ~Tracked(c)
  <2>1. /\ store' = store /\ quote' = quote
        /\ store \in Stores
        /\ quote \in [Sides -> OrderIds \cup {NoId}]
        /\ \A s \in Sides : quote[s] = NoId \/ Present(store[quote[s]])
    BY <1>7, <1>9, ZenonT(30) DEF IInv, TypeOK, EngineTypeOK, QuoterTracksStore, Tracked
  <2> QED BY <1>4, <1>5, <1>7, <1>8, <1>9, <2>1, ZenonT(30)
<1>10. CASE Tracked(c)
  <2>1. OrderMoves(c, e.type)
    BY <1>7, <1>10
  <2>2. /\ store' \in Stores
        /\ \A k \in OrderIds : k # c => store'[k] = store[k]
        /\ \/ store'[c] = NoOrder
           \/ /\ store'[c].state # "PendingAmend"
              /\ store'[c].state = "PendingCancel" => store[c].state = "PendingCancel"
        /\ Present(store'[c]) => Progress(store'[c]) >= Progress(store[c])
        /\ ~Present(store'[c]) => e.type \in {"Fill", "Cancel"}
        /\ quote' \in [Sides -> OrderIds \cup {NoId}]
        /\ \A s \in Sides : \/ quote'[s] = NoId
                            \/ quote'[s] = quote[s] /\ Present(store'[quote[s]])
    BY <1>3, <1>10, <2>1, PushInside
  <2> QED BY <1>4, <1>5, <1>7, <1>8, <1>10, <1>11, <2>2
<1> QED BY <1>9, <1>10, ZenonT(30)

(* Handling a push, with or without the kill switch, keeps the invariant. *)
LEMMA HandleOrderEventIInv ==
    ASSUME IInv, NEW c \in OrderIds, HandleOrderEvent(c)
    PROVE  IInv'
<1>1. /\ UNCHANGED <<status, lastId, quoted, rtId, awaiting, conn, auth, requests,
                     responses, subscribed, late, disconnects>>
      /\ killed' \in BOOLEAN
      /\ pushes' \in [OrderIds -> Seq(Pushes)]
      /\ \A k \in OrderIds : pushes'[k] # <<>> => pushes[k] # <<>> \/ exch'[k] # "none"
      /\ restErrors' \in 0..MaxRestErrors
      /\ store' \in Stores
      /\ \A k \in OrderIds : k # c => store'[k] = store[k]
      /\ \/ store'[c] \in {store[c], NoOrder}
         \/ /\ Tracked(c)
            /\ store'[c].state # "PendingAmend"
            /\ store'[c].state = "PendingCancel" => store[c].state = "PendingCancel"
      /\ quote' \in [Sides -> OrderIds \cup {NoId}]
      /\ \A s \in Sides : \/ quote'[s] = NoId
                          \/ quote'[s] = quote[s] /\ Present(store'[quote[s]])
  BY HandleOrderEventFacts, ZenonT(30)
<1>2. auth /\ exch[c] # "none" /\ ExchangeSteps(exch')
  BY HandleOrderEventFacts, Zenon
<1>3. /\ exch' \in [OrderIds -> ExchangeStates]
      /\ \A k \in OrderIds : exch[k] # "none" <=> exch'[k] # "none"
  BY <1>2 DEF ExchangeSteps
<1>4. /\ lastId \in 0..MaxOrders /\ rtId \in OrderIds \cup {NoId}
      /\ awaiting \subseteq ({"order", "amend", "cancel"} \X OrderIds)
      /\ NoId \notin OrderIds
  BY BoundsAssumption DEF IInv, TypeOK, EngineTypeOK, OrderIds, NoId
<1>5. EngineTypeOK' /\ (store \in Stores)' /\ NoIllegalTransition'
  <2>1. store' \in [OrderIds -> Order \cup {NoOrder}]
    BY <1>1, NoOrderFacts DEF Stores
  <2> QED BY <1>1, <2>1 DEF IInv, TypeOK, EngineTypeOK, NoIllegalTransition
<1>6. SessionTypeOK' /\ ExchangeTypeOK'
  BY <1>1, <1>3 DEF IInv, TypeOK, SessionTypeOK, ExchangeTypeOK
<1>7. IdsIssued'
  <2>1. \A k \in OrderIds : k > lastId => k # c /\ ~Tracked(k) /\ exch'[k] = "none" /\ k \notin late
    BY <1>2, <1>3 DEF IInv, IdsIssued
  <2>2. \A s \in Sides : quote'[s] <= lastId
    <3>1. \A s \in Sides : quote[s] <= lastId
      BY IdsBounded
    <3>2. \A s \in Sides : quote'[s] \in {NoId, quote[s]}
      BY <1>1, Zenon
    <3>3. lastId \in 0..MaxOrders
      BY <1>4
    <3>4. NoId <= lastId
      BY <3>3 DEF NoId
    <3> QED BY <3>1, <3>2, <3>4, Zenon
  <2> QED BY <1>1, <2>1, <2>2 DEF IInv, IdsIssued, Tracked
<1>8. SessionShape'
  BY <1>1, <1>2, ZenonT(30) DEF IInv, SessionShape
<1>9. RoundTripShape'
  <2>1. \A a \in awaiting : \A s \in Sides : quote'[s] # a[2]
    <3>1. \A a \in awaiting : a[2] # NoId /\ \A s \in Sides : quote[s] # a[2]
      BY <1>4 DEF IInv, RoundTripShape
    <3> QED BY <1>1, <3>1, ZenonT(30)
  <2>2. \A op \in {"order", "amend"} : <<op, rtId>> \in awaiting => rtId \in OrderIds
    BY <1>4
  <2>3. rtId \in OrderIds =>
           \/ store'[rtId] \in {store[rtId], NoOrder}
           \/ /\ store'[rtId].state # "PendingAmend"
              /\ store'[rtId].state = "PendingCancel" => store[rtId].state = "PendingCancel"
    BY <1>1
  <2> QED BY <1>1, <2>1, <2>2, <2>3, NoOrderFacts, ZenonT(30) DEF IInv, RoundTripShape
<1>10. QuoterTracksStore'
  BY <1>1, SMTT(30) DEF IInv, QuoterTracksStore, Tracked
<1>11. Acknowledged'
  <2>1. \A k \in OrderIds : store'[k].ordId => exch'[k] # "none"
    BY <1>1, <1>2, <1>3, ZenonT(30) DEF IInv, Acknowledged, NoPhantomAcknowledgement
  <2>2. \A i \in DOMAIN requests : requests[i].op \in {"amend", "cancel"} =>
                                      exch'[requests[i].id] # "none"
    <3>1. \A i \in DOMAIN requests : requests[i] \in Requests
      BY DEF IInv, TypeOK, SessionTypeOK
    <3>2. \A i \in DOMAIN requests : requests[i].op \in {"amend", "cancel"} =>
                                        requests[i].id \in OrderIds
      BY <3>1 DEF IInv, IdsIssued, Requests
    <3> QED BY <1>3, <3>2 DEF IInv, Acknowledged, NoPhantomAcknowledgement
  <2>3. \A i \in DOMAIN responses : responses[i].op # "login" =>
                                      exch'[responses[i].id] # "none"
    BY <1>3, <1>4, ZenonT(30) DEF IInv, Acknowledged, RoundTripShape
  <2> QED BY <1>1, <1>3, <2>1, <2>2, <2>3, ZenonT(30) DEF IInv, Acknowledged, NoPhantomAcknowledgement
<1> QED BY <1>5, <1>6, <1>7, <1>8, <1>9, <1>10, <1>11 DEF IInv, TypeOK
-----------------------------------------------------------------------------
(* The round trip's response handlers. *)

(* A dispatched response is about the current round trip, and the exchange
   has its order. *)
LEMMA DispatchedFacts ==
    ASSUME IInv, NEW op \in {"order", "amend", "cancel"}, Dispatched(op)
    PROVE  /\ auth
           /\ rtId \in OrderIds
           /\ Head(responses).id = rtId
           /\ exch[rtId] # "none"
           /\ <<op, rtId>> \in awaiting
           /\ store[rtId] \in WorkingOrder \cup {NoOrder}
           /\ Tail(responses) \in Seq(Responses)
           /\ \A i \in DOMAIN Tail(responses) :
                 \E j \in DOMAIN responses : Tail(responses)[i] = responses[j]
<1>1. /\ responses \in Seq(Responses) /\ responses # <<>>
      /\ Head(responses).op = op
      /\ <<op, Head(responses).id>> \in awaiting
  BY DEF IInv, TypeOK, SessionTypeOK, Dispatched, Received
<1>2. /\ 1 \in DOMAIN responses /\ Head(responses) = responses[1]
      /\ Tail(responses) \in Seq(Responses)
      /\ \A i \in DOMAIN Tail(responses) : i + 1 \in DOMAIN responses
                                           /\ Tail(responses)[i] = responses[i + 1]
  BY <1>1, TailFacts
<1>3. auth
  BY <1>1, <1>2 DEF IInv, SessionShape
<1>4. Head(responses).id = rtId /\ rtId # NoId
  BY <1>1, <1>2 DEF IInv, RoundTripShape
<1>5. exch[rtId] # "none"
  BY <1>1, <1>2, <1>4 DEF IInv, Acknowledged
<1>6. rtId \in OrderIds
  BY <1>4 DEF IInv, TypeOK, EngineTypeOK
<1>7. store[rtId] \in WorkingOrder \cup {NoOrder}
  BY <1>6 DEF IInv, Stores
<1> QED BY <1>1, <1>2, <1>3, <1>4, <1>5, <1>6, <1>7

(* One handler: it forgets the request answered, changes the round trip's
   order to one that fits the next request, and sends that request. *)
LEMMA RoundTripStepIInv ==
    ASSUME IInv, NEW op \in {"order", "amend", "cancel"}, Dispatched(op),
           NEW next \in {"none", "amend", "cancel"}, NEW after,
           RoundTripStep(op, next, "none", after),
           after \in WorkingOrder \cup {store[rtId]},
           Present(store[rtId]) => Present(after),
           next = "amend" => after.state # "PendingCancel"
    PROVE  IInv'
<1> DEFINE answered == awaiting \ {<<op, rtId>>}
           r == [op |-> next, id |-> rtId]
<1>1. /\ auth
      /\ rtId \in OrderIds
      /\ Head(responses).id = rtId
      /\ exch[rtId] # "none"
      /\ <<op, rtId>> \in awaiting
      /\ store[rtId] \in WorkingOrder \cup {NoOrder}
      /\ Tail(responses) \in Seq(Responses)
      /\ \A i \in DOMAIN Tail(responses) :
            \E j \in DOMAIN responses : Tail(responses)[i] = responses[j]
  BY DispatchedFacts, ZenonT(30)
<1>2. /\ responses' = Tail(responses)
      /\ store' = [store EXCEPT ![rtId] = after]
      /\ next = "none" => awaiting' = answered /\ requests' = requests
      /\ next # "none" => awaiting' = answered \cup {<<next, rtId>>}
                      /\ requests' = Append(requests, r)
      /\ UNCHANGED <<status, killed, lastId, quote, quoted, rtId, conn, auth,
                     pushes, exch, subscribed, late, disconnects, restErrors>>
  BY <1>1, ZenonT(30) DEF RoundTripStep, exchangeVars, faultVars
<1>3. /\ store \in [OrderIds -> WorkingOrder \cup {NoOrder}]
      /\ requests \in Seq(Requests)
      /\ awaiting \subseteq ({"order", "amend", "cancel"} \X OrderIds)
      /\ rtId <= lastId
  BY ZenonT(30) DEF IInv, Stores, TypeOK, EngineTypeOK, SessionTypeOK, IdsIssued
<1>15. NoId \notin OrderIds
  BY BoundsAssumption DEF OrderIds, NoId
<1>4. /\ \A i \in DOMAIN responses' : \E j \in DOMAIN responses : responses'[i] = responses[j]
      /\ responses' \in Seq(Responses)
  BY <1>1, <1>2, ZenonT(30)
<1>5. /\ requests' \in Seq(Requests)
      /\ \A i \in DOMAIN requests' : \/ i \in DOMAIN requests /\ requests'[i] = requests[i]
                                     \/ next # "none" /\ requests'[i] = r
      /\ r.op = next /\ r.id = rtId
  <2>1. r.op = next /\ r.id = rtId /\ (next # "none" => r \in Requests)
    BY <1>1, ZenonT(30) DEF Requests
  <2> HIDE DEF r
  <2>2. CASE next = "none"
    BY <1>2, <1>3, <2>1, <2>2, ZenonT(30)
  <2>3. CASE next # "none"
    <3>1. /\ Append(requests, r) \in Seq(Requests)
          /\ \A i \in DOMAIN Append(requests, r) :
                \/ Append(requests, r)[i] = r
                \/ i \in DOMAIN requests /\ Append(requests, r)[i] = requests[i]
      BY <1>3, <2>1, <2>3, AppendFacts
    <3> QED BY <1>2, <2>1, <2>3, <3>1, Zenon
  <2> QED BY <2>2, <2>3, ZenonT(30)
<1> HIDE DEF r
<1>6. /\ store' \in Stores
      /\ store'[rtId] = after
      /\ \A c \in OrderIds : c # rtId => store'[c] = store[c]
  BY <1>1, <1>2, <1>3 DEF Stores
<1>7. /\ \A a \in awaiting' : a[2] = rtId => next # "none" /\ a = <<next, rtId>>
      /\ \A a \in awaiting' : a \in awaiting \/ a[2] = rtId
      /\ awaiting' \subseteq ({"order", "amend", "cancel"} \X OrderIds)
  <2>1. \A a \in answered : a[2] # rtId
    <3>1. \A a \in awaiting : a[2] = rtId => a = <<op, rtId>>
      BY <1>1, ZenonT(30) DEF IInv, RoundTripShape
    <3> QED BY <3>1
  <2>2. answered \subseteq awaiting
    OBVIOUS
  <2> HIDE DEF answered
  <2>3. CASE next = "none"
    BY <1>2, <1>3, <2>1, <2>2, <2>3
  <2>4. CASE next # "none"
    BY <1>1, <1>2, <1>3, <2>1, <2>2, <2>4
  <2> QED BY <2>3, <2>4
<1> HIDE DEF answered
<1>8. EngineTypeOK' /\ (store \in Stores)' /\ NoIllegalTransition'
  <2>1. store' \in [OrderIds -> Order \cup {NoOrder}]
    BY <1>6, NoOrderFacts DEF Stores
  <2> QED BY <1>2, <1>6, <1>7, <2>1, Zenon DEF IInv, TypeOK, EngineTypeOK, NoIllegalTransition
<1>9. SessionTypeOK' /\ ExchangeTypeOK'
  BY <1>2, <1>4, <1>5, Zenon DEF IInv, TypeOK, SessionTypeOK, ExchangeTypeOK
<1>10. IdsIssued'
  <2>1. \A c \in OrderIds : c > lastId => c # rtId
    BY <1>1, ZenonT(30) DEF IInv, IdsIssued
  <2>2. \A i \in DOMAIN requests' :
           /\ requests'[i].id <= lastId
           /\ requests'[i].op \in {"order", "amend", "cancel"} => requests'[i].id # NoId
    BY <1>1, <1>3, <1>5, <1>15, ZenonT(30) DEF IInv, IdsIssued
  <2> QED BY <1>2, <1>6, <2>1, <2>2, ZenonT(30) DEF IInv, IdsIssued, Tracked
<1>11. SessionShape'
  BY <1>1, <1>2, <1>4, <1>5, ZenonT(30) DEF IInv, SessionShape
<1>12. RoundTripShape'
  <2>1. \A a \in awaiting' : a[2] <= rtId
    BY <1>1, <1>7, BoundsAssumption, ZenonT(30) DEF IInv, RoundTripShape, OrderIds
  <2>2. \A a, b \in awaiting' : a[2] = rtId /\ b[2] = rtId => a = b
    BY <1>7
  <2>3. \A a \in awaiting' : \A s \in Sides : quote[s] # a[2]
    BY <1>1, <1>7 DEF IInv, RoundTripShape
  <2>4. \A i \in DOMAIN requests' :
           <<requests'[i].op, requests'[i].id>> \in awaiting' => requests'[i].id = rtId
    BY <1>5, <1>7 DEF IInv, RoundTripShape
  <2>5. /\ <<"order", rtId>> \notin awaiting'
        /\ <<"amend", rtId>> \in awaiting' => next = "amend"
    BY <1>7
  <2>6. \A i \in DOMAIN responses' :
           responses'[i].op # "login" => responses'[i].id = rtId /\ rtId # NoId
    BY <1>4 DEF IInv, RoundTripShape
  <2>7. rtId' = rtId /\ quote' = quote
    BY <1>2
  <2> QED BY <1>6, <2>1, <2>2, <2>3, <2>4, <2>5, <2>6, <2>7, ZenonT(30) DEF RoundTripShape
<1>13. QuoterTracksStore'
  <2>1. \A s \in Sides : quote[s] # NoId => quote[s] \in OrderIds
    BY DEF IInv, TypeOK, EngineTypeOK
  <2> QED BY <1>2, <1>6, <2>1 DEF IInv, QuoterTracksStore, Tracked
<1>14. Acknowledged'
  <2>1. \A c \in OrderIds : store'[c].ordId => exch[c] # "none"
    BY <1>1, <1>6 DEF IInv, Acknowledged, NoPhantomAcknowledgement
  <2>2. \A i \in DOMAIN requests' :
           requests'[i].op \in {"amend", "cancel"} => exch[requests'[i].id] # "none"
    BY <1>1, <1>5 DEF IInv, Acknowledged, NoPhantomAcknowledgement
  <2> QED BY <1>2, <1>4, <2>1, <2>2 DEF IInv, Acknowledged, NoPhantomAcknowledgement
<1> QED BY <1>8, <1>9, <1>10, <1>11, <1>12, <1>13, <1>14 DEF IInv, TypeOK
(* A response handler throws at GetOrder or OnRequestRejected, or else moves its
   order within the working orders and sends at most one request. *)
LEMMA RoundTripFacts ==
    ASSUME IInv, RoundTrip
    PROVE  \/ \E site \in {"GetOrder", "OnRequestRejected"} : Throw(site)
           \/ \E op \in {"order", "amend", "cancel"}, next \in {"none", "amend", "cancel"},
                 after \in WorkingOrder \cup {store[rtId]} :
                    /\ Dispatched(op)
                    /\ RoundTripStep(op, next, "none", after)
                    /\ Present(store[rtId]) => Present(after)
                    /\ next = "amend" => after.state # "PendingCancel"
                    /\ Present(store[rtId]) => Progress(after) = Progress(store[rtId])
<1> DEFINE o == store[rtId]
<1>1. \A op \in {"order", "amend", "cancel"} : Dispatched(op) =>
         /\ rtId \in OrderIds
         /\ <<op, rtId>> \in awaiting
         /\ o \in WorkingOrder \cup {NoOrder}
         /\ ~OrderLost => o \in WorkingOrder /\ Present(o)
  BY DispatchedFacts, NoOrderFacts DEF OrderLost, Tracked
<1>2. \A op, site, next, after : site # "none" /\ RoundTripStep(op, next, site, after) => Throw(site)
  BY DEF RoundTripStep
<1>3. CASE OnOrderResponse
  <2>1. Dispatched("order")
    BY <1>3 DEF OnOrderResponse
  <2>2. CASE ~Head(responses).ok
    BY <1>3, <2>1, <2>2 DEF OnOrderResponse, NothingToDo
  <2>3. CASE Head(responses).ok /\ OrderLost
    BY <1>2, <1>3, <2>3 DEF OnOrderResponse
  <2>4. CASE Head(responses).ok /\ ~OrderLost
    <3>1. o \in WorkingOrder /\ Present(o) /\ o.state \notin {"PendingAmend", "PendingCancel"}
      BY <1>1, <2>1, <2>4 DEF IInv, RoundTripShape
    <3>2. /\ ~OnAmendRequestedThrows(o)
          /\ OnAmendRequested(o) \in WorkingOrder
          /\ OnAmendRequested(o).state = "PendingAmend"
          /\ Progress(OnAmendRequested(o)) = Progress(o)
      BY <3>1, AmendFacts
    <3>3. RoundTripStep("order", "amend", "none", OnAmendRequested(o))
      BY <1>3, <2>4, <3>2 DEF OnOrderResponse
    <3> QED BY <2>1, <3>2, <3>3, NoOrderFacts
  <2> QED BY <2>2, <2>3, <2>4
<1>4. CASE OnAmendResponse
  <2> DEFINE rejected == ~Head(responses).ok
             reverted == IF rejected THEN OnRequestRejected(o) ELSE o
             stuck == rejected /\ OnRequestRejectedThrows(o)
  <2>1. Dispatched("amend")
    BY <1>4 DEF OnAmendResponse
  <2>2. CASE OrderLost
    BY <1>2, <1>4, <2>2 DEF OnAmendResponse
  <2>3. CASE ~OrderLost /\ stuck
    BY <1>2, <1>4, <2>3 DEF OnAmendResponse
  <2>4. CASE ~OrderLost /\ ~stuck
    <3>1. o \in WorkingOrder /\ Present(o) /\ o.state # "PendingCancel"
      BY <1>1, <2>1, <2>4 DEF IInv, RoundTripShape
    <3>2. /\ reverted \in WorkingOrder
          /\ reverted.state # "PendingCancel"
          /\ Progress(reverted) = Progress(o)
      BY <2>4, <3>1, RejectFacts
    <3>3. RoundTripStep("amend", "cancel",
             IF OnCancelRequestedThrows(reverted) THEN "OnCancelRequested" ELSE "none",
             OnCancelRequested(reverted))
      BY <1>4, <2>4 DEF OnAmendResponse
    <3> HIDE DEF reverted
    <3>4. /\ ~OnCancelRequestedThrows(reverted)
          /\ OnCancelRequested(reverted) \in WorkingOrder
          /\ Progress(OnCancelRequested(reverted)) = Progress(o)
      BY <3>2, CancelFacts
    <3>5. RoundTripStep("amend", "cancel", "none", OnCancelRequested(reverted))
      BY <3>3, <3>4
    <3> QED BY <2>1, <3>4, <3>5, NoOrderFacts
  <2> QED BY <2>2, <2>3, <2>4
<1>5. CASE OnCancelResponse
  <2>1. Dispatched("cancel")
    BY <1>5 DEF OnCancelResponse
  <2>2. CASE Head(responses).ok
    BY <1>5, <2>1, <2>2 DEF OnCancelResponse, NothingToDo
  <2>3. CASE ~Head(responses).ok /\ OrderLost
    BY <1>2, <1>5, <2>3 DEF OnCancelResponse
  <2>4. CASE ~Head(responses).ok /\ ~OrderLost /\ OnRequestRejectedThrows(o)
    BY <1>2, <1>5, <2>4 DEF OnCancelResponse
  <2>5. CASE ~Head(responses).ok /\ ~OrderLost /\ ~OnRequestRejectedThrows(o)
    <3>1. o \in WorkingOrder
      BY <1>1, <2>1, <2>5
    <3>2. OnRequestRejected(o) \in WorkingOrder /\ Progress(OnRequestRejected(o)) = Progress(o)
      BY <2>5, <3>1, RejectFacts
    <3>3. RoundTripStep("cancel", "none", "none", OnRequestRejected(o))
      BY <1>5, <2>5 DEF OnCancelResponse
    <3> QED BY <2>1, <3>2, <3>3, NoOrderFacts
  <2> QED BY <2>2, <2>3, <2>4, <2>5
<1> QED BY <1>3, <1>4, <1>5 DEF RoundTrip

(* The three response handlers keep the invariant. *)
LEMMA RoundTripIInv == IInv /\ RoundTrip => IInv'
<1> SUFFICES ASSUME IInv, RoundTrip PROVE IInv'
  OBVIOUS
<1>1. CASE \E site \in {"GetOrder", "OnRequestRejected"} : Throw(site)
  BY <1>1, ThrowIInv
<1>2. ASSUME NEW op \in {"order", "amend", "cancel"}, NEW next \in {"none", "amend", "cancel"},
             NEW after \in WorkingOrder \cup {store[rtId]},
             Dispatched(op),
             RoundTripStep(op, next, "none", after),
             Present(store[rtId]) => Present(after),
             next = "amend" => after.state # "PendingCancel"
      PROVE  IInv'
  BY <1>2, RoundTripStepIInv
<1> QED BY <1>1, <1>2, RoundTripFacts

-----------------------------------------------------------------------------

(* The quoter.  QInv is the invariant seen from inside a handler: what the
   first side left behind for the second still fits the rest of the state. *)

Contexts == [store : Stores, lastId : 0..MaxOrders, quote : [Sides -> OrderIds \cup {NoId}],
             requests : Seq(Requests), error : {"none", "ids", "Add"}]

QStore(st, last) ==
    /\ \A c \in OrderIds : c > last => ~Present(st[c])
    /\ \A c \in OrderIds : Present(store[c]) =>
                              Present(st[c]) /\ Progress(st[c]) >= Progress(store[c])
    /\ \A c \in OrderIds : st[c].ordId => exch[c] # "none"
    /\ rtId \in OrderIds => st[rtId] = store[rtId]

QQuote(q, st, last) ==
    \A s \in Sides :
        /\ q[s] <= last
        /\ q[s] # NoId => /\ Present(st[q[s]])
                          /\ q[s] # rtId
                          /\ \A t \in Sides \ {s} : q[t] # q[s]
                          /\ \A a \in awaiting : q[s] # a[2]

QRequest(r, last) ==
    /\ r.op # "login"
    /\ r.id <= last
    /\ r.op \in {"order", "amend", "cancel"} => r.id # NoId
    /\ r.op \in {"amend", "cancel"} => exch[r.id] # "none"
    /\ <<r.op, r.id>> \in awaiting => r.id = rtId

QInv(x) ==
    /\ x \in Contexts
    /\ x.lastId >= lastId
    /\ QStore(x.store, x.lastId)
    /\ QQuote(x.quote, x.store, x.lastId)
    /\ \A i \in DOMAIN x.requests : QRequest(x.requests[i], x.lastId)
    /\ NotYetPlaced(requests) => NotYetPlaced(x.requests)

(* One more request at the end of a queue is no second placement, if it is none
   or is about an order that neither the exchange nor the queue has seen. *)
LEMMA AppendNotYetPlaced ==
    ASSUME NEW q \in Seq(Requests), NotYetPlaced(q), NEW r \in Requests,
           r.op = "order" => /\ exch[r.id] = "none" /\ r.id \notin late
                             /\ \A i \in DOMAIN q : q[i] # r
    PROVE  NotYetPlaced(Append(q, r))
<1> DEFINE a == Append(q, r)
<1>1. /\ Len(q) \in Nat /\ DOMAIN q = 1..Len(q) /\ DOMAIN a = 1..(Len(q) + 1)
      /\ a[Len(q) + 1] = r
      /\ \A i \in DOMAIN q : a[i] = q[i]
  OBVIOUS
<1>2. \A i \in DOMAIN a : i \in DOMAIN q \/ i = Len(q) + 1
  BY <1>1
<1> HIDE DEF a
<1> SUFFICES ASSUME NEW i \in DOMAIN a, a[i].op = "order"
             PROVE  /\ exch[a[i].id] = "none" /\ a[i].id \notin late
                    /\ \A k \in DOMAIN a : a[k] = a[i] => k = i
  BY DEF NotYetPlaced, a
<1>3. CASE i \in DOMAIN q
  <2>1. /\ a[i] = q[i] /\ exch[q[i].id] = "none" /\ q[i].id \notin late
        /\ \A k \in DOMAIN q : q[k] = q[i] => k = i
    BY <1>1, <1>3 DEF NotYetPlaced
  <2>2. q[i] # r
    BY <1>3, <2>1
  <2> QED BY <1>1, <1>2, <2>1, <2>2
<1>4. CASE i = Len(q) + 1
  BY <1>1, <1>2, <1>4
<1> QED BY <1>2, <1>3, <1>4

(* QInv holds when a quoting handler begins. *)
LEMMA QuoterQInv ==
    ASSUME IInv, auth
    PROVE  QInv(Quoter)
<1>1. /\ Quoter.store = store /\ Quoter.lastId = lastId /\ Quoter.quote = quote
      /\ Quoter.requests = requests
      /\ Quoter \in Contexts
  BY DEF Quoter, Contexts, IInv, TypeOK, EngineTypeOK, SessionTypeOK
<1>2. lastId \in Nat
  BY DEF IInv, TypeOK, EngineTypeOK
<1>3. QStore(store, lastId)
  <2>1. \A c \in OrderIds : Progress(store[c]) >= Progress(store[c])
    BY DEF Progress
  <2> QED BY <2>1 DEF QStore, IInv, IdsIssued, Tracked, Acknowledged, NoPhantomAcknowledgement
<1>4. QQuote(quote, store, lastId)
  BY DEF QQuote, IInv, IdsIssued, QuoterTracksStore, Tracked, RoundTripShape
<1>5. \A i \in DOMAIN requests : QRequest(requests[i], lastId)
  BY DEF QRequest, IInv, IdsIssued, SessionShape, RoundTripShape, Acknowledged,
         NoPhantomAcknowledgement
<1> QED BY <1>1, <1>2, <1>3, <1>4, <1>5 DEF QInv

(* PlaceSide keeps QInv. *)
LEMMA PlaceSideQInv ==
    ASSUME IInv, NEW x, QInv(x), NEW side \in Sides, NEW granted \in BOOLEAN
    PROVE  QInv(PlaceSide(x, side, granted))
<1>1. /\ x \in Contexts
      /\ x.store \in Stores
      /\ x.lastId \in 0..MaxOrders /\ x.lastId >= lastId
      /\ x.quote \in [Sides -> OrderIds \cup {NoId}]
      /\ x.requests \in Seq(Requests)
      /\ x.error \in {"none", "ids", "Add"}
  BY DEF QInv, Contexts
<1>6. NotYetPlaced(requests) => NotYetPlaced(x.requests)
  BY DEF QInv
<1>2. QStore(x.store, x.lastId) /\ QQuote(x.quote, x.store, x.lastId)
      /\ \A i \in DOMAIN x.requests : QRequest(x.requests[i], x.lastId)
  BY DEF QInv
<1>3. CASE ~granted
  <2> DEFINE y == [x EXCEPT !.quote[side] = NoId]
  <2>1. PlaceSide(x, side, granted) = y
    BY <1>3 DEF PlaceSide
  <2>2. /\ y \in Contexts
        /\ y.store = x.store /\ y.lastId = x.lastId /\ y.requests = x.requests
        /\ y.quote = [x.quote EXCEPT ![side] = NoId]
    BY <1>1 DEF Contexts
  <2> HIDE DEF y
  <2>3. QQuote(y.quote, x.store, x.lastId)
    <3>1. x.lastId \in 0..MaxOrders /\ x.quote \in [Sides -> OrderIds \cup {NoId}]
          /\ QQuote(x.quote, x.store, x.lastId)
      BY <1>1, <1>2
    <3>2. NoId <= x.lastId
      BY <3>1 DEF NoId
    <3>3. \A s \in Sides : y.quote[s] \in {NoId, x.quote[s]}
      BY <2>2, <3>1
    <3> QED BY <3>1, <3>2, <3>3, Zenon DEF QQuote
  <2> QED BY <1>1, <1>2, <1>6, <2>1, <2>2, <2>3 DEF QInv
<1>4. CASE granted /\ (x.lastId = MaxOrders \/ AddThrows(x.store))
  <2>1. PICK e \in {"ids", "Add"} : PlaceSide(x, side, granted) = [x EXCEPT !.error = e]
    BY <1>1, <1>4, BoundsAssumption DEF PlaceSide
  <2> DEFINE y == [x EXCEPT !.error = e]
  <2>2. /\ y \in Contexts
        /\ y.store = x.store /\ y.lastId = x.lastId /\ y.requests = x.requests
        /\ y.quote = x.quote
    BY <1>1 DEF Contexts
  <2>3. PlaceSide(x, side, granted) = y
    BY <2>1
  <2> HIDE DEF y
  <2> QED BY <1>1, <1>2, <1>6, <2>2, <2>3 DEF QInv
<1>5. CASE granted /\ x.lastId # MaxOrders /\ ~AddThrows(x.store)
  <2> DEFINE n == x.lastId + 1
             r == [op |-> "order", id |-> n]
             y == [x EXCEPT !.store = Add(x.store, n), !.lastId = n, !.quote[side] = n,
                            !.requests = Append(@, r)]
  <2>1. PlaceSide(x, side, granted) = y
    BY <1>5 DEF PlaceSide
  <2>2. /\ n \in OrderIds /\ n \in 0..MaxOrders /\ n > x.lastId /\ n # NoId
        /\ \A a \in awaiting : a[2] # n
        /\ rtId # n
    <3>1. n \in OrderIds /\ n \in 0..MaxOrders /\ n > x.lastId /\ n # NoId
      BY <1>1, <1>5, BoundsAssumption DEF OrderIds, NoId
    <3>2. /\ \A a \in awaiting : a[2] \in OrderIds /\ a[2] <= rtId
          /\ rtId <= lastId
          /\ rtId \in OrderIds \cup {NoId} /\ lastId \in Nat
      BY IdTypes, IdsBounded
    <3>3. lastId <= x.lastId /\ x.lastId \in Int /\ n \in Int
      BY <1>1, <3>1
    <3> HIDE DEF n
    <3>4. \A k \in Int : k <= lastId => k # n
      BY <3>1, <3>2, <3>3
    <3>5. /\ rtId \in Int /\ \A a \in awaiting : a[2] \in Int
          /\ \A a \in awaiting : a[2] <= lastId
      BY <3>2 DEF OrderIds, NoId
    <3> QED BY <3>1, <3>2, <3>4, <3>5
  <2>3. r \in Requests /\ r.op = "order" /\ r.id = n
    BY <2>2 DEF Requests
  <2> HIDE DEF r
  <2>4. /\ Append(x.requests, r) \in Seq(Requests)
        /\ \A i \in DOMAIN Append(x.requests, r) :
              \/ Append(x.requests, r)[i] = r
              \/ i \in DOMAIN x.requests /\ Append(x.requests, r)[i] = x.requests[i]
    BY <1>1, <2>3, AppendFacts
  <2>5. /\ Add(x.store, n) \in Stores
        /\ Add(x.store, n)[n] = NewOrder
        /\ \A c \in OrderIds : c # n => Add(x.store, n)[c] = x.store[c]
    BY <1>1, <2>2, AddFacts
  <2>6. /\ y.store = Add(x.store, n) /\ y.lastId = n
        /\ y.quote = [x.quote EXCEPT ![side] = n]
        /\ y.requests = Append(x.requests, r)
    BY <1>1 DEF Contexts
  <2>7. y \in Contexts
    BY <1>1, <2>2, <2>4, <2>5, Zenon DEF Contexts
  <2> HIDE DEF y, n
  <2>8. QStore(Add(x.store, n), n)
    <3>1. \A c \in OrderIds : c > n => c # n /\ c > x.lastId
      BY <1>1, <2>2, BoundsAssumption DEF OrderIds
    <3>2. ~Present(x.store[n]) /\ ~Present(store[n])
      BY <1>2, <2>2 DEF QStore
    <3> QED BY <1>2, <2>2, <2>5, <3>1, <3>2, NewOrderFacts, ZenonT(30) DEF QStore
  <2>9. QQuote(y.quote, Add(x.store, n), n)
    <3>1. \A s \in Sides : x.quote[s] <= n /\ x.quote[s] # n
      <4>1. \A s \in Sides : x.quote[s] <= x.lastId
        BY <1>2 DEF QQuote
      <4>2. \A s \in Sides : x.quote[s] \in Int
        BY <1>1 DEF OrderIds, NoId
      <4>3. x.lastId \in Int /\ n \in Int /\ n > x.lastId
        BY <1>1, <2>2
      <4>4. \A k \in Int : k <= x.lastId => k <= n /\ k # n
        BY <4>3
      <4> QED BY <4>1, <4>2, <4>4, Zenon
    <3>2. Present(NewOrder)
      BY NewOrderFacts, NoOrderFacts
    <3>3. \A s \in Sides : y.quote[s] = IF s = side THEN n ELSE x.quote[s]
      BY <1>1, <2>6
    <3>4. n <= n
      BY <2>2
    <3>5. ASSUME NEW s \in Sides
          PROVE  /\ y.quote[s] <= n
                 /\ y.quote[s] # NoId => /\ Present(Add(x.store, n)[y.quote[s]])
                                         /\ y.quote[s] # rtId
                                         /\ \A t \in Sides \ {s} : y.quote[t] # y.quote[s]
                                         /\ \A a \in awaiting : y.quote[s] # a[2]
      <4>1. CASE s = side
        BY <2>2, <2>5, <3>1, <3>2, <3>3, <3>4, <4>1
      <4>2. CASE s # side
        <5>1. x.quote[s] # NoId => Present(Add(x.store, n)[x.quote[s]])
          BY <1>1, <1>2, <2>5, <3>1 DEF QQuote
        <5> QED BY <1>2, <3>1, <3>3, <4>2, <5>1 DEF QQuote
      <4> QED BY <4>1, <4>2
    <3> QED BY <3>5 DEF QQuote
  <2>10. \A i \in DOMAIN y.requests : QRequest(y.requests[i], n)
    <3>1. QRequest(r, n)
      BY <2>2, <2>3 DEF QRequest
    <3>2. \A i \in DOMAIN x.requests : x.requests[i].id \in OrderIds \cup {NoId}
      <4>1. \A i \in DOMAIN x.requests : x.requests[i] \in Requests
        BY <1>1
      <4> QED BY <4>1 DEF Requests
    <3>3. \A i \in DOMAIN x.requests : x.requests[i].id <= n
      <4>1. \A i \in DOMAIN x.requests : x.requests[i].id <= x.lastId
        BY <1>2, ZenonT(30) DEF QRequest
      <4>2. \A i \in DOMAIN x.requests : x.requests[i].id \in Int
        BY <3>2 DEF OrderIds, NoId
      <4>3. x.lastId \in Int /\ n \in Int /\ x.lastId < n
        BY <1>1, <2>2
      <4>4. \A k \in Int : k <= x.lastId => k <= n
        BY <4>3
      <4> QED BY <4>1, <4>2, <4>4
    <3>4. \A i \in DOMAIN x.requests : QRequest(x.requests[i], n)
      BY <1>2, <3>3 DEF QRequest
    <3> QED BY <2>4, <2>6, <3>1, <3>4
  <2>11. y.lastId >= lastId
    <3>1. y.lastId = n /\ n \in Int /\ n > x.lastId /\ x.lastId \in Int /\ x.lastId >= lastId
      BY <1>1, <2>2, <2>6
    <3>2. lastId \in Int
      BY IdTypes
    <3> QED BY <3>1, <3>2
  <2>12. ASSUME NotYetPlaced(requests) PROVE NotYetPlaced(y.requests)
    <3>1. exch[n] = "none" /\ n \notin late
      <4>1. n > lastId
        <5>1. lastId \in Int /\ x.lastId \in Int /\ n \in Int /\ n > x.lastId /\ x.lastId >= lastId
          BY <1>1, <2>2, IdTypes
        <5> QED BY <5>1
      <4> QED BY <2>2, <4>1, IdsBounded
    <3>2. \A i \in DOMAIN x.requests : x.requests[i] # r
      <4>1. \A i \in DOMAIN x.requests : x.requests[i].id <= x.lastId
        BY <1>2, ZenonT(30) DEF QRequest
      <4>2. ~(n <= x.lastId)
        BY <1>1, <2>2
      <4> QED BY <2>3, <4>1, <4>2
    <3> QED BY <1>1, <1>6, <2>3, <2>6, <2>12, <3>1, <3>2, AppendNotYetPlaced
  <2> QED BY <2>1, <2>6, <2>7, <2>8, <2>9, <2>10, <2>11, <2>12 DEF QInv
<1> QED BY <1>3, <1>4, <1>5
(* ReplaceSide keeps QInv: no order it amends is being amended. *)
LEMMA ReplaceSideQInv ==
    ASSUME IInv, NEW x, QInv(x), NEW side \in Sides, NEW granted \in BOOLEAN
    PROVE  QInv(ReplaceSide(x, side, granted))
<1> DEFINE c == x.quote[side]
           o == x.store[c]
           r == [op |-> "amend", id |-> c]
           y == [x EXCEPT !.store[c] = OnAmendRequested(o), !.requests = Append(@, r)]
<1>1. /\ x \in Contexts
      /\ x.store \in [OrderIds -> WorkingOrder \cup {NoOrder}]
      /\ x.lastId \in 0..MaxOrders /\ x.lastId >= lastId
      /\ x.quote \in [Sides -> OrderIds \cup {NoId}]
      /\ x.requests \in Seq(Requests)
  BY DEF QInv, Contexts, Stores
<1>2. QStore(x.store, x.lastId) /\ QQuote(x.quote, x.store, x.lastId)
      /\ \A i \in DOMAIN x.requests : QRequest(x.requests[i], x.lastId)
  BY DEF QInv
<1>3. CASE x.error # "none"
  BY <1>3, ZenonT(30) DEF ReplaceSide
<1>4. CASE x.error = "none" /\ (c = NoId \/ ~Present(o) \/ ~o.ordId)
  <2>1. ReplaceSide(x, side, granted) = PlaceSide(x, side, granted)
    BY <1>4, Zenon DEF ReplaceSide
  <2> QED BY <2>1, PlaceSideQInv
<1>5. CASE /\ x.error = "none" /\ c # NoId /\ Present(o) /\ o.ordId
           /\ o.state = "PendingAmend" \/ ~granted
  <2>1. ReplaceSide(x, side, granted) = x
    BY <1>5, ZenonT(30) DEF ReplaceSide
  <2> QED BY <2>1
<1>6. CASE /\ x.error = "none" /\ c # NoId /\ Present(o) /\ o.ordId
           /\ o.state # "PendingAmend" /\ granted
  <2>1. /\ c \in OrderIds /\ c # rtId /\ c <= x.lastId
        /\ \A a \in awaiting : c # a[2]
        /\ exch[c] # "none"
        /\ o \in WorkingOrder
    BY <1>1, <1>2, <1>6, NoOrderFacts, ZenonT(30) DEF QQuote, QStore
  <2>2. /\ ~OnAmendRequestedThrows(o)
        /\ OnAmendRequested(o) \in WorkingOrder
        /\ OnAmendRequested(o).ordId = o.ordId
        /\ Progress(OnAmendRequested(o)) = Progress(o)
        /\ Present(OnAmendRequested(o))
    BY <1>6, <2>1, AmendFacts, NoOrderFacts, ZenonT(30)
  <2>3. ReplaceSide(x, side, granted) = y
    BY <1>6, <2>2, ZenonT(30) DEF ReplaceSide
  <2>4. r \in Requests /\ r.op = "amend" /\ r.id = c
    BY <2>1 DEF Requests
  <2>5. /\ Append(x.requests, r) \in Seq(Requests)
        /\ \A i \in DOMAIN Append(x.requests, r) :
              \/ Append(x.requests, r)[i] = r
              \/ i \in DOMAIN x.requests /\ Append(x.requests, r)[i] = x.requests[i]
    <3>1. x.requests \in Seq(Requests) /\ r \in Requests
      BY <1>1, <2>4
    <3> HIDE DEF r
    <3> QED BY <3>1, AppendFacts
  <2> HIDE DEF r
  <2>6. /\ y.store = [x.store EXCEPT ![c] = OnAmendRequested(o)]
        /\ y.lastId = x.lastId /\ y.quote = x.quote
        /\ y.requests = Append(x.requests, r)
    BY <1>1 DEF Contexts
  <2>7. [x.store EXCEPT ![c] = OnAmendRequested(o)] \in Stores
    BY <1>1, <2>1, <2>2, Zenon DEF Stores
  <2>8. y \in Contexts
    BY <1>1, <2>5, <2>7, ZenonT(30) DEF Contexts
  <2>9. \A k \in OrderIds : y.store[k] = IF k = c THEN OnAmendRequested(o) ELSE x.store[k]
    BY <1>1, <2>6
  <2>10. o = x.store[c]
    OBVIOUS
  <2> HIDE DEF y, o
  <2>11. QStore(y.store, x.lastId)
    <3>1. \A k \in OrderIds : Present(y.store[k]) <=> Present(x.store[k])
      BY <1>6, <2>2, <2>9, <2>10, ZenonT(30)
    <3>2. \A k \in OrderIds : Progress(y.store[k]) = Progress(x.store[k])
      BY <2>2, <2>9, <2>10, ZenonT(30)
    <3>3. \A k \in OrderIds : y.store[k].ordId = x.store[k].ordId
      BY <2>2, <2>9, <2>10, ZenonT(30)
    <3>4. rtId \in OrderIds => y.store[rtId] = x.store[rtId]
      BY <2>1, <2>9
    <3> QED BY <1>2, <3>1, <3>2, <3>3, <3>4, Zenon DEF QStore
  <2>12. QQuote(x.quote, y.store, x.lastId)
    BY <1>1, <1>2, <2>2, <2>9, ZenonT(30) DEF QQuote
  <2>13. \A i \in DOMAIN y.requests : QRequest(y.requests[i], x.lastId)
    <3>1. QRequest(r, x.lastId)
      BY <1>6, <2>1, <2>4, ZenonT(30) DEF QRequest
    <3> QED BY <1>2, <2>5, <2>6, <3>1, ZenonT(30)
  <2>14. NotYetPlaced(requests) => NotYetPlaced(y.requests)
    <3>1. NotYetPlaced(requests) => NotYetPlaced(x.requests)
      BY DEF QInv
    <3> QED BY <1>1, <2>4, <2>6, <3>1, AppendNotYetPlaced
  <2> QED BY <1>1, <2>3, <2>6, <2>8, <2>11, <2>12, <2>13, <2>14, ZenonT(30) DEF QInv
<1> QED BY <1>3, <1>4, <1>5, <1>6

(* Filling a missing side keeps QInv. *)
LEMMA FillSideQInv ==
    ASSUME IInv, NEW x, QInv(x), NEW side \in Sides, NEW granted \in BOOLEAN
    PROVE  QInv(FillSide(x, side, granted))
BY PlaceSideQInv DEF FillSide

(* A quoting handler that did not run out of ids either throws at Add or
   leaves the state QInv describes. *)
LEMMA QuotingFacts ==
    ASSUME IInv, OnBookUpdate \/ OnTimer
    PROVE  /\ auth /\ ~killed
           /\ \/ Throw("Add")
              \/ \E x : /\ QInv(x)
                        /\ x.error = "none"
                        /\ store' = x.store /\ lastId' = x.lastId
                        /\ quote' = x.quote /\ requests' = x.requests
                        /\ quoted' \in BOOLEAN
                        /\ UNCHANGED <<status, killed, rtId, awaiting, conn, auth, responses,
                                       pushes, exchangeVars, faultVars>>
<1>1. auth /\ ~killed
  BY ZenonT(30) DEF OnBookUpdate, OnTimer, QuotingAllowed
<1>2. quoted \in BOOLEAN
  BY DEF IInv, TypeOK, EngineTypeOK
<1>3. \E x : \E isQuoted \in BOOLEAN : QInv(x) /\ QuoterDone(x, isQuoted)
  <2>1. QInv(Quoter)
    BY <1>1, QuoterQInv
  <2>2. "buy" \in Sides /\ "sell" \in Sides
    BY DEF Sides
  <2>3. CASE OnBookUpdate
    <3>1. PICK bid, ask \in BOOLEAN :
             QuoterDone(ReplaceSide(ReplaceSide(Quoter, "buy", bid), "sell", ask), TRUE)
      BY <2>3, ZenonT(30) DEF OnBookUpdate
    <3>2. QInv(ReplaceSide(Quoter, "buy", bid))
      BY <2>1, <2>2, ReplaceSideQInv
    <3>3. QInv(ReplaceSide(ReplaceSide(Quoter, "buy", bid), "sell", ask))
      BY <2>2, <3>2, ReplaceSideQInv
    <3> QED BY <3>1, <3>3, Zenon
  <2>4. CASE OnTimer
    <3>1. PICK bid, ask \in BOOLEAN :
             QuoterDone(FillSide(FillSide(Quoter, "buy", bid), "sell", ask), quoted)
      BY <2>4, ZenonT(30) DEF OnTimer
    <3>2. QInv(FillSide(Quoter, "buy", bid))
      BY <2>1, <2>2, FillSideQInv
    <3>3. QInv(FillSide(FillSide(Quoter, "buy", bid), "sell", ask))
      BY <2>2, <3>2, FillSideQInv
    <3> QED BY <1>2, <3>1, <3>3
  <2> QED BY <2>3, <2>4
<1>4. PICK x : \E isQuoted \in BOOLEAN : QInv(x) /\ QuoterDone(x, isQuoted)
  BY <1>3
<1>5. x.error \in {"none", "Add"}
  BY <1>4 DEF QInv, Contexts, QuoterDone
<1> QED BY <1>1, <1>4, <1>5, Zenon DEF QuoterDone
(* The quoting handlers keep the invariant. *)
LEMMA QuotingIInv == IInv /\ (OnBookUpdate \/ OnTimer) => IInv'
<1> SUFFICES ASSUME IInv, OnBookUpdate \/ OnTimer PROVE IInv'
  OBVIOUS
<1>1. CASE Throw("Add")
  BY <1>1, ThrowIInv
<1>2. ASSUME NEW x, QInv(x),
             store' = x.store, lastId' = x.lastId, quote' = x.quote, requests' = x.requests,
             quoted' \in BOOLEAN,
             UNCHANGED <<status, killed, rtId, awaiting, conn, auth, responses,
                         pushes, exchangeVars, faultVars>>
      PROVE  IInv'
  <2>1. /\ UNCHANGED <<status, killed, rtId, awaiting, conn, auth, responses, pushes, exch,
                       subscribed, late, disconnects, restErrors>>
        /\ auth
    BY <1>2, QuotingFacts, ZenonT(30) DEF exchangeVars, faultVars
  <2>2. /\ store' \in Stores
        /\ lastId' \in 0..MaxOrders /\ lastId' >= lastId
        /\ quote' \in [Sides -> OrderIds \cup {NoId}]
        /\ requests' \in Seq(Requests)
        /\ lastId \in Nat /\ rtId \in OrderIds \cup {NoId} /\ rtId <= lastId
    BY <1>2, IdTypes, IdsBounded, ZenonT(30) DEF QInv, Contexts
  <2>3. /\ QStore(store', lastId') /\ QQuote(quote', store', lastId')
        /\ \A i \in DOMAIN requests' : QRequest(requests'[i], lastId')
    BY <1>2 DEF QInv
  <2>4. EngineTypeOK' /\ (store \in Stores)' /\ NoIllegalTransition'
    <3>1. store' \in [OrderIds -> Order \cup {NoOrder}]
      BY <2>2, NoOrderFacts DEF Stores
    <3>2. quoted' \in BOOLEAN
      BY <1>2
    <3> QED BY <2>1, <2>2, <3>1, <3>2, ZenonT(30) DEF IInv, TypeOK, EngineTypeOK, NoIllegalTransition
  <2>5. SessionTypeOK' /\ ExchangeTypeOK'
    BY <2>1, <2>2 DEF IInv, TypeOK, SessionTypeOK, ExchangeTypeOK
  <2>6. IdsIssued'
    <3>1. \A c \in OrderIds : c > lastId' => c > lastId
      BY <2>2, BoundsAssumption DEF OrderIds
    <3>2. \A c \in OrderIds : c > lastId' =>
             ~Present(store'[c]) /\ exch[c] = "none" /\ c \notin late
      BY <2>3, <3>1 DEF QStore, IInv, IdsIssued
    <3>3. rtId <= lastId'
      BY <2>2, BoundsAssumption DEF OrderIds, NoId
    <3>4. \A s \in Sides : quote'[s] <= lastId'
      BY <2>3 DEF QQuote
    <3>5. \A i \in DOMAIN requests' :
             /\ requests'[i].id <= lastId'
             /\ requests'[i].op \in {"order", "amend", "cancel"} => requests'[i].id # NoId
      BY <2>3, Zenon DEF QRequest
    <3> QED BY <2>1, <3>2, <3>3, <3>4, <3>5 DEF IdsIssued, Tracked
  <2>7. SessionShape'
    <3>1. \A i \in DOMAIN requests' : requests'[i].op # "login"
      BY <2>3, Zenon DEF QRequest
    <3> QED BY <2>1, <3>1 DEF IInv, SessionShape
  <2>8. RoundTripShape'
    <3>1. \A a \in awaiting : \A s \in Sides : quote'[s] # a[2]
      <4>1. \A a \in awaiting : a[2] # NoId
        BY BoundsAssumption DEF IInv, TypeOK, EngineTypeOK, OrderIds, NoId
      <4> QED BY <2>3, <4>1 DEF QQuote
    <3>2. \A i \in DOMAIN requests' :
             <<requests'[i].op, requests'[i].id>> \in awaiting => requests'[i].id = rtId
      BY <2>3 DEF QRequest
    <3>3. \A op \in {"order", "amend"} : <<op, rtId>> \in awaiting => store'[rtId] = store[rtId]
      <4>1. \A op \in {"order", "amend"} : <<op, rtId>> \in awaiting => rtId \in OrderIds
        BY DEF IInv, TypeOK, EngineTypeOK
      <4> QED BY <2>3, <4>1 DEF QStore
    <3> QED BY <2>1, <3>1, <3>2, <3>3 DEF IInv, RoundTripShape
  <2>9. QuoterTracksStore'
    BY <2>1, <2>3 DEF QQuote, QuoterTracksStore, Tracked
  <2>10. Acknowledged'
    <3>1. \A c \in OrderIds : store'[c].ordId => exch[c] # "none"
      BY <2>3 DEF QStore
    <3>2. \A i \in DOMAIN requests' :
             requests'[i].op \in {"amend", "cancel"} => exch[requests'[i].id] # "none"
      BY <2>3, Zenon DEF QRequest
    <3> QED BY <2>1, <3>1, <3>2 DEF IInv, Acknowledged, NoPhantomAcknowledgement
  <2> QED BY <2>4, <2>5, <2>6, <2>7, <2>8, <2>9, <2>10 DEF IInv, TypeOK
<1> QED BY <1>1, <1>2, QuotingFacts

-----------------------------------------------------------------------------
(* The theorems. *)

(* Every step of the system keeps the invariant. *)
LEMMA NextIInv == IInv /\ [Next]_vars => IInv'
<1> SUFFICES ASSUME IInv, [Next]_vars PROVE IInv'
  OBVIOUS
<1>1. CASE RunStartupChecks
  BY <1>1, RunStartupChecksIInv
<1>2. CASE Session
  BY <1>2, ConnectIInv, ScheduleReconnectIInv, HandleLoginEventIInv DEF Session
<1>3. CASE RoundTrip
  BY <1>3, RoundTripIInv
<1>4. CASE OnBookUpdate \/ OnTimer
  BY <1>4, QuotingIInv
<1>5. CASE \E c \in OrderIds : HandleOrderEvent(c)
  BY <1>5, HandleOrderEventIInv
<1>6. CASE OnShutdownSignal \/ KillSwitchThrows
  BY <1>6, OnShutdownSignalIInv, KillSwitchThrowsIInv
<1>7. CASE CheckAndResolve \/ GetPendingOrdersThrows
  BY <1>7, CheckAndResolveIInv, GetPendingOrdersThrowsIInv
<1>8. CASE Exchange
  <2>1. CASE ExchangeLogin \/ ExchangeSubscribe
    BY <2>1, ExchangeLoginIInv, ExchangeSubscribeIInv
  <2>2. CASE ExchangeOrder \/ ExchangeAmend \/ ExchangeCancel
    BY <2>2, ExchangeOrderActs, ExchangeAmendActs, ExchangeCancelActs, ExchangeActsIInv
  <2>3. CASE \E c \in OrderIds : ExchangeLatePlacement(c) \/ ExchangeMoves(c)
    BY <2>3, ExchangeOwnActs, ExchangeActsIInv
  <2> QED BY <1>8, <2>1, <2>2, <2>3 DEF Exchange
<1>9. CASE UNCHANGED vars
  <2>1. UNCHANGED <<status, killed, store, lastId, quote, quoted, rtId, awaiting, conn, auth,
                    requests, responses, pushes, exch, subscribed, late, disconnects, restErrors>>
    BY <1>9 DEF vars, engineVars, sessionVars, exchangeVars, faultVars
  <2>2. TypeOK'
    BY <2>1 DEF IInv, TypeOK, EngineTypeOK, SessionTypeOK, ExchangeTypeOK
  <2>3. (store \in Stores)' /\ IdsIssued' /\ QuoterTracksStore' /\ NoIllegalTransition'
    BY <2>1 DEF IInv, IdsIssued, QuoterTracksStore, Tracked, NoIllegalTransition
  <2>4. SessionShape' /\ RoundTripShape' /\ Acknowledged'
    BY <2>1 DEF IInv, SessionShape, RoundTripShape, Acknowledged, NoPhantomAcknowledgement
  <2> QED BY <2>2, <2>3, <2>4 DEF IInv
<1> QED BY <1>1, <1>2, <1>3, <1>4, <1>5, <1>6, <1>7, <1>8, <1>9 DEF Next

(* The invariant holds in every behaviour, for every number of orders, store
   capacity, risk limit, and number of faults. *)
THEOREM Invariance == Spec => []IInv
<1>1. Init => IInv
  BY InitIInv
<1>2. IInv /\ [Next]_vars => IInv'
  BY NextIInv
<1> QED BY <1>1, <1>2, PTL DEF Spec
(* Type correctness of the composed engine. *)
THEOREM TypeCorrect == Spec => []TypeOK
<1>1. IInv => TypeOK
  BY DEF IInv
<1> QED BY <1>1, Invariance, PTL

(* Orders that ended never stay in the store: FindByClOrdId, ForEach and the
   kill switch only ever see working orders. *)
THEOREM StoreHoldsWorkingOrders == Spec => []NoTerminalOrderInStore
<1>1. IInv => NoTerminalOrderInStore
  <2> SUFFICES ASSUME IInv, NEW c \in OrderIds PROVE store[c].state \notin TerminalStates
    BY DEF NoTerminalOrderInStore
  <2>1. store[c] \in WorkingOrder \cup {NoOrder}
    BY DEF IInv, Stores
  <2> QED BY <2>1, NoOrderFacts DEF IsTerminal, TerminalStates
<1> QED BY <1>1, Invariance, PTL

(* The throwing branches of ApplyEvent, OnAmendRequested and
   OnCancelRequested are never reached. *)
THEOREM TransitionsAreLegal == Spec => []NoIllegalTransition
<1>1. IInv => NoIllegalTransition
  BY DEF IInv
<1> QED BY <1>1, Invariance, PTL

(* The quoter's ids are live entries of the store, distinct, and not the
   round trip's. *)
THEOREM QuoterInStep == Spec => []QuoterTracksStore
<1>1. IInv => QuoterTracksStore
  BY DEF IInv
<1> QED BY <1>1, Invariance, PTL

(* Only orders the exchange has received are taken for acknowledged, amended
   or cancelled. *)
THEOREM AcknowledgementsAreReal == Spec => []NoPhantomAcknowledgement
<1>1. IInv => NoPhantomAcknowledgement
  BY DEF IInv, Acknowledged
<1> QED BY <1>1, Invariance, PTL

(* Trading requests only ever wait on a connected, logged-in session. *)
THEOREM NoTradingBeforeLogin == Spec => []RequestsNeedLogin
<1>1. IInv => RequestsNeedLogin
  <2> SUFFICES ASSUME IInv PROVE RequestsNeedLogin
    OBVIOUS
  <2>1. auth => conn
    BY DEF IInv, SessionShape
  <2>2. ASSUME NEW i \in DOMAIN requests, requests[i].op # "login" PROVE auth
    <3>1. CASE ~auth /\ requests = <<>>
      BY <2>2, <3>1
    <3>2. CASE ~auth /\ requests = <<[op |-> "login", id |-> NoId]>>
      BY <2>2, <3>2
    <3> QED BY <3>1, <3>2 DEF IInv, SessionShape
  <2> QED BY <2>1, <2>2 DEF RequestsNeedLogin
<1> QED BY <1>1, Invariance, PTL

-----------------------------------------------------------------------------
(* Action properties. *)

(* A process that ends forgets its orders. *)
LEMMA EndedStore ==
    ASSUME NEW how, ProcessEnds(how)
    PROVE  /\ \A c \in OrderIds : ~Present(store'[c])
           /\ lastId' = lastId
           /\ ~killed'
BY NoOrderFacts DEF ProcessEnds

(* What an order's owner knows of it never goes backwards. *)
THEOREM OrdersNeverRegress == Spec => NeverRegresses
<1> DEFINE Forward == \A c \in OrderIds : Tracked(c) /\ Present(store'[c])
                                            => Progress(store'[c]) >= Progress(store[c])
<1>1. IInv /\ [Next]_vars => [Forward]_vars
  <2> SUFFICES ASSUME IInv, Next PROVE Forward
    BY DEF vars
  <2>1. \A o \in WorkingOrder : Progress(o) >= Progress(o)
    BY DEF Progress
  <2>2. \A c \in OrderIds : Tracked(c) => store[c] \in WorkingOrder
    BY NoOrderFacts DEF IInv, Stores, Tracked
  <2>3. store' = store => Forward
    BY <2>1, <2>2
  <2>4. (\E how : ProcessEnds(how)) => Forward
    BY EndedStore
  <2>5. CASE RunStartupChecks \/ Connect \/ ScheduleReconnect
    BY <2>3, <2>5 DEF RunStartupChecks, Connect, ScheduleReconnect, engineVars
  <2>6. CASE HandleLoginEvent \/ CheckAndResolve
    <3>1. CASE store' = store \/ \E how : ProcessEnds(how)
      BY <2>3, <2>4, <3>1
    <3>2. ASSUME NEW listed \in PendingOrdersReplies, NEW id, id = lastId + 1,
                 store' \in {Reconciled(listed), Add(Reconciled(listed), id)},
                 NEW c \in OrderIds, Tracked(c), Present(store'[c])
          PROVE  Progress(store'[c]) >= Progress(store[c])
      <4>1. c # id
        <5>1. ~(c > lastId) /\ lastId \in Nat
          BY <3>2, IdTypes, IdsBounded
        <5> QED BY <3>2, <5>1
      <4>2. store'[c] = Reconciled(listed)[c]
        BY <3>2, <4>1 DEF Add
      <4>3. Reconciled(listed)[c] = store[c]
        BY <3>2, <4>2, ReconciledFacts
      <4> QED BY <2>1, <2>2, <3>2, <4>2, <4>3
    <3>3. \/ store' = store
          \/ \E how : ProcessEnds(how)
          \/ \E listed \in PendingOrdersReplies :
                store' \in {Reconciled(listed), Add(Reconciled(listed), lastId + 1)}
      BY <2>6 DEF HandleLoginEvent, CheckAndResolve, Throw, engineVars
    <3> QED BY <3>1, <3>2, <3>3
  <2>7. CASE RoundTrip
    <3>1. CASE \E site \in {"GetOrder", "OnRequestRejected"} : Throw(site)
      BY <2>4, <3>1 DEF Throw
    <3>2. ASSUME NEW op \in {"order", "amend", "cancel"},
                 NEW next \in {"none", "amend", "cancel"}, NEW after,
                 Dispatched(op),
                 RoundTripStep(op, next, "none", after),
                 Present(store[rtId]) => Progress(after) = Progress(store[rtId])
          PROVE  Forward
      <4>1. store' = [store EXCEPT ![rtId] = after] /\ rtId \in OrderIds
        BY <3>2, DispatchedFacts DEF RoundTripStep
      <4>2. store \in [OrderIds -> WorkingOrder \cup {NoOrder}]
        BY DEF IInv, Stores
      <4>3. \A c \in OrderIds : c # rtId => store'[c] = store[c]
        BY <4>1, <4>2
      <4>4. store'[rtId] = after
        BY <4>1, <4>2
      <4>5. Tracked(rtId) => Progress(store'[rtId]) >= Progress(store[rtId])
        BY <2>1, <2>2, <3>2, <4>1, <4>4 DEF Tracked
      <4> QED BY <2>1, <2>2, <4>3, <4>5
    <3> QED BY <2>7, <3>1, <3>2, RoundTripFacts
  <2>8. CASE OnBookUpdate \/ OnTimer
    <3>1. CASE Throw("Add")
      BY <2>4, <3>1 DEF Throw
    <3>2. ASSUME NEW x, QInv(x), store' = x.store PROVE Forward
      BY <3>2 DEF QInv, QStore, Tracked
    <3> QED BY <2>8, <3>1, <3>2, QuotingFacts
  <2>9. CASE \E c \in OrderIds : HandleOrderEvent(c)
    <3>1. PICK c \in OrderIds : HandleOrderEvent(c)
      BY <2>9
    <3>2. /\ \A k \in OrderIds : k # c => store'[k] = store[k]
          /\ Tracked(c) /\ Present(store'[c]) => Progress(store'[c]) >= Progress(store[c])
      BY <3>1, HandleOrderEventFacts, ZenonT(30)
    <3> QED BY <2>1, <2>2, <3>2
  <2>10. CASE OnShutdownSignal \/ KillSwitchThrows \/ GetPendingOrdersThrows
    BY <2>4, <2>10, Zenon DEF OnShutdownSignal, KillSwitchThrows, GetPendingOrdersThrows, Throw
  <2>11. CASE Exchange
    BY <2>3, <2>11, Zenon DEF Exchange, ExchangeLogin, ExchangeSubscribe, ExchangeOrder, ExchangeAmend,
          ExchangeCancel, ExchangeLatePlacement, ExchangeMoves, engineVars
  <2> QED BY <2>5, <2>6, <2>7, <2>8, <2>9, <2>10, <2>11 DEF Next, Session
<1> QED BY <1>1, Invariance, PTL DEF Spec, NeverRegresses
(* The startup checks run once, before anything else can happen. *)
LEMMA BootFirst == Spec => [](status = "boot" => ~killed)
<1> DEFINE Quiet == status = "boot" => ~killed
<1>1. Init => Quiet
  BY DEF Init
<1>2. Quiet /\ IInv /\ [Next]_vars => Quiet'
  <2> SUFFICES ASSUME Quiet, IInv, Next PROVE status' # "boot"
    BY DEF vars, engineVars
  <2>1. CASE RunStartupChecks
    BY <2>1 DEF RunStartupChecks
  <2>2. CASE Session
    BY <2>2, Zenon DEF Session, Connect, ScheduleReconnect, HandleLoginEvent, Received, Running, Throw,
          ProcessEnds
  <2>3. CASE RoundTrip
    <3>1. status = "running"
      BY <2>3 DEF RoundTrip, OnOrderResponse, OnAmendResponse, OnCancelResponse, Dispatched,
            Received, Running
    <3> QED BY <2>3, <3>1, RoundTripFacts, Zenon DEF RoundTripStep, Throw, ProcessEnds
  <2>4. CASE OnBookUpdate \/ OnTimer
    <3>1. status = "running"
      BY <2>4, Zenon DEF OnBookUpdate, OnTimer, QuotingAllowed, Running
    <3> QED BY <2>4, <3>1, QuotingFacts, Zenon DEF Throw, ProcessEnds
  <2>5. CASE \E c \in OrderIds : HandleOrderEvent(c)
    BY <2>5, Zenon DEF HandleOrderEvent, Running, Throw, ProcessEnds
  <2>6. CASE OnShutdownSignal \/ CheckAndResolve \/ GetPendingOrdersThrows \/ KillSwitchThrows
    BY <2>6 DEF OnShutdownSignal, CheckAndResolve, GetPendingOrdersThrows, KillSwitchThrows,
          Running, Throw, ProcessEnds
  <2>7. CASE Exchange
    BY <2>7, Zenon DEF Exchange, ExchangeLogin, ExchangeSubscribe, ExchangeOrder, ExchangeAmend,
          ExchangeCancel, ExchangeLatePlacement, ExchangeMoves, Requested, Running
  <2> QED BY <2>1, <2>2, <2>3, <2>4, <2>5, <2>6, <2>7 DEF Next
<1> QED BY <1>1, <1>2, Invariance, PTL DEF Spec

(* Once the kill switch has triggered, no handler issues an id. *)
THEOREM KillStopsPlacement == Spec => NoPlacementAfterKill
<1> DEFINE Stopped == killed => lastId' = lastId
<1>1. IInv /\ (status = "boot" => ~killed) /\ [Next]_vars => [Stopped]_vars
  <2> SUFFICES ASSUME IInv, status = "boot" => ~killed, Next, killed PROVE lastId' = lastId
    BY DEF vars
  <2>1. (\E how : ProcessEnds(how)) => lastId' = lastId
    BY EndedStore
  <2>2. ~RunStartupChecks
    BY Zenon DEF RunStartupChecks
  <2>3. CASE Connect \/ ScheduleReconnect \/ CheckAndResolve \/ GetPendingOrdersThrows
    BY <2>1, <2>3, Zenon DEF Connect, ScheduleReconnect, CheckAndResolve, GetPendingOrdersThrows, Throw,
                      engineVars
  <2>4. CASE HandleLoginEvent
    BY <2>1, <2>4, ZenonT(30) DEF HandleLoginEvent, Throw, engineVars
  <2>5. CASE RoundTrip
    BY <2>1, <2>5, RoundTripFacts, Zenon DEF RoundTripStep, Throw
  <2>6. ~(OnBookUpdate \/ OnTimer)
    BY DEF OnBookUpdate, OnTimer, QuotingAllowed
  <2>7. CASE \E c \in OrderIds : HandleOrderEvent(c)
    BY <2>7, HandleOrderEventFacts, Zenon
  <2>8. CASE OnShutdownSignal \/ KillSwitchThrows
    BY <2>1, <2>8 DEF OnShutdownSignal, KillSwitchThrows
  <2>9. CASE Exchange
    BY <2>9, Zenon DEF Exchange, ExchangeLogin, ExchangeSubscribe, ExchangeOrder, ExchangeAmend,
          ExchangeCancel, ExchangeLatePlacement, ExchangeMoves, engineVars
  <2> QED BY <2>2, <2>3, <2>4, <2>5, <2>6, <2>7, <2>8, <2>9 DEF Next, Session
<1> QED BY <1>1, Invariance, BootFirst, PTL DEF Spec, NoPlacementAfterKill

(* When the kill switch triggers and no cancel is refused, every order of the
   store whose ordId is known is closed. *)
THEOREM KillCancelsKnownOrders == Spec => KnownOrdersCancelledByKill
<1> DEFINE Cancelled == ~killed /\ killed' /\ restErrors' = restErrors
                          => \A c \in OrderIds : store[c].ordId => exch'[c] = "closed"
<1>1. IInv /\ [Next]_vars => [Cancelled]_vars
  <2> SUFFICES ASSUME IInv, Next, ~killed, killed', restErrors' = restErrors,
                      NEW c \in OrderIds, store[c].ordId
               PROVE  exch'[c] = "closed"
    BY DEF vars
  <2>1. ~\E how : ProcessEnds(how)
    BY EndedStore
  <2>2. killed' # killed
    BY Zenon
  <2>3. PICK k \in OrderIds : HandleOrderEvent(k)
    <3>1. ~RunStartupChecks /\ ~Session /\ ~OnBookUpdate /\ ~OnTimer
      BY <2>1, <2>2, Zenon DEF RunStartupChecks, Session, Connect, ScheduleReconnect, HandleLoginEvent,
            Throw, engineVars, OnBookUpdate, OnTimer, QuoterDone
    <3>2. ~RoundTrip
      BY <2>1, <2>2, RoundTripFacts, Zenon DEF RoundTripStep, Throw
    <3>3. ~OnShutdownSignal /\ ~CheckAndResolve /\ ~GetPendingOrdersThrows /\ ~KillSwitchThrows
      BY <2>1, <2>2, ZenonT(30) DEF OnShutdownSignal, CheckAndResolve, GetPendingOrdersThrows,
            KillSwitchThrows, Throw
    <3>4. ~Exchange
      BY <2>2, Zenon DEF Exchange, ExchangeLogin, ExchangeSubscribe, ExchangeOrder, ExchangeAmend,
            ExchangeCancel, ExchangeLatePlacement, ExchangeMoves, engineVars
    <3> QED BY <3>1, <3>2, <3>3, <3>4 DEF Next
  <2>4. PICK refused \in RefusedCancels :
           /\ exch' = CloseOrders((Cancellable \cap OpenOrders) \ refused)
           /\ restErrors' = RestErrorsAfter(refused # {})
    BY <2>1, <2>2, <2>3, Zenon DEF HandleOrderEvent, Throw
  <2>5. refused = {}
    BY <2>4 DEF RestErrorsAfter, IInv, TypeOK, ExchangeTypeOK
  <2>6. Tracked(c)
    <3>1. store[c] # NoOrder
      BY NoOrderFacts
    <3> QED BY <3>1, NoOrderFacts DEF IInv, Stores, Tracked
  <2>7. exch[c] \in {"live", "partial", "closed"}
    BY DEF IInv, Acknowledged, NoPhantomAcknowledgement, TypeOK, ExchangeTypeOK, ExchangeStates
  <2> QED BY <2>4, <2>5, <2>6, <2>7 DEF CloseOrders, Cancellable, OpenOrders, Open
<1> QED BY <1>1, Invariance, PTL DEF Spec, KnownOrdersCancelledByKill

(* A login that lists the open orders leaves exactly those in the store, but
   for the order the round trip places in the same handler. *)
THEOREM LoginAligns == Spec => LoginAlignsStore
<1> DEFINE Aligned == ~auth /\ auth' /\ restErrors' = restErrors
                        => TrackedIds(store') \ ((lastId + 1)..lastId') = OpenOrders
<1>1. IInv /\ [Next]_vars => [Aligned]_vars
  <2> SUFFICES ASSUME IInv, Next, ~auth, auth', restErrors' = restErrors
               PROVE  TrackedIds(store') \ ((lastId + 1)..lastId') = OpenOrders
    BY DEF vars
  <2>1. auth' # auth
    BY Zenon
  <2>2. \A how : ~ProcessEnds(how)
    BY DEF ProcessEnds
  <2>3. HandleLoginEvent
    <3>1. ~RunStartupChecks /\ ~Connect /\ ~ScheduleReconnect /\ ~OnBookUpdate /\ ~OnTimer
      BY <2>1, <2>2, ZenonT(30) DEF RunStartupChecks, sessionVars, Connect, ScheduleReconnect, OnBookUpdate,
            OnTimer, QuoterDone, Throw
    <3>2. ~RoundTrip
      BY <2>1, <2>2, RoundTripFacts, ZenonT(30) DEF RoundTripStep, Throw
    <3>3. \A c \in OrderIds : ~HandleOrderEvent(c)
      BY <2>1, HandleOrderEventFacts, ZenonT(30)
    <3>4. ~OnShutdownSignal /\ ~CheckAndResolve /\ ~GetPendingOrdersThrows /\ ~KillSwitchThrows
      BY <2>1, <2>2, ZenonT(30) DEF OnShutdownSignal, CheckAndResolve, GetPendingOrdersThrows,
            KillSwitchThrows, Throw, sessionVars
    <3>5. ~Exchange
      BY <2>1, Zenon DEF Exchange, ExchangeLogin, ExchangeSubscribe, ExchangeOrder, ExchangeAmend,
            ExchangeCancel, ExchangeLatePlacement, ExchangeMoves
    <3> QED BY <3>1, <3>2, <3>3, <3>4, <3>5 DEF Next, Session
  <2>4. PICK listed \in PendingOrdersReplies :
           \E start \in BOOLEAN :
              (start => lastId + 1 \in OrderIds) /\ LoginDone(listed, start, lastId + 1)
    BY <2>1, <2>2, <2>3, Zenon DEF HandleLoginEvent, LoginDone, Throw
  <2>5. PICK start \in BOOLEAN :
           (start => lastId + 1 \in OrderIds) /\ LoginDone(listed, start, lastId + 1)
    BY <2>4
  <2>6. listed = OpenOrders
    <3>1. restErrors \in Nat
      <4>1. ExchangeTypeOK
        BY Zenon DEF IInv, TypeOK
      <4> QED BY <4>1 DEF ExchangeTypeOK
    <3>2. restErrors' = RestErrorsAfter(listed # OpenOrders)
      BY <2>5, Zenon DEF LoginDone
    <3> QED BY <3>1, <3>2 DEF RestErrorsAfter
  <2> DEFINE known == Reconciled(listed)
  <2>7. known \in Stores /\ TrackedIds(known) = OpenOrders
    <3>1. /\ known \in Stores
          /\ \A c \in OrderIds : Present(known[c]) => c \in listed
      BY ReconciledFacts
    <3>2. \A c \in OrderIds : c \in listed => Present(known[c])
      <4> SUFFICES ASSUME NEW c \in OrderIds, c \in listed PROVE Present(known[c])
        OBVIOUS
      <4>1. CASE Tracked(c)
        BY <4>1 DEF Reconciled, Tracked
      <4>2. CASE ~Tracked(c)
        <5>1. known[c] = ApplyEvent(NewOrder, StateEvent(c))
          BY <4>2 DEF Reconciled
        <5>2. StateEvent(c) \in {"Live", "PartialFill"}
          BY DEF StateEvent
        <5>3. AfterEvent(NewOrder, StateEvent(c)) # "Absent"
          BY <5>2, NewOrderFacts DEF AfterEvent, AfterLive
        <5>4. ApplyEvent(NewOrder, StateEvent(c)).state = AfterEvent(NewOrder, StateEvent(c))
          BY DEF ApplyEvent, NewOrder
        <5> QED BY <5>1, <5>3, <5>4 DEF Present
      <4> QED BY <4>1, <4>2
    <3> QED BY <2>6, <3>1, <3>2 DEF TrackedIds, OpenOrders
  <2>8. lastId \in Nat /\ \A c \in OpenOrders : c \in OrderIds /\ ~(c > lastId)
    BY IdTypes, IdsBounded DEF OpenOrders, Open
  <2>9. CASE ~start
    <3>1. store' = known /\ lastId' = lastId
      BY <2>5, <2>9 DEF LoginDone
    <3>2. (lastId + 1)..lastId' = {}
      BY <2>8, <3>1
    <3> QED BY <2>7, <3>1, <3>2
  <2>10. CASE start
    <3>1. store' = Add(known, lastId + 1) /\ lastId' = lastId + 1 /\ lastId + 1 \in OrderIds
      BY <2>5, <2>10 DEF LoginDone
    <3>2. (lastId + 1)..lastId' = {lastId + 1}
      BY <2>8, <3>1
    <3> HIDE DEF known
    <3>3. \A c \in OrderIds : c # lastId + 1 => store'[c] = known[c]
      BY <2>7, <3>1, AddFacts
    <3>4. lastId + 1 \notin OpenOrders
      BY <2>8
    <3> QED BY <2>7, <3>2, <3>3, <3>4, ZenonT(30) DEF TrackedIds
  <2> QED BY <2>9, <2>10
<1> QED BY <1>1, Invariance, PTL DEF Spec, LoginAlignsStore

-----------------------------------------------------------------------------
(* Orders given up: EndsAreFinal is kept by every step. *)

(* The order of a placement that waits is one of the ids given out. *)
LEMMA PlacementIds ==
    ASSUME IInv
    PROVE  \A i \in DOMAIN requests : requests[i].op = "order" => requests[i].id \in OrderIds
<1>1. \A i \in DOMAIN requests : requests[i] \in Requests
  BY DEF IInv, TypeOK, SessionTypeOK
<1> QED BY <1>1 DEF Requests, IInv, IdsIssued

(* A push that ends its order. *)
IsEnd(e) == e.type \in {"Fill", "Cancel"}

(* Ends stay real as long as closed orders stay closed, and so do the ends a
   push adds, when the orders it is about are closed. *)
LEMMA PushEnds ==
    ASSUME NEW p \in [OrderIds -> Seq(Pushes)], EndsAreReal(p, exch),
           NEW ids \in SUBSET OrderIds, NEW e \in Pushes, NEW x,
           \A k \in OrderIds : exch[k] = "closed" => x[k] = "closed",
           IsEnd(e) => \A k \in ids : x[k] = "closed"
    PROVE  EndsAreReal(p, x) /\ EndsAreReal(PushTo(p, ids, e), x)
<1> DEFINE after == PushTo(p, ids, e)
<1>1. EndsAreReal(p, x)
  BY DEF EndsAreReal
<1>2. ASSUME NEW c \in OrderIds, NEW i \in DOMAIN after[c], after[c][i].type \in {"Fill", "Cancel"}
      PROVE  x[c] = "closed"
  <2>1. after[c] = p[c] \/ (c \in ids /\ after[c] = Append(p[c], e))
    BY DEF PushTo
  <2>2. \A i1 \in DOMAIN Append(p[c], e) :
           Append(p[c], e)[i1] = e \/ (i1 \in DOMAIN p[c] /\ Append(p[c], e)[i1] = p[c][i1])
    BY AppendFacts
  <2> HIDE DEF after
  <2>3. CASE after[c] = p[c]
    BY <1>1, <1>2, <2>3 DEF EndsAreReal
  <2>4. CASE c \in ids /\ after[c] = Append(p[c], e)
    <3>1. after[c][i] = e \/ (i \in DOMAIN p[c] /\ after[c][i] = p[c][i])
      BY <1>2, <2>2, <2>4
    <3> QED BY <1>1, <1>2, <2>4, <3>1 DEF EndsAreReal, IsEnd
  <2> QED BY <2>1, <2>3, <2>4
<1> QED BY <1>1, <1>2 DEF EndsAreReal

(* What is left of a queue was not placed twice before, and holds no second
   placement of the order at its head. *)
LEMMA TailNotYetPlaced ==
    ASSUME NEW q \in Seq(Requests), q # <<>>, NotYetPlaced(q)
    PROVE  /\ NotYetPlaced(Tail(q))
           /\ Head(q).op = "order" => /\ exch[Head(q).id] = "none"
                                      /\ Head(q).id \notin late
                                      /\ \A i \in DOMAIN Tail(q) : Tail(q)[i].op = "order" =>
                                                                   Tail(q)[i].id # Head(q).id
<1> DEFINE t == Tail(q)
<1>1. /\ 1 \in DOMAIN q /\ Head(q) = q[1]
      /\ \A i \in DOMAIN t : i + 1 \in DOMAIN q /\ t[i] = q[i + 1]
  BY TailFacts
<1>2. DOMAIN t \subseteq Nat \ {0}
  OBVIOUS
<1>3. \A i, k \in DOMAIN q : q[i].op = q[k].op /\ q[i].id = q[k].id => q[i] = q[k]
  <2>1. \A i \in DOMAIN q : q[i] \in Requests
    OBVIOUS
  <2> QED BY <2>1 DEF Requests
<1> HIDE DEF t
<1>4. ASSUME NEW i \in DOMAIN t, t[i].op = "order"
      PROVE  /\ exch[t[i].id] = "none" /\ t[i].id \notin late
             /\ \A k \in DOMAIN t : t[k] = t[i] => k = i
             /\ Head(q).op = "order" => t[i].id # Head(q).id
  <2>1. i + 1 \in DOMAIN q /\ t[i] = q[i + 1] /\ i + 1 # 1
    BY <1>1, <1>2
  <2>2. /\ exch[t[i].id] = "none" /\ t[i].id \notin late
        /\ \A k \in DOMAIN q : q[k] = q[i + 1] => k = i + 1
    BY <1>4, <2>1 DEF NotYetPlaced
  <2>3. ASSUME NEW k \in DOMAIN t, t[k] = t[i] PROVE k = i
    <3>1. k + 1 = i + 1
      BY <1>1, <2>1, <2>2, <2>3
    <3> QED BY <1>2, <3>1
  <2>4. q[1] # q[i + 1]
    BY <1>1, <2>1, <2>2
  <2>5. Head(q).op = "order" => t[i].id # Head(q).id
    BY <1>1, <1>3, <1>4, <2>1, <2>4
  <2> QED BY <2>2, <2>3, <2>5
<1>5. Head(q).op = "order" => exch[Head(q).id] = "none" /\ Head(q).id \notin late
  BY <1>1 DEF NotYetPlaced
<1> QED BY <1>4, <1>5 DEF NotYetPlaced, t

(* EndsAreFinal is kept when the orders still to be placed stay unknown to the
   exchange and the ends on their way stay real. *)
LEMMA EndsFrame ==
    ASSUME EndsAreFinal, late' \subseteq late, NotYetPlaced(requests'),
           \A k \in late' : exch'[k] = exch[k],
           \A i \in DOMAIN requests' : requests'[i].op = "order" =>
                                          exch'[requests'[i].id] = exch[requests'[i].id],
           EndsAreReal(pushes', exch')
    PROVE  EndsAreFinal'
<1>1. \A k \in late' : exch'[k] = "none"
  BY DEF EndsAreFinal
<1>2. NotYetPlaced(requests)'
  BY DEF NotYetPlaced
<1>3. EndsAreReal(pushes, exch)'
  BY DEF EndsAreReal
<1> QED BY <1>1, <1>2, <1>3 DEF EndsAreFinal

(* In particular when only requests are added or taken away. *)
LEMMA EndsQuiet ==
    ASSUME EndsAreFinal, exch' = exch, late' = late, pushes' = pushes, NotYetPlaced(requests')
    PROVE  EndsAreFinal'
<1>1. EndsAreReal(pushes', exch')
  BY DEF EndsAreFinal
<1> QED BY <1>1, EndsFrame

(* Nothing is on its way when the process is over. *)
LEMMA EndsOver ==
    ASSUME IInv, EndsAreFinal, NEW how, ProcessEnds(how), ExchangeSteps(exch')
    PROVE  EndsAreFinal'
<1>1. /\ late' = late /\ late \subseteq OrderIds
      /\ requests' = <<>> /\ pushes' = [c \in OrderIds |-> <<>>]
  BY DEF ProcessEnds, IInv, TypeOK, ExchangeTypeOK
<1>2. \A k \in late : exch'[k] = exch[k]
  BY <1>1 DEF EndsAreFinal, ExchangeSteps
<1>3. NotYetPlaced(requests') /\ DOMAIN requests' = {}
  BY <1>1 DEF NotYetPlaced
<1>4. EndsAreReal(pushes', exch')
  BY <1>1 DEF EndsAreReal
<1> QED BY <1>1, <1>2, <1>3, <1>4, EndsFrame

(* A push is taken off its queue; the kill switch adds the ends of the orders
   it closes. *)
LEMMA HandleOrderEventEnds ==
    ASSUME IInv, EndsAreFinal, NEW c \in OrderIds, HandleOrderEvent(c)
    PROVE  /\ EndsAreFinal'
           /\ Head(pushes[c]).type \in {"Fill", "Cancel"} => exch'[c] = "closed"
<1> DEFINE unread == [pushes EXCEPT ![c] = Tail(@)]
<1>1. /\ pushes \in [OrderIds -> Seq(Pushes)] /\ pushes[c] \in Seq(Pushes) /\ pushes[c] # <<>>
      /\ late \subseteq OrderIds
      /\ exch \in [OrderIds -> ExchangeStates]
  BY ZenonT(30) DEF IInv, TypeOK, SessionTypeOK, ExchangeTypeOK, HandleOrderEvent
<1>2. /\ Tail(pushes[c]) \in Seq(Pushes)
      /\ 1 \in DOMAIN pushes[c] /\ Head(pushes[c]) = pushes[c][1]
      /\ \A i \in DOMAIN Tail(pushes[c]) : i + 1 \in DOMAIN pushes[c]
                                           /\ Tail(pushes[c])[i] = pushes[c][i + 1]
  BY <1>1, TailFacts
<1>3. /\ unread \in [OrderIds -> Seq(Pushes)]
      /\ unread[c] = Tail(pushes[c])
      /\ \A k \in OrderIds : k # c => unread[k] = pushes[k]
  BY <1>1, <1>2
<1>4. PICK ids \in SUBSET OpenOrders :
         /\ exch' = exch \/ exch' = CloseOrders(ids)
         /\ pushes' = unread \/ (exch' = CloseOrders(ids) /\ pushes' = PushTo(unread, ids, CancelPush))
  <2>1. ~Throw("ApplyEvent")
    BY HandleOrderEventFacts, ZenonT(30) DEF HandleOrderEvent, Running, Throw, ProcessEnds
  <2>2. \/ pushes' = unread /\ exch' = exch
        \/ \E refused \in RefusedCancels :
              LET closed == (Cancellable \cap OpenOrders) \ refused
              IN  exch' = CloseOrders(closed) /\ pushes' = PushTo(unread, closed, CancelPush)
    BY <2>1, ZenonT(30) DEF HandleOrderEvent
  <2> QED BY <2>2, Zenon
<1> HIDE DEF unread
<1>5. EndsAreReal(unread, exch)
  <2>1. ASSUME NEW k \in OrderIds, NEW i \in DOMAIN unread[k], unread[k][i].type \in {"Fill", "Cancel"}
        PROVE  exch[k] = "closed"
    <3>1. CASE k = c
      <4>1. i + 1 \in DOMAIN pushes[c] /\ pushes[c][i + 1] = unread[k][i]
        BY <1>2, <1>3, <2>1, <3>1
      <4> QED BY <2>1, <3>1, <4>1 DEF EndsAreFinal, EndsAreReal
    <3>2. CASE k # c
      BY <1>3, <2>1, <3>2 DEF EndsAreFinal, EndsAreReal
    <3> QED BY <3>1, <3>2
  <2> QED BY <2>1 DEF EndsAreReal
<1>6. /\ \A k \in OrderIds : exch[k] = "closed" => exch'[k] = "closed"
      /\ \A k \in OrderIds : exch[k] = "none" => exch'[k] = "none"
      /\ exch' = CloseOrders(ids) => \A k \in ids : exch'[k] = "closed"
  BY <1>4 DEF CloseOrders, OpenOrders, Open
<1>7. EndsAreReal(pushes', exch')
  <2>1. CancelPush \in Pushes /\ ids \in SUBSET OrderIds
    BY DEF CancelPush, Pushes, EventTypes, OpenOrders
  <2>2. EndsAreReal(unread, exch')
    BY <1>5, <1>6 DEF EndsAreReal
  <2>3. CASE exch' = CloseOrders(ids) /\ pushes' = PushTo(unread, ids, CancelPush)
    <3>1. \A k \in ids : exch'[k] = "closed"
      BY <1>6, <2>3
    <3>2. EndsAreReal(PushTo(unread, ids, CancelPush), exch')
      BY <1>3, <1>5, <1>6, <2>1, <3>1, PushEnds
    <3> QED BY <2>3, <3>2
  <2> QED BY <1>4, <2>2, <2>3
<1>8. EndsAreFinal'
  <2>1. requests' = requests /\ late' = late
    BY HandleOrderEventFacts, ZenonT(30)
  <2>2. \A i \in DOMAIN requests : requests[i].op = "order" =>
           requests[i].id \in OrderIds /\ exch[requests[i].id] = "none"
    BY PlacementIds DEF EndsAreFinal, NotYetPlaced
  <2>3. \A k \in late : exch'[k] = exch[k]
    BY <1>1, <1>6 DEF EndsAreFinal
  <2>4. \A i \in DOMAIN requests : requests[i].op = "order" =>
           exch'[requests[i].id] = exch[requests[i].id]
    BY <1>6, <2>2
  <2>5. NotYetPlaced(requests')
    BY <2>1 DEF EndsAreFinal
  <2> QED BY <1>7, <2>1, <2>3, <2>4, <2>5, EndsFrame
<1>9. Head(pushes[c]).type \in {"Fill", "Cancel"} => exch[c] = "closed"
  BY <1>2 DEF EndsAreFinal, EndsAreReal
<1> QED BY <1>6, <1>8, <1>9

(* The exchange takes one request, or moves one order on its own. *)
LEMMA ExchangeEnds == IInv /\ EndsAreFinal /\ Exchange => EndsAreFinal'
<1> SUFFICES ASSUME IInv, EndsAreFinal, Exchange PROVE EndsAreFinal'
  OBVIOUS
<1>1. /\ requests \in Seq(Requests)
      /\ pushes \in [OrderIds -> Seq(Pushes)]
      /\ late \subseteq OrderIds
      /\ exch \in [OrderIds -> ExchangeStates]
      /\ NotYetPlaced(requests) /\ EndsAreReal(pushes, exch)
      /\ \A k \in late : exch[k] = "none"
  BY DEF IInv, TypeOK, SessionTypeOK, ExchangeTypeOK, EndsAreFinal
<1>2. \A op : Requested(op) => requests' = Tail(requests) /\ requests # <<>> /\ NotYetPlaced(requests')
  BY <1>1, TailNotYetPlaced DEF Requested
<1>3. ASSUME NEW c \in OrderIds, NEW x \in {"live", "partial", "closed"}, NEW e \in Pushes,
             exch' = [exch EXCEPT ![c] = x], exch[c] # "closed" \/ x = "closed",
             late' \subseteq late, c \notin late',
             NotYetPlaced(requests'),
             \A i \in DOMAIN requests' : requests'[i].op = "order" => requests'[i].id \in OrderIds \ {c},
             e.type \in {"Fill", "Cancel"} => x = "closed",
             pushes' = pushes \/ pushes' = PushTo(pushes, {c}, e)
      PROVE  EndsAreFinal'
  <2>1. /\ exch'[c] = x
        /\ \A k \in OrderIds : k # c => exch'[k] = exch[k]
    BY <1>1, <1>3
  <2>2. /\ \A k \in OrderIds : exch[k] = "closed" => exch'[k] = "closed"
        /\ e.type \in {"Fill", "Cancel"} => \A k \in {c} : exch'[k] = "closed"
    BY <1>3, <2>1
  <2>3. EndsAreReal(pushes, exch') /\ EndsAreReal(PushTo(pushes, {c}, e), exch')
    <3> DEFINE ids == {c}
    <3>1. /\ ids \in SUBSET OrderIds
          /\ IsEnd(e) => \A k \in ids : exch'[k] = "closed"
      BY <2>2 DEF IsEnd
    <3> HIDE DEF ids
    <3>2. EndsAreReal(pushes, exch') /\ EndsAreReal(PushTo(pushes, ids, e), exch')
      BY <1>1, <2>2, <3>1, PushEnds
    <3> QED BY <3>2 DEF ids
  <2>4. EndsAreReal(pushes', exch')
    BY <1>3, <2>3
  <2>5. \A k \in late' : exch'[k] = exch[k]
    BY <1>1, <1>3, <2>1
  <2>6. \A i \in DOMAIN requests' : requests'[i].op = "order" =>
           exch'[requests'[i].id] = exch[requests'[i].id]
    BY <1>3, <2>1
  <2> QED BY <1>3, <2>4, <2>5, <2>6, EndsFrame
<1>4. CASE ExchangeLogin \/ ExchangeSubscribe
  <2>1. exch' = exch /\ late' = late /\ pushes' = pushes /\ NotYetPlaced(requests')
    BY <1>2, <1>4, Zenon DEF ExchangeLogin, ExchangeSubscribe, exchangeVars
  <2> QED BY <2>1, EndsQuiet
<1>5. \A i \in DOMAIN requests : requests[i].op = "order" => requests[i].id \in OrderIds
  BY PlacementIds
<1>6. ASSUME requests' = Tail(requests), requests # <<>>
      PROVE  \A i \in DOMAIN requests' : requests'[i].op = "order" => requests'[i].id \in OrderIds
  BY <1>1, <1>5, <1>6, TailFacts
<1>7. CASE ExchangeOrder
  <2> DEFINE c == Head(requests).id
  <2>1. /\ Requested("order") /\ late' = late
    BY <1>7 DEF ExchangeOrder
  <2>2. c \in OrderIds
    BY <2>1, RequestedFacts
  <2>3. /\ Head(requests).op = "order" /\ requests # <<>> /\ requests' = Tail(requests)
        /\ NotYetPlaced(requests')
    BY <1>2, <2>1 DEF Requested
  <2>4. /\ exch[c] = "none" /\ c \notin late
        /\ \A i \in DOMAIN Tail(requests) : Tail(requests)[i].op = "order" => Tail(requests)[i].id # c
    BY <1>1, <2>3, TailNotYetPlaced
  <2>5. PICK x \in {"live", "partial", "closed"}, e \in Pushes :
           /\ exch' = [exch EXCEPT ![c] = x]
           /\ e.type \in {"Fill", "Cancel"} => x = "closed"
           /\ pushes' = pushes \/ pushes' = PushTo(pushes, {c}, e)
    <3>1. \A to \in {"live", "partial", "closed"} :
             /\ PlacementPush(to) \in Pushes
             /\ PlacementPush(to).type \in {"Fill", "Cancel"} => to = "closed"
      BY DEF PlacementPush, Pushes, EventTypes
    <3> QED BY <1>7, <3>1, ZenonT(30) DEF ExchangeOrder
  <2> HIDE DEF c
  <2> QED BY <1>3, <1>6, <2>1, <2>2, <2>3, <2>4, <2>5
<1>8. CASE ExchangeAmend \/ ExchangeCancel
  <2> DEFINE c == Head(requests).id
  <2>1. PICK op \in {"amend", "cancel"} : Requested(op)
    BY <1>8, Zenon DEF ExchangeAmend, ExchangeCancel
  <2>2. /\ c \in OrderIds /\ exch[c] # "none"
        /\ requests' = Tail(requests) /\ requests # <<>> /\ NotYetPlaced(requests') /\ late' = late
    BY <1>2, <1>8, <2>1, RequestedFacts, ZenonT(30) DEF ExchangeAmend, ExchangeCancel, exchangeVars
  <2>3. \A i \in DOMAIN requests' : requests'[i].op = "order" =>
           requests'[i].id \in OrderIds /\ exch[requests'[i].id] = "none"
    BY <1>6, <2>2 DEF NotYetPlaced
  <2>4. PICK x \in {"live", "partial", "closed"}, e \in Pushes :
           /\ exch' = [exch EXCEPT ![c] = x]
           /\ exch[c] # "closed" \/ x = "closed"
           /\ e.type \in {"Fill", "Cancel"} => x = "closed"
           /\ pushes' = pushes \/ pushes' = PushTo(pushes, {c}, e)
    <3>1. /\ exch[c] \in {"live", "partial", "closed"}
          /\ exch = [exch EXCEPT ![c] = exch[c]]
          /\ CloseOrders({c}) = [exch EXCEPT ![c] = "closed"]
      BY <1>1, <2>2 DEF ExchangeStates, CloseOrders
    <3>2. /\ CancelPush \in Pushes
          /\ [type |-> StateEvent(c), fill |-> FALSE] \in Pushes
          /\ [type |-> StateEvent(c), fill |-> FALSE].type \notin {"Fill", "Cancel"}
      BY DEF CancelPush, StateEvent, Pushes, EventTypes
    <3> HIDE DEF c
    <3>3. CASE ExchangeAmend
      <4>1. /\ exch' = exch
            /\ pushes' = pushes \/ pushes' = PushTo(pushes, {c}, [type |-> StateEvent(c), fill |-> FALSE])
        BY <3>3, ZenonT(30) DEF ExchangeAmend, exchangeVars, c
      <4> QED BY <3>1, <3>2, <4>1, ZenonT(30)
    <3>4. CASE ExchangeCancel
      <4>1. \/ exch' = exch /\ pushes' = pushes
            \/ exch' = CloseOrders({c}) /\ pushes' = PushTo(pushes, {c}, CancelPush)
        BY <3>4, ZenonT(30) DEF ExchangeCancel, c
      <4>2. CASE exch' = exch /\ pushes' = pushes
        BY <3>1, <3>2, <4>2, ZenonT(30)
      <4>3. CASE exch' = CloseOrders({c}) /\ pushes' = PushTo(pushes, {c}, CancelPush)
        BY <3>1, <3>2, <4>3, ZenonT(30)
      <4> QED BY <4>1, <4>2, <4>3
    <3> QED BY <1>8, <3>3, <3>4
  <2>5. c \notin late
    BY <1>1, <2>2
  <2>6. \A i \in DOMAIN requests' : requests'[i].op = "order" => requests'[i].id \in OrderIds \ {c}
    BY <2>2, <2>3
  <2> HIDE DEF c
  <2> QED BY <1>3, <2>2, <2>4, <2>5, <2>6
<1>9. CASE \E c \in OrderIds : ExchangeLatePlacement(c) \/ ExchangeMoves(c)
  <2>1. PICK c \in OrderIds : ExchangeLatePlacement(c) \/ ExchangeMoves(c)
    BY <1>9
  <2>2. /\ requests' = requests /\ late' \subseteq late /\ c \notin late'
        /\ c \in late \/ exch[c] # "none"
        /\ exch[c] # "closed"
    BY <1>1, <2>1 DEF ExchangeLatePlacement, ExchangeMoves, Open
  <2>3. \A i \in DOMAIN requests' : requests'[i].op = "order" => requests'[i].id \in OrderIds \ {c}
    BY <1>1, <1>5, <2>2 DEF NotYetPlaced
  <2>4. PICK x \in {"live", "partial", "closed"}, e \in Pushes :
           /\ exch' = [exch EXCEPT ![c] = x]
           /\ e.type \in {"Fill", "Cancel"} => x = "closed"
           /\ pushes' = PushTo(pushes, {c}, e)
    <3>1. /\ CancelPush \in Pushes
          /\ [type |-> "Live", fill |-> FALSE] \in Pushes
          /\ [type |-> "PartialFill", fill |-> TRUE] \in Pushes
          /\ [type |-> "Fill", fill |-> TRUE] \in Pushes
          /\ [type |-> "Live", fill |-> FALSE].type \notin {"Fill", "Cancel"}
          /\ [type |-> "PartialFill", fill |-> TRUE].type \notin {"Fill", "Cancel"}
      BY DEF CancelPush, Pushes, EventTypes
    <3>2. CloseOrders({c}) = [exch EXCEPT ![c] = "closed"]
      BY <1>1 DEF CloseOrders
    <3>3. CASE ExchangeLatePlacement(c)
      BY <3>1, <3>3, ZenonT(30) DEF ExchangeLatePlacement
    <3>4. CASE ExchangeMoves(c)
      BY <3>1, <3>2, <3>4, ZenonT(30) DEF ExchangeMoves
    <3> QED BY <2>1, <3>3, <3>4
  <2> QED BY <1>1, <1>3, <2>2, <2>3, <2>4
<1> QED BY <1>4, <1>7, <1>8, <1>9 DEF Exchange

(* Every step keeps EndsAreFinal. *)
LEMMA NextEnds == IInv /\ EndsAreFinal /\ [Next]_vars => EndsAreFinal'
<1> SUFFICES ASSUME IInv, EndsAreFinal, [Next]_vars PROVE EndsAreFinal'
  OBVIOUS
<1>1. /\ requests \in Seq(Requests)
      /\ pushes \in [OrderIds -> Seq(Pushes)]
      /\ late \subseteq OrderIds
      /\ exch \in [OrderIds -> ExchangeStates]
      /\ NotYetPlaced(requests) /\ EndsAreReal(pushes, exch)
      /\ \A k \in late : exch[k] = "none"
  BY DEF IInv, TypeOK, SessionTypeOK, ExchangeTypeOK, EndsAreFinal
<1>2. \A site : Throw(site) => EndsAreFinal'
  BY <1>1, EndsOver DEF Throw, ExchangeSteps
<1>3. CASE RunStartupChecks
  <2> DEFINE n == lastId + 1
  <2>1. PICK left \in {"live", "closed"} : exch' = [exch EXCEPT ![n] = left]
    BY <1>3 DEF RunStartupChecks
  <2>2. /\ lastId \in Nat /\ n \in OrderIds /\ n > lastId
        /\ requests' = requests /\ pushes' = pushes /\ late' = late
    <3>1. lastId \in Nat /\ lastId < MaxOrders
          /\ requests' = requests /\ pushes' = pushes /\ late' = late
      BY <1>3, IdTypes DEF RunStartupChecks, sessionVars
    <3> QED BY <3>1, BoundsAssumption DEF OrderIds
  <2> HIDE DEF n
  <2>3. exch[n] = "none" /\ n \notin late /\ pushes[n] = <<>>
    BY <2>2, IdsBounded DEF IInv, Acknowledged
  <2>4. \A k \in OrderIds : k # n => exch'[k] = exch[k]
    BY <1>1, <2>1
  <2>5. \A i \in DOMAIN requests : requests[i].op = "order" =>
           requests[i].id \in OrderIds /\ requests[i].id # n
    <3>1. \A i \in DOMAIN requests : requests[i].id <= lastId
      BY DEF IInv, IdsIssued
    <3>2. ~(n <= lastId)
      BY <2>2 DEF n
    <3> QED BY <3>1, <3>2, PlacementIds
  <2>6. EndsAreReal(pushes', exch')
    BY <1>1, <2>2, <2>3, <2>4 DEF EndsAreReal
  <2>7. \A k \in late' : exch'[k] = exch[k]
    BY <1>1, <2>2, <2>3, <2>4
  <2> QED BY <1>1, <2>2, <2>4, <2>5, <2>6, <2>7, EndsFrame
<1>4. CASE Connect
  <2>1. /\ exch' = exch /\ late' = late /\ pushes' = pushes
        /\ requests' = Append(requests, [op |-> "login", id |-> NoId])
    BY <1>4 DEF Connect, exchangeVars
  <2>2. [op |-> "login", id |-> NoId] \in Requests /\ [op |-> "login", id |-> NoId].op # "order"
    BY DEF Requests
  <2>3. NotYetPlaced(requests')
    BY <1>1, <2>1, <2>2, AppendNotYetPlaced
  <2> QED BY <2>1, <2>3, EndsQuiet
<1>5. CASE ScheduleReconnect
  <2>1. /\ exch' = exch /\ requests' = <<>> /\ pushes' = [c \in OrderIds |-> <<>>]
        /\ \A k \in late' : k \in late \/ \E i \in DOMAIN requests : requests[i].op = "order"
                                                                     /\ requests[i].id = k
    BY <1>5 DEF ScheduleReconnect
  <2>2. \A k \in late' : exch'[k] = "none"
    BY <1>1, <2>1 DEF NotYetPlaced
  <2>3. NotYetPlaced(requests)' /\ EndsAreReal(pushes, exch)'
    BY <2>1 DEF NotYetPlaced, EndsAreReal
  <2> QED BY <2>2, <2>3 DEF EndsAreFinal
<1>6. CASE HandleLoginEvent
  <2>1. requests = <<>>
    BY <1>6, LoginAnswered, ZenonT(30) DEF HandleLoginEvent
  <2> DEFINE sub == [op |-> "subscribe", id |-> NoId]
             ord == [op |-> "order", id |-> lastId + 1]
  <2>2. \/ Throw("Add")
        \/ /\ exch' = exch /\ late' = late /\ pushes' = pushes
           /\ \/ requests' = requests
              \/ requests' = Append(requests, sub)
              \/ requests' = Append(Append(requests, sub), ord) /\ lastId + 1 \in OrderIds
    BY <1>6, ZenonT(30) DEF HandleLoginEvent, exchangeVars
  <2>3. sub \in Requests /\ sub.op # "order" /\ ord.op = "order" /\ ord.id = lastId + 1
    BY DEF Requests
  <2>4. lastId + 1 \in OrderIds => /\ ord \in Requests
                                   /\ exch[lastId + 1] = "none" /\ lastId + 1 \notin late
    <3>1. lastId \in Nat
      BY IdTypes
    <3> QED BY <3>1, IdsBounded DEF Requests
  <2> HIDE DEF sub, ord
  <2>5. /\ NotYetPlaced(Append(requests, sub)) /\ Append(requests, sub) \in Seq(Requests)
        /\ \A i \in DOMAIN Append(requests, sub) : Append(requests, sub)[i] # ord
    <3>1. \A i \in DOMAIN Append(requests, sub) : Append(requests, sub)[i] = sub
      BY <1>1, <2>1, <2>3, AppendFacts
    <3> QED BY <1>1, <2>3, <3>1, AppendFacts, AppendNotYetPlaced
  <2>6. lastId + 1 \in OrderIds => NotYetPlaced(Append(Append(requests, sub), ord))
    BY <2>3, <2>4, <2>5, AppendNotYetPlaced
  <2> QED BY <1>1, <1>2, <2>2, <2>5, <2>6, EndsQuiet
<1>7. CASE RoundTrip
  <2>1. CASE \E site \in {"GetOrder", "OnRequestRejected"} : Throw(site)
    BY <1>2, <2>1
  <2>2. ASSUME NEW op \in {"order", "amend", "cancel"}, NEW next \in {"none", "amend", "cancel"},
               NEW after, Dispatched(op), RoundTripStep(op, next, "none", after)
        PROVE  EndsAreFinal'
    <3> DEFINE r == [op |-> next, id |-> rtId]
    <3>1. /\ exch' = exch /\ late' = late /\ pushes' = pushes
          /\ requests' = requests \/ (next # "none" /\ requests' = Append(requests, r))
      BY <2>2, ZenonT(30) DEF RoundTripStep, exchangeVars
    <3>2. next # "none" => r \in Requests /\ r.op # "order"
      BY <2>2, DispatchedFacts DEF Requests
    <3> HIDE DEF r
    <3>3. NotYetPlaced(requests')
      BY <1>1, <3>1, <3>2, AppendNotYetPlaced
    <3> QED BY <3>1, <3>3, EndsQuiet
  <2> QED BY <1>7, <2>1, <2>2, RoundTripFacts, ZenonT(30)
<1>8. CASE OnBookUpdate \/ OnTimer
  <2>1. ASSUME NEW x, QInv(x), requests' = x.requests, UNCHANGED <<pushes, exchangeVars>>
        PROVE  EndsAreFinal'
    <3>1. NotYetPlaced(requests') /\ exch' = exch /\ late' = late /\ pushes' = pushes
      BY <1>1, <2>1 DEF QInv, exchangeVars
    <3> QED BY <3>1, EndsQuiet
  <2> QED BY <1>2, <1>8, <2>1, QuotingFacts, ZenonT(30)
<1>9. CASE \E c \in OrderIds : HandleOrderEvent(c)
  BY <1>9, HandleOrderEventEnds
<1>10. CASE OnShutdownSignal \/ KillSwitchThrows
  <2>1. PICK ids \in SUBSET OpenOrders :
           (ProcessEnds("stopped") \/ ProcessEnds("Rest")) /\ exch' = CloseOrders(ids)
    BY <1>10, ZenonT(30) DEF OnShutdownSignal, KillSwitchThrows
  <2> QED BY <2>1, CloseOrdersSteps, EndsOver
<1>11. CASE CheckAndResolve \/ GetPendingOrdersThrows
  <2>1. \/ \E site : Throw(site)
        \/ exch' = exch /\ late' = late /\ pushes' = pushes /\ requests' = requests
    BY <1>11, ZenonT(30) DEF CheckAndResolve, GetPendingOrdersThrows, sessionVars, exchangeVars
  <2> QED BY <1>1, <1>2, <2>1, EndsQuiet
<1>12. CASE Exchange
  BY <1>12, ExchangeEnds
<1>13. CASE UNCHANGED vars
  <2>1. exch' = exch /\ late' = late /\ pushes' = pushes /\ requests' = requests
    BY <1>13 DEF vars, sessionVars, exchangeVars
  <2> QED BY <1>1, <2>1, EndsQuiet
<1> QED BY <1>3, <1>4, <1>5, <1>6, <1>7, <1>8, <1>9, <1>10, <1>11, <1>12, <1>13 DEF Next, Session

(* Ends on their way to the engine have happened and are final, throughout. *)
LEMMA EndsInvariance == Spec => []EndsAreFinal
<1>1. Init => EndsAreFinal
  BY DEF Init, EndsAreFinal, NotYetPlaced, EndsAreReal
<1> QED BY <1>1, NextEnds, Invariance, PTL DEF Spec

(* The store gives an order up only when the exchange no longer has it open,
   unless a listing failed: pushes end what has ended, reconciliation drops what
   is not listed, and no other handler removes an order. *)
THEOREM DropsOnlyEndedOrders == Spec => DroppedOnlyIfNotPending
<1> DEFINE Kept == \A c \in OrderIds :
               Tracked(c) /\ ~Present(store'[c]) /\ status' = "running" /\ ~ListingFailed
                  => exch'[c] \notin {"live", "partial"}
<1>1. IInv /\ EndsAreFinal /\ [Next]_vars => [Kept]_vars
  <2> SUFFICES ASSUME IInv, EndsAreFinal, Next PROVE Kept
    BY DEF vars
  <2>1. store' = store => Kept
    BY DEF Tracked
  <2>2. \A how : ProcessEnds(how) /\ how # "running" => Kept
    BY DEF ProcessEnds
  <2>3. CASE RunStartupChecks \/ Connect \/ ScheduleReconnect
    BY <2>1, <2>3 DEF RunStartupChecks, Connect, ScheduleReconnect, engineVars
  <2>4. CASE HandleLoginEvent \/ CheckAndResolve
    <3>1. ASSUME NEW listed \in PendingOrdersReplies,
                 store' \in {Reconciled(listed), Add(Reconciled(listed), lastId + 1)},
                 restErrors' = RestErrorsAfter(listed # OpenOrders),
                 killed' = killed, exch' = exch
          PROVE  Kept
      <4> SUFFICES ASSUME NEW c \in OrderIds, Tracked(c), ~Present(store'[c]), ~ListingFailed
                   PROVE  ~Open(c)
        BY <3>1 DEF Open
      <4>1. restErrors \in Nat
        BY DEF IInv, TypeOK, ExchangeTypeOK
      <4>2. listed = OpenOrders
        BY <3>1, <4>1 DEF ListingFailed, RestErrorsAfter
      <4>3. ~Present(Reconciled(listed)[c])
        BY <3>1, NewOrderFacts, NoOrderFacts DEF Add
      <4>4. c \notin listed
        BY <4>3 DEF Reconciled, Tracked
      <4> QED BY <4>2, <4>4 DEF OpenOrders
    <3>2. \/ store' = store
          \/ Throw("Add")
          \/ \E listed \in PendingOrdersReplies :
                /\ store' \in {Reconciled(listed), Add(Reconciled(listed), lastId + 1)}
                /\ restErrors' = RestErrorsAfter(listed # OpenOrders)
                /\ killed' = killed /\ exch' = exch
      BY <2>4, ZenonT(30) DEF HandleLoginEvent, CheckAndResolve, engineVars, exchangeVars
    <3> QED BY <2>1, <2>2, <3>1, <3>2 DEF Throw
  <2>5. CASE RoundTrip
    <3>1. CASE \E site \in {"GetOrder", "OnRequestRejected"} : Throw(site)
      BY <2>2, <3>1 DEF Throw
    <3>2. ASSUME NEW op \in {"order", "amend", "cancel"},
                 NEW next \in {"none", "amend", "cancel"}, NEW after,
                 Dispatched(op),
                 RoundTripStep(op, next, "none", after),
                 Present(store[rtId]) => Present(after)
          PROVE  Kept
      <4>1. store' = [store EXCEPT ![rtId] = after] /\ rtId \in OrderIds
        BY <3>2, DispatchedFacts DEF RoundTripStep
      <4>2. store \in [OrderIds -> WorkingOrder \cup {NoOrder}]
        BY DEF IInv, Stores
      <4>3. \A c \in OrderIds : Tracked(c) => Present(store'[c])
        BY <3>2, <4>1, <4>2 DEF Tracked
      <4> QED BY <4>3
    <3> QED BY <2>5, <3>1, <3>2, RoundTripFacts, ZenonT(30)
  <2>6. CASE OnBookUpdate \/ OnTimer
    <3>1. ASSUME NEW x, QInv(x), store' = x.store PROVE Kept
      BY <3>1 DEF QInv, QStore, Tracked
    <3> QED BY <2>2, <2>6, <3>1, QuotingFacts DEF Throw
  <2>7. CASE \E c \in OrderIds : HandleOrderEvent(c)
    <3>1. PICK c \in OrderIds : HandleOrderEvent(c)
      BY <2>7
    <3>2. /\ \A k \in OrderIds : k # c => store'[k] = store[k]
          /\ Tracked(c) /\ ~Present(store'[c]) => Head(pushes[c]).type \in {"Fill", "Cancel"}
      BY <3>1, HandleOrderEventFacts, ZenonT(30)
    <3>3. Head(pushes[c]).type \in {"Fill", "Cancel"} => exch'[c] = "closed"
      BY <3>1, HandleOrderEventEnds, Zenon
    <3>4. Tracked(c) /\ ~Present(store'[c]) => exch'[c] \notin {"live", "partial"}
      BY <3>2, <3>3
    <3>5. \A k \in OrderIds : Tracked(k) /\ ~Present(store'[k]) => k = c
      BY <3>2 DEF Tracked
    <3> QED BY <3>4, <3>5
  <2>8. CASE OnShutdownSignal \/ KillSwitchThrows \/ GetPendingOrdersThrows
    BY <2>2, <2>8 DEF OnShutdownSignal, KillSwitchThrows, GetPendingOrdersThrows, Throw
  <2>9. CASE Exchange
    BY <2>1, <2>9, Zenon DEF Exchange, ExchangeLogin, ExchangeSubscribe, ExchangeOrder, ExchangeAmend,
          ExchangeCancel, ExchangeLatePlacement, ExchangeMoves, engineVars
  <2> QED BY <2>3, <2>4, <2>5, <2>6, <2>7, <2>8, <2>9 DEF Next, Session
<1> QED BY <1>1, Invariance, EndsInvariance, PTL DEF Spec, DroppedOnlyIfNotPending
=============================================================================
