--------------------------- MODULE TradingEngine ---------------------------
(***************************************************************************)
(* The order-management side of the engine: the order store, the quoter,   *)
(* the WebSocket order round trip, reconciliation, the timeout monitor,    *)
(* the kill switch and the private session, composed the way class Engine  *)
(* wires them, against an exchange that is modelled from its replies.      *)
(*                                                                         *)
(* The reactor runs one handler at a time, so one action is one handler,   *)
(* blocking REST calls included.  A handler that throws ends the process   *)
(* (nothing between the handler and main catches): status then holds the   *)
(* name of the call that threw, and the process's memory is gone.          *)
(***************************************************************************)
EXTENDS Integers, Sequences, FiniteSets, OrderLifecycle

CONSTANTS
    MaxOrders,       \* bound: client order ids generated in one behaviour
    MaxLeftover,     \* bound: orders an earlier process left open
    StoreCapacity,   \* OrderStore::kCapacity
    MaxOpenOrders,   \* RiskLimits::max_open_orders
    MaxDisconnects,  \* bound: times the private session is lost
    MaxRestErrors,   \* bound: REST calls answered with an error body
    MaxRequests,     \* bound: requests waiting on the private session
    MaxPushes        \* bound: unread pushes per order before the exchange
                     \* fills or cancels the order on its own

ASSUME BoundsAssumption ==
    /\ MaxOrders \in Nat
    /\ MaxLeftover \in 0..MaxOrders
    /\ {StoreCapacity, MaxOpenOrders, MaxDisconnects, MaxRestErrors,
        MaxRequests, MaxPushes} \subseteq Nat

(* GenerateId gives strictly increasing ids: the ids are 1, 2, 3, ...;
   NoId stands for an empty optional or string. *)
OrderIds == 1..MaxOrders

NoId == 0

Sides == {"buy", "sell"}

NoOrder == [state |-> "Absent", pre |-> "Absent", ordId |-> FALSE]

VARIABLES
    status,      \* "boot", "running", "stopped", or the call that threw
    killed,      \* KillSwitch::triggered_
    store,       \* OrderStore, as a map from client order id
    lastId,      \* GenerateId's last_id
    quote,       \* NaiveQuoter::bid_cl_ord_id_ and ask_cl_ord_id_
    quoted,      \* NaiveQuoter::last_quoted_mid_ has a value
    rtId,        \* WsOrderRoundTrip::cl_ord_id_
    awaiting,    \* WsResponseDemux::pending_
    conn,        \* OkxWsClient::IsConnected() of the private session
    auth,        \* OkxWsClient::IsAuthenticated()
    requests,    \* requests on their way to the exchange
    responses,   \* responses to them on their way back
    pushes,      \* orders-channel pushes on their way back, per order
    exch,        \* the exchange's view of every order
    subscribed,  \* the exchange pushes order updates on this session
    late,        \* placements of a lost session that may still arrive
    disconnects, restErrors

engineVars == <<killed, store, lastId, quote, quoted, rtId, awaiting>>
sessionVars == <<conn, auth, requests, responses, pushes>>
exchangeVars == <<exch, subscribed, late>>
faultVars == <<disconnects, restErrors>>
vars == <<status, engineVars, sessionVars, exchangeVars, faultVars>>

-----------------------------------------------------------------------------

ThrowSites == {"Add", "Rest", "GetOrder", "ApplyEvent", "OnAmendRequested",
               "OnCancelRequested", "OnRequestRejected"}

Requests == [op : {"login", "subscribe", "order", "amend", "cancel"},
             id : OrderIds \cup {NoId}]

Responses == [op : {"login", "order", "amend", "cancel"},
              id : OrderIds \cup {NoId}, ok : BOOLEAN]

Pushes == [type : EventTypes, fill : BOOLEAN]

ExchangeStates == {"none", "live", "partial", "closed"}

EngineTypeOK ==
    /\ status \in {"boot", "running", "stopped"} \cup ThrowSites
    /\ killed \in BOOLEAN
    /\ store \in [OrderIds -> Order \cup {NoOrder}]
    /\ lastId \in 0..MaxOrders
    /\ quote \in [Sides -> OrderIds \cup {NoId}]
    /\ quoted \in BOOLEAN
    /\ rtId \in OrderIds \cup {NoId}
    /\ awaiting \subseteq ({"order", "amend", "cancel"} \X OrderIds)

SessionTypeOK ==
    /\ conn \in BOOLEAN
    /\ auth \in BOOLEAN
    /\ requests \in Seq(Requests)
    /\ responses \in Seq(Responses)
    /\ pushes \in [OrderIds -> Seq(Pushes)]

ExchangeTypeOK ==
    /\ exch \in [OrderIds -> ExchangeStates]
    /\ subscribed \in BOOLEAN
    /\ late \subseteq OrderIds
    /\ disconnects \in 0..MaxDisconnects
    /\ restErrors \in 0..MaxRestErrors

TypeOK == EngineTypeOK /\ SessionTypeOK /\ ExchangeTypeOK

Running == status = "running"

(* The process is over: main returned, or a handler threw out of it.  What is
   left is the exchange's own state. *)
ProcessEnds(how) ==
    /\ status' = how
    /\ killed' = FALSE
    /\ store' = [c \in OrderIds |-> NoOrder]
    /\ quote' = [s \in Sides |-> NoId]
    /\ quoted' = FALSE
    /\ rtId' = NoId
    /\ awaiting' = {}
    /\ conn' = FALSE
    /\ auth' = FALSE
    /\ requests' = <<>>
    /\ responses' = <<>>
    /\ pushes' = [c \in OrderIds |-> <<>>]
    /\ subscribed' = FALSE
    /\ UNCHANGED <<lastId, late, faultVars>>

Throw(site) == ProcessEnds(site) /\ UNCHANGED exch

-----------------------------------------------------------------------------
(* OrderStore: Add, FindByClOrdId, Size, Remove with its on_remove_ callback. *)

Present(o) == o.state # "Absent"

Tracked(c) == Present(store[c])

TrackedIds(st) == {c \in OrderIds : Present(st[c])}

Size(st) == Cardinality(TrackedIds(st))

Add(st, c) == [k \in OrderIds |-> IF k = c THEN NewOrder ELSE st[k]]

AddThrows(st) == Size(st) >= StoreCapacity

Remove(st, ids) == [k \in OrderIds |-> IF k \in ids THEN NoOrder ELSE st[k]]

MutOnOrderRemoved(q, ids) == [s \in Sides |-> IF s = "buy" /\ q[s] \in ids THEN NoId ELSE q[s]]

(* NaiveQuoter::OnOrderRemoved, called for every id the store removes: the
   bid is compared first, the ask only when the bid did not match. *)
OnOrderRemoved(q, ids) ==
    [s \in Sides |->
        IF q[s] \in ids /\ (s = "buy" \/ q["sell"] # q["buy"]) THEN NoId ELSE q[s]]

-----------------------------------------------------------------------------
(* The exchange's side of REST and of the orders channel (external). *)

Open(c) == exch[c] \in {"live", "partial"}

OpenOrders == {c \in OrderIds : Open(c)}

StateEvent(c) == IF exch[c] = "partial" THEN "PartialFill" ELSE "Live"

PushTo(p, ids, e) ==
    IF subscribed
    THEN [c \in OrderIds |-> IF c \in ids THEN Append(p[c], e) ELSE p[c]]
    ELSE p

(* GET pending orders: the open orders, or an error body, which has no data
   array and which ReconcileOrders reads as an empty list. *)
PendingOrdersReplies ==
    {OpenOrders} \cup (IF restErrors < MaxRestErrors THEN {{}} ELSE {})

-----------------------------------------------------------------------------
(* ReconcileOrders: adopt what the exchange lists and the store lacks, skip
   what the store has, drop what the exchange does not list. *)

MutReconciled(listed) == [c \in OrderIds |-> IF c \in listed THEN store[c] ELSE NoOrder]

MutReconciledLive(listed) ==
    [c \in OrderIds |-> IF c \in listed /\ exch[c] = "live" THEN store[c] ELSE NoOrder]

Reconciled(listed) ==
    [c \in OrderIds |->
        CASE c \notin listed -> NoOrder
          [] c \in listed /\ Tracked(c) -> store[c]
          [] OTHER -> ApplyEvent(NewOrder, StateEvent(c))]

(* All adoptions come before the first drop. *)
ReconcileThrows(listed) ==
    /\ listed \ TrackedIds(store) # {}
    /\ Cardinality(TrackedIds(store) \cup listed) > StoreCapacity

Dropped(listed) == TrackedIds(store) \ listed

-----------------------------------------------------------------------------
(* NaiveQuoter.  A handler quotes both sides one after the other; x carries
   what the first side left behind to the second, error the call that threw,
   if any ("ids" only says that the bound on ids is used up). *)

Quoter == [store |-> store, lastId |-> lastId, quote |-> quote,
           requests |-> requests, error |-> "none"]

(* granted is EndpointRateLimiter's answer for this request. *)
PlaceSide(x, side, granted) ==
    CASE ~granted -> [x EXCEPT !.quote[side] = NoId]
      [] granted /\ x.lastId = MaxOrders -> [x EXCEPT !.error = "ids"]
      [] granted /\ x.lastId < MaxOrders /\ AddThrows(x.store) ->
            [x EXCEPT !.error = "Add"]
      [] OTHER ->
            [x EXCEPT !.store = Add(x.store, x.lastId + 1),
                      !.lastId = x.lastId + 1,
                      !.quote[side] = x.lastId + 1,
                      !.requests = Append(@, [op |-> "order", id |-> x.lastId + 1])]

MutReplaceSide(x, side, granted) ==
    LET c == x.quote[side]
    IN  IF x.error # "none" THEN x
        ELSE IF c = NoId THEN PlaceSide(x, side, granted)
        ELSE IF x.store[c].state = "PendingAmend" \/ ~granted THEN x
        ELSE [x EXCEPT !.store[c] = OnAmendRequested(x.store[c]),
                       !.requests = Append(@, [op |-> "amend", id |-> c])]

(* Without an id, or with an order the store lost or that has no ordId yet,
   the side is placed afresh; otherwise the resting order is amended. *)
ReplaceSide(x, side, granted) ==
    LET c == x.quote[side]
        unknown == c = NoId \/ ~Present(x.store[c]) \/ ~x.store[c].ordId
    IN  CASE x.error # "none" -> x
          [] x.error = "none" /\ unknown -> PlaceSide(x, side, granted)
          [] x.error = "none" /\ ~unknown
                /\ (x.store[c].state = "PendingAmend" \/ ~granted) -> x
          [] x.error = "none" /\ ~unknown /\ granted
                /\ x.store[c].state # "PendingAmend"
                /\ OnAmendRequestedThrows(x.store[c]) ->
                   [x EXCEPT !.error = "OnAmendRequested"]
          [] OTHER ->
                   [x EXCEPT !.store[c] = OnAmendRequested(x.store[c]),
                             !.requests = Append(@, [op |-> "amend", id |-> c])]

FillSide(x, side, granted) ==
    IF x.error = "none" /\ x.quote[side] = NoId THEN PlaceSide(x, side, granted) ELSE x

QuoterDone(x, isQuoted) ==
    /\ x.error # "ids"
    /\ Len(x.requests) <= MaxRequests
    /\ IF x.error # "none"
       THEN Throw(x.error)
       ELSE /\ store' = x.store
            /\ lastId' = x.lastId
            /\ quote' = x.quote
            /\ requests' = x.requests
            /\ quoted' = isQuoted
            /\ UNCHANGED <<status, killed, rtId, awaiting, conn, auth, responses,
                           pushes, exchangeVars, faultVars>>

MutQuotingAllowed == Running /\ auth

QuotingAllowed == Running /\ ~killed /\ auth

(* A book update that asks for new quotes (the first mid, or one that moved
   past the threshold); any other update changes nothing. *)
OnBookUpdate ==
    /\ QuotingAllowed
    /\ \E bid, ask \in BOOLEAN :
          QuoterDone(ReplaceSide(ReplaceSide(Quoter, "buy", bid), "sell", ask), TRUE)

(* The 500 ms timer replaces a missing side. *)
OnTimer ==
    /\ QuotingAllowed
    /\ quoted
    /\ \E s \in Sides : quote[s] = NoId
    /\ \E bid, ask \in BOOLEAN :
          QuoterDone(FillSide(FillSide(Quoter, "buy", bid), "sell", ask), quoted)

-----------------------------------------------------------------------------
(* KillSwitch::Trigger: one blocking REST cancel per order whose ordId is
   known.  A refused cancel is only logged. *)

MutCancellable == {c \in OrderIds : Tracked(c) /\ store[c].state = "New"}

Cancellable == {c \in OrderIds : Tracked(c) /\ store[c].ordId}

RefusedCancels ==
    {r \in SUBSET (Cancellable \cap OpenOrders) : r # {} => restErrors < MaxRestErrors}

RestErrorsAfter(happened) == IF happened THEN restErrors + 1 ELSE restErrors

CloseOrders(ids) == [c \in OrderIds |-> IF c \in ids THEN "closed" ELSE exch[c]]

CancelPush == [type |-> "Cancel", fill |-> FALSE]

(* SIGINT or SIGTERM: trigger the kill switch, then stop the reactor. *)
OnShutdownSignal ==
    /\ Running
    /\ \E refused \in IF killed THEN {{}} ELSE RefusedCancels :
          exch' = CloseOrders(IF killed THEN {} ELSE (Cancellable \cap OpenOrders) \ refused)
    /\ ProcessEnds("stopped")

(* Engine::HandleOrderEvent for the oldest unread push of order c: a fill may
   take the realised loss over the limit and trip the kill switch; then
   ApplyOrderEvent moves the order and removes it when it ended. *)
HandleOrderEvent(c) ==
    /\ Running
    /\ pushes[c] # <<>>
    /\ LET e == Head(pushes[c])
           unread == [pushes EXCEPT ![c] = Tail(@)]
           after == ApplyEvent(store[c], e.type)
           gone == IF IsTerminal(after.state) THEN {c} ELSE {}
       IN  IF Tracked(c) /\ ApplyEventThrows(store[c])
           THEN Throw("ApplyEvent")
           ELSE /\ \/ /\ pushes' = unread
                      /\ UNCHANGED <<killed, exch, restErrors>>
                   \/ /\ e.fill /\ ~killed
                      /\ \E refused \in RefusedCancels :
                            LET closed == (Cancellable \cap OpenOrders) \ refused
                            IN  /\ killed' = TRUE
                                /\ exch' = CloseOrders(closed)
                                /\ pushes' = PushTo(unread, closed, CancelPush)
                                /\ restErrors' = RestErrorsAfter(refused # {})
                /\ IF Tracked(c)
                   THEN /\ store' = Remove([store EXCEPT ![c] = after], gone)
                        /\ quote' = OnOrderRemoved(quote, gone)
                   ELSE UNCHANGED <<store, quote>>
                /\ UNCHANGED <<status, lastId, quoted, rtId, awaiting, conn, auth,
                               requests, responses, subscribed, late, disconnects>>

(* A REST cancel of the kill switch fails in transport: the handler throws
   after the cancels before it went through. *)
KillSwitchThrows ==
    /\ Running
    /\ ~killed
    /\ Cancellable # {}
    /\ \E done \in SUBSET (Cancellable \cap OpenOrders) : exch' = CloseOrders(done)
    /\ ProcessEnds("Rest")

-----------------------------------------------------------------------------
(* The private session: OkxWsClient as the order handlers see it. *)

(* RunStartupChecks places and cancels one order over REST before the engine
   exists; nothing tracks it, and a throw ends the process. *)
RunStartupChecks ==
    /\ status = "boot"
    /\ lastId < MaxOrders
    /\ lastId' = lastId + 1
    /\ \E left \in {"live", "closed"} : exch' = [exch EXCEPT ![lastId + 1] = left]
    /\ status' \in {"running", "Rest"}
    /\ UNCHANGED <<killed, store, quote, quoted, rtId, awaiting, sessionVars,
                   subscribed, late, faultVars>>

Connect ==
    /\ Running
    /\ ~conn
    /\ conn' = TRUE
    /\ auth' = FALSE
    /\ requests' = Append(requests, [op |-> "login", id |-> NoId])
    /\ UNCHANGED <<status, engineVars, responses, pushes, exchangeVars, faultVars>>

(* A read or a write fails and ScheduleReconnect drops the transport and the
   unsent bytes.  Placements that had left may still reach the exchange.  A
   cancel that does so looks like ExchangeMoves closing the order; an amend
   that does so, and the push about it on the next session, are left out. *)
ScheduleReconnect ==
    /\ Running
    /\ conn
    /\ disconnects < MaxDisconnects
    /\ disconnects' = disconnects + 1
    /\ conn' = FALSE
    /\ auth' = FALSE
    /\ requests' = <<>>
    /\ responses' = <<>>
    /\ pushes' = [c \in OrderIds |-> <<>>]
    /\ subscribed' = FALSE
    /\ \E sent \in SUBSET {requests[i].id : i \in {j \in DOMAIN requests :
                                                     requests[j].op = "order"}} :
          late' = late \cup sent
    /\ UNCHANGED <<status, engineVars, exch, restErrors>>

Received(op) ==
    /\ Running
    /\ responses # <<>>
    /\ Head(responses).op = op

(* CheckPreTradeRisk on the fixed smoke-test order: its size and notional are
   constants under the limits and no reference price is passed, which leaves
   the limit on open orders. *)
RiskCheckPasses(st) == Size(st) < MaxOpenOrders

(* DispatchMessage marks the session authenticated, then HandleLoginEvent
   subscribes, reconciles, and starts a round trip unless the kill switch or
   the risk check says no. *)
HandleLoginEvent ==
    /\ Received("login")
    /\ IF ~Head(responses).ok
       THEN /\ responses' = Tail(responses)
            /\ UNCHANGED <<status, engineVars, conn, auth, requests, pushes,
                           exchangeVars, faultVars>>
       ELSE \E listed \in PendingOrdersReplies :
              LET known == Reconciled(listed)
                  start == ~killed /\ RiskCheckPasses(known)
                  id == lastId + 1
                  subscribe == [op |-> "subscribe", id |-> NoId]
                  order == [op |-> "order", id |-> id]
              IN  /\ start => id \in OrderIds
                  /\ IF ReconcileThrows(listed) \/ (start /\ AddThrows(known))
                     THEN Throw("Add")
                     ELSE /\ responses' = Tail(responses)
                          /\ auth' = TRUE
                          /\ restErrors' = RestErrorsAfter(listed # OpenOrders)
                          /\ store' = IF start THEN Add(known, id) ELSE known
                          /\ quote' = OnOrderRemoved(quote, Dropped(listed))
                          /\ lastId' = IF start THEN id ELSE lastId
                          /\ rtId' = IF start THEN id ELSE rtId
                          /\ awaiting' = awaiting \cup IF start THEN {<<"order", id>>} ELSE {}
                          /\ requests' = IF start THEN Append(Append(requests, subscribe), order)
                                         ELSE Append(requests, subscribe)
                          /\ UNCHANGED <<status, killed, quoted, conn, pushes,
                                         exchangeVars, disconnects>>

(* OrderTimeoutMonitor::CheckAndResolve once some pending order is overdue. *)
CheckAndResolve ==
    /\ Running
    /\ \E c \in OrderIds : Tracked(c) /\ IsPending(store[c].state)
    /\ \E listed \in PendingOrdersReplies :
          IF ReconcileThrows(listed)
          THEN Throw("Add")
          ELSE /\ restErrors' = RestErrorsAfter(listed # OpenOrders)
               /\ store' = Reconciled(listed)
               /\ quote' = OnOrderRemoved(quote, Dropped(listed))
               /\ UNCHANGED <<status, killed, lastId, quoted, rtId, awaiting,
                              sessionVars, exchangeVars, disconnects>>

(* GetPendingOrders throws (REST transport failure) in either caller. *)
GetPendingOrdersThrows ==
    /\ Running
    /\ \/ responses # <<>> /\ Head(responses).op = "login" /\ Head(responses).ok
       \/ \E c \in OrderIds : Tracked(c) /\ IsPending(store[c].state)
    /\ Throw("Rest")

-----------------------------------------------------------------------------
(* WsOrderRoundTrip's response handlers.  Dispatch forgets the request before
   it calls the handler; a handler may throw at GetOrder or in the order. *)

RoundTripStep(op, next, error, after) ==
    IF error # "none"
    THEN Throw(error)
    ELSE LET answered == awaiting \ {<<op, Head(responses).id>>}
         IN  /\ responses' = Tail(responses)
             /\ store' = [store EXCEPT ![rtId] = after]
             /\ IF next = "none"
                THEN /\ awaiting' = answered
                     /\ UNCHANGED requests
                ELSE /\ awaiting' = answered \cup {<<next, rtId>>}
                     /\ requests' = Append(requests, [op |-> next, id |-> rtId])
             /\ UNCHANGED <<status, killed, lastId, quote, quoted, rtId, conn, auth,
                            pushes, exchangeVars, faultVars>>

NothingToDo(op) == RoundTripStep(op, "none", "none", store[rtId])

(* WsResponseDemux::Dispatch found the handler of this response. *)
Dispatched(op) == Received(op) /\ <<op, Head(responses).id>> \in awaiting

OrderLost == ~Tracked(rtId)

(* Accepted: amend the order.  Rejected: left to reconciliation. *)
OnOrderResponse ==
    /\ Dispatched("order")
    /\ IF ~Head(responses).ok
       THEN NothingToDo("order")
       ELSE RoundTripStep("order", "amend",
               CASE OrderLost -> "GetOrder"
                 [] ~OrderLost /\ OnAmendRequestedThrows(store[rtId]) -> "OnAmendRequested"
                 [] OTHER -> "none",
               OnAmendRequested(store[rtId]))

(* Accepted or, after reverting, rejected: cancel the order. *)
OnAmendResponse ==
    /\ Dispatched("amend")
    /\ LET rejected == ~Head(responses).ok
           reverted == IF rejected THEN OnRequestRejected(store[rtId]) ELSE store[rtId]
           stuck == rejected /\ OnRequestRejectedThrows(store[rtId])
       IN  RoundTripStep("amend", "cancel",
               CASE OrderLost -> "GetOrder"
                 [] ~OrderLost /\ stuck -> "OnRequestRejected"
                 [] ~OrderLost /\ ~stuck /\ OnCancelRequestedThrows(reverted) ->
                       "OnCancelRequested"
                 [] OTHER -> "none",
               OnCancelRequested(reverted))

(* Accepted: the push will end the order.  Rejected: revert. *)
OnCancelResponse ==
    /\ Dispatched("cancel")
    /\ IF Head(responses).ok
       THEN NothingToDo("cancel")
       ELSE RoundTripStep("cancel", "none",
               CASE OrderLost -> "GetOrder"
                 [] ~OrderLost /\ OnRequestRejectedThrows(store[rtId]) -> "OnRequestRejected"
                 [] OTHER -> "none",
               OnRequestRejected(store[rtId]))

-----------------------------------------------------------------------------
(* The exchange (external): it answers requests in order, fills and cancels
   orders on its own, and pushes every change to a subscribed session.  A
   response nobody tracks is dropped by Dispatch, so only tracked requests
   are answered here. *)

Requested(op) ==
    /\ Running
    /\ conn
    /\ requests # <<>>
    /\ Head(requests).op = op
    /\ requests' = Tail(requests)

Respond(op, id, ok) ==
    responses' = IF op = "login" \/ <<op, id>> \in awaiting
                 THEN Append(responses, [op |-> op, id |-> id, ok |-> ok])
                 ELSE responses

ExchangeLogin ==
    /\ Requested("login")
    /\ \E ok \in BOOLEAN : Respond("login", NoId, ok)
    /\ UNCHANGED <<status, engineVars, conn, auth, pushes, exchangeVars, faultVars>>

ExchangeSubscribe ==
    /\ Requested("subscribe")
    /\ subscribed' = TRUE
    /\ UNCHANGED <<status, engineVars, conn, auth, responses, pushes, exch, late, faultVars>>

(* The push that reports what a new order turned into. *)
PlacementPush(to) ==
    CASE to = "live"    -> [type |-> "Live", fill |-> FALSE]
      [] to = "partial" -> [type |-> "PartialFill", fill |-> TRUE]
      [] to = "closed"  -> [type |-> "Fill", fill |-> TRUE]

ExchangeOrder ==
    /\ Requested("order")
    /\ LET c == Head(requests).id
       IN  \/ \E to \in {"live", "partial", "closed"} :
                 /\ exch' = [exch EXCEPT ![c] = to]
                 /\ pushes' = PushTo(pushes, {c}, PlacementPush(to))
                 /\ Respond("order", c, TRUE)
           \/ /\ exch' = [exch EXCEPT ![c] = "closed"]
              /\ Respond("order", c, FALSE)
              /\ UNCHANGED pushes
    /\ UNCHANGED <<status, engineVars, conn, auth, subscribed, late, faultVars>>

ExchangeAmend ==
    /\ Requested("amend")
    /\ LET c == Head(requests).id
       IN  \/ /\ Open(c)
              /\ pushes' = PushTo(pushes, {c}, [type |-> StateEvent(c), fill |-> FALSE])
              /\ Respond("amend", c, TRUE)
           \/ /\ Respond("amend", c, FALSE)
              /\ UNCHANGED pushes
    /\ UNCHANGED <<status, engineVars, conn, auth, exchangeVars, faultVars>>

ExchangeCancel ==
    /\ Requested("cancel")
    /\ LET c == Head(requests).id
       IN  \/ /\ Open(c)
              /\ exch' = CloseOrders({c})
              /\ pushes' = PushTo(pushes, {c}, CancelPush)
              /\ Respond("cancel", c, TRUE)
           \/ /\ Respond("cancel", c, FALSE)
              /\ UNCHANGED <<exch, pushes>>
    /\ UNCHANGED <<status, engineVars, conn, auth, subscribed, late, faultVars>>

(* A placement of a lost session arrives after all. *)
ExchangeLatePlacement(c) ==
    /\ Running
    /\ c \in late
    /\ late' = late \ {c}
    /\ exch' = [exch EXCEPT ![c] = "live"]
    /\ pushes' = PushTo(pushes, {c}, [type |-> "Live", fill |-> FALSE])
    /\ UNCHANGED <<status, engineVars, conn, auth, requests, responses, subscribed, faultVars>>

(* The market fills an order, in part or in full, or the exchange cancels it. *)
ExchangeMoves(c) ==
    /\ Running
    /\ Open(c)
    /\ Len(pushes[c]) < MaxPushes
    /\ \/ /\ exch' = [exch EXCEPT ![c] = "partial"]
          /\ pushes' = PushTo(pushes, {c}, [type |-> "PartialFill", fill |-> TRUE])
       \/ /\ exch' = CloseOrders({c})
          /\ \/ pushes' = PushTo(pushes, {c}, [type |-> "Fill", fill |-> TRUE])
             \/ pushes' = PushTo(pushes, {c}, CancelPush)
    /\ UNCHANGED <<status, engineVars, conn, auth, requests, responses, subscribed,
                   late, faultVars>>

-----------------------------------------------------------------------------

Init ==
    /\ status = "boot"
    /\ killed = FALSE
    /\ store = [c \in OrderIds |-> NoOrder]
    /\ lastId \in 0..MaxLeftover
    /\ quote = [s \in Sides |-> NoId]
    /\ quoted = FALSE
    /\ rtId = NoId
    /\ awaiting = {}
    /\ conn = FALSE
    /\ auth = FALSE
    /\ requests = <<>>
    /\ responses = <<>>
    /\ pushes = [c \in OrderIds |-> <<>>]
    /\ exch = [c \in OrderIds |-> IF c <= lastId THEN "live" ELSE "none"]
    /\ subscribed = FALSE
    /\ late = {}
    /\ disconnects = 0
    /\ restErrors = 0

Session == Connect \/ ScheduleReconnect \/ HandleLoginEvent

RoundTrip == OnOrderResponse \/ OnAmendResponse \/ OnCancelResponse

Exchange ==
    \/ ExchangeLogin \/ ExchangeSubscribe
    \/ ExchangeOrder \/ ExchangeAmend \/ ExchangeCancel
    \/ \E c \in OrderIds : ExchangeLatePlacement(c) \/ ExchangeMoves(c)

Next ==
    \/ RunStartupChecks
    \/ Session
    \/ RoundTrip
    \/ OnBookUpdate
    \/ OnTimer
    \/ \E c \in OrderIds : HandleOrderEvent(c)
    \/ OnShutdownSignal
    \/ CheckAndResolve
    \/ GetPendingOrdersThrows
    \/ KillSwitchThrows
    \/ Exchange

(* The reactor polls in a loop and runs every ready handler; timers expire;
   the exchange answers what it received. *)
Fairness ==
    /\ WF_vars(Connect)
    /\ WF_vars(HandleLoginEvent)
    /\ WF_vars(RoundTrip)
    /\ WF_vars(CheckAndResolve)
    /\ \A c \in OrderIds : WF_vars(HandleOrderEvent(c))
    /\ WF_vars(ExchangeLogin \/ ExchangeSubscribe \/ ExchangeOrder
               \/ ExchangeAmend \/ ExchangeCancel)

Spec == Init /\ [][Next]_vars

FairSpec == Spec /\ Fairness

-----------------------------------------------------------------------------
(* Safety. *)

(* Between handlers the store holds no order in a terminal state: whoever ends
   an order (ApplyOrderEvent, ReconcileOrders) removes it in the same handler. *)
NoTerminalOrderInStore ==
    \A c \in OrderIds : store[c].state \notin TerminalStates

(* No push and no quote ever reaches one of the throwing branches of
   Order::ApplyEvent, OnAmendRequested or OnCancelRequested, however late
   the pushes are ("we will treat those as stale states and not throw"). *)
NoIllegalTransition ==
    status \notin {"ApplyEvent", "OnAmendRequested", "OnCancelRequested"}

(* The ids the quoter holds as its bid and its ask are orders of the store,
   they differ, and neither is the round trip's order: on_remove_ keeps the
   quoter in step with every removal, by push or by reconciliation. *)
QuoterTracksStore ==
    \A s \in Sides : quote[s] # NoId =>
        /\ Tracked(quote[s])
        /\ quote[s] # rtId
        /\ \A t \in Sides \ {s} : quote[t] # quote[s]

(* The engine never takes an order for acknowledged (ordId known, or an amend
   or a cancel on its way) that the exchange has not received. *)
NoPhantomAcknowledgement ==
    /\ \A c \in OrderIds : store[c].ordId => exch[c] # "none"
    /\ \A i \in DOMAIN requests :
          requests[i].op \in {"amend", "cancel"} => exch[requests[i].id] # "none"

(* Trading requests wait only on a session that is connected and logged in:
   ScheduleReconnect and Connect take the authentication away with the
   session it belonged to. *)
RequestsNeedLogin ==
    /\ auth => conn
    /\ (\E i \in DOMAIN requests : requests[i].op # "login") => auth

-----------------------------------------------------------------------------
(* What a step may never do. *)

(* Once the kill switch has triggered no handler places an order: not the
   quoter on a late book update or timer, not the round trip after a login. *)
NoPlacementAfterKill == [][killed => lastId' = lastId]_vars

(* When the kill switch triggers and no REST cancel is refused, every order
   of the store whose ordId is known is closed by the end of the handler. *)
KnownOrdersCancelledByKill ==
    [][~killed /\ killed' /\ restErrors' = restErrors
         => \A c \in OrderIds : store[c].ordId => exch'[c] = "closed"]_vars

(* A login leaves the store with exactly the orders the exchange lists, plus
   the order the new round trip places: orders an earlier process or session
   left open are adopted, those that ended meanwhile are dropped. *)
LoginAlignsStore ==
    [][~auth /\ auth' /\ restErrors' = restErrors
         => TrackedIds(store') \ ((lastId + 1)..lastId') = OpenOrders]_vars

(* GET pending orders was answered with an error body in this step: a refused
   cancel, the other REST error, comes only with the kill switch. *)
ListingFailed == restErrors' # restErrors /\ killed' = killed

(* The store gives an order up only when the exchange no longer has it open
   ("found that it is no longer pending on exchange, dropping"): by a push that
   ends it, or by a reconciliation, except where that took an error body for an
   empty list, which the handler does not notice. *)
DroppedOnlyIfNotPending ==
    [][\A c \in OrderIds :
          Tracked(c) /\ ~Present(store'[c]) /\ status' = "running" /\ ~ListingFailed
             => exch'[c] \notin {"live", "partial"}]_vars

(* Looking through in-flight amends and cancels, an order of the store never
   goes back: not from live to unacknowledged, not from partially filled to
   live, whatever the order of pushes, rejections and amends.  What is compared
   under an amend or a cancel in flight is the state a rejection would restore;
   ApplyEvent does not touch it for a Live push it meets in PendingCancel, so an
   acknowledgement lost that way is not seen here. *)
NeverRegresses ==
    [][\A c \in OrderIds : Tracked(c) /\ Present(store'[c])
         => Progress(store'[c]) >= Progress(store[c])]_vars

-----------------------------------------------------------------------------
(* Liveness. *)

(* A pending order the exchange has closed and will not report (the placement
   was rejected, or its push was lost with a session) is dropped in the end:
   "cleanup will be done by reconciliation". *)
DeadPendingOrdersAreDropped ==
    \A c \in OrderIds :
        (store[c].state \in PendingStates /\ exch[c] = "closed" /\ pushes[c] = <<>>)
            ~> ~Tracked(c)

-----------------------------------------------------------------------------
(* The inductive invariant behind the safety properties. *)

WorkingOrder == [state : {"PendingNew", "New", "PartiallyFilled",
                          "PendingCancel", "PendingAmend"},
                 pre : {"PendingNew", "New", "PartiallyFilled"},
                 ordId : BOOLEAN]

Stores == [OrderIds -> WorkingOrder \cup {NoOrder}]

(* Nothing refers to an id that GenerateId has not given out. *)
IdsIssued ==
    /\ \A c \in OrderIds : c > lastId => ~Tracked(c) /\ exch[c] = "none" /\ c \notin late
    /\ \A s \in Sides : quote[s] <= lastId
    /\ rtId <= lastId
    /\ \A i \in DOMAIN requests :
          /\ requests[i].id <= lastId
          /\ requests[i].op \in {"order", "amend", "cancel"} => requests[i].id # NoId

(* A lost session carries nothing; before the login is answered a session
   carries the login and nothing else; afterwards it carries no login. *)
SessionShape ==
    /\ ~conn => requests = <<>> /\ responses = <<>>
    /\ auth => /\ conn
               /\ \A i \in DOMAIN requests : requests[i].op # "login"
               /\ \A i \in DOMAIN responses : responses[i].op # "login"
    /\ ~auth => /\ \/ requests = <<>> /\ responses = <<>>
                   \/ requests = <<[op |-> "login", id |-> NoId]>> /\ responses = <<>>
                   \/ requests = <<>> /\ Len(responses) = 1 /\ responses[1].op = "login"
                /\ ~subscribed
                /\ pushes = [c \in OrderIds |-> <<>>]

(* Requests and responses of the round trip are about its current order, the
   round trip awaits one response about it at a time, and the quoter never
   holds an order of a round trip. *)
RoundTripShape ==
    /\ \A a \in awaiting : a[2] <= rtId
    /\ \A a, b \in awaiting : a[2] = rtId /\ b[2] = rtId => a = b
    /\ \A a \in awaiting : \A s \in Sides : quote[s] # a[2]
    /\ \A i \in DOMAIN responses :
          responses[i].op # "login" => responses[i].id = rtId /\ rtId # NoId
    /\ \A i \in DOMAIN requests :
          <<requests[i].op, requests[i].id>> \in awaiting => requests[i].id = rtId
    /\ <<"order", rtId>> \in awaiting =>
          store[rtId].state \notin {"PendingAmend", "PendingCancel"}
    /\ <<"amend", rtId>> \in awaiting => store[rtId].state # "PendingCancel"

(* Whatever the exchange says about an order, it has received the order. *)
Acknowledged ==
    /\ NoPhantomAcknowledgement
    /\ \A c \in OrderIds : pushes[c] # <<>> => exch[c] # "none"
    /\ \A i \in DOMAIN responses :
          responses[i].op # "login" => exch[responses[i].id] # "none"

(* TypeOK and NoIllegalTransition need the shape of the orders (Stores), of
   the session and of the round trip, and those need each other: no amend of
   the round trip meets an amend or a cancel already in flight only because
   the quoter never holds the round trip's order, which rests on ids being
   issued once. *)
IInv ==
    /\ TypeOK
    /\ store \in Stores
    /\ IdsIssued
    /\ SessionShape
    /\ RoundTripShape
    /\ QuoterTracksStore
    /\ Acknowledged
    /\ NoIllegalTransition

(* DroppedOnlyIfNotPending needs more: an end that is on its way to the engine
   has happened and is final, because every placement reaches the exchange at
   most once, by its request or late. *)
NotYetPlaced(q) ==
    \A i \in DOMAIN q : q[i].op = "order" =>
        /\ exch[q[i].id] = "none"
        /\ q[i].id \notin late
        /\ \A k \in DOMAIN q : q[k] = q[i] => k = i

EndsAreReal(p, e) ==
    \A c \in OrderIds : \A i \in DOMAIN p[c] :
        p[c][i].type \in {"Fill", "Cancel"} => e[c] = "closed"

EndsAreFinal ==
    /\ \A c \in late : exch[c] = "none"
    /\ NotYetPlaced(requests)
    /\ EndsAreReal(pushes, exch)

-----------------------------------------------------------------------------
(* What the repository's documents and comments say and the code does not do. *)

(* README: "Pre-trade checks run before any order placement": a handler that
   places an order leaves at most max_open_orders in the store. *)
PreTradeChecksRun ==
    [][status = "running" /\ lastId' # lastId => Size(store') <= MaxOpenOrders]_vars

(* README: "a kill switch cancels everything and halts". *)
KillSwitchCancelsEverything == killed => OpenOrders = {}

(* README: the engine "reconciles local state against the exchange on every
   reconnect": after a login every open order is known with its ordId. *)
LoginRefreshesOrders ==
    [][~auth /\ auth' /\ restErrors' = restErrors
         => \A c \in OpenOrders : store'[c].ordId]_vars

(* reconciliation.cpp: an order is dropped because the engine "found that it is
   no longer pending on exchange": DroppedOnlyIfNotPending without its exception.
   An error body has no data, and GetPendingOrders returns an empty list. *)
OnlyEndedOrdersAreDropped ==
    [][\A c \in OrderIds :
          Tracked(c) /\ ~Present(store'[c]) /\ status' = "running"
             => exch'[c] \notin {"live", "partial"}]_vars

(* order_lifecycle.cpp: "WS push might come after we have performed state
   transitions. Regardless, we will treat those as stale states and not
   throw": a push that overtakes the response to an amend or a cancel does
   not make the handler of that response throw. *)
LatePushesNeverThrow == status # "OnRequestRejected"

(* order_lifecycle.hpp: the saved state is there to "Revert to this state if
   the in-flight cancel/amend request is rejected": no amend stays in flight
   for ever. *)
AmendsAreResolved ==
    \A c \in OrderIds :
        store[c].state = "PendingAmend" ~> store[c].state # "PendingAmend"
=============================================================================
