--------------------------- MODULE OrderLifecycle ---------------------------
(***************************************************************************)
(* class Order (okx/orders/order_lifecycle.{hpp,cpp}) as operators on a    *)
(* record.  Of the object's fields the properties tell apart the state,    *)
(* the state to revert to, and whether an exchange ordId is known; prices, *)
(* sizes and the pending_since_ clock reading are left out (any pending    *)
(* order may turn out to be overdue when the timeout monitor looks).       *)
(* A member function that throws is split in two: the operator that gives  *)
(* the new object, and a predicate saying when it throws instead.          *)
(***************************************************************************)

TerminalStates == {"Filled", "Canceled", "Rejected"}

PendingStates == {"PendingNew", "PendingCancel", "PendingAmend"}

OrderStates == PendingStates \cup TerminalStates \cup {"New", "PartiallyFilled"}

EventTypes == {"Live", "PartialFill", "Fill", "Cancel"}

Order == [state : OrderStates, pre : OrderStates, ordId : BOOLEAN]

(* The Mut... operators are the mutated forms the runs are tried against. *)
MutIsTerminal(state) == state \in {"Filled", "Rejected"}

IsTerminal(state) == state \in TerminalStates

MutIsPending(state) == state \in {"PendingCancel", "PendingAmend"}

IsPending(state) == state \in PendingStates

(* Order::Order: state_ and pre_pending_state_ start at kPendingNew, the
   ordId is empty until the first event carries one. *)
NewOrder == [state |-> "PendingNew", pre |-> "PendingNew", ordId |-> FALSE]

-----------------------------------------------------------------------------

(* A kLive push: the acknowledgement of a new order or of an amend; any
   other working state keeps its state (only px_ is refreshed). *)
AfterLive(o) ==
    CASE o.state = "PendingNew" -> "New"
      [] o.state = "PendingAmend" -> IF o.pre = "PendingNew" THEN "New" ELSE o.pre
      [] OTHER -> o.state

AfterEvent(o, type) ==
    CASE type = "Live"        -> AfterLive(o)
      [] type = "PartialFill" -> "PartiallyFilled"
      [] type = "Fill"        -> "Filled"
      [] type = "Cancel"      -> IF o.state = "PendingNew" THEN "Rejected" ELSE "Canceled"

(* Order::ApplyEvent.  Every event carries an ordId and fills an empty one. *)
ApplyEvent(o, type) == [o EXCEPT !.state = AfterEvent(o, type), !.ordId = TRUE]

ApplyEventThrows(o) == IsTerminal(o.state)

OnCancelRequested(o) ==
    [o EXCEPT !.pre = IF o.state = "PendingAmend" THEN o.pre ELSE o.state,
              !.state = "PendingCancel"]

OnCancelRequestedThrows(o) ==
    o.state \notin {"PendingNew", "New", "PartiallyFilled", "PendingAmend"}

OnAmendRequested(o) ==
    [o EXCEPT !.pre = IF o.state = "PendingCancel" THEN o.pre ELSE o.state,
              !.state = "PendingAmend"]

OnAmendRequestedThrows(o) ==
    o.state \notin {"PendingNew", "New", "PartiallyFilled", "PendingCancel"}

MutOnRequestRejected(o) == [o EXCEPT !.state = "New"]

OnRequestRejected(o) == [o EXCEPT !.state = o.pre]

OnRequestRejectedThrows(o) == o.state \notin {"PendingCancel", "PendingAmend"}

-----------------------------------------------------------------------------
(* How far the exchange is known to have taken the order, looking through an
   in-flight amend or cancel: the state a rejection would bring back. *)
EffectiveState(o) ==
    IF o.state \in {"PendingCancel", "PendingAmend"} THEN o.pre ELSE o.state

Progress(o) ==
    CASE EffectiveState(o) = "PendingNew"      -> 0
      [] EffectiveState(o) = "New"             -> 1
      [] EffectiveState(o) = "PartiallyFilled" -> 2
      [] OTHER                                 -> 3
=============================================================================
