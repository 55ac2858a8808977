---------------------------- MODULE RateLimiter ----------------------------
(***************************************************************************)
(* EndpointRateLimiter: one SlidingWindowLimiter per trade endpoint, each  *)
(* a ring of the times of its latest grants.  The quoter asks before every *)
(* order and amend it sends; the order round trip sends without asking.    *)
(* granted and sent are histories the code does not keep.                  *)
(***************************************************************************)
EXTENDS Integers, Sequences, FiniteSets

CONSTANTS
    Ops,           \* endpoints with a limiter of their own
    Capacity,      \* RateLimit::capacity of each
    Window,        \* RateLimit::window of each, in clock units
    MaxTime,       \* bound: last clock reading
    MaxRoundTrips  \* bound: requests the round trip sends

ASSUME LimitsAssumption ==
    /\ Capacity \in [Ops -> Nat \ {0}]
    /\ Window \in [Ops -> Nat]
    /\ MaxTime \in Nat
    /\ MaxRoundTrips \in Nat

VARIABLES
    now,         \* steady_clock::now(), which never goes back
    timestamps,  \* SlidingWindowLimiter::timestamps_
    head,        \* SlidingWindowLimiter::head_
    count,       \* SlidingWindowLimiter::count_
    answer,      \* what the latest TryAcquire returned
    granted,     \* times of the grants, per endpoint
    sent,        \* times of the requests sent, per endpoint
    roundTrips

vars == <<now, timestamps, head, count, answer, granted, sent, roundTrips>>

TypeOK ==
    /\ now \in 0..MaxTime
    /\ timestamps = [op \in Ops |-> timestamps[op]]
    /\ head \in [Ops -> Nat]
    /\ count \in [Ops -> Nat]
    /\ \A op \in Ops :
          /\ timestamps[op] \in [0..(Capacity[op] - 1) -> 0..MaxTime]
          /\ head[op] < Capacity[op]
          /\ count[op] <= Capacity[op]
    /\ answer \in BOOLEAN
    /\ granted \in [Ops -> Seq(0..MaxTime)]
    /\ sent \in [Ops -> Seq(0..MaxTime)]
    /\ roundTrips \in 0..MaxRoundTrips

-----------------------------------------------------------------------------

(* The slot k places after head_. *)
Place(op, k) == (head[op] + k) % Capacity[op]

(* The k-th oldest grant the ring remembers, counting from 0. *)
Slot(op, k) == timestamps[op][Place(op, k)]

MutIsExpired(op, k) == Slot(op, k) <= now - Window[op]

IsExpired(op, k) == Slot(op, k) < now - Window[op]

(* The loop stops after k grants: at the first one still in the window. *)
StopsAfter(op, k) ==
    /\ \A j \in 0..(k - 1) : IsExpired(op, j)
    /\ k < count[op] => ~IsExpired(op, k)

Full(op, n) == n >= Capacity[op]

(* The rest of TryAcquire, once the loop has left the ring with this head and
   count; a grant is used at once. *)
Acquire(op, newHead, left) ==
    /\ head' = [head EXCEPT ![op] = newHead]
    /\ IF Full(op, left)
       THEN /\ answer' = FALSE
            /\ count' = [count EXCEPT ![op] = left]
            /\ UNCHANGED <<timestamps, granted, sent>>
       ELSE /\ answer' = TRUE
            /\ count' = [count EXCEPT ![op] = left + 1]
            /\ timestamps' = [timestamps EXCEPT ![op][(newHead + left) % Capacity[op]] = now]
            /\ granted' = [granted EXCEPT ![op] = Append(@, now)]
            /\ sent' = [sent EXCEPT ![op] = Append(@, now)]
    /\ UNCHANGED <<now, roundTrips>>

(* SlidingWindowLimiter::TryAcquire of the endpoint. *)
TryAcquire(op) ==
    \E gone \in 0..count[op] :
        /\ StopsAfter(op, gone)
        /\ Acquire(op, Place(op, gone), count[op] - gone)

(* WsOrderRoundTrip hands its order, amend and cancel to the session without
   a TryAcquire. *)
RoundTripSends(op) ==
    /\ roundTrips < MaxRoundTrips
    /\ roundTrips' = roundTrips + 1
    /\ sent' = [sent EXCEPT ![op] = Append(@, now)]
    /\ UNCHANGED <<now, timestamps, head, count, answer, granted>>

Tick ==
    /\ now' \in (now + 1)..MaxTime
    /\ UNCHANGED <<timestamps, head, count, answer, granted, sent, roundTrips>>

Init ==
    /\ now \in 0..MaxTime
    /\ timestamps = [op \in Ops |-> [k \in 0..(Capacity[op] - 1) |-> 0]]
    /\ head = [op \in Ops |-> 0]
    /\ count = [op \in Ops |-> 0]
    /\ answer = FALSE
    /\ granted = [op \in Ops |-> <<>>]
    /\ sent = [op \in Ops |-> <<>>]
    /\ roundTrips = 0

Next == Tick \/ \E op \in Ops : TryAcquire(op) \/ RoundTripSends(op)

Spec == Init /\ [][Next]_vars

-----------------------------------------------------------------------------

(* The ring implements the window: it grants exactly when fewer than Capacity
   grants of the last Window are on record, although it forgets old grants,
   reuses their slots and only looks at the oldest one it kept. *)
WL == INSTANCE WindowLimit WITH
    now <- now,
    answer <- answer,
    granted <- granted

ImplementsWindow == WL!Spec

Spaced(op, times) ==
    \A i \in DOMAIN times :
        i + Capacity[op] \in DOMAIN times => times[i + Capacity[op]] - times[i] > Window[op]

(* No Window holds more than Capacity grants of an endpoint. *)
GrantsRespectWindow == \A op \in Ops : Spaced(op, granted[op])

Recent(op) ==
    LET g == granted[op]
        old == Len(g) - count[op]
    IN  /\ old >= 0
        /\ \A k \in 0..(count[op] - 1) : Slot(op, k) = g[old + k + 1]
        /\ \A i \in 1..old : g[i] < now - Window[op]
        /\ \A i, j \in DOMAIN g : i <= j => g[i] <= g[j]
        /\ \A i \in DOMAIN g : g[i] <= now

(* The ring holds the latest count grants in order, and the grants it has
   forgotten left the window for good. *)
RingIsRecent == \A op \in Ops : Recent(op)

(* README: "a custom sliding-window limiter checks each endpoint against OKX's
   WS trade-endpoint limits": no Window holds more than Capacity requests. *)
RequestsRespectWindow == \A op \in Ops : Spaced(op, sent[op])
=============================================================================
