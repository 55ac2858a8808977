---------------------------- MODULE WindowLimit ----------------------------
(***************************************************************************)
(* What a sliding-window limiter promises, without a ring: a request on an *)
(* endpoint is granted exactly when fewer than Capacity requests were      *)
(* granted there within the last Window.                                   *)
(***************************************************************************)
EXTENDS Integers, Sequences, FiniteSets

CONSTANTS Ops, Capacity, Window, MaxTime

VARIABLES now, granted, answer

InWindow(op) == {i \in DOMAIN granted[op] : granted[op][i] >= now - Window[op]}

Tick == now' \in (now + 1)..MaxTime /\ UNCHANGED <<granted, answer>>

Request(op) ==
    LET ok == Cardinality(InWindow(op)) < Capacity[op]
    IN  /\ answer' = ok
        /\ granted' = IF ok THEN [granted EXCEPT ![op] = Append(@, now)] ELSE granted
        /\ UNCHANGED now

Init ==
    /\ now \in 0..MaxTime
    /\ granted = [op \in Ops |-> <<>>]
    /\ answer = FALSE

Next == Tick \/ \E op \in Ops : Request(op)

Spec == Init /\ [][Next]_<<now, granted, answer>>
=============================================================================
