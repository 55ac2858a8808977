------------------------------ MODULE OrderMap ------------------------------
(***************************************************************************)
(* What OrderStore promises its callers: a bounded map from client order   *)
(* id to order.  A call names its argument, and is answered in one step by *)
(* what the map then holds under that argument.  The engine's other parts, *)
(* and TradingEngine, use the store as if it were this.                    *)
(***************************************************************************)
EXTENDS Integers, Sequences, FiniteSets

CONSTANTS
    Keys,      \* client order ids, ordered as strings are
    OrdIds,    \* the exchange's order ids
    NoOrd,     \* the empty ordId of a fresh order
    Capacity   \* kCapacity

VARIABLES
    held,    \* the orders in the store
    call,    \* the call to be answered and its argument, or NoCall
    found,   \* the key a caller has just looked up and found, or NoKey
    told,    \* the key the removal listener has heard of in the last call
    result   \* what ForEach or FindByOrdId has returned

vars == <<held, call, found, told, result>>

NoKey == 0

NoCall == <<"none", NoKey>>

Orders == [cl : Keys, ord : OrdIds \cup {NoOrd}]

KeysOf(orders) == {o.cl : o \in orders}

Init ==
    /\ held = {}
    /\ call = NoCall
    /\ found = NoKey
    /\ told = NoKey
    /\ result = <<>>

(* A caller starts its next call, and lets go of what the last one gave it. *)
Calls(op, arg) ==
    /\ call = NoCall
    /\ call' = <<op, arg>>
    /\ found' = NoKey
    /\ told' = NoKey
    /\ result' = <<>>
    /\ UNCHANGED held

Answers(op, arg) == call = <<op, arg>> /\ call' = NoCall

(* Callers add fresh keys; a full store refuses at once. *)
CallsAdd(k) ==
    /\ k \notin KeysOf(held)
    /\ Cardinality(held) < Capacity
    /\ Calls("add", k)

AddThrows ==
    /\ call = NoCall
    /\ Cardinality(held) >= Capacity
    /\ found' = NoKey
    /\ told' = NoKey
    /\ result' = <<>>
    /\ UNCHANGED <<held, call>>

Add(k) ==
    /\ Answers("add", k)
    /\ held' = held \cup {[cl |-> k, ord |-> NoOrd]}
    /\ UNCHANGED <<found, told, result>>

(* The order with the key goes, if there is one, and the listener hears of
   exactly that. *)
Remove(k) ==
    /\ Answers("remove", k)
    /\ \/ /\ \E o \in held : o.cl = k /\ held' = held \ {o}
          /\ told' = k
       \/ /\ k \notin KeysOf(held)
          /\ UNCHANGED <<held, told>>
    /\ UNCHANGED <<found, result>>

FindByClOrdId(k) ==
    /\ Answers("find", k)
    /\ found' = IF k \in KeysOf(held) THEN k ELSE NoKey
    /\ UNCHANGED <<held, told, result>>

(* A caller changes the order it looked up. *)
Update(x) ==
    /\ call = NoCall
    /\ \E o \in held : o.cl = found /\ held' = (held \ {o}) \cup {[o EXCEPT !.ord = x]}
    /\ UNCHANGED <<call, found, told, result>>

(* The first order, in the order of the keys, that has the ordId. *)
FindByOrdId(x) ==
    /\ Answers("ordId", x)
    /\ \/ /\ \A o \in held : o.ord # x
          /\ result' = <<>>
       \/ \E o \in held :
             /\ o.ord = x
             /\ \A other \in held : other.ord = x => o.cl <= other.cl
             /\ result' = <<o.cl>>
    /\ UNCHANGED <<held, found, told>>

(* Every order once, by ascending key. *)
Enumerates(s) ==
    /\ {s[i] : i \in 1..Len(s)} = KeysOf(held)
    /\ \A i, j \in 1..Len(s) : i < j => s[i] < s[j]

ForEach ==
    /\ Answers("each", NoKey)
    /\ result' \in Seq(Keys)
    /\ Enumerates(result')
    /\ UNCHANGED <<held, found, told>>

Next ==
    \/ \E k \in Keys : CallsAdd(k) \/ Calls("remove", k) \/ Calls("find", k)
    \/ \E x \in OrdIds : Calls("ordId", x)
    \/ Calls("each", NoKey)
    \/ AddThrows
    \/ ForEach
    \/ \E k \in Keys : Add(k) \/ Remove(k) \/ FindByClOrdId(k)
    \/ \E x \in OrdIds : Update(x) \/ FindByOrdId(x)

Spec == Init /\ [][Next]_vars
=============================================================================
