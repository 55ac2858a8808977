----------------------------- MODULE OrderStore -----------------------------
(***************************************************************************)
(* OrderStore as it is written: an array kept sorted by client order id,   *)
(* searched by bisection, opened and closed one slot at a time.  A step is *)
(* one turn of a loop or what comes between two loops.  Callers hold the   *)
(* Order* of a lookup until their next call, as every call site does; one  *)
(* of them, ApplyOrderEvent, passes Remove a view of the very order that   *)
(* goes, so the argument is read through the array.                        *)
(***************************************************************************)
EXTENDS Integers, Sequences, FiniteSets

CONSTANTS
    Keys,      \* client order ids; numbers stand for strings in their order
    OrdIds,    \* the exchange's order ids
    NoOrd,     \* the empty ordId of a fresh order
    Capacity   \* kCapacity

ASSUME StoreAssumption ==
    /\ Keys \subseteq Nat \ {0}
    /\ NoOrd \notin OrdIds
    /\ Capacity \in Nat

VARIABLES
    slots,       \* slots_
    count,       \* count_
    op,          \* the call in progress
    step,        \* where it is
    key,         \* its argument, when it owns the string
    pointer,     \* the slot of the Order* a caller holds, or NoSlot
    begin, end,  \* LowerBound's locals
    j,           \* the index of the other loops
    visited,     \* the keys ForEach has visited in this call
    told,        \* the key on_remove_ was called with in the last call
    result       \* what ForEach or FindByOrdId returned

vars == <<slots, count, op, step, key, pointer, begin, end, j, visited, told, result>>

callVars == <<op, key>>
searchVars == <<begin, end>>
loopVars == <<j, visited>>

NoKey == 0

NoSlot == -1

Slots == 0..(Capacity - 1)

Orders == [cl : Keys, ord : OrdIds \cup {NoOrd}]

(* An engaged slot whose order was moved away, and a slot without a value. *)
Moved == [cl |-> 0, ord |-> NoOrd]

Empty == [cl |-> -1, ord |-> NoOrd]

Init ==
    /\ slots = [i \in Slots |-> Empty]
    /\ count = 0
    /\ op = "none"
    /\ step = "idle"
    /\ key = NoKey
    /\ pointer = NoSlot
    /\ begin = 0
    /\ end = 0
    /\ j = 0
    /\ visited = <<>>
    /\ told = NoKey
    /\ result = <<>>

-----------------------------------------------------------------------------
(* The calls.  All but ForEach and FindByOrdId start with LowerBound.  A call
   that returns leaves none of its locals. *)

Returns ==
    /\ step' = "idle"
    /\ op' = "none"
    /\ key' = NoKey
    /\ begin' = 0
    /\ end' = 0
    /\ j' = 0
    /\ visited' = <<>>

Called(call, k) ==
    /\ step = "idle"
    /\ op' = call
    /\ key' = k
    /\ told' = NoKey
    /\ result' = <<>>

Searches(call, k) ==
    /\ Called(call, k)
    /\ step' = "search"
    /\ begin' = 0
    /\ end' = count
    /\ UNCHANGED <<slots, count, loopVars>>

(* Callers add fresh ids, or ids they have just failed to find.  A full store
   throws before anything else. *)
AddCalled(k) ==
    /\ k \notin {slots[i].cl : i \in 0..(count - 1)}
    /\ count < Capacity
    /\ pointer' = NoSlot
    /\ Searches("add", k)

AddThrows ==
    /\ step = "idle"
    /\ count >= Capacity
    /\ pointer' = NoSlot
    /\ told' = NoKey
    /\ result' = <<>>
    /\ UNCHANGED <<slots, count, callVars, step, searchVars, loopVars>>

RemoveCalled(k) ==
    /\ pointer' = NoSlot
    /\ Searches("remove", k)

(* Remove(order->ClOrdId()). *)
RemoveFound ==
    /\ pointer # NoSlot
    /\ UNCHANGED pointer
    /\ Searches("remove", NoKey)

FindCalled(k) ==
    /\ pointer' = NoSlot
    /\ Searches("find", k)

(* The caller changes the order it found: OnAmendRequested, ApplyEvent. *)
UpdateFound(x) ==
    /\ step = "idle"
    /\ pointer # NoSlot
    /\ slots' = [slots EXCEPT ![pointer].ord = x]
    /\ UNCHANGED <<count, callVars, step, pointer, searchVars, loopVars, told, result>>

LoopCalled(call, k) ==
    /\ Called(call, k)
    /\ step' = "loop"
    /\ pointer' = NoSlot
    /\ j' = 0
    /\ visited' = <<>>
    /\ UNCHANGED <<slots, count, searchVars>>

(* The argument, as the callee reads it. *)
Arg == IF pointer # NoSlot THEN slots[pointer].cl ELSE key

-----------------------------------------------------------------------------
(* LowerBound. *)

MutBisect ==
    /\ step = "search"
    /\ begin < end
    /\ LET mid == begin + (end - begin) \div 2
       IN  IF slots[mid].cl < Arg
           THEN begin' = mid /\ UNCHANGED end
           ELSE end' = mid /\ UNCHANGED begin
    /\ UNCHANGED <<slots, count, callVars, step, pointer, loopVars, told, result>>

Bisect ==
    /\ step = "search"
    /\ begin < end
    /\ LET mid == begin + (end - begin) \div 2
       IN  IF slots[mid].cl < Arg
           THEN begin' = mid + 1 /\ UNCHANGED end
           ELSE end' = mid /\ UNCHANGED begin
    /\ UNCHANGED <<slots, count, callVars, step, pointer, loopVars, told, result>>

LowerBoundReturns(call) == step = "search" /\ begin >= end /\ op = call

MutMatches == begin < count - 1 /\ slots[begin].cl = Arg

(* i < count_ && At(i).ClOrdId() == cl_ord_id. *)
Matches == begin < count /\ slots[begin].cl = Arg

-----------------------------------------------------------------------------
(* Add: make room from the end down to the place found, then emplace. *)

AddShifts ==
    /\ LowerBoundReturns("add")
    /\ step' = "open"
    /\ j' = count
    /\ UNCHANGED <<slots, count, callVars, pointer, searchVars, visited, told, result>>

OpenSlot ==
    /\ step = "open"
    /\ j > begin
    /\ slots' = [slots EXCEPT ![j] = slots[j - 1], ![j - 1] = Moved]
    /\ j' = j - 1
    /\ UNCHANGED <<count, callVars, step, pointer, searchVars, visited, told, result>>

Emplace ==
    /\ step = "open"
    /\ j <= begin
    /\ slots' = [slots EXCEPT ![begin] = [cl |-> key, ord |-> NoOrd]]
    /\ count' = count + 1
    /\ Returns
    /\ UNCHANGED <<pointer, told, result>>

-----------------------------------------------------------------------------
(* Remove: nothing if there is no such order; else the listener hears of it
   before the orders after it move down. *)

RemoveMisses ==
    /\ LowerBoundReturns("remove")
    /\ ~Matches
    /\ Returns
    /\ pointer' = NoSlot
    /\ UNCHANGED <<slots, count, told, result>>

RemoveTells ==
    /\ LowerBoundReturns("remove")
    /\ Matches
    /\ told' = Arg
    /\ step' = "close"
    /\ j' = begin
    /\ pointer' = NoSlot
    /\ UNCHANGED <<slots, count, callVars, searchVars, visited, result>>

CloseSlot ==
    /\ step = "close"
    /\ j + 1 < count
    /\ slots' = [slots EXCEPT ![j] = slots[j + 1], ![j + 1] = Moved]
    /\ j' = j + 1
    /\ UNCHANGED <<count, callVars, step, pointer, searchVars, visited, told, result>>

ResetLast ==
    /\ step = "close"
    /\ j + 1 >= count
    /\ slots' = [slots EXCEPT ![count - 1] = Empty]
    /\ count' = count - 1
    /\ Returns
    /\ UNCHANGED <<pointer, told, result>>

-----------------------------------------------------------------------------
(* The lookups and the loop over all orders. *)

FindReturns ==
    /\ LowerBoundReturns("find")
    /\ Returns
    /\ pointer' = IF Matches THEN begin ELSE NoSlot
    /\ UNCHANGED <<slots, count, told, result>>

Visit ==
    /\ step = "loop"
    /\ op = "each"
    /\ j < count
    /\ visited' = Append(visited, slots[j].cl)
    /\ j' = j + 1
    /\ UNCHANGED <<slots, count, callVars, step, pointer, searchVars, told, result>>

ForEachReturns ==
    /\ step = "loop"
    /\ op = "each"
    /\ j >= count
    /\ result' = visited
    /\ Returns
    /\ UNCHANGED <<slots, count, pointer, told>>

Skip ==
    /\ step = "loop"
    /\ op = "ordId"
    /\ j < count
    /\ slots[j].ord # key
    /\ j' = j + 1
    /\ UNCHANGED <<slots, count, callVars, step, pointer, searchVars, visited, told, result>>

FindByOrdIdReturns ==
    /\ step = "loop"
    /\ op = "ordId"
    /\ j < count => slots[j].ord = key
    /\ result' = IF j < count THEN <<slots[j].cl>> ELSE <<>>
    /\ Returns
    /\ UNCHANGED <<slots, count, pointer, told>>

-----------------------------------------------------------------------------

Call ==
    \/ \E k \in Keys : AddCalled(k) \/ RemoveCalled(k) \/ FindCalled(k)
    \/ AddThrows
    \/ RemoveFound
    \/ \E x \in OrdIds : UpdateFound(x) \/ LoopCalled("ordId", x)
    \/ LoopCalled("each", NoKey)

Proceed ==
    \/ Bisect
    \/ AddShifts \/ OpenSlot \/ Emplace
    \/ RemoveMisses \/ RemoveTells \/ CloseSlot \/ ResetLast
    \/ FindReturns
    \/ Visit \/ ForEachReturns
    \/ Skip \/ FindByOrdIdReturns

Next == Call \/ Proceed

Spec == Init /\ [][Next]_vars

(* A call runs to its end on the caller's thread. *)
FairSpec == Spec /\ WF_vars(Proceed)

-----------------------------------------------------------------------------
(* The slots that hold the orders: a shift leaves one out, the one it is about
   to fill. *)
Occupied ==
    (0..(IF step = "open" THEN count ELSE count - 1))
        \ (IF step \in {"open", "close"} THEN {j} ELSE {})

Held == {slots[i] : i \in Occupied}

(* The call the array has yet to answer, with its argument: Add answers when it
   emplaces, Remove when it tells the listener, the others when they return. *)
Unanswered == IF step \in {"idle", "close"} THEN <<"none", NoKey>> ELSE <<op, Arg>>

Map == INSTANCE OrderMap WITH
    held <- Held,
    call <- Unanswered,
    found <- IF step = "idle" /\ pointer # NoSlot THEN slots[pointer].cl ELSE NoKey,
    told <- told,
    result <- result

(* The array answers every call the way a map would, whatever the order of the
   calls: no order is lost, doubled or mixed up by a shift; a lookup finds the
   order with the key or ordId it was given exactly when it is there; Remove
   takes out that order and no other and tells the listener of it, although its
   argument may be a view of the order that goes; ForEach visits each once. *)
ImplementsMap == Map!Spec

TypeOK ==
    /\ slots \in [Slots -> Orders \cup {Moved, Empty}]
    /\ count \in 0..Capacity
    /\ op \in {"none", "add", "remove", "find", "each", "ordId"}
    /\ step \in {"idle", "search", "open", "close", "loop"}
    /\ key \in Keys \cup OrdIds \cup {NoKey}
    /\ pointer \in Slots \cup {NoSlot}
    /\ begin \in 0..Capacity
    /\ end \in 0..Capacity
    /\ j \in 0..Capacity
    /\ visited \in Seq(Keys)
    /\ told \in Keys \cup {NoKey}
    /\ result \in Seq(Keys)

(* Bisection needs the orders sorted, shifts included. *)
Sorted == \A m, n \in Occupied : m < n => slots[m].cl < slots[n].cl

(* At never finds an empty or a moved-from slot. *)
Filled == Occupied \subseteq Slots /\ \A i \in Occupied : slots[i] \in Orders

Counted ==
    /\ IsFiniteSet(Held)
    /\ Cardinality(Held) = IF step = "close" THEN count - 1 ELSE count

(* LowerBound has the place of the argument between its two locals. *)
SearchInRange ==
    step = "search" =>
        /\ op \in {"add", "remove", "find"}
        /\ begin <= end /\ end <= count
        /\ \A i \in 0..(count - 1) :
              (i < begin => slots[i].cl < Arg) /\ (i >= end => slots[i].cl >= Arg)

(* An order held by a caller is one of the store's. *)
PointerInRange ==
    /\ pointer # NoSlot => pointer < count /\ step \in {"idle", "search"}
    /\ pointer # NoSlot /\ step = "search" => op = "remove"
    /\ step = "search" => Arg \in Keys

(* While Add shifts, the gap is at or above the place of the new key, which
   no order has. *)
AddInRange ==
    /\ step \in {"search", "open"} /\ op = "add" =>
          count < Capacity /\ key \in Keys /\ \A i \in Occupied : slots[i].cl # key
    /\ step = "open" =>
          /\ op = "add"
          /\ begin <= j /\ j <= count
          /\ \A i \in Occupied : (i < begin => slots[i].cl < key) /\ (i >= begin => slots[i].cl > key)

LoopsInRange ==
    /\ step = "close" => j < count
    /\ step = "loop" =>
          /\ op \in {"each", "ordId"}
          /\ j <= count
          /\ op = "ordId" => key \in OrdIds /\ \A i \in 0..(j - 1) : slots[i].ord # key
          /\ op = "each" => /\ key = NoKey
                            /\ Len(visited) = j
                            /\ \A i \in 1..j : visited[i] = slots[i - 1].cl

(* What makes the array a map at every step. *)
IInv ==
    /\ TypeOK /\ Sorted /\ Filled /\ Counted
    /\ SearchInRange /\ PointerInRange /\ AddInRange /\ LoopsInRange

(* Every call returns. *)
CallsReturn == step # "idle" ~> step = "idle"
=============================================================================
