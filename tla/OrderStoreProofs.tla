-------------------------- MODULE OrderStoreProofs --------------------------
(***************************************************************************)
(* OrderStore implements OrderMap, for any capacity and any set of ids:    *)
(* each loop turn keeps the array sorted around the gap a shift opens, and *)
(* answers each call at one of its steps, the way the map does for the     *)
(* argument the call was given.  One lemma per action gives the invariant  *)
(* after it and the step of the map it is.                                 *)
(***************************************************************************)
EXTENDS OrderStore, FiniteSetTheorems, TLAPS

(* The provers a leaf is given to, in turn, when it names none. *)
USE ZenonT(3), SMTT(25), ZenonT(30), Z3T(25)

(* What the callers of the store see of a state. *)
Found == IF step = "idle" /\ pointer # NoSlot THEN slots[pointer].cl ELSE NoKey

MapStep == Map!Next \/ UNCHANGED <<Held, Unanswered, Found, told, result>>

(* The parts of the invariant that speak of the array alone. *)
ArrayOK == Sorted /\ Filled /\ Counted

(* The parts that speak of the call in progress. *)
CallOK == SearchInRange /\ PointerInRange /\ AddInRange /\ LoopsInRange

-----------------------------------------------------------------------------

(* The numbers of the invariant are numbers. *)
LEMMA Numbers ==
    ASSUME IInv
    PROVE  /\ Capacity \in Nat /\ count \in Nat /\ count <= Capacity
           /\ begin \in Nat /\ end \in Nat /\ j \in Nat
           /\ \A i \in Occupied : i \in Nat /\ i < Capacity /\ slots[i] \in Orders
                                  /\ slots[i].cl \in Keys /\ slots[i].cl \in Nat
<1>1. Capacity \in Nat /\ Keys \subseteq Nat
  BY StoreAssumption
<1>2. count \in 0..Capacity /\ begin \in 0..Capacity /\ end \in 0..Capacity /\ j \in 0..Capacity
  BY DEF IInv, TypeOK
<1>3. ASSUME NEW i \in Occupied
      PROVE  i \in Nat /\ i < Capacity /\ slots[i] \in Orders /\ slots[i].cl \in Keys /\ slots[i].cl \in Nat
  <2>1. i \in Slots /\ slots[i] \in Orders
    BY <1>3 DEF IInv, Filled
  <2>2. slots[i].cl \in Keys
    BY <2>1 DEF Orders
  <2>3. i \in Nat /\ i < Capacity
    BY <1>1, <2>1 DEF Slots
  <2> QED BY <1>1, <2>1, <2>2, <2>3
<1> QED BY <1>1, <1>2, <1>3

(* The map's Cardinality is the library's. *)
LEMMA SameCardinality == ASSUME NEW S PROVE Map!Cardinality(S) = Cardinality(S)
BY Zenon DEF Map!Cardinality, Cardinality

(* Two places hold different orders. *)
LEMMA Distinct ==
    ASSUME IInv, NEW m \in Occupied, NEW n \in Occupied, slots[m].cl = slots[n].cl
    PROVE  m = n
<1>1. /\ m \in Nat /\ n \in Nat
      /\ slots[m].cl \in Nat /\ slots[n].cl \in Nat
  BY Numbers
<1>2. (m < n => slots[m].cl < slots[n].cl) /\ (n < m => slots[n].cl < slots[m].cl)
  BY DEF IInv, Sorted
<1> QED BY <1>1, <1>2

(* A step outside the shifts that leaves the array alone leaves what is held. *)
LEMMA ArrayUntouched ==
    ASSUME IInv, UNCHANGED <<slots, count>>,
           step \notin {"open", "close"}, step' \notin {"open", "close"}
    PROVE  /\ Occupied = 0..(count - 1) /\ Occupied' = Occupied
           /\ Held' = Held
           /\ ArrayOK'
<1>1. Occupied = 0..(count - 1) /\ Occupied' = Occupied
  BY DEF Occupied
<1>2. Held' = Held
  BY <1>1 DEF Held
<1>3. Sorted' /\ Filled'
  BY <1>1 DEF IInv, Sorted, Filled
<1>4. Counted'
  BY <1>2 DEF IInv, Counted
<1> QED BY <1>1, <1>2, <1>3, <1>4 DEF ArrayOK

(* Initially nothing is held. *)
LEMMA InitIInv == Init => IInv /\ Map!Init
<1> SUFFICES ASSUME Init PROVE IInv /\ Map!Init
  OBVIOUS
<1>1. Capacity \in Nat /\ 0 \in 0..Capacity
  BY StoreAssumption
<1>2. Occupied = {} /\ Held = {}
  <2>1. Occupied = {}
    BY DEF Init, Occupied
  <2> QED BY <2>1 DEF Held
<1>3. TypeOK
  <2>1. slots \in [Slots -> Orders \cup {Moved, Empty}]
    BY DEF Init
  <2> QED BY <1>1, <2>1 DEF Init, TypeOK
<1>4. Sorted /\ Filled
  BY <1>2 DEF Sorted, Filled
<1>5. Counted
  <2>1. IsFiniteSet({}) /\ Cardinality({}) = 0
    BY FS_EmptySet
  <2> QED BY <1>2, <2>1 DEF Counted, Init
<1>6. SearchInRange /\ PointerInRange /\ AddInRange /\ LoopsInRange
  BY DEF Init, SearchInRange, PointerInRange, AddInRange, LoopsInRange
<1>7. Map!Init
  <2>1. Unanswered = <<"none", NoKey>>
    BY DEF Init, Unanswered
  <2> QED BY <1>2, <2>1 DEF Init, Map!Init, Map!NoCall, Map!NoKey, NoKey
<1> QED BY <1>3, <1>4, <1>5, <1>6, <1>7 DEF IInv

-----------------------------------------------------------------------------
(* The calls. *)

(* A call that starts with LowerBound looks at the whole array. *)
LEMMA SearchesIInv ==
    ASSUME IInv, NEW call \in {"add", "remove", "find"}, NEW k \in Keys \cup {NoKey},
           Searches(call, k),
           \/ pointer' = NoSlot /\ k \in Keys
           \/ pointer # NoSlot /\ pointer' = pointer /\ call = "remove",
           call = "add" => count < Capacity /\ k \notin {slots[i].cl : i \in 0..(count - 1)}
    PROVE  IInv' /\ MapStep
<1>1. /\ step = "idle" /\ step' = "search" /\ op' = call /\ key' = k
      /\ begin' = 0 /\ end' = count /\ told' = NoKey /\ result' = <<>>
      /\ UNCHANGED <<slots, count, j, visited>>
  BY DEF Searches, Called, loopVars
<1>2. /\ Occupied = 0..(count - 1) /\ Occupied' = Occupied
      /\ Held' = Held /\ ArrayOK'
  BY <1>1, ArrayUntouched
<1>3. TypeOK'
  <2>1. pointer' \in Slots \cup {NoSlot} /\ 0 \in 0..Capacity
    BY StoreAssumption DEF IInv, TypeOK
  <2> QED BY <1>1, <2>1 DEF IInv, TypeOK
<1>4. SearchInRange'
  <2>1. count \in Nat
    BY Numbers
  <2>2. \A i \in 0..(count - 1) : ~(i < 0) /\ ~(i >= count)
    BY <2>1
  <2> QED BY <1>1, <2>1, <2>2 DEF SearchInRange
<1>5. PointerInRange'
  <2>1. CASE pointer' = NoSlot /\ k \in Keys
    BY <1>1, <2>1 DEF PointerInRange, Arg
  <2>2. CASE pointer # NoSlot /\ pointer' = pointer /\ call = "remove"
    <3>1. pointer < count /\ pointer \in Slots
      BY <2>2 DEF IInv, PointerInRange, TypeOK
    <3>2. pointer \in Occupied
      BY <1>2, <3>1, Numbers DEF Slots
    <3>3. slots[pointer].cl \in Keys
      BY <3>2, Numbers
    <3> QED BY <1>1, <2>2, <3>1, <3>3 DEF PointerInRange, Arg
  <2> QED BY <2>1, <2>2
<1>6. AddInRange'
  <2>1. call = "add" => k \in Keys
    OBVIOUS
  <2>2. call = "add" => \A i \in Occupied : slots[i].cl # k
    BY <1>2
  <2> QED BY <1>1, <1>2, <2>1, <2>2 DEF AddInRange
<1>7. LoopsInRange'
  BY <1>1 DEF LoopsInRange
<1>8. PICK a \in Keys : a = Arg'
  BY <1>1, <1>5 DEF PointerInRange
<1>9. Map!Calls(call, a)
  <2>1. Unanswered = <<"none", NoKey>> /\ Unanswered' = <<call, a>>
    BY <1>1, <1>8 DEF Unanswered
  <2> QED BY <1>1, <1>2, <2>1 DEF Map!Calls, Map!NoCall, Map!NoKey, NoKey
<1>10. ASSUME call = "add" PROVE Map!CallsAdd(a)
  <2>1. a = k
    BY <1>1, <1>8, <1>10 DEF Arg
  <2>2. a \notin Map!KeysOf(Held)
    BY <1>2, <1>10, <2>1 DEF Map!KeysOf, Held
  <2>3. Map!Cardinality(Held) < Capacity
    BY <1>1, <1>10, SameCardinality DEF IInv, Counted
  <2> QED BY <1>9, <1>10, <2>2, <2>3 DEF Map!CallsAdd
<1>11. MapStep
  BY <1>9, <1>10 DEF MapStep, Map!Next
<1> QED BY <1>2, <1>3, <1>4, <1>5, <1>6, <1>7, <1>11 DEF IInv, ArrayOK

(* ForEach and FindByOrdId start at the first order. *)
LEMMA LoopCalledIInv ==
    ASSUME IInv, NEW call \in {"each", "ordId"}, NEW k \in OrdIds \cup {NoKey},
           LoopCalled(call, k), call = "ordId" => k \in OrdIds, call = "each" => k = NoKey
    PROVE  IInv' /\ MapStep
<1>1. /\ step = "idle" /\ step' = "loop" /\ op' = call /\ key' = k /\ pointer' = NoSlot
      /\ told' = NoKey /\ result' = <<>>
      /\ j' = 0 /\ visited' = <<>>
      /\ UNCHANGED <<slots, count, begin, end>>
  BY DEF LoopCalled, Called, searchVars
<1>2. /\ Occupied = 0..(count - 1) /\ Occupied' = Occupied
      /\ Held' = Held /\ ArrayOK'
  BY <1>1, ArrayUntouched
<1>3. TypeOK'
  <2>1. 0 \in 0..Capacity
    BY StoreAssumption
  <2> QED BY <1>1, <2>1 DEF IInv, TypeOK
<1>4. SearchInRange' /\ PointerInRange' /\ AddInRange'
  BY <1>1 DEF SearchInRange, PointerInRange, AddInRange
<1>5. LoopsInRange'
  <2>1. count \in Nat /\ Len(<<>>) = 0
    BY Numbers
  <2>2. 0 <= count /\ 0..(0 - 1) = {} /\ 1..0 = {}
    BY <2>1
  <2> QED BY <1>1, <2>1, <2>2 DEF LoopsInRange
<1>6. Map!Calls(call, k)
  <2>1. Unanswered = <<"none", NoKey>> /\ Unanswered' = <<call, k>>
    BY <1>1 DEF Unanswered, Arg
  <2> QED BY <1>1, <1>2, <2>1 DEF Map!Calls, Map!NoCall, Map!NoKey, NoKey
<1>7. MapStep
  BY <1>6 DEF MapStep, Map!Next, Map!NoKey, NoKey
<1> QED BY <1>2, <1>3, <1>4, <1>5, <1>7 DEF IInv, ArrayOK

(* A full store refuses and stays as it is. *)
LEMMA AddThrowsIInv == IInv /\ AddThrows => IInv' /\ MapStep
<1> SUFFICES ASSUME IInv, AddThrows PROVE IInv' /\ MapStep
  OBVIOUS
<1>1. /\ step = "idle" /\ step' = "idle" /\ count >= Capacity /\ pointer' = NoSlot
      /\ told' = NoKey /\ result' = <<>>
      /\ UNCHANGED <<slots, count, op, key, begin, end, j, visited>>
  BY DEF AddThrows, callVars, searchVars, loopVars
<1>2. Held' = Held /\ ArrayOK'
  BY <1>1, ArrayUntouched
<1>3. TypeOK'
  BY <1>1 DEF IInv, TypeOK
<1>4. CallOK'
  BY <1>1 DEF CallOK, SearchInRange, PointerInRange, AddInRange, LoopsInRange
<1>5. Map!AddThrows
  <2>1. Unanswered = <<"none", NoKey>> /\ Unanswered' = Unanswered
    BY <1>1 DEF Unanswered
  <2>2. Map!Cardinality(Held) >= Capacity
    BY <1>1, SameCardinality DEF IInv, Counted
  <2> QED BY <1>1, <1>2, <2>1, <2>2 DEF Map!AddThrows, Map!NoCall, Map!NoKey, NoKey
<1> QED BY <1>2, <1>3, <1>4, <1>5 DEF IInv, ArrayOK, CallOK, MapStep, Map!Next

(* Replacing one element of a finite set by one that is not in it. *)
LEMMA Exchanged ==
    ASSUME NEW S, IsFiniteSet(S), NEW old \in S, NEW new, new \notin S \ {old}
    PROVE  /\ IsFiniteSet((S \ {old}) \cup {new})
           /\ Cardinality((S \ {old}) \cup {new}) = Cardinality(S)
<1>1. IsFiniteSet(S \ {old}) /\ Cardinality(S \ {old}) = Cardinality(S) - 1
  BY FS_RemoveElement
<1>2. /\ IsFiniteSet((S \ {old}) \cup {new})
      /\ Cardinality((S \ {old}) \cup {new}) = Cardinality(S \ {old}) + 1
  BY <1>1, FS_AddElement
<1>3. Cardinality(S) \in Nat
  BY FS_CardinalityType
<1> QED BY <1>1, <1>2, <1>3

(* A caller changes the order it has found and no other. *)
LEMMA UpdateFoundIInv ==
    ASSUME IInv, NEW x \in OrdIds, UpdateFound(x)
    PROVE  IInv' /\ MapStep
<1> DEFINE old == slots[pointer]
           new == [old EXCEPT !.ord = x]
<1>1. /\ step = "idle" /\ pointer # NoSlot
      /\ slots' = [slots EXCEPT ![pointer].ord = x]
      /\ UNCHANGED <<count, op, step, key, pointer, begin, end, j, visited, told, result>>
  BY DEF UpdateFound, callVars, searchVars, loopVars
<1>2. Occupied = 0..(count - 1) /\ Occupied' = Occupied
  BY <1>1 DEF Occupied
<1>3. pointer \in Occupied /\ pointer \in Slots
  <2>1. pointer < count /\ pointer \in Slots
    BY <1>1 DEF IInv, PointerInRange, TypeOK
  <2> QED BY <1>2, <2>1, Numbers DEF Slots
<1>4. old \in Orders
  BY <1>3, Numbers
<1>5. new \in Orders /\ new.cl = old.cl /\ new = [cl |-> old.cl, ord |-> x]
  BY <1>4 DEF Orders
<1>6. slots \in [Slots -> Orders \cup {Moved, Empty}]
  BY DEF IInv, TypeOK
<1>7. /\ slots' = [slots EXCEPT ![pointer] = new]
      /\ slots' \in [Slots -> Orders \cup {Moved, Empty}]
      /\ slots'[pointer] = new
      /\ \A i \in Slots : i # pointer => slots'[i] = slots[i]
  BY <1>1, <1>3, <1>5, <1>6
<1> HIDE DEF old, new
<1>8. \A i \in Slots : slots'[i].cl = slots[i].cl
  BY <1>3, <1>5, <1>7 DEF old
<1>9. Occupied \subseteq Slots
  BY DEF IInv, Filled
<1>10. \A i \in Occupied : i # pointer => slots[i] # old /\ slots[i] # new
  <2> TAKE i \in Occupied
  <2> HAVE i # pointer
  <2>1. slots[i].cl # slots[pointer].cl
    BY <1>3, Distinct
  <2> QED BY <1>5, <2>1 DEF old
<1>11. Held' = (Held \ {old}) \cup {new}
  <2>1. Held = {slots[i] : i \in Occupied} /\ Held' = {slots'[i] : i \in Occupied}
    BY <1>2 DEF Held
  <2>2. old \in Held /\ new \in Held'
    BY <1>3, <1>7, <2>1 DEF old
  <2>3. ASSUME NEW o \in Held' PROVE o \in (Held \ {old}) \cup {new}
    <3>1. PICK i \in Occupied : o = slots'[i]
      BY <2>1, <2>3
    <3>2. CASE i = pointer
      BY <1>7, <3>1, <3>2
    <3>3. CASE i # pointer
      BY <1>7, <1>9, <1>10, <2>1, <3>1, <3>3
    <3> QED BY <3>2, <3>3
  <2>4. ASSUME NEW o \in Held, o # old PROVE o \in Held'
    <3>1. PICK i \in Occupied : o = slots[i]
      BY <2>1, <2>4
    <3>2. i # pointer
      BY <2>4, <3>1 DEF old
    <3> QED BY <1>7, <1>9, <2>1, <3>1, <3>2
  <2> QED BY <2>2, <2>3, <2>4
<1>12. old \in Held /\ new \notin Held \ {old}
  <2>1. old \in Held
    BY <1>3 DEF Held, old
  <2>2. ASSUME new \in Held, new # old PROVE FALSE
    <3>1. PICK i \in Occupied : new = slots[i]
      BY <2>2 DEF Held
    <3>2. i = pointer
      BY <1>10, <3>1
    <3> QED BY <2>2, <3>1, <3>2 DEF old
  <2> QED BY <2>1, <2>2
<1>13. TypeOK'
  BY <1>1, <1>7 DEF IInv, TypeOK
<1>14. Sorted' /\ Filled'
  <2>1. Sorted'
    BY <1>2, <1>8, <1>9 DEF IInv, Sorted
  <2>2. Filled'
    BY <1>2, <1>5, <1>7, <1>9 DEF IInv, Filled
  <2> QED BY <2>1, <2>2
<1>15. Counted'
  <2>1. IsFiniteSet(Held) /\ Cardinality(Held) = count
    BY <1>1 DEF IInv, Counted
  <2>2. IsFiniteSet(Held') /\ Cardinality(Held') = count
    BY <1>11, <1>12, <2>1, Exchanged
  <2> QED BY <1>1, <2>2 DEF Counted
<1>16. CallOK'
  BY <1>1 DEF CallOK, IInv, SearchInRange, PointerInRange, AddInRange, LoopsInRange
<1>17. Map!Update(x)
  <2>1. old.cl = Found /\ Found' = Found
    BY <1>1, <1>3, <1>8 DEF Found, old
  <2>2. \E o \in Held : o.cl = Found /\ Held' = (Held \ {o}) \cup {[o EXCEPT !.ord = x]}
    BY <1>11, <1>12, <2>1 DEF new
  <2>3. Unanswered = <<"none", NoKey>> /\ Unanswered' = Unanswered
    BY <1>1 DEF Unanswered
  <2> QED BY <1>1, <2>1, <2>2, <2>3 DEF Map!Update, Map!NoCall, Map!NoKey, NoKey, Found
<1> QED BY <1>13, <1>14, <1>15, <1>16, <1>17 DEF IInv, CallOK, MapStep, Map!Next

-----------------------------------------------------------------------------
(* LowerBound. *)

(* The middle of a range that is not empty. *)
LEMMA Middle ==
    ASSUME NEW b \in Nat, NEW e \in Nat, b < e
    PROVE  b + (e - b) \div 2 \in Nat /\ b <= b + (e - b) \div 2 /\ b + (e - b) \div 2 < e
<1>1. PICK d \in Nat : d = e - b /\ d > 0
  OBVIOUS
<1>2. d \div 2 \in Nat /\ d \div 2 < d
  BY <1>1
<1> QED BY <1>1, <1>2

(* Comparing the middle order tells on which side of it the argument is. *)
LEMMA BisectIInv == IInv /\ Bisect => IInv' /\ MapStep
<1> SUFFICES ASSUME IInv, Bisect PROVE IInv' /\ MapStep
  OBVIOUS
<1> DEFINE mid == begin + (end - begin) \div 2
<1>1. /\ step = "search" /\ begin < end
      /\ \/ slots[mid].cl < Arg /\ begin' = mid + 1 /\ end' = end
         \/ ~(slots[mid].cl < Arg) /\ end' = mid /\ begin' = begin
      /\ UNCHANGED <<slots, count, op, step, key, pointer, j, visited, told, result>>
  BY DEF Bisect, callVars, loopVars
<1>2. begin \in Nat /\ end \in Nat /\ count \in Nat /\ Capacity \in Nat /\ count <= Capacity
  BY Numbers
<1>3. mid \in Nat /\ begin <= mid /\ mid < end
  BY <1>1, <1>2, Middle
<1> HIDE DEF mid
<1>4. /\ Occupied = 0..(count - 1) /\ Occupied' = Occupied
      /\ Held' = Held /\ ArrayOK'
  BY <1>1, ArrayUntouched
<1>5. /\ op \in {"add", "remove", "find"} /\ end <= count
      /\ \A i \in 0..(count - 1) :
            (i < begin => slots[i].cl < Arg) /\ (i >= end => slots[i].cl >= Arg)
  BY <1>1 DEF IInv, SearchInRange
<1>6. Arg' = Arg /\ Arg \in Nat
  <2>1. Arg' = Arg
    BY <1>1 DEF Arg
  <2>2. Arg \in Keys
    BY <1>1 DEF IInv, PointerInRange
  <2> QED BY <2>1, <2>2, StoreAssumption
<1>7. mid \in Occupied
  BY <1>2, <1>3, <1>4, <1>5
<1>8. SearchInRange'
  <2>1. CASE slots[mid].cl < Arg /\ begin' = mid + 1 /\ end' = end
    <3>1. \A i \in 0..(count - 1) : i < mid + 1 => slots[i].cl < Arg
      <4> SUFFICES ASSUME NEW i \in 0..(count - 1), i < mid + 1 PROVE slots[i].cl < Arg
        OBVIOUS
      <4>1. i = mid \/ i < mid
        BY <1>3
      <4>2. i < mid => slots[i].cl < slots[mid].cl
        BY <1>4, <1>7 DEF IInv, Sorted
      <4>3. slots[i].cl \in Nat /\ slots[mid].cl \in Nat
        BY <1>4, <1>7, Numbers
      <4> QED BY <1>6, <2>1, <4>1, <4>2, <4>3
    <3>2. mid + 1 <= end
      BY <1>2, <1>3
    <3> QED BY <1>1, <1>5, <1>6, <2>1, <3>1, <3>2 DEF SearchInRange
  <2>2. CASE ~(slots[mid].cl < Arg) /\ end' = mid /\ begin' = begin
    <3>1. \A i \in 0..(count - 1) : i >= mid => slots[i].cl >= Arg
      <4> SUFFICES ASSUME NEW i \in 0..(count - 1), i >= mid PROVE slots[i].cl >= Arg
        OBVIOUS
      <4>1. i = mid \/ mid < i
        BY <1>3
      <4>2. mid < i => slots[mid].cl < slots[i].cl
        BY <1>4, <1>7 DEF IInv, Sorted
      <4>3. slots[i].cl \in Nat /\ slots[mid].cl \in Nat
        BY <1>4, <1>7, Numbers
      <4> QED BY <1>6, <2>2, <4>1, <4>2, <4>3
    <3>2. begin <= mid /\ mid <= count
      BY <1>2, <1>3, <1>5
    <3> QED BY <1>1, <1>5, <1>6, <2>2, <3>1, <3>2 DEF SearchInRange
  <2> QED BY <1>1, <2>1, <2>2
<1>9. TypeOK'
  <2>1. begin' \in 0..Capacity /\ end' \in 0..Capacity
    BY <1>1, <1>2, <1>3, <1>5
  <2> QED BY <1>1, <2>1 DEF IInv, TypeOK
<1>10. PointerInRange' /\ AddInRange' /\ LoopsInRange'
  BY <1>1, <1>4, <1>6 DEF IInv, PointerInRange, AddInRange, LoopsInRange
<1>11. UNCHANGED <<Held, Unanswered, Found, told, result>>
  BY <1>1, <1>4 DEF Found, Unanswered, Arg
<1> QED BY <1>4, <1>8, <1>9, <1>10, <1>11 DEF IInv, ArrayOK, MapStep

(* When the search ends, the orders below begin are smaller than the argument
   and the others are not. *)
LEMMA SearchEnds ==
    ASSUME IInv, step = "search", begin >= end
    PROVE  /\ begin <= count /\ Arg \in Keys /\ Arg \in Nat
           /\ Occupied = 0..(count - 1)
           /\ \A i \in Occupied : (i < begin => slots[i].cl < Arg) /\ (i >= begin => slots[i].cl >= Arg)
           /\ Matches <=> \E i \in Occupied : slots[i].cl = Arg
<1>1. /\ begin <= end /\ end <= count
      /\ \A i \in 0..(count - 1) :
            (i < begin => slots[i].cl < Arg) /\ (i >= end => slots[i].cl >= Arg)
  BY DEF IInv, SearchInRange
<1>2. begin \in Nat /\ end \in Nat /\ count \in Nat
  BY Numbers
<1>3. begin = end /\ begin <= count
  BY <1>1, <1>2
<1>4. Occupied = 0..(count - 1)
  BY DEF Occupied
<1>5. Arg \in Keys /\ Arg \in Nat
  BY StoreAssumption, ZenonT(20) DEF IInv, PointerInRange
<1>6. \A i \in Occupied : (i < begin => slots[i].cl < Arg) /\ (i >= begin => slots[i].cl >= Arg)
  BY <1>1, <1>3, <1>4
<1>7. Matches => \E i \in Occupied : slots[i].cl = Arg
  <2>1. Matches => begin \in Occupied
    BY <1>2, <1>4 DEF Matches
  <2> QED BY <2>1 DEF Matches
<1>8. ASSUME NEW i \in Occupied, slots[i].cl = Arg PROVE Matches
  <2>1. i \in Nat /\ i < count /\ ~(i < begin)
    BY <1>2, <1>4, <1>5, <1>6, <1>8
  <2>2. begin \in Occupied /\ begin < count
    BY <1>2, <1>4, <2>1
  <2>3. begin = i
    <3>1. begin < i => slots[begin].cl < slots[i].cl
      BY <2>2 DEF IInv, Sorted
    <3>2. slots[begin].cl >= Arg /\ slots[begin].cl \in Nat
      BY <1>2, <1>6, <2>2, Numbers
    <3>3. ~(begin < i)
      BY <1>5, <1>8, <3>1, <3>2
    <3> QED BY <1>2, <2>1, <3>3
  <2> QED BY <1>8, <2>2, <2>3 DEF Matches
<1> QED BY <1>3, <1>4, <1>5, <1>6, <1>7, <1>8

-----------------------------------------------------------------------------
(* The shifts. *)

(* Moving one order over to the gap next to it changes neither the orders that
   are held nor the order they are in. *)
LEMMA Shifted ==
    ASSUME IInv, NEW from \in Occupied, NEW to \in Slots, to \notin Occupied,
           slots' = [slots EXCEPT ![to] = slots[from], ![from] = Moved],
           Occupied' = (Occupied \ {from}) \cup {to},
           \A i \in Occupied : i # from => (i < from <=> i < to)
    PROVE  /\ slots' \in [Slots -> Orders \cup {Moved, Empty}]
           /\ slots'[to] = slots[from]
           /\ \A i \in Occupied : i # from => slots'[i] = slots[i]
           /\ Held' = Held /\ Sorted' /\ Filled'
<1>1. /\ slots \in [Slots -> Orders \cup {Moved, Empty}]
      /\ Occupied \subseteq Slots
      /\ slots[from] \in Orders
  BY DEF IInv, TypeOK, Filled
<1>2. from \in Slots /\ from # to
  BY <1>1
<1>3. /\ slots' \in [Slots -> Orders \cup {Moved, Empty}]
      /\ slots'[to] = slots[from]
      /\ \A i \in Slots : i # from /\ i # to => slots'[i] = slots[i]
  BY <1>1, <1>2
<1>4. \A i \in Occupied : i # from => slots'[i] = slots[i]
  BY <1>1, <1>3
<1>5. Held' = Held
  <2>1. Held = {slots[i] : i \in Occupied} /\ Held' = {slots'[i] : i \in Occupied'}
    BY DEF Held
  <2>2. ASSUME NEW o \in Held PROVE o \in Held'
    <3>1. PICK i \in Occupied : o = slots[i]
      BY <2>1, <2>2
    <3>2. CASE i = from
      BY <1>3, <2>1, <3>1, <3>2
    <3>3. CASE i # from
      BY <1>4, <2>1, <3>1, <3>3, ZenonT(20)
    <3> QED BY <3>2, <3>3
  <2>3. ASSUME NEW o \in Held' PROVE o \in Held
    <3>1. PICK i \in Occupied' : o = slots'[i]
      BY <2>1, <2>3, ZenonT(20)
    <3>2. CASE i = to
      BY <1>3, <2>1, <3>1, <3>2
    <3>3. CASE i # to
      <4>1. i \in Occupied /\ i # from
        BY <3>3
      <4>2. o = slots[i]
        BY <1>4, <3>1, <4>1, ZenonT(20)
      <4> QED BY <2>1, <4>1, <4>2
    <3> QED BY <3>2, <3>3
  <2> QED BY <2>2, <2>3, SMTT(30)
<1>6. Filled'
  <2>1. \A i \in Occupied' : i \in Slots /\ slots'[i] \in Orders
    BY <1>1, <1>3, <1>4 DEF IInv, Filled
  <2>2. Slots' = Slots /\ Orders' = Orders
    BY DEF Slots, Orders
  <2> QED BY <2>1, <2>2, ZenonT(20) DEF Filled
<1>7. Sorted'
  <2> SUFFICES ASSUME NEW m \in Occupied', NEW n \in Occupied', m < n
               PROVE  slots'[m].cl < slots'[n].cl
    BY ZenonT(20) DEF Sorted
  <2> DEFINE was(i) == IF i = to THEN from ELSE i
  <2>1. \A i \in Occupied' : was(i) \in Occupied /\ slots'[i] = slots[was(i)]
    BY <1>3, <1>4, ZenonT(20)
  <2>2. from \in Int /\ to \in Int /\ \A i \in Occupied' : i \in Int
    BY <1>1, <1>2 DEF Slots
  <2>3. was(m) < was(n)
    <3>1. CASE m = to
      <4>1. n \in Occupied /\ n # from /\ n # to
        BY <2>2, <3>1
      <4>2. ~(n < from)
        BY <2>2, <3>1, <4>1
      <4> QED BY <2>2, <3>1, <4>1, <4>2
    <3>2. CASE n = to
      <4>1. m \in Occupied /\ m # from /\ m # to
        BY <2>2, <3>2
      <4> QED BY <3>2, <4>1
    <3>3. CASE m # to /\ n # to
      BY <3>3
    <3> QED BY <3>1, <3>2, <3>3
  <2> HIDE DEF was
  <2>4. slots[was(m)].cl < slots[was(n)].cl
    BY <2>1, <2>3 DEF IInv, Sorted
  <2> QED BY <2>1, <2>4, ZenonT(20)
<1> QED BY <1>3, <1>4, <1>5, <1>6, <1>7, ZenonT(20)

(* Add starts to shift with the gap behind the last order. *)
LEMMA AddShiftsIInv == IInv /\ AddShifts => IInv' /\ MapStep
<1> SUFFICES ASSUME IInv, AddShifts PROVE IInv' /\ MapStep
  OBVIOUS
<1>1. /\ step = "search" /\ begin >= end /\ op = "add" /\ step' = "open" /\ j' = count
      /\ UNCHANGED <<slots, count, op, key, pointer, begin, end, visited, told, result>>
  BY DEF AddShifts, LowerBoundReturns, callVars, searchVars
<1>2. count \in Nat /\ Capacity \in Nat /\ begin \in Nat /\ count <= Capacity
  BY Numbers
<1>3. /\ begin <= count /\ Occupied = 0..(count - 1)
      /\ \A i \in Occupied : (i < begin => slots[i].cl < Arg) /\ (i >= begin => slots[i].cl >= Arg)
  BY <1>1, SearchEnds
<1>4. Occupied' = Occupied
  <2>1. Occupied' = (0..count) \ {count}
    BY <1>1 DEF Occupied
  <2> QED BY <1>2, <1>3, <2>1
<1>5. pointer = NoSlot /\ Arg = key
  BY <1>1 DEF IInv, PointerInRange, Arg
<1>6. /\ count < Capacity /\ key \in Keys /\ key \in Nat
      /\ \A i \in Occupied : slots[i].cl # key
  BY <1>1, StoreAssumption, ZenonT(20) DEF IInv, AddInRange
<1>7. Held' = Held /\ Sorted' /\ Filled'
  BY <1>1, <1>4 DEF IInv, Held, Sorted, Filled
<1>8. Counted'
  BY <1>1, <1>7 DEF IInv, Counted
<1>9. TypeOK'
  BY <1>1 DEF IInv, TypeOK
<1>10. AddInRange'
  <2>1. \A i \in Occupied : i >= begin => slots[i].cl > key
    <3> SUFFICES ASSUME NEW i \in Occupied, i >= begin PROVE slots[i].cl > key
      OBVIOUS
    <3>1. slots[i].cl \in Nat /\ slots[i].cl >= key /\ slots[i].cl # key
      BY <1>3, <1>5, <1>6, Numbers
    <3> QED BY <1>6, <3>1
  <2>2. \A i \in Occupied : i < begin => slots[i].cl < key
    BY <1>3, <1>5
  <2>3. begin <= count /\ count <= count
    BY <1>2, <1>3
  <2> QED BY <1>1, <1>4, <1>6, <2>1, <2>2, <2>3 DEF AddInRange
<1>11. SearchInRange' /\ PointerInRange' /\ LoopsInRange'
  BY <1>1, <1>5 DEF SearchInRange, PointerInRange, LoopsInRange
<1>12. UNCHANGED <<Held, Unanswered, Found, told, result>>
  BY <1>1, <1>7 DEF Found, Unanswered, Arg
<1> QED BY <1>7, <1>8, <1>9, <1>10, <1>11, <1>12 DEF IInv, MapStep

(* Making room moves the gap down by one, never below the place found. *)
LEMMA OpenSlotIInv == IInv /\ OpenSlot => IInv' /\ MapStep
<1> SUFFICES ASSUME IInv, OpenSlot PROVE IInv' /\ MapStep
  OBVIOUS
<1>1. /\ step = "open" /\ step' = "open" /\ j > begin /\ j' = j - 1
      /\ slots' = [slots EXCEPT ![j] = slots[j - 1], ![j - 1] = Moved]
      /\ UNCHANGED <<count, op, key, pointer, begin, end, visited, told, result>>
  BY DEF OpenSlot, callVars, searchVars
<1>2. /\ count \in Nat /\ Capacity \in Nat /\ begin \in Nat /\ j \in Nat
      /\ key \in Nat
      /\ op = "add" /\ count < Capacity /\ key \in Keys
      /\ j <= count
  BY <1>1, Numbers, StoreAssumption DEF IInv, AddInRange
<1>3. /\ Occupied = (0..count) \ {j} /\ Occupied' = (0..count) \ {j - 1}
  BY <1>1 DEF Occupied
<1>4. /\ j - 1 \in Occupied /\ j \in Slots /\ j \notin Occupied
      /\ j - 1 \in Nat /\ j - 1 >= begin /\ j - 1 <= count /\ j - 1 \in 0..Capacity
  BY <1>1, <1>2, <1>3 DEF Slots
<1>5. Occupied' = (Occupied \ {j - 1}) \cup {j}
  BY <1>2, <1>3, <1>4
<1>6. \A i \in Occupied : i # j - 1 => (i < j - 1 <=> i < j)
  BY <1>2, <1>3
<1>7. /\ slots' \in [Slots -> Orders \cup {Moved, Empty}]
      /\ slots'[j] = slots[j - 1]
      /\ \A i \in Occupied : i # j - 1 => slots'[i] = slots[i]
      /\ Held' = Held /\ Sorted' /\ Filled'
  BY <1>1, <1>4, <1>5, <1>6, Shifted, ZenonT(20)
<1>8. Counted'
  BY <1>1, <1>7 DEF IInv, Counted
<1>9. TypeOK'
  BY <1>1, <1>4, <1>7 DEF IInv, TypeOK
<1>10. AddInRange'
  <2>1. \A i \in Occupied : /\ slots[i].cl # key
                            /\ i < begin => slots[i].cl < key
                            /\ i >= begin => slots[i].cl > key
    BY <1>1, <1>2 DEF IInv, AddInRange
  <2>2. ASSUME NEW i \in Occupied'
        PROVE  /\ slots'[i].cl # key
               /\ i < begin => slots'[i].cl < key
               /\ i >= begin => slots'[i].cl > key
    <3>1. CASE i = j
      <4>1. slots'[i].cl # key /\ slots'[i].cl > key
        BY <1>4, <1>7, <2>1, <3>1
      <4>2. ~(i < begin)
        BY <1>1, <1>2, <3>1
      <4> QED BY <4>1, <4>2
    <3>2. CASE i # j
      <4>1. i \in Occupied /\ i # j - 1
        BY <1>5, <3>2
      <4> QED BY <1>7, <2>1, <4>1
    <3> QED BY <3>1, <3>2
  <2> QED BY <1>1, <1>2, <1>4, <2>2, ZenonT(20) DEF AddInRange
<1>11. SearchInRange' /\ PointerInRange' /\ LoopsInRange'
  BY <1>1 DEF IInv, SearchInRange, PointerInRange, LoopsInRange
<1>12. UNCHANGED <<Held, Unanswered, Found, told, result>>
  <2>1. pointer = NoSlot
    BY <1>1 DEF IInv, PointerInRange
  <2> QED BY <1>1, <1>7, <2>1 DEF Found, Unanswered, Arg
<1> QED BY <1>7, <1>8, <1>9, <1>10, <1>11, <1>12 DEF IInv, MapStep

(* The new order fills the gap: the orders below it are smaller, the others
   greater. *)
LEMMA EmplaceIInv == IInv /\ Emplace => IInv' /\ MapStep
<1> SUFFICES ASSUME IInv, Emplace PROVE IInv' /\ MapStep
  OBVIOUS
<1> DEFINE new == [cl |-> key, ord |-> NoOrd]
<1>1. /\ step = "open" /\ step' = "idle" /\ j <= begin /\ count' = count + 1
      /\ slots' = [slots EXCEPT ![begin] = new]
      /\ op' = "none" /\ key' = NoKey /\ begin' = 0 /\ end' = 0 /\ j' = 0 /\ visited' = <<>>
      /\ UNCHANGED <<pointer, told, result>>
  BY DEF Emplace, Returns
<1>2. /\ count \in Nat /\ Capacity \in Nat /\ begin \in Nat /\ j \in Nat
      /\ key \in Nat
      /\ op = "add" /\ count < Capacity /\ key \in Keys
      /\ begin <= j /\ j <= count
  BY <1>1, Numbers, StoreAssumption, ZenonT(20) DEF IInv, AddInRange
<1>3. j = begin
  BY <1>1, <1>2
<1>4. Occupied = (0..count) \ {begin} /\ Occupied' = 0..count
  <2>1. Occupied' = 0..count
    <3>1. Occupied' = (0..(count' - 1)) \ {}
      BY <1>1, Zenon DEF Occupied
    <3>2. count' - 1 = count
      BY <1>1, <1>2
    <3> QED BY <3>1, <3>2
  <2>2. Occupied = (0..count) \ {begin}
    BY <1>1, <1>3 DEF Occupied
  <2> QED BY <1>2, <2>1, <2>2
<1>5. begin \in Slots /\ begin \in 0..count /\ 0..count \subseteq Slots
  BY <1>2, <1>3 DEF Slots
<1>6. new \in Orders /\ new.cl = key
  BY <1>2 DEF Orders
<1> HIDE DEF new
<1>7. /\ slots' \in [Slots -> Orders \cup {Moved, Empty}]
      /\ slots'[begin] = new
      /\ \A i \in Occupied : slots'[i] = slots[i]
  <2>1. slots \in [Slots -> Orders \cup {Moved, Empty}]
    BY DEF IInv, TypeOK
  <2> QED BY <1>1, <1>4, <1>5, <1>6, <2>1
<1>8. \A i \in Occupied : /\ slots[i].cl # key
                          /\ i < begin => slots[i].cl < key
                          /\ i >= begin => slots[i].cl > key
  BY <1>1, <1>2 DEF IInv, AddInRange
<1>9. Held' = Held \cup {new}
  <2>1. Held = {slots[i] : i \in Occupied} /\ Held' = {slots'[i] : i \in Occupied'}
    BY DEF Held
  <2>2. Occupied' = Occupied \cup {begin}
    BY <1>4, <1>5
  <2> QED BY <1>7, <2>1, <2>2
<1>10. \A o \in Held : o.cl # key
  BY <1>8 DEF Held
<1>11. IsFiniteSet(Held) /\ Cardinality(Held) = count
  BY <1>1 DEF IInv, Counted
<1>12. Counted'
  <2>1. new \notin Held
    BY <1>6, <1>10
  <2>2. IsFiniteSet(Held \cup {new}) /\ Cardinality(Held \cup {new}) = count + 1
    BY <1>11, <2>1, FS_AddElement
  <2> QED BY <1>1, <1>9, <2>2 DEF Counted
<1>13. Filled'
  <2>1. \A i \in Occupied' : i \in Slots /\ slots'[i] \in Orders
    BY <1>4, <1>5, <1>6, <1>7 DEF IInv, Filled
  <2> QED BY <2>1 DEF Filled
<1>14. Sorted'
  <2> SUFFICES ASSUME NEW m \in Occupied', NEW n \in Occupied', m < n
               PROVE  slots'[m].cl < slots'[n].cl
    BY DEF Sorted
  <2>1. CASE m = begin
    <3>1. n \in Occupied /\ n >= begin
      BY <1>2, <1>4, <2>1
    <3>2. slots'[n].cl \in Nat /\ slots'[n].cl > key
      BY <1>7, <1>8, <3>1, Numbers
    <3> QED BY <1>2, <1>6, <1>7, <2>1, <3>2
  <2>2. CASE n = begin
    <3>1. m \in Occupied
      BY <1>2, <1>4, <2>2
    <3> QED BY <1>6, <1>7, <1>8, <2>2, <3>1
  <2>3. CASE m # begin /\ n # begin
    <3>1. m \in Occupied /\ n \in Occupied
      BY <1>4, <2>3
    <3> QED BY <1>7, <3>1 DEF IInv, Sorted
  <2> QED BY <2>1, <2>2, <2>3
<1>15. TypeOK'
  <2>1. count' \in 0..Capacity /\ 0 \in 0..Capacity
    BY <1>1, <1>2
  <2> QED BY <1>1, <1>7, <2>1 DEF IInv, TypeOK
<1>16. pointer = NoSlot
  BY <1>1 DEF IInv, PointerInRange
<1>17. SearchInRange' /\ PointerInRange' /\ AddInRange' /\ LoopsInRange'
  BY <1>1, <1>16 DEF SearchInRange, PointerInRange, AddInRange, LoopsInRange
<1>18. Map!Add(key)
  <2>1. Found' = Found
    BY <1>1, <1>16 DEF Found
  <2>2. Unanswered = <<"add", key>> /\ Unanswered' = <<"none", NoKey>>
    BY <1>1, <1>2, <1>16 DEF Unanswered, Arg
  <2> QED BY <1>1, <1>9, <2>1, <2>2 DEF Map!Add, Map!Answers, Map!NoCall, Map!NoKey, NoKey, Found, new
<1> QED BY <1>2, <1>12, <1>13, <1>14, <1>15, <1>17, <1>18 DEF IInv, MapStep, Map!Next

(* Remove of an order that is not there does nothing. *)
LEMMA RemoveMissesIInv == IInv /\ RemoveMisses => IInv' /\ MapStep
<1> SUFFICES ASSUME IInv, RemoveMisses PROVE IInv' /\ MapStep
  OBVIOUS
<1>1. /\ step = "search" /\ begin >= end /\ op = "remove" /\ ~Matches
      /\ step' = "idle" /\ pointer' = NoSlot
      /\ op' = "none" /\ key' = NoKey /\ begin' = 0 /\ end' = 0 /\ j' = 0 /\ visited' = <<>>
      /\ UNCHANGED <<slots, count, told, result>>
  BY DEF RemoveMisses, LowerBoundReturns, Returns
<1>2. Held' = Held /\ ArrayOK'
  BY <1>1, ArrayUntouched
<1>3. TypeOK'
  <2>1. 0 \in 0..Capacity
    BY StoreAssumption
  <2> QED BY <1>1, <2>1 DEF IInv, TypeOK
<1>4. CallOK'
  BY <1>1 DEF CallOK, SearchInRange, PointerInRange, AddInRange, LoopsInRange
<1>5. Arg \in Keys /\ Arg \notin Map!KeysOf(Held)
  BY <1>1, SearchEnds DEF Map!KeysOf, Held
<1>6. Map!Remove(Arg)
  <2>1. Unanswered = <<"remove", Arg>> /\ Unanswered' = <<"none", NoKey>>
    BY <1>1 DEF Unanswered
  <2>2. Found = NoKey /\ Found' = NoKey
    BY <1>1 DEF Found
  <2> QED BY <1>1, <1>2, <1>5, <2>1, <2>2
      DEF Map!Remove, Map!Answers, Map!NoCall, Map!NoKey, NoKey, Found
<1> QED BY <1>2, <1>3, <1>4, <1>5, <1>6 DEF IInv, ArrayOK, CallOK, MapStep, Map!Next

(* The listener hears of the order at the place found, which is the one that
   has the argument's id; from here on its slot is the gap. *)
LEMMA RemoveTellsIInv == IInv /\ RemoveTells => IInv' /\ MapStep
<1> SUFFICES ASSUME IInv, RemoveTells PROVE IInv' /\ MapStep
  OBVIOUS
<1> DEFINE gone == slots[begin]
<1>1. /\ step = "search" /\ begin >= end /\ op = "remove" /\ Matches
      /\ step' = "close" /\ told' = Arg /\ j' = begin /\ pointer' = NoSlot
      /\ UNCHANGED <<slots, count, op, key, begin, end, visited, result>>
  BY DEF RemoveTells, LowerBoundReturns, callVars, searchVars
<1>2. Arg \in Keys /\ Occupied = 0..(count - 1)
  BY <1>1, SearchEnds
<1>3. begin \in Nat /\ count \in Nat /\ begin < count /\ gone.cl = Arg
  BY <1>1, Numbers DEF Matches
<1> HIDE DEF gone
<1>4. begin \in Occupied /\ Occupied' = Occupied \ {begin}
  <2>1. Occupied' = (0..(count - 1)) \ {begin}
    BY <1>1 DEF Occupied
  <2> QED BY <1>2, <1>3, <2>1
<1>5. gone \in Held /\ Held' = Held \ {gone}
  <2>1. Held = {slots[i] : i \in Occupied} /\ Held' = {slots[i] : i \in Occupied'}
    BY <1>1 DEF Held
  <2>2. \A i \in Occupied : i # begin => slots[i] # gone
    BY <1>4, Distinct DEF gone
  <2> QED BY <1>4, <2>1, <2>2 DEF gone
<1>6. IsFiniteSet(Held) /\ Cardinality(Held) = count
  BY <1>1 DEF IInv, Counted
<1>7. Counted'
  <2>1. IsFiniteSet(Held') /\ Cardinality(Held') = count - 1
    BY <1>5, <1>6, FS_RemoveElement
  <2> QED BY <1>1, <2>1 DEF Counted
<1>8. Sorted' /\ Filled'
  BY <1>1, <1>4 DEF IInv, Sorted, Filled
<1>9. TypeOK'
  BY <1>1, <1>2 DEF IInv, TypeOK
<1>10. SearchInRange' /\ PointerInRange' /\ AddInRange' /\ LoopsInRange'
  BY <1>1, <1>3 DEF SearchInRange, PointerInRange, AddInRange, LoopsInRange
<1>11. Map!Remove(Arg)
  <2>1. \E o \in Held : o.cl = Arg /\ Held' = Held \ {o}
    BY <1>3, <1>5
  <2>2. Unanswered = <<"remove", Arg>> /\ Unanswered' = <<"none", NoKey>>
    BY <1>1 DEF Unanswered
  <2> QED BY <1>1, <2>1, <2>2 DEF Map!Remove, Map!Answers, Map!NoCall, Map!NoKey, NoKey
<1> QED BY <1>2, <1>7, <1>8, <1>9, <1>10, <1>11 DEF IInv, MapStep, Map!Next

(* Closing the gap moves it up by one. *)
LEMMA CloseSlotIInv == IInv /\ CloseSlot => IInv' /\ MapStep
<1> SUFFICES ASSUME IInv, CloseSlot PROVE IInv' /\ MapStep
  OBVIOUS
<1>1. /\ step = "close" /\ step' = "close" /\ j + 1 < count /\ j' = j + 1
      /\ slots' = [slots EXCEPT ![j] = slots[j + 1], ![j + 1] = Moved]
      /\ UNCHANGED <<count, op, key, pointer, begin, end, visited, told, result>>
  BY DEF CloseSlot, callVars, searchVars
<1>2. count \in Nat /\ Capacity \in Nat /\ j \in Nat /\ count <= Capacity
  BY Numbers
<1>3. Occupied = (0..(count - 1)) \ {j} /\ Occupied' = (0..(count - 1)) \ {j + 1}
  BY <1>1 DEF Occupied
<1>4. j + 1 \in Occupied /\ j \in Slots /\ j \notin Occupied /\ j + 1 \in 0..Capacity
  BY <1>1, <1>2, <1>3 DEF Slots
<1>5. Occupied' = (Occupied \ {j + 1}) \cup {j}
  BY <1>1, <1>2, <1>3
<1>6. \A i \in Occupied : i # j + 1 => (i < j + 1 <=> i < j)
  BY <1>2, <1>3
<1>7. /\ slots' \in [Slots -> Orders \cup {Moved, Empty}]
      /\ Held' = Held /\ Sorted' /\ Filled'
  BY <1>1, <1>4, <1>5, <1>6, Shifted, ZenonT(20)
<1>8. Counted'
  BY <1>1, <1>7 DEF IInv, Counted
<1>9. TypeOK'
  BY <1>1, <1>4, <1>7 DEF IInv, TypeOK
<1>10. SearchInRange' /\ PointerInRange' /\ AddInRange' /\ LoopsInRange'
  BY <1>1 DEF IInv, SearchInRange, PointerInRange, AddInRange, LoopsInRange
<1>11. UNCHANGED <<Held, Unanswered, Found, told, result>>
  BY <1>1, <1>7 DEF Found, Unanswered
<1> QED BY <1>7, <1>8, <1>9, <1>10, <1>11 DEF IInv, MapStep

(* The gap has reached the end: the last slot is given up. *)
LEMMA ResetLastIInv == IInv /\ ResetLast => IInv' /\ MapStep
<1> SUFFICES ASSUME IInv, ResetLast PROVE IInv' /\ MapStep
  OBVIOUS
<1>1. /\ step = "close" /\ step' = "idle" /\ j + 1 >= count /\ count' = count - 1
      /\ slots' = [slots EXCEPT ![count - 1] = Empty]
      /\ op' = "none" /\ key' = NoKey /\ begin' = 0 /\ end' = 0 /\ j' = 0 /\ visited' = <<>>
      /\ UNCHANGED <<pointer, told, result>>
  BY DEF ResetLast, Returns
<1>2. /\ count \in Nat /\ Capacity \in Nat /\ j \in Nat /\ count <= Capacity
      /\ j < count
  BY <1>1, Numbers DEF IInv, LoopsInRange
<1>3. j = count - 1 /\ count - 1 \in Slots /\ count - 1 \in 0..Capacity
  BY <1>1, <1>2 DEF Slots
<1>4. Occupied = 0..(count - 2) /\ Occupied' = Occupied
  <2>1. Occupied = (0..(count - 1)) \ {count - 1}
    BY <1>1, <1>3 DEF Occupied
  <2>2. Occupied' = (0..(count' - 1)) \ {}
    BY <1>1, Zenon DEF Occupied
  <2>3. count' - 1 = count - 2
    BY <1>1, <1>2
  <2> QED BY <1>2, <2>1, <2>2, <2>3
<1>5. /\ slots' \in [Slots -> Orders \cup {Moved, Empty}]
      /\ \A i \in Occupied : slots'[i] = slots[i]
  <2>1. slots \in [Slots -> Orders \cup {Moved, Empty}] /\ Occupied \subseteq Slots
    BY DEF IInv, TypeOK, Filled
  <2>2. \A i \in Occupied : i # count - 1
    BY <1>2, <1>4
  <2> QED BY <1>1, <1>3, <2>1, <2>2
<1>6. Held' = Held /\ Sorted' /\ Filled'
  BY <1>4, <1>5 DEF IInv, Held, Sorted, Filled
<1>7. Counted'
  BY <1>1, <1>6 DEF IInv, Counted
<1>8. TypeOK'
  <2>1. 0 \in 0..Capacity
    BY <1>2
  <2> QED BY <1>1, <1>3, <1>5, <2>1 DEF IInv, TypeOK
<1>9. pointer = NoSlot
  BY <1>1 DEF IInv, PointerInRange
<1>10. SearchInRange' /\ PointerInRange' /\ AddInRange' /\ LoopsInRange'
  BY <1>1, <1>9 DEF SearchInRange, PointerInRange, AddInRange, LoopsInRange
<1>11. UNCHANGED <<Held, Unanswered, Found, told, result>>
  BY <1>1, <1>6, <1>9 DEF Found, Unanswered
<1> QED BY <1>6, <1>7, <1>8, <1>10, <1>11 DEF IInv, MapStep

-----------------------------------------------------------------------------
(* The lookups and the loop over all orders. *)

(* FindByClOrdId finds an order exactly when one with that id is held. *)
LEMMA FindReturnsIInv == IInv /\ FindReturns => IInv' /\ MapStep
<1> SUFFICES ASSUME IInv, FindReturns PROVE IInv' /\ MapStep
  OBVIOUS
<1>1. /\ step = "search" /\ begin >= end /\ op = "find" /\ step' = "idle"
      /\ pointer' = IF Matches THEN begin ELSE NoSlot
      /\ op' = "none" /\ key' = NoKey /\ begin' = 0 /\ end' = 0 /\ j' = 0 /\ visited' = <<>>
      /\ UNCHANGED <<slots, count, told, result>>
  BY DEF FindReturns, LowerBoundReturns, Returns
<1>2. /\ Arg \in Keys /\ Occupied = 0..(count - 1)
      /\ Matches <=> \E i \in Occupied : slots[i].cl = Arg
  BY <1>1, SearchEnds
<1>3. Arg = key
  BY <1>1 DEF IInv, PointerInRange, Arg
<1>4. Held' = Held /\ ArrayOK'
  BY <1>1, ArrayUntouched
<1>5. /\ begin \in Nat /\ count \in Nat /\ Capacity \in Nat /\ count <= Capacity
      /\ NoSlot = -1
  BY Numbers DEF NoSlot
<1>6. Matches => begin < count /\ begin \in Slots /\ begin # NoSlot /\ slots[begin].cl = key
  BY <1>3, <1>5 DEF Matches, Slots
<1>7. TypeOK'
  <2>1. pointer' \in Slots \cup {NoSlot}
    BY <1>1, <1>6
  <2>2. 0 \in 0..Capacity
    BY <1>5
  <2> QED BY <1>1, <2>1, <2>2 DEF IInv, TypeOK
<1>8. PointerInRange'
  BY <1>1, <1>6 DEF PointerInRange
<1>9. SearchInRange' /\ AddInRange' /\ LoopsInRange'
  BY <1>1 DEF SearchInRange, AddInRange, LoopsInRange
<1>10. Map!FindByClOrdId(key)
  <2>1. Matches <=> key \in Map!KeysOf(Held)
    BY <1>2, <1>3 DEF Map!KeysOf, Held
  <2>2. Found' = IF key \in Map!KeysOf(Held) THEN key ELSE NoKey
    <3>1. CASE Matches
      BY <1>1, <1>6, <2>1, <3>1 DEF Found
    <3>2. CASE ~Matches
      BY <1>1, <2>1, <3>2 DEF Found
    <3> QED BY <3>1, <3>2
  <2>3. Unanswered = <<"find", key>> /\ Unanswered' = <<"none", NoKey>>
    BY <1>1, <1>3 DEF Unanswered
  <2> QED BY <1>1, <1>4, <2>2, <2>3, Zenon
      DEF Map!FindByClOrdId, Map!Answers, Map!NoCall, Map!NoKey, NoKey, Found
<1> QED BY <1>2, <1>3, <1>4, <1>7, <1>8, <1>9, <1>10 DEF IInv, ArrayOK, MapStep, Map!Next

(* ForEach has visited the orders before the one it is at. *)
LEMMA VisitIInv == IInv /\ Visit => IInv' /\ MapStep
<1> SUFFICES ASSUME IInv, Visit PROVE IInv' /\ MapStep
  OBVIOUS
<1>1. /\ step = "loop" /\ op = "each" /\ j < count /\ j' = j + 1
      /\ visited' = Append(visited, slots[j].cl)
      /\ UNCHANGED <<slots, count, op, step, key, pointer, begin, end, told, result>>
  BY DEF Visit, callVars, searchVars
<1>2. Occupied = 0..(count - 1) /\ Held' = Held /\ ArrayOK'
  BY <1>1, ArrayUntouched
<1>3. count \in Nat /\ Capacity \in Nat /\ j \in Nat /\ count <= Capacity
  BY Numbers
<1>4. j \in Occupied /\ slots[j].cl \in Keys
  <2>1. j \in Occupied
    BY <1>1, <1>2, <1>3
  <2> QED BY <2>1, Numbers
<1>5. visited \in Seq(Keys) /\ Len(visited) = j /\ \A i \in 1..j : visited[i] = slots[i - 1].cl
  BY <1>1, ZenonT(30) DEF IInv, TypeOK, LoopsInRange
<1>6. /\ visited' \in Seq(Keys) /\ Len(visited') = j + 1
      /\ \A i \in 1..(j + 1) : visited'[i] = slots[i - 1].cl
  <2>1. /\ visited' \in Seq(Keys) /\ Len(visited') = j + 1
        /\ \A i \in 1..j : visited'[i] = visited[i]
        /\ visited'[j + 1] = slots[j].cl
    BY <1>1, <1>4, <1>5, SMTT(30)
  <2>2. \A i \in 1..(j + 1) : i \in 1..j \/ i = j + 1
    BY <1>3
  <2>3. (j + 1) - 1 = j
    BY <1>3
  <2> QED BY <1>5, <2>1, <2>2, <2>3
<1>7. TypeOK'
  <2>1. j' \in 0..Capacity
    BY <1>1, <1>3
  <2> QED BY <1>1, <1>6, <2>1, ZenonT(30) DEF IInv, TypeOK
<1>8. LoopsInRange'
  <2>1. j + 1 <= count
    BY <1>1, <1>3
  <2>2. key' = NoKey
    BY <1>1 DEF IInv, LoopsInRange
  <2> QED BY <1>1, <1>6, <2>1, <2>2, ZenonT(30) DEF LoopsInRange
<1>9. SearchInRange' /\ PointerInRange' /\ AddInRange'
  BY <1>1, ZenonT(30) DEF IInv, SearchInRange, PointerInRange, AddInRange
<1>10. UNCHANGED <<Held, Unanswered, Found, told, result>>
  BY <1>1, <1>2 DEF Found, Unanswered, Arg
<1> QED BY <1>2, <1>7, <1>8, <1>9, <1>10 DEF IInv, ArrayOK, MapStep

(* ForEach has visited every order once, by ascending id. *)
LEMMA ForEachReturnsIInv == IInv /\ ForEachReturns => IInv' /\ MapStep
<1> SUFFICES ASSUME IInv, ForEachReturns PROVE IInv' /\ MapStep
  OBVIOUS
<1>1. /\ step = "loop" /\ op = "each" /\ j >= count /\ step' = "idle" /\ result' = visited
      /\ op' = "none" /\ key' = NoKey /\ begin' = 0 /\ end' = 0 /\ j' = 0 /\ visited' = <<>>
      /\ UNCHANGED <<slots, count, pointer, told>>
  BY DEF ForEachReturns, Returns
<1>2. Occupied = 0..(count - 1) /\ Held' = Held /\ ArrayOK'
  BY <1>1, ArrayUntouched
<1>3. count \in Nat /\ j \in Nat /\ j <= count /\ pointer = NoSlot
  BY <1>1, Numbers, ZenonT(30) DEF IInv, LoopsInRange, PointerInRange
<1>4. /\ visited \in Seq(Keys) /\ Len(visited) = count
      /\ \A i \in 1..count : visited[i] = slots[i - 1].cl
  <2>1. j = count
    BY <1>1, <1>3
  <2> QED BY <1>1, <2>1, ZenonT(30) DEF IInv, TypeOK, LoopsInRange
<1>5. \A i \in 1..count : i - 1 \in Occupied
  BY <1>2, <1>3
<1>6. {visited[i] : i \in 1..count} = Map!KeysOf(Held)
  <2>1. Map!KeysOf(Held) = {slots[n].cl : n \in Occupied}
    BY DEF Map!KeysOf, Held
  <2>2. ASSUME NEW n \in Occupied PROVE \E i \in 1..count : visited[i] = slots[n].cl
    <3>1. n + 1 \in 1..count /\ (n + 1) - 1 = n
      BY <1>2, <1>3
    <3>2. visited[n + 1] = slots[n].cl
      BY <1>4, <3>1
    <3> QED BY <3>1, <3>2
  <2>3. ASSUME NEW i \in 1..count PROVE visited[i] \in {slots[n].cl : n \in Occupied}
    BY <1>4, <1>5
  <2> QED BY <2>1, <2>2, <2>3
<1>7. \A m, n \in 1..count : m < n => visited[m] < visited[n]
  <2> SUFFICES ASSUME NEW m \in 1..count, NEW n \in 1..count, m < n
               PROVE  visited[m] < visited[n]
    OBVIOUS
  <2>1. m - 1 < n - 1
    BY <1>3
  <2>2. slots[m - 1].cl < slots[n - 1].cl
    BY <1>5, <2>1 DEF IInv, Sorted
  <2> QED BY <1>4, <2>2
<1>8. TypeOK'
  <2>1. 0 \in 0..Capacity
    BY StoreAssumption
  <2> QED BY <1>1, <1>4, <2>1 DEF IInv, TypeOK
<1>9. SearchInRange' /\ PointerInRange' /\ AddInRange' /\ LoopsInRange'
  BY <1>1, <1>3, Zenon DEF SearchInRange, PointerInRange, AddInRange, LoopsInRange
<1>10. Map!ForEach
  <2>1. Map!Enumerates(visited)
    BY <1>4, <1>6, <1>7 DEF Map!Enumerates
  <2>2. Found' = Found
    BY <1>1, <1>3 DEF Found
  <2>3. Map!Answers("each", NoKey)
    <3>1. key = NoKey
      BY <1>1 DEF IInv, LoopsInRange
    <3> QED BY <1>1, <1>3, <3>1 DEF Unanswered, Arg, Map!Answers, Map!NoCall, Map!NoKey, NoKey
  <2> QED BY <1>1, <1>2, <1>4, <2>1, <2>2, <2>3, ZenonT(20)
      DEF Map!ForEach, Map!Enumerates, Map!KeysOf, Map!NoKey, NoKey, Found
<1> QED BY <1>2, <1>8, <1>9, <1>10 DEF IInv, ArrayOK, MapStep, Map!Next

(* FindByOrdId passes the orders that have another ordId. *)
LEMMA SkipIInv == IInv /\ Skip => IInv' /\ MapStep
<1> SUFFICES ASSUME IInv, Skip PROVE IInv' /\ MapStep
  OBVIOUS
<1>1. /\ step = "loop" /\ op = "ordId" /\ j < count /\ slots[j].ord # key /\ j' = j + 1
      /\ UNCHANGED <<slots, count, op, step, key, pointer, begin, end, visited, told, result>>
  BY DEF Skip, callVars, searchVars
<1>2. Occupied = 0..(count - 1) /\ Held' = Held /\ ArrayOK'
  BY <1>1, ArrayUntouched
<1>3. count \in Nat /\ Capacity \in Nat /\ j \in Nat /\ count <= Capacity
  BY Numbers
<1>4. TypeOK'
  <2>1. j' \in 0..Capacity
    BY <1>1, <1>3
  <2> QED BY <1>1, <2>1 DEF IInv, TypeOK
<1>5. LoopsInRange'
  <2>1. key \in OrdIds /\ \A i \in 0..(j - 1) : slots[i].ord # key
    BY <1>1, ZenonT(30) DEF IInv, LoopsInRange
  <2>2. j + 1 <= count /\ \A i \in 0..((j + 1) - 1) : i \in 0..(j - 1) \/ i = j
    BY <1>1, <1>3
  <2>3. \A i \in 0..((j + 1) - 1) : slots[i].ord # key
    BY <1>1, <2>1, <2>2
  <2> QED BY <1>1, <2>1, <2>2, <2>3, ZenonT(30) DEF LoopsInRange
<1>6. SearchInRange' /\ PointerInRange' /\ AddInRange'
  BY <1>1, ZenonT(30) DEF IInv, SearchInRange, PointerInRange, AddInRange
<1>7. UNCHANGED <<Held, Unanswered, Found, told, result>>
  BY <1>1, <1>2 DEF Found, Unanswered, Arg
<1> QED BY <1>2, <1>4, <1>5, <1>6, <1>7 DEF IInv, ArrayOK, MapStep

(* FindByOrdId stops at the first order that has it, or finds none. *)
LEMMA FindByOrdIdReturnsIInv == IInv /\ FindByOrdIdReturns => IInv' /\ MapStep
<1> SUFFICES ASSUME IInv, FindByOrdIdReturns PROVE IInv' /\ MapStep
  OBVIOUS
<1>1. /\ step = "loop" /\ op = "ordId" /\ step' = "idle"
      /\ j < count => slots[j].ord = key
      /\ result' = IF j < count THEN <<slots[j].cl>> ELSE <<>>
      /\ op' = "none" /\ key' = NoKey /\ begin' = 0 /\ end' = 0 /\ j' = 0 /\ visited' = <<>>
      /\ UNCHANGED <<slots, count, pointer, told>>
  BY DEF FindByOrdIdReturns, Returns
<1>2. Occupied = 0..(count - 1) /\ Held' = Held /\ ArrayOK'
  BY <1>1, ArrayUntouched
<1>3. /\ count \in Nat /\ j \in Nat /\ j <= count /\ pointer = NoSlot
      /\ key \in OrdIds /\ \A i \in 0..(j - 1) : slots[i].ord # key
  BY <1>1, Numbers, ZenonT(30) DEF IInv, LoopsInRange, PointerInRange
<1>4. j < count => j \in Occupied /\ slots[j].cl \in Keys /\ slots[j] \in Held
  <2>1. j < count => j \in Occupied
    BY <1>2, <1>3
  <2> QED BY <2>1, Numbers DEF Held
<1>5. TypeOK'
  <2>1. result' \in Seq(Keys)
    BY <1>1, <1>4
  <2>2. 0 \in 0..Capacity
    BY StoreAssumption
  <2> QED BY <1>1, <2>1, <2>2 DEF IInv, TypeOK
<1>6. SearchInRange' /\ PointerInRange' /\ AddInRange' /\ LoopsInRange'
  BY <1>1, <1>3 DEF SearchInRange, PointerInRange, AddInRange, LoopsInRange
<1>7. \/ (\A o \in Held : o.ord # key) /\ result' = <<>>
      \/ \E o \in Held :
            /\ o.ord = key
            /\ \A other \in Held : other.ord = key => o.cl <= other.cl
            /\ result' = <<o.cl>>
  <2>1. CASE j < count
    <3>1. ASSUME NEW other \in Held, other.ord = key PROVE slots[j].cl <= other.cl
      <4>1. PICK i \in Occupied : other = slots[i]
        BY <3>1 DEF Held
      <4>2. i \in Nat /\ ~(i < j)
        BY <1>2, <1>3, <3>1, <4>1
      <4>3. i = j \/ j < i
        BY <1>3, <4>2
      <4>4. j < i => slots[j].cl < slots[i].cl
        BY <1>4, <2>1 DEF IInv, Sorted
      <4>5. slots[j].cl \in Nat /\ slots[i].cl \in Nat
        BY <1>4, <2>1, Numbers
      <4> QED BY <4>1, <4>3, <4>4, <4>5
    <3> QED BY <1>1, <1>4, <2>1, <3>1
  <2>2. CASE ~(j < count)
    <3>1. j = count
      BY <1>3, <2>2
    <3>2. \A o \in Held : o.ord # key
      BY <1>2, <1>3, <3>1 DEF Held
    <3> QED BY <1>1, <2>2, <3>2
  <2> QED BY <2>1, <2>2
<1>8. Map!FindByOrdId(key)
  <2>1. Found' = Found
    BY <1>1, <1>3 DEF Found
  <2>2. Unanswered = <<"ordId", key>> /\ Unanswered' = <<"none", NoKey>>
    BY <1>1, <1>3 DEF Unanswered, Arg
  <2> QED BY <1>1, <1>2, <1>7, <2>1, <2>2
      DEF Map!FindByOrdId, Map!Answers, Map!NoCall, Map!NoKey, NoKey, Found
<1> QED BY <1>2, <1>3, <1>5, <1>6, <1>8 DEF IInv, ArrayOK, MapStep, Map!Next

-----------------------------------------------------------------------------

(* Every step keeps the invariant and is a step of the map, or none. *)
LEMMA NextIInv == IInv /\ [Next]_vars => IInv' /\ MapStep
<1> SUFFICES ASSUME IInv, [Next]_vars PROVE IInv' /\ MapStep
  OBVIOUS
<1>1. ASSUME NEW k \in Keys, AddCalled(k) \/ RemoveCalled(k) \/ FindCalled(k)
      PROVE  IInv' /\ MapStep
  <2>1. CASE AddCalled(k)
    BY <2>1, SearchesIInv DEF AddCalled
  <2>2. CASE RemoveCalled(k)
    BY <2>2, SearchesIInv DEF RemoveCalled
  <2>3. CASE FindCalled(k)
    BY <2>3, SearchesIInv DEF FindCalled
  <2> QED BY <1>1, <2>1, <2>2, <2>3
<1>2. CASE RemoveFound
  <2>1. NoKey \in Keys \cup {NoKey}
    OBVIOUS
  <2> QED BY <1>2, <2>1, SearchesIInv DEF RemoveFound
<1>3. ASSUME NEW x \in OrdIds, UpdateFound(x) \/ LoopCalled("ordId", x)
      PROVE  IInv' /\ MapStep
  BY <1>3, UpdateFoundIInv, LoopCalledIInv
<1>4. CASE LoopCalled("each", NoKey)
  <2>1. "each" \in {"each", "ordId"} /\ NoKey \in OrdIds \cup {NoKey}
    OBVIOUS
  <2> QED BY <1>4, <2>1, LoopCalledIInv
<1>5. CASE Call
  BY <1>1, <1>2, <1>3, <1>4, <1>5, AddThrowsIInv DEF Call
<1>6. CASE Proceed
  BY <1>6, BisectIInv, AddShiftsIInv, OpenSlotIInv, EmplaceIInv, RemoveMissesIInv, RemoveTellsIInv,
     CloseSlotIInv, ResetLastIInv, FindReturnsIInv, VisitIInv, ForEachReturnsIInv, SkipIInv,
     FindByOrdIdReturnsIInv DEF Proceed
<1>7. CASE UNCHANGED vars
  <2>1. Occupied' = Occupied /\ Held' = Held /\ Arg' = Arg /\ Found' = Found
        /\ Unanswered' = Unanswered
    BY <1>7, ZenonT(30) DEF vars, Occupied, Held, Arg, Found, Unanswered
  <2>2. TypeOK' /\ Sorted' /\ Filled' /\ Counted'
    BY <1>7, <2>1, SMTT(30) DEF vars, IInv, TypeOK, Sorted, Filled, Counted
  <2>3. SearchInRange' /\ PointerInRange' /\ AddInRange' /\ LoopsInRange'
    BY <1>7, <2>1, ZenonT(30) DEF vars, IInv, SearchInRange, PointerInRange, AddInRange, LoopsInRange
  <2> QED BY <1>7, <2>1, <2>2, <2>3 DEF vars, IInv, MapStep
<1> QED BY <1>5, <1>6, <1>7 DEF Next

(* Whatever the calls, at every turn of every loop the array is sorted around
   the gap and At is asked for orders that are there. *)
THEOREM Invariance == Spec => []IInv
<1>1. Init => IInv
  BY InitIInv
<1>2. IInv /\ [Next]_vars => IInv'
  BY NextIInv
<1> QED BY <1>1, <1>2, PTL DEF Spec

(* The sorted array implements the map that the other parts of the engine take
   the store for, for any capacity and any ids. *)
THEOREM Refinement == Spec => ImplementsMap
<1>1. Init => Map!Init
  BY InitIInv
<1>2. IInv /\ [Next]_vars => [Map!Next]_(Map!vars)
  <2> SUFFICES ASSUME IInv, [Next]_vars PROVE [Map!Next]_(Map!vars)
    OBVIOUS
  <2>1. Map!Next \/ UNCHANGED <<Held, Unanswered, Found, told, result>>
    BY NextIInv DEF MapStep
  <2>2. UNCHANGED <<Held, Unanswered, Found, told, result>> => UNCHANGED Map!vars
    BY Zenon DEF Map!vars, Found
  <2> QED BY <2>1, <2>2
<1> QED BY <1>1, <1>2, Invariance, PTL DEF Spec, ImplementsMap, Map!Spec
=============================================================================
