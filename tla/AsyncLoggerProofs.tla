------------------------- MODULE AsyncLoggerProofs -------------------------
(***************************************************************************)
(* AsyncLogger for any capacity and any number of calls: nothing printed   *)
(* is torn, repeated or out of order, and the plain accesses to the        *)
(* records never race.  One lemma per step; the writer's and the engine's  *)
(* steps disturb different halves of the invariant.                        *)
(***************************************************************************)
EXTENDS AsyncLogger, TLAPS

(* The provers a leaf is given to, in turn, when it names none. *)
USE ZenonT(3), SMTT(25), ZenonT(30), Z3T(25)

(* Indices of the ring: positions counted from a slot, at most once around. *)

(* Positions of a ring of n slots: going at most once around. *)
LEMMA ModOnce ==
    ASSUME NEW n \in Nat \ {0}, NEW a \in 0..(n - 1), NEW b \in 0..n
    PROVE  (a + b) % n = IF a + b < n THEN a + b ELSE a + b - n
<1>1. CASE a + b < n
    BY <1>1
<1>2. CASE a + b >= n
  <2>1. a + b - n \in 0..(n - 1)
    BY <1>2
  <2>2. (a + b) % n = (a + b - n) % n
    BY <1>2, <2>1
  <2>. QED  BY <1>2, <2>1, <2>2
<1>. QED  BY <1>1, <1>2

(* Moving the head forward and then counting from it. *)
LEMMA ModAdd ==
    ASSUME NEW n \in Nat \ {0}, NEW a \in 0..(n - 1),
           NEW b \in 0..n, NEW c \in 0..n, b + c <= n
    PROVE  /\ (a + b) % n \in 0..(n - 1)
           /\ (((a + b) % n) + c) % n = (a + (b + c)) % n
<1>. DEFINE moved == (a + b) % n
            once == (moved + c) % n
            both == (a + (b + c)) % n
<1>1. moved = IF a + b < n THEN a + b ELSE a + b - n
    BY ModOnce, Zenon
<1>2. moved \in 0..(n - 1)
    BY <1>1
<1>3. once = IF moved + c < n THEN moved + c ELSE moved + c - n
    BY <1>2, ModOnce, Zenon
<1>4. b + c \in 0..n
    OBVIOUS
<1>5. both = IF a + (b + c) < n THEN a + (b + c) ELSE a + (b + c) - n
    BY <1>4, ModOnce, Zenon
<1>. HIDE DEF moved, once, both
<1>6. once = both
    BY <1>1, <1>2, <1>3, <1>5
<1>. QED  BY <1>2, <1>6 DEF moved, once, both

(* Different distances from the head are different slots. *)
LEMMA ModDistinct ==
    ASSUME NEW n \in Nat \ {0}, NEW a \in 0..(n - 1),
           NEW b \in 0..(n - 1), NEW c \in 0..(n - 1), b # c
    PROVE  (a + b) % n # (a + c) % n
<1>. b \in 0..n /\ c \in 0..n
    OBVIOUS
<1>1. (a + b) % n = IF a + b < n THEN a + b ELSE a + b - n
    BY ModOnce, Zenon
<1>2. (a + c) % n = IF a + c < n THEN a + c ELSE a + c - n
    BY ModOnce, Zenon
<1>. QED  BY <1>1, <1>2

(* Slots counted from head_. *)
LEMMA AtFacts ==
    ASSUME TypeOK
    PROVE  /\ \A k \in 0..Capacity : At(k) \in Slots
           /\ At(0) = head /\ At(Capacity) = head
           /\ \A j, k \in 0..(Capacity - 1) : j # k => At(j) # At(k)
           /\ \A k \in 0..Capacity, n \in 0..Capacity :
                 k + n <= Capacity => (At(k) + n) % Capacity = At(k + n)
<1>1. Capacity \in Nat \ {0} /\ head \in 0..(Capacity - 1)
  BY RingAssumption DEF TypeOK, Slots
<1>2. \A k \in 0..Capacity : At(k) \in Slots
  <2> TAKE k \in 0..Capacity
  <2>1. 0 \in 0..Capacity /\ k + 0 <= Capacity
    BY <1>1
  <2> QED BY <1>1, <2>1, ModAdd DEF At, Slots
<1>3. At(0) = head /\ At(Capacity) = head
  <2>1. 0 \in 0..Capacity /\ Capacity \in 0..Capacity
    BY <1>1
  <2>2. (head + 0) % Capacity = IF head + 0 < Capacity THEN head + 0 ELSE head + 0 - Capacity
    BY <1>1, <2>1, ModOnce, Zenon
  <2>3. (head + Capacity) % Capacity = IF head + Capacity < Capacity THEN head + Capacity
                                                                 ELSE head + Capacity - Capacity
    BY <1>1, <2>1, ModOnce, Zenon
  <2> QED BY <1>1, <2>2, <2>3 DEF At
<1>4. \A j, k \in 0..(Capacity - 1) : j # k => At(j) # At(k)
  BY <1>1, ModDistinct DEF At
<1>5. \A k \in 0..Capacity, n \in 0..Capacity :
         k + n <= Capacity => (At(k) + n) % Capacity = At(k + n)
  BY <1>1, ModAdd DEF At
<1> QED BY <1>2, <1>3, <1>4, <1>5

(* The counts the invariant speaks of are numbers. *)
LEMMA CountFacts ==
    ASSUME IInv
    PROVE  /\ Capacity \in Nat \ {0}
           /\ Len(published) \in Nat /\ Len(printed) \in Nat
           /\ Taken \in Int /\ Unread \in Int
           /\ unseenHead \in Nat /\ unseenTail \in Nat
           /\ Unread + unseenHead < Capacity /\ unseenTail <= Unread
           /\ Unread = Len(published) - Taken
           /\ tail = At(Unread)
           /\ Unread \in 0..(Capacity - 1)
<1>1. /\ published \in Seq(Records) /\ printed \in Seq(Records \cup {Torn})
      /\ unseenHead \in Nat /\ unseenTail \in Nat
      /\ Unread + unseenHead < Capacity /\ unseenTail <= Unread
      /\ tail = At(Unread)
  BY DEF IInv, TypeOK, RingHoldsUnread
<1>2. Len(published) \in Nat /\ Len(printed) \in Nat
  BY <1>1
<1>3. Taken \in Int
  BY <1>2 DEF Taken
<1>4. Unread \in Int /\ Unread = Len(published) - Taken
  BY <1>2, <1>3 DEF Unread
<1> QED BY <1>1, <1>2, <1>3, <1>4, RingAssumption

(* If Emit finds room, there is room, however old the head_ it has read. *)
LEMMA RoomFacts ==
    ASSUME IInv, NEW n \in 0..unseenHead, ~RingFull(Earlier(head, n))
    PROVE  Unread + n + 1 < Capacity
<1>1. Earlier(head, n) = At(Capacity - n)
  BY DEF Earlier, At
<1>2. Following(tail) = At(Unread + 1)
  <2>1. Unread \in 0..Capacity /\ 1 \in 0..Capacity /\ Unread + 1 <= Capacity
    BY CountFacts
  <2> QED BY <2>1, CountFacts, AtFacts DEF Following, IInv
<1>3. Unread + 1 # Capacity - n
  BY <1>1, <1>2 DEF RingFull
<1>4. /\ Unread \in Int /\ Capacity \in Int /\ unseenHead \in Int /\ n \in Int
      /\ Unread + unseenHead < Capacity /\ n <= unseenHead
  BY CountFacts
<1> QED BY <1>3, <1>4

(* If the writer finds a record, there is one among the stores it has seen. *)
LEMMA RecordFacts ==
    ASSUME IInv, NEW n \in 0..unseenTail, head # Earlier(tail, n)
    PROVE  n < Unread
<1>1. /\ Unread \in 0..Capacity
      /\ Capacity - Unread \in 0..Capacity
      /\ Unread + (Capacity - Unread) = Capacity
  <2>1. Unread \in 0..(Capacity - 1) /\ Capacity \in Nat
    BY CountFacts
  <2> QED BY <2>1
<1>2. (tail + (Capacity - Unread)) % Capacity = head
  <2> DEFINE rest == Capacity - Unread
  <2>1. /\ TypeOK /\ tail = At(Unread)
        /\ Unread \in 0..Capacity /\ rest \in 0..Capacity /\ Unread + rest = Capacity
    BY <1>1, CountFacts DEF IInv
  <2> HIDE DEF rest
  <2>2. Unread + rest <= Capacity
    BY <2>1, RingAssumption
  <2>3. (At(Unread) + rest) % Capacity = At(Unread + rest)
    BY <2>1, <2>2, AtFacts
  <2>4. At(Unread + rest) = head
    BY <2>1, AtFacts
  <2> QED BY <2>1, <2>3, <2>4 DEF rest
<1>3. n # Unread
  BY <1>2, Zenon DEF Earlier
<1>4. Unread \in Int /\ n \in Int /\ unseenTail \in Int /\ n <= unseenTail /\ unseenTail <= Unread
  BY CountFacts
<1> QED BY <1>3, <1>4

-----------------------------------------------------------------------------
(* Initially the ring is empty. *)
LEMMA InitIInv == Init => IInv
<1> SUFFICES ASSUME Init PROVE IInv
  OBVIOUS
<1>1. TypeOK
  <2>1. running \in BOOLEAN
    BY Zenon DEF Init
  <2>2. 0 \in Slots /\ 0 \in 0..MaxCalls
    BY RingAssumption DEF Slots
  <2> QED BY <2>1, <2>2 DEF Init, TypeOK
<1>2. Taken = 0 /\ Unread = 0
  BY DEF Init, Taken, Unread
<1>3. At(0) = 0
  BY <1>1, AtFacts DEF Init
<1>4. RingHoldsUnread
  BY <1>2, <1>3, RingAssumption DEF RingHoldsUnread, Init
<1>5. StepsInRange /\ PrintedInOrder /\ Accounted
  BY <1>2 DEF Init, StepsInRange, PrintedInOrder, Accounted
<1> QED BY <1>1, <1>4, <1>5 DEF IInv

(* A call below the level touches nothing the invariant is about. *)
LEMMA SuppressedIInv == IInv /\ Suppressed => IInv'
<1> SUFFICES ASSUME IInv, Suppressed PROVE IInv'
  OBVIOUS
<1>1. /\ UNCHANGED <<ring, head, tail, dropped, running, emitting, record, writing, reported,
                     printed, unseenHead, unseenTail, emits, published>>
      /\ calls' \in 0..MaxCalls
  BY RingAssumption DEF Suppressed, writerVars, IInv, TypeOK
<1>2. TypeOK'
  BY <1>1 DEF IInv, TypeOK
<1>3. RingHoldsUnread' /\ StepsInRange' /\ PrintedInOrder' /\ Accounted'
  BY <1>1 DEF IInv, RingHoldsUnread, StepsInRange, PrintedInOrder, Accounted, Unread, Taken, At
<1> QED BY <1>2, <1>3 DEF IInv

(* Emit drops the record or starts to write the slot at tail_, which holds no
   unread record. *)
LEMMA EmitBeginsIInv == IInv /\ EmitBegins => IInv'
<1> SUFFICES ASSUME IInv, EmitBegins PROVE IInv'
  OBVIOUS
<1>1. PICK level \in Levels, n \in 0..unseenHead :
         /\ unseenHead' = n
         /\ \/ /\ dropped' = dropped + 1
               /\ UNCHANGED <<ring, emitting, record>>
            \/ /\ ~RingFull(Earlier(head, n))
               /\ emitting' = "unwritten"
               /\ record' = [call |-> calls + 1, level |-> level]
               /\ ring' = [ring EXCEPT ![tail] = Torn]
               /\ UNCHANGED dropped
  BY DEF EmitBegins
<1>2. /\ UNCHANGED <<head, tail, running, writing, reported, printed, unseenTail, published>>
      /\ emitting = "no" /\ calls < MaxCalls /\ calls' = calls + 1 /\ emits' = emits + 1
  BY DEF EmitBegins, writerVars
<1>3. Unread' = Unread /\ Taken' = Taken /\ \A k : At(k)' = At(k)
  BY <1>2 DEF Unread, Taken, At
<1>4. calls' \in 0..MaxCalls /\ emits' \in Nat /\ unseenHead' \in Nat /\ unseenHead' <= unseenHead
  BY <1>1, <1>2, RingAssumption DEF IInv, TypeOK
<1>5. PrintedInOrder'
  BY <1>2 DEF IInv, PrintedInOrder
<1>6. CASE dropped' = dropped + 1 /\ UNCHANGED <<ring, emitting, record>>
  <2>1. TypeOK'
    BY <1>2, <1>4, <1>6 DEF IInv, TypeOK
  <2>2. Unread' + unseenHead' < Capacity
    <3>1. /\ Capacity \in Nat /\ Unread \in Int /\ unseenHead \in Nat
          /\ Unread + unseenHead < Capacity
      BY CountFacts
    <3>2. Unread' = Unread
      BY <1>3
    <3>3. unseenHead' = n /\ n \in Int /\ n <= unseenHead
      BY <1>1, <3>1
    <3> QED BY <3>1, <3>2, <3>3
  <2>3. RingHoldsUnread'
    BY <1>2, <1>3, <1>6, <2>2 DEF IInv, RingHoldsUnread
  <2>4. StepsInRange'
    BY <1>2, <1>3, <1>6 DEF IInv, StepsInRange
  <2>5. Accounted'
    BY <1>2, <1>6, CountFacts DEF IInv, TypeOK, Accounted
  <2> QED BY <1>5, <2>1, <2>3, <2>4, <2>5 DEF IInv
<1>7. CASE /\ ~RingFull(Earlier(head, n))
           /\ emitting' = "unwritten"
           /\ record' = [call |-> calls + 1, level |-> level]
           /\ ring' = [ring EXCEPT ![tail] = Torn]
           /\ UNCHANGED dropped
  <2>1. record' \in Records
    BY <1>2, <1>4, <1>7 DEF Records, IInv, TypeOK
  <2>2. ring' \in [Slots -> Records \cup {Torn}] /\ tail \in Slots /\ ring \in [Slots -> Records \cup {Torn}]
    BY <1>7 DEF IInv, TypeOK
  <2>3. TypeOK'
    BY <1>2, <1>4, <1>7, <2>1, <2>2 DEF IInv, TypeOK
  <2>4. Unread + n + 1 < Capacity
    BY <1>7, RoomFacts
  <2>5. \A k \in 0..(Unread - 1) : ring'[At(k)] = ring[At(k)]
    <3>1. \A k \in 0..(Unread - 1) : At(k) # At(Unread) /\ At(k) \in Slots
      BY CountFacts, AtFacts DEF IInv
    <3> QED BY <1>7, <2>2, <3>1, CountFacts
  <2>6. RingHoldsUnread'
    <3>1. Unread' + unseenHead' < Capacity /\ unseenTail' <= Unread'
      <4>1. Capacity \in Nat /\ Unread \in Int /\ unseenTail <= Unread
        BY CountFacts
      <4>2. Unread' = Unread /\ unseenTail' = unseenTail
        BY <1>2, <1>3
      <4>3. n \in Int /\ unseenHead' = n
        BY <1>1
      <4> QED BY <2>4, <4>1, <4>2, <4>3
    <3> QED BY <1>2, <1>3, <2>5, <3>1 DEF IInv, RingHoldsUnread
  <2>7. StepsInRange'
    BY <1>1, <1>2, <1>3, <1>7, <2>1, <2>4 DEF IInv, StepsInRange
  <2>8. Accounted'
    BY <1>2, <1>7, CountFacts DEF IInv, TypeOK, Accounted
  <2> QED BY <1>5, <2>3, <2>6, <2>7, <2>8 DEF IInv
<1> QED BY <1>1, <1>6, <1>7

(* Writing the slot at tail_ leaves the unread slots as they are. *)
LEMMA EmitWritesIInv == IInv /\ EmitWrites => IInv'
<1> SUFFICES ASSUME IInv, EmitWrites PROVE IInv'
  OBVIOUS
<1>1. /\ UNCHANGED <<head, tail, dropped, running, record, writing, reported, printed, unseenHead,
                     unseenTail, calls, emits, published>>
      /\ emitting = "unwritten" /\ emitting' = "written"
      /\ ring' = [ring EXCEPT ![tail] = record]
  BY DEF EmitWrites, writerVars
<1>2. Unread' = Unread /\ Taken' = Taken /\ \A k : At(k)' = At(k)
  BY <1>1 DEF Unread, Taken, At
<1>3. tail \in Slots /\ ring \in [Slots -> Records \cup {Torn}]
  BY DEF IInv, TypeOK
<1>4. TypeOK'
  BY <1>1 DEF IInv, TypeOK
<1>5. \A k \in 0..(Unread - 1) : ring'[At(k)] = ring[At(k)]
  <2>1. \A k \in 0..(Unread - 1) : At(k) # At(Unread) /\ At(k) \in Slots
    BY CountFacts, AtFacts DEF IInv
  <2> QED BY <1>1, <1>3, <2>1, CountFacts
<1>6. RingHoldsUnread'
  BY <1>1, <1>2, <1>5 DEF IInv, RingHoldsUnread
<1>7. StepsInRange'
  BY <1>1, <1>2, <1>3 DEF IInv, StepsInRange
<1>8. PrintedInOrder' /\ Accounted'
  BY <1>1 DEF IInv, PrintedInOrder, Accounted
<1> QED BY <1>4, <1>6, <1>7, <1>8 DEF IInv

(* Moving tail_ makes the record just written the last unread one. *)
LEMMA EmitPublishesIInv == IInv /\ EmitPublishes => IInv'
<1> SUFFICES ASSUME IInv, EmitPublishes PROVE IInv'
  OBVIOUS
<1>1. /\ UNCHANGED <<ring, head, dropped, running, record, writing, reported, printed, unseenHead,
                     calls, emits>>
      /\ emitting = "written" /\ emitting' = "no"
      /\ tail' = Following(tail) /\ unseenTail' = unseenTail + 1
      /\ published' = Append(published, record)
  BY DEF EmitPublishes, writerVars
<1>2. record \in Records /\ ring[tail] = record /\ Unread + unseenHead + 1 < Capacity
  BY <1>1 DEF IInv, StepsInRange
<1>3. /\ published' \in Seq(Records)
      /\ Len(published') = Len(published) + 1
      /\ \A i \in 1..Len(published) : published'[i] = published[i]
      /\ published'[Len(published) + 1] = record
  BY <1>1, <1>2 DEF IInv, TypeOK
<1>4. Taken' = Taken /\ Unread' = Unread + 1 /\ \A k : At(k)' = At(k)
  <2>1. Taken' = Taken /\ \A k : At(k)' = At(k)
    BY <1>1 DEF Taken, At
  <2> QED BY <1>3, <2>1, CountFacts DEF Unread
<1>5. tail' = At(Unread + 1) /\ tail' \in Slots
  <2>1. Unread \in 0..Capacity /\ 1 \in 0..Capacity /\ Unread + 1 <= Capacity
        /\ Unread + 1 \in 0..Capacity
    BY CountFacts
  <2> QED BY <1>1, <2>1, CountFacts, AtFacts DEF Following, IInv
<1>6. TypeOK'
  BY <1>1, <1>3, <1>5 DEF IInv, TypeOK
<1>7. RingHoldsUnread'
  <2>1. Unread' + unseenHead' < Capacity /\ unseenTail' <= Unread'
    <3>1. /\ Unread \in Int /\ Capacity \in Int /\ unseenHead \in Int /\ unseenTail \in Int
          /\ unseenTail <= Unread
      BY CountFacts
    <3>2. unseenHead' = unseenHead /\ unseenTail' = unseenTail + 1
      BY <1>1
    <3> QED BY <1>2, <1>4, <3>1, <3>2
  <2>2. ASSUME NEW k \in 0..(Unread' - 1)
        PROVE  ring'[At(k)] = published'[Taken + k + 1]
    <3>1. CASE k = Unread
      <4>1. Taken + k + 1 = Len(published) + 1
        BY <3>1, CountFacts
      <4>2. ring'[At(k)] = record
        <5>1. At(k) = tail
          BY <3>1, CountFacts
        <5> QED BY <1>1, <1>2, <5>1
      <4> QED BY <1>3, <4>1, <4>2
    <3>2. CASE k # Unread
      <4>1. k \in 0..(Unread - 1)
        BY <1>4, <3>2, CountFacts, SMTT(30)
      <4>2. Taken + k + 1 \in 1..Len(published)
        BY <4>1, CountFacts DEF IInv, StepsInRange
      <4>3. ring[At(k)] = published[Taken + k + 1]
        BY <4>1 DEF IInv, RingHoldsUnread
      <4> QED BY <1>1, <1>3, <4>2, <4>3
    <3> QED BY <3>1, <3>2
  <2> QED BY <1>4, <1>5, <2>1, <2>2 DEF RingHoldsUnread
<1>8. StepsInRange'
  BY <1>1, <1>4, CountFacts DEF IInv, StepsInRange
<1>9. PrintedInOrder'
  <2>1. Len(printed) <= Len(published) /\ \A i \in 1..Len(printed) : printed[i] = published[i]
    BY DEF IInv, PrintedInOrder
  <2>2. \A i \in 1..Len(printed) : i \in 1..Len(published)
    BY <2>1, CountFacts
  <2> QED BY <1>1, <1>3, <2>1, <2>2, CountFacts, SMTT(30) DEF PrintedInOrder
<1>10. Accounted'
  BY <1>1, <1>3, CountFacts DEF IInv, TypeOK, Accounted
<1> QED BY <1>6, <1>7, <1>8, <1>9, <1>10 DEF IInv

(* ~AsyncLogger touches running_ only. *)
LEMMA DestructorIInv == IInv /\ (DestructorStops \/ DestructorJoins) => IInv'
<1> SUFFICES ASSUME IInv, DestructorStops \/ DestructorJoins PROVE IInv'
  OBVIOUS
<1>1. /\ UNCHANGED <<ring, head, tail, dropped, record, writing, reported, printed, unseenHead,
                     unseenTail, calls, emits, published>>
      /\ emitting \in {"no", "joining"} /\ emitting' \in {"joining", "joined"}
  BY DEF DestructorStops, DestructorJoins, writerVars
<1>2. running' \in BOOLEAN
  BY ZenonT(30) DEF DestructorStops, DestructorJoins, IInv, TypeOK
<1>3. TypeOK'
  BY <1>1, <1>2 DEF IInv, TypeOK
<1>4. RingHoldsUnread' /\ StepsInRange' /\ PrintedInOrder' /\ Accounted'
  BY <1>1 DEF IInv, RingHoldsUnread, StepsInRange, PrintedInOrder, Accounted, Unread, Taken, At
<1> QED BY <1>3, <1>4 DEF IInv

-----------------------------------------------------------------------------
(* The writer. *)

(* Reporting the drops moves them from one count to the other. *)
LEMMA WriterReportsIInv == IInv /\ WriterReports => IInv'
<1> SUFFICES ASSUME IInv, WriterReports PROVE IInv'
  OBVIOUS
<1>1. /\ UNCHANGED <<ring, head, tail, running, emitting, record, calls, emits, unseenHead,
                     unseenTail, published, printed>>
      /\ writing = "report" /\ writing' = "load"
      /\ reported' = reported + dropped /\ dropped' = 0
  BY DEF WriterReports, engineVars
<1>2. TypeOK'
  BY <1>1 DEF IInv, TypeOK
<1>3. RingHoldsUnread' /\ StepsInRange' /\ PrintedInOrder'
  BY <1>1 DEF IInv, RingHoldsUnread, StepsInRange, PrintedInOrder, Unread, Taken, At
<1>4. Accounted'
  BY <1>1, CountFacts DEF IInv, TypeOK, Accounted
<1> QED BY <1>2, <1>3, <1>4 DEF IInv

(* The writer goes on to print only if a store it has seen put a record there. *)
LEMMA WriterLoadsIInv ==
    ASSUME IInv, NEW n \in 0..unseenTail, WriterLoads(n)
    PROVE  IInv'
<1>1. /\ UNCHANGED <<ring, head, tail, dropped, running, emitting, record, calls, emits,
                     unseenHead, reported, published, printed>>
      /\ writing = "load" /\ unseenTail' = n
      /\ \/ writing' = "empty"
         \/ writing' = "print" /\ head # Earlier(tail, n)
  BY DEF WriterLoads, engineVars
<1>2. unseenTail' \in Nat /\ unseenTail' <= unseenTail
  BY <1>1 DEF IInv, TypeOK
<1>3. TypeOK'
  BY <1>1, <1>2 DEF IInv, TypeOK
<1>4. Taken' = Taken /\ Unread' = Unread /\ \A k : At(k)' = At(k)
  BY <1>1 DEF Taken, Unread, At
<1>5. RingHoldsUnread'
  <2>1. unseenTail' <= Unread
    BY <1>2, CountFacts
  <2> QED BY <1>1, <1>4, <2>1 DEF IInv, RingHoldsUnread
<1>6. StepsInRange'
  <2>1. writing' = "print" => unseenTail' < Unread
    BY <1>1, RecordFacts
  <2> QED BY <1>1, <1>4, <2>1 DEF IInv, StepsInRange
<1>7. PrintedInOrder' /\ Accounted'
  BY <1>1 DEF IInv, PrintedInOrder, Accounted
<1> QED BY <1>3, <1>5, <1>6, <1>7 DEF IInv

(* A writer that found nothing changes only where it is. *)
LEMMA WriterIdlesIInv ==
    ASSUME IInv, NEW seen, WriterIdles(seen)
    PROVE  IInv'
<1>1. /\ UNCHANGED <<ring, head, tail, dropped, running, emitting, record, calls, emits,
                     unseenHead, unseenTail, reported, published, printed>>
      /\ writing = "empty" /\ writing' \in {"report", "ended"}
  BY DEF WriterIdles, engineVars
<1>2. TypeOK'
  BY <1>1 DEF IInv, TypeOK
<1>3. RingHoldsUnread' /\ StepsInRange' /\ PrintedInOrder' /\ Accounted'
  BY <1>1, ZenonT(30) DEF IInv, RingHoldsUnread, StepsInRange, PrintedInOrder, Accounted, Unread, Taken, At
<1> QED BY <1>2, <1>3 DEF IInv

(* The record at head_ is the first unread one. *)
LEMMA WriterPrintsIInv == IInv /\ WriterPrints => IInv'
<1> SUFFICES ASSUME IInv, WriterPrints PROVE IInv'
  OBVIOUS
<1>1. /\ UNCHANGED <<ring, head, tail, dropped, running, emitting, record, calls, emits,
                     unseenHead, unseenTail, reported, published>>
      /\ writing = "print" /\ writing' = "advance"
      /\ printed' = Append(printed, ring[head])
  BY DEF WriterPrints, engineVars
<1>2. /\ ring[head] \in Records \cup {Torn}
      /\ printed \in Seq(Records \cup {Torn})
      /\ TypeOK
  BY DEF IInv, TypeOK
<1>3. /\ printed' \in Seq(Records \cup {Torn})
      /\ Len(printed') = Len(printed) + 1
      /\ \A i \in 1..Len(printed) : printed'[i] = printed[i]
      /\ printed'[Len(printed) + 1] = ring[head]
  BY <1>1, <1>2
<1>4. TypeOK'
  BY <1>1, <1>3 DEF TypeOK, IInv
<1>5. Taken = Len(printed) /\ Taken' = Taken /\ Unread' = Unread /\ \A k : At(k)' = At(k)
  <2>1. Taken = Len(printed) /\ Taken' = Taken
    BY <1>1, <1>3, CountFacts DEF Taken
  <2> QED BY <1>1, <2>1 DEF Unread, At
<1>6. unseenTail < Unread
  BY <1>1 DEF IInv, StepsInRange
<1>7. ring[head] = published[Len(printed) + 1]
  <2>1. 0 \in 0..(Unread - 1) /\ At(0) = head
    BY <1>2, <1>6, CountFacts, AtFacts
  <2>2. ring[At(0)] = published[Taken + 0 + 1]
    BY <2>1 DEF IInv, RingHoldsUnread
  <2> QED BY <1>5, <2>1, <2>2, CountFacts
<1>8. RingHoldsUnread' /\ StepsInRange'
  BY <1>1, <1>5, <1>6 DEF IInv, RingHoldsUnread, StepsInRange
<1>9. PrintedInOrder'
  <2>1. Len(printed) + 1 <= Len(published)
    BY <1>5, <1>6, CountFacts
  <2>2. \A i \in 1..Len(printed) : printed[i] = published[i]
    BY DEF IInv, PrintedInOrder
  <2>3. \A i \in 1..(Len(printed) + 1) : i \in 1..Len(printed) \/ i = Len(printed) + 1
    BY CountFacts
  <2> QED BY <1>1, <1>3, <1>7, <2>1, <2>2, <2>3, ZenonT(30) DEF PrintedInOrder
<1>10. Accounted'
  BY <1>1 DEF IInv, Accounted
<1> QED BY <1>4, <1>8, <1>9, <1>10 DEF IInv

(* Moving head_ leaves one record less, seen from both threads. *)
LEMMA WriterAdvancesIInv == IInv /\ WriterAdvances => IInv'
<1> SUFFICES ASSUME IInv, WriterAdvances PROVE IInv'
  OBVIOUS
<1>1. /\ UNCHANGED <<ring, tail, dropped, running, emitting, record, calls, emits, unseenTail,
                     reported, published, printed>>
      /\ writing = "advance" /\ writing' = "report"
      /\ head' = Following(head) /\ unseenHead' = unseenHead + 1
  BY DEF WriterAdvances, engineVars
<1>2. unseenTail < Unread /\ Taken >= 0 /\ TypeOK
  BY <1>1 DEF IInv, StepsInRange
<1>3. Taken' = Taken + 1 /\ Unread' = Unread - 1
  <2>1. Taken = Len(printed) - 1 /\ Taken' = Len(printed)
    BY <1>1 DEF Taken
  <2>2. Unread' = Len(published) - Taken'
    BY <1>1 DEF Unread
  <2> QED BY <2>1, <2>2, CountFacts
<1>4. head' = At(1) /\ head' \in Slots
  <2>1. 1 \in 0..Capacity
    BY CountFacts
  <2>2. head' = At(1)
    BY <1>1, Zenon DEF Following, At
  <2> QED BY <1>2, <2>1, <2>2, AtFacts
<1>5. \A k \in 0..(Capacity - 1) : At(k)' = At(k + 1)
  <2> TAKE k \in 0..(Capacity - 1)
  <2>1. k \in 0..Capacity /\ 1 \in 0..Capacity /\ 1 + k <= Capacity /\ 1 + k = k + 1
    BY CountFacts
  <2>2. (At(1) + k) % Capacity = At(1 + k)
    BY <1>2, <2>1, AtFacts
  <2>3. At(k)' = (At(1) + k) % Capacity
    BY <1>4, Zenon DEF At
  <2> QED BY <2>1, <2>2, <2>3
<1>6. TypeOK'
  BY <1>1, <1>4 DEF IInv, TypeOK
<1>7. RingHoldsUnread'
  <2>1. Unread' + unseenHead' < Capacity /\ unseenTail' <= Unread'
    <3>1. /\ Unread \in Int /\ Capacity \in Int /\ unseenHead \in Int /\ unseenTail \in Int
          /\ Unread + unseenHead < Capacity
      BY CountFacts
    <3>2. unseenHead' = unseenHead + 1 /\ unseenTail' = unseenTail
      BY <1>1
    <3> QED BY <1>2, <1>3, <3>1, <3>2
  <2>2. tail' = At(Unread)'
    <3>1. PICK m \in 0..(Capacity - 1) : m = Unread - 1 /\ m + 1 = Unread
      BY <1>2, CountFacts
    <3>2. At(m)' = At(Unread)
      BY <1>5, <3>1
    <3>3. At(Unread)' = At(m)'
      BY <1>3, <3>1 DEF At
    <3> QED BY <1>1, <3>2, <3>3, CountFacts
  <2>3. \A k \in 0..(Unread - 1 - 1) : ring'[At(k)'] = published'[Taken + 1 + k + 1]
    <3> TAKE k \in 0..(Unread - 1 - 1)
    <3>1. /\ k + 1 \in 0..(Unread - 1)
          /\ k \in 0..(Capacity - 1)
          /\ Taken + 1 + k + 1 = Taken + (k + 1) + 1
      <4>1. Unread \in Int /\ Capacity \in Int /\ Taken \in Int /\ Unread < Capacity
        BY CountFacts
      <4> QED BY <4>1
    <3>2. ring[At(k + 1)] = published[Taken + (k + 1) + 1]
      BY <3>1 DEF IInv, RingHoldsUnread
    <3> QED BY <1>1, <1>5, <3>1, <3>2
  <2> QED BY <1>3, <2>1, <2>2, <2>3 DEF RingHoldsUnread
<1>8. StepsInRange'
  <2>1. unseenHead' = unseenHead + 1 /\ unseenHead \in Int /\ Unread \in Int /\ Taken \in Int
    BY <1>1, CountFacts
  <2>2. Unread' + unseenHead' + 1 = Unread + unseenHead + 1
    BY <1>3, <2>1
  <2>3. Taken' >= 0
    BY <1>2, <1>3, <2>1
  <2> QED BY <1>1, <2>2, <2>3 DEF IInv, StepsInRange
<1>9. PrintedInOrder' /\ Accounted'
  BY <1>1 DEF IInv, PrintedInOrder, Accounted
<1> QED BY <1>6, <1>7, <1>8, <1>9 DEF IInv

-----------------------------------------------------------------------------

(* Every step of either thread keeps the invariant. *)
LEMMA NextIInv == IInv /\ [Next]_vars => IInv'
<1> SUFFICES ASSUME IInv, [Next]_vars PROVE IInv'
  OBVIOUS
<1>1. CASE Engine
  BY <1>1, SuppressedIInv, EmitBeginsIInv, EmitWritesIInv, EmitPublishesIInv, DestructorIInv
     DEF Engine
<1>2. CASE Writer
  BY <1>2, WriterReportsIInv, WriterLoadsIInv, WriterIdlesIInv, WriterPrintsIInv,
     WriterAdvancesIInv, Zenon DEF Writer
<1>3. CASE UNCHANGED vars
  <2>1. TypeOK'
    BY <1>3 DEF vars, IInv, TypeOK
  <2>2. RingHoldsUnread' /\ StepsInRange' /\ PrintedInOrder' /\ Accounted'
    BY <1>3, Zenon DEF vars, IInv, RingHoldsUnread, StepsInRange, PrintedInOrder, Accounted, Unread,
                Taken, At
  <2> QED BY <2>1, <2>2 DEF IInv
<1> QED BY <1>1, <1>2, <1>3 DEF Next, Terminated

(* Every state of the logger satisfies the inductive invariant. *)
THEOREM Invariance == Spec => []IInv
<1> QED BY InitIInv, NextIInv, PTL DEF Spec

(* The variables keep their types: no index leaves the ring. *)
THEOREM TypeCorrect == Spec => []TypeOK
<1>1. IInv => TypeOK
  BY DEF IInv
<1> QED BY <1>1, Invariance, PTL

(* What WriterLoop prints is what Emit published: whole, once and in order,
   for any ring size and however late each thread sees the other's stores. *)
THEOREM PrintsWhatWasPublished == Spec => []PrintedInOrder
<1>1. IInv => PrintedInOrder
  BY DEF IInv
<1> QED BY <1>1, Invariance, PTL

(* Emit writes no record that WriterLoop may be reading. *)
THEOREM RecordsNeverRace == Spec => []NoConcurrentAccess
<1>1. IInv => NoConcurrentAccess
  <2> SUFFICES ASSUME IInv, emitting \in {"unwritten", "written"}, writing \in {"print", "advance"}
               PROVE  head # tail
    BY DEF NoConcurrentAccess
  <2>1. Unread \in 0..(Capacity - 1) /\ 0 \in 0..(Capacity - 1) /\ Unread # 0
    BY CountFacts DEF IInv, StepsInRange
  <2> QED BY <2>1, CountFacts, AtFacts DEF IInv
<1> QED BY <1>1, Invariance, PTL

(* No record given to Emit disappears uncounted while the logger runs. *)
THEOREM DropsAreCounted == Spec => []Accounted
<1>1. IInv => Accounted
  BY DEF IInv
<1> QED BY <1>1, Invariance, PTL
=============================================================================
