------------------------- MODULE RateLimiterProofs -------------------------
(***************************************************************************)
(* RateLimiter for any number of endpoints, any capacities and windows and *)
(* any length of run: the ring of recent grants is enough to answer as the *)
(* abstract window would (one TryAcquire first, then the invariant and the *)
(* refinement).                                                            *)
(***************************************************************************)
EXTENDS RateLimiter, FiniteSetTheorems, TLAPS

(* The provers a leaf is given to, in turn, when it names none. *)
USE ZenonT(3), SMTT(25), ZenonT(30), Z3T(25)

(* Indices of the ring: positions counted from a slot, at most once around. *)

(* Positions of a ring of n slots: going at most once around. *)
LEMMA ModOnce ==
    ASSUME NEW n \in Nat \ {0}, NEW a \in 0..(n - 1), NEW b \in 0..n
    PROVE  (a + b) % n = IF a + b < n THEN a + b ELSE a + b - n
<1>1. CASE a + b < n
    BY <1>1
<1>2. CASE a + b >= n
  <2>1. a + b - n \in 0..(n - 1)
    BY <1>2
  <2>2. (a + b) % n = (a + b - n) % n
    BY <1>2, <2>1
  <2>. QED  BY <1>2, <2>1, <2>2
<1>. QED  BY <1>1, <1>2

(* Moving the head forward and then counting from it. *)
LEMMA ModAdd ==
    ASSUME NEW n \in Nat \ {0}, NEW a \in 0..(n - 1),
           NEW b \in 0..n, NEW c \in 0..n, b + c <= n
    PROVE  /\ (a + b) % n \in 0..(n - 1)
           /\ (((a + b) % n) + c) % n = (a + (b + c)) % n
<1>. DEFINE moved == (a + b) % n
            once == (moved + c) % n
            both == (a + (b + c)) % n
<1>1. moved = IF a + b < n THEN a + b ELSE a + b - n
    BY ModOnce, Zenon
<1>2. moved \in 0..(n - 1)
    BY <1>1
<1>3. once = IF moved + c < n THEN moved + c ELSE moved + c - n
    BY <1>2, ModOnce, Zenon
<1>4. b + c \in 0..n
    OBVIOUS
<1>5. both = IF a + (b + c) < n THEN a + (b + c) ELSE a + (b + c) - n
    BY <1>4, ModOnce, Zenon
<1>. HIDE DEF moved, once, both
<1>6. once = both
    BY <1>1, <1>2, <1>3, <1>5
<1>. QED  BY <1>2, <1>6 DEF moved, once, both

(* Different distances from the head are different slots. *)
LEMMA ModDistinct ==
    ASSUME NEW n \in Nat \ {0}, NEW a \in 0..(n - 1),
           NEW b \in 0..(n - 1), NEW c \in 0..(n - 1), b # c
    PROVE  (a + b) % n # (a + c) % n
<1>. b \in 0..n /\ c \in 0..n
    OBVIOUS
<1>1. (a + b) % n = IF a + b < n THEN a + b ELSE a + b - n
    BY ModOnce, Zenon
<1>2. (a + c) % n = IF a + c < n THEN a + c ELSE a + c - n
    BY ModOnce, Zenon
<1>. QED  BY <1>1, <1>2

(* A sequence is a function from 1 to its length. *)
LEMMA SeqLength ==
    ASSUME NEW S, NEW s \in Seq(S)
    PROVE  Len(s) \in Nat /\ DOMAIN s = 1..Len(s) /\ \A i \in 1..Len(s) : s[i] \in S
OBVIOUS

IInv == TypeOK /\ RingIsRecent /\ GrantsRespectWindow

(* Initially nothing is granted. *)
LEMMA InitIInv == Init => IInv
<1>. SUFFICES ASSUME Init PROVE IInv
    OBVIOUS
<1>1. \A op \in Ops : Capacity[op] \in Nat \ {0}
    BY LimitsAssumption
<1>2. TypeOK
  <2>1. answer \in BOOLEAN
    BY Zenon DEF Init
  <2>2. \A op \in Ops : timestamps[op] \in [0..(Capacity[op] - 1) -> 0..MaxTime]
    BY <1>1, LimitsAssumption DEF Init
  <2>3. \A op \in Ops : head[op] < Capacity[op] /\ count[op] <= Capacity[op]
    BY <1>1 DEF Init
  <2>4. timestamps = [op \in Ops |-> timestamps[op]]
    BY Zenon DEF Init
  <2>5. granted \in [Ops -> Seq(0..MaxTime)] /\ sent \in [Ops -> Seq(0..MaxTime)]
    BY DEF Init
  <2>6. head \in [Ops -> Nat] /\ count \in [Ops -> Nat] /\ now \in 0..MaxTime
    BY DEF Init
  <2>7. roundTrips \in 0..MaxRoundTrips
    BY LimitsAssumption DEF Init
  <2>. QED  BY <2>1, <2>2, <2>3, <2>4, <2>5, <2>6, <2>7 DEF TypeOK
<1>3. RingIsRecent
    BY DEF Init, RingIsRecent, Recent
<1>4. GrantsRespectWindow
    BY DEF Init, GrantsRespectWindow, Spaced
<1>. QED  BY <1>2, <1>3, <1>4 DEF IInv

(* The clock moves on: what had left the window stays outside. *)
LEMMA TickKeepsIInv == ASSUME IInv, Tick PROVE IInv'
<1>. USE LimitsAssumption DEF IInv
<1>1. now \in Nat /\ now' \in 0..MaxTime /\ now' > now
    BY DEF Tick, TypeOK
<1>2. TypeOK'
    BY <1>1 DEF Tick, TypeOK
<1>3. GrantsRespectWindow'
    BY DEF Tick, GrantsRespectWindow
<1>4. ASSUME NEW op \in Ops PROVE
        /\ \A k : Slot(op, k)' = Slot(op, k)
        /\ granted[op] \in Seq(0..MaxTime)
        /\ Window[op] \in Nat
    BY DEF Tick, Slot, Place, TypeOK
<1>5. RingIsRecent'
  <2>. SUFFICES ASSUME NEW op \in Ops
                PROVE  /\ (Len(granted[op]) - count[op] >= 0)'
                       /\ (\A k \in 0..(count[op] - 1) :
                             Slot(op, k) = granted[op][Len(granted[op]) - count[op] + k + 1])'
                       /\ (\A i \in 1..(Len(granted[op]) - count[op]) :
                             granted[op][i] < now - Window[op])'
                       /\ (\A i, j \in DOMAIN granted[op] : i <= j => granted[op][i] <= granted[op][j])'
                       /\ (\A i \in DOMAIN granted[op] : granted[op][i] <= now)'
    BY Zenon DEF RingIsRecent, Recent
  <2>1. granted' = granted /\ count' = count
    BY DEF Tick
  <2>2. \A i \in DOMAIN granted[op] : granted[op][i] \in Nat
    BY <1>4
  <2>3. count[op] \in Nat
    BY DEF TypeOK
  <2>4. Window[op] \in Nat
    OBVIOUS
  <2>5. \A i \in 1..(Len(granted[op]) - count[op]) : i \in DOMAIN granted[op]
    BY <1>4, <2>3
  <2>6. \A i \in 1..(Len(granted[op]) - count[op]) : granted[op][i] < now' - Window[op]
    <3>1. \A i \in 1..(Len(granted[op]) - count[op]) : granted[op][i] < now - Window[op]
        BY Zenon DEF RingIsRecent, Recent
    <3>. QED  BY <1>1, <2>2, <2>4, <2>5, <3>1
  <2>7. \A i \in DOMAIN granted[op] : granted[op][i] <= now'
    BY <1>1, <2>2 DEF RingIsRecent, Recent
  <2>8. \A k \in 0..(count[op] - 1) :
            Slot(op, k)' = granted[op][Len(granted[op]) - count[op] + k + 1]
    BY <1>4 DEF RingIsRecent, Recent
  <2>. QED  BY <2>1, <2>6, <2>7, <2>8 DEF RingIsRecent, Recent
<1>. QED  BY <1>2, <1>3, <1>5

-----------------------------------------------------------------------------
(* One TryAcquire. *)

(* What the ring and the history look like to an endpoint, in the types the
   steps below need. *)
LEMMA Facts ==
    ASSUME IInv, NEW op \in Ops
    PROVE  /\ Capacity[op] \in Nat \ {0}
           /\ Window[op] \in Nat
           /\ now \in 0..MaxTime
           /\ head[op] \in 0..(Capacity[op] - 1)
           /\ count[op] \in 0..Capacity[op]
           /\ timestamps[op] \in [0..(Capacity[op] - 1) -> 0..MaxTime]
           /\ granted[op] \in Seq(0..MaxTime)
           /\ count[op] <= Len(granted[op])
           /\ \A k \in 0..(count[op] - 1) :
                 Slot(op, k) = granted[op][Len(granted[op]) - count[op] + k + 1]
           /\ \A i \in 1..(Len(granted[op]) - count[op]) : granted[op][i] < now - Window[op]
           /\ \A i, j \in 1..Len(granted[op]) : i <= j => granted[op][i] <= granted[op][j]
           /\ \A i \in 1..Len(granted[op]) : granted[op][i] <= now
<1>1. Capacity[op] \in Nat \ {0} /\ Window[op] \in Nat
    BY LimitsAssumption
<1>2. /\ now \in 0..MaxTime
      /\ head[op] \in Nat /\ head[op] < Capacity[op]
      /\ count[op] \in Nat /\ count[op] <= Capacity[op]
      /\ timestamps[op] \in [0..(Capacity[op] - 1) -> 0..MaxTime]
      /\ granted[op] \in Seq(0..MaxTime)
    BY DEF IInv, TypeOK
<1>3. /\ head[op] \in 0..(Capacity[op] - 1)
      /\ count[op] \in 0..Capacity[op]
    BY <1>1, <1>2
<1>4. Len(granted[op]) \in Nat /\ DOMAIN granted[op] = 1..Len(granted[op])
    BY <1>2
<1>5. /\ Len(granted[op]) - count[op] >= 0
      /\ \A k \in 0..(count[op] - 1) :
            Slot(op, k) = granted[op][Len(granted[op]) - count[op] + k + 1]
      /\ \A i \in 1..(Len(granted[op]) - count[op]) : granted[op][i] < now - Window[op]
      /\ \A i, j \in DOMAIN granted[op] : i <= j => granted[op][i] <= granted[op][j]
      /\ \A i \in DOMAIN granted[op] : granted[op][i] <= now
    BY Zenon DEF IInv, RingIsRecent, Recent
<1>6. count[op] <= Len(granted[op])
    BY <1>2, <1>4, <1>5
<1>7. /\ \A i, j \in 1..Len(granted[op]) : i <= j => granted[op][i] <= granted[op][j]
      /\ \A i \in 1..Len(granted[op]) : granted[op][i] <= now
    BY <1>4, <1>5
<1>. QED  BY <1>1, <1>2, <1>3, <1>5, <1>6, <1>7

(* A grant that the loop drops, counted from the start of the ring. *)
LEMMA DroppedPlace ==
    ASSUME NEW n \in Nat, NEW c \in 0..n, NEW g \in 0..c, NEW i \in 1..(n - c + g), i > n - c
    PROVE  \E k \in 0..(c - 1) : k \in 0..(g - 1) /\ n - c + k + 1 = i
<1>1. i - (n - c) - 1 \in 0..(c - 1) /\ i - (n - c) - 1 \in 0..(g - 1)
    OBVIOUS
<1>2. n - c + (i - (n - c) - 1) + 1 = i
    OBVIOUS
<1>. QED  BY <1>1, <1>2

(* After the loop the ring holds exactly the grants of the window. *)
LEMMA Expiry ==
    ASSUME IInv, NEW op \in Ops, NEW gone \in 0..count[op], StopsAfter(op, gone),
           NEW old, old = Len(granted[op]) - count[op] + gone
    PROVE  /\ old \in 0..Len(granted[op])
           /\ \A i \in 1..old : granted[op][i] < now - Window[op]
           /\ \A i \in (old + 1)..Len(granted[op]) : granted[op][i] >= now - Window[op]
<1>1. /\ Capacity[op] \in Nat \ {0} /\ Window[op] \in Nat /\ now \in 0..MaxTime
      /\ count[op] \in 0..Capacity[op]
      /\ granted[op] \in Seq(0..MaxTime)
      /\ count[op] <= Len(granted[op])
      /\ \A i, j \in 1..Len(granted[op]) : i <= j => granted[op][i] <= granted[op][j]
    BY Facts
<1>2. \A k \in 0..(count[op] - 1) :
          Slot(op, k) = granted[op][Len(granted[op]) - count[op] + k + 1]
    BY Facts
<1>3. \A i \in 1..(Len(granted[op]) - count[op]) : granted[op][i] < now - Window[op]
    BY Facts
<1>4. Len(granted[op]) \in Nat /\ \A i \in 1..Len(granted[op]) : granted[op][i] \in Int
  <2>1. Len(granted[op]) \in Nat /\ DOMAIN granted[op] = 1..Len(granted[op])
    BY <1>1
  <2>2. \A i \in 1..Len(granted[op]) : granted[op][i] \in 0..MaxTime
    BY <1>1, SeqLength, Zenon
  <2>3. 0..MaxTime \subseteq Int
    BY LimitsAssumption
  <2>. QED  BY <2>1, <2>2, <2>3
<1>w. now - Window[op] \in Int
  <2>1. now \in 0..MaxTime /\ Window[op] \in Nat
    BY <1>1
  <2>. QED  BY <2>1
<1>n. count[op] \in Nat /\ gone \in 0..count[op] /\ count[op] <= Len(granted[op])
    BY <1>1
<1>5. old \in 0..Len(granted[op])
    BY <1>n, <1>4
<1>6. ASSUME NEW i \in 1..old PROVE granted[op][i] < now - Window[op]
  <2>1. CASE i <= Len(granted[op]) - count[op]
    BY <1>1, <1>3, <1>4, <2>1
  <2>2. CASE i > Len(granted[op]) - count[op]
    <3>1. PICK k \in 0..(count[op] - 1) :
              k \in 0..(gone - 1) /\ Len(granted[op]) - count[op] + k + 1 = i
      <4>1. count[op] \in 0..Len(granted[op]) /\ i \in 1..(Len(granted[op]) - count[op] + gone)
        BY <1>n, <1>4
      <4>. QED  BY <1>4, <2>2, <4>1, DroppedPlace, ZenonT(30)
    <3>2. IsExpired(op, k)
      BY <3>1, Zenon DEF StopsAfter
    <3>. QED  BY <1>2, <3>1, <3>2 DEF IsExpired
  <2>. QED  BY <1>1, <1>4, <1>5, <2>1, <2>2
<1>7. ASSUME NEW i \in (old + 1)..Len(granted[op]) PROVE granted[op][i] >= now - Window[op]
  <2>1. gone < count[op] /\ gone \in 0..(count[op] - 1)
    BY <1>1, <1>4, <1>5
  <2>2. ~IsExpired(op, gone) /\ Slot(op, gone) = granted[op][old + 1]
    <3>1. ~IsExpired(op, gone)
      BY <2>1, Zenon DEF StopsAfter
    <3>2. Len(granted[op]) - count[op] + gone + 1 = old + 1
      BY <1>1, <1>4
    <3>. QED  BY <1>2, <2>1, <3>1, <3>2
  <2>3. old + 1 \in 1..Len(granted[op]) /\ i \in 1..Len(granted[op]) /\ old + 1 <= i
    BY <1>4, <1>5
  <2>4. granted[op][old + 1] >= now - Window[op]
    <3>1. granted[op][old + 1] \in Int /\ now - Window[op] \in Int
      BY <1>w, <1>4, <2>3
    <3>2. ~(granted[op][old + 1] < now - Window[op])
      BY <2>2, Zenon DEF IsExpired
    <3>. QED  BY <3>1, <3>2
  <2>5. granted[op][old + 1] <= granted[op][i]
    BY <1>1, <2>3
  <2>6. granted[op][old + 1] \in Int /\ granted[op][i] \in Int /\ now - Window[op] \in Int
    BY <1>w, <1>4, <2>3
  <2>. QED  BY <2>4, <2>5, <2>6
<1>. QED  BY <1>5, <1>6, <1>7

(* TryAcquire keeps the types: head and count stay inside the ring. *)
LEMMA AcquireType ==
    ASSUME TypeOK, NEW op \in Ops, NEW h \in 0..(Capacity[op] - 1),
           NEW left \in 0..Capacity[op], Acquire(op, h, left)
    PROVE  TypeOK'
<1>1. Capacity[op] \in Nat \ {0}
    BY LimitsAssumption
<1>2. now' \in 0..MaxTime /\ roundTrips' \in 0..MaxRoundTrips
    BY DEF TypeOK, Acquire
<1>3. answer' \in BOOLEAN
    BY Zenon DEF Acquire
<1>4. head' \in [Ops -> Nat] /\ \A q \in Ops : head'[q] < Capacity[q]
  <2>1. head \in [Ops -> Nat] /\ \A q \in Ops : head[q] < Capacity[q]
    BY DEF TypeOK
  <2>2. head' = [head EXCEPT ![op] = h]
    BY DEF Acquire
  <2>3. h \in Nat /\ h < Capacity[op]
    BY <1>1
  <2>. QED  BY <2>1, <2>2, <2>3
<1>5. count' \in [Ops -> Nat] /\ \A q \in Ops : count'[q] <= Capacity[q]
  <2>1. \E n \in 0..Capacity[op] : count' = [count EXCEPT ![op] = n]
    <3>1. CASE Full(op, left)
      BY <3>1 DEF Acquire
    <3>2. CASE ~Full(op, left)
      BY <1>1, <3>2, left + 1 \in 0..Capacity[op] DEF Acquire, Full
    <3>. QED  BY <3>1, <3>2
  <2>2. PICK n \in 0..Capacity[op] : count' = [count EXCEPT ![op] = n]
    BY <2>1, Zenon
  <2>3. n \in Nat /\ n <= Capacity[op]
    BY <1>1
  <2>4. count \in [Ops -> Nat] /\ \A q \in Ops : count[q] <= Capacity[q]
    BY DEF TypeOK
  <2>. QED  BY <2>2, <2>3, <2>4
<1>6. granted' \in [Ops -> Seq(0..MaxTime)]
  <2>1. granted \in [Ops -> Seq(0..MaxTime)] /\ granted[op] \in Seq(0..MaxTime) /\ now \in 0..MaxTime
    BY DEF TypeOK
  <2>2. Append(granted[op], now) \in Seq(0..MaxTime)
    BY <2>1
  <2>. QED  BY <2>1, <2>2, Zenon DEF Acquire
<1>7. sent' \in [Ops -> Seq(0..MaxTime)]
  <2>1. sent \in [Ops -> Seq(0..MaxTime)] /\ sent[op] \in Seq(0..MaxTime) /\ now \in 0..MaxTime
    BY DEF TypeOK
  <2>2. Append(sent[op], now) \in Seq(0..MaxTime)
    BY <2>1
  <2>. QED  BY <2>1, <2>2, Zenon DEF Acquire
<1>8. /\ timestamps' = [q \in Ops |-> timestamps'[q]]
      /\ \A q \in Ops : timestamps'[q] \in [0..(Capacity[q] - 1) -> 0..MaxTime]
  <2>1. CASE UNCHANGED timestamps
    BY <2>1 DEF TypeOK
  <2>2. CASE timestamps' = [timestamps EXCEPT ![op][(h + left) % Capacity[op]] = now]
    <3>1. /\ timestamps = [q \in Ops |-> timestamps[q]]
          /\ \A q \in Ops : timestamps[q] \in [0..(Capacity[q] - 1) -> 0..MaxTime]
          /\ now \in 0..MaxTime
      BY DEF TypeOK
    <3>. DEFINE s == (h + left) % Capacity[op]
    <3>2. timestamps' = [timestamps EXCEPT ![op] = [timestamps[op] EXCEPT ![s] = now]]
      BY <2>2
    <3>. HIDE DEF s
    <3>3. timestamps' = [q \in Ops |-> IF q = op THEN [timestamps[op] EXCEPT ![s] = now]
                                       ELSE timestamps[q]]
      BY <3>1, <3>2, Zenon
    <3>4. [timestamps[op] EXCEPT ![s] = now] \in [0..(Capacity[op] - 1) -> 0..MaxTime]
      BY <3>1, Zenon
    <3>. QED  BY <3>1, <3>3, <3>4
  <2>. QED  BY <2>1, <2>2 DEF Acquire
<1>. QED  BY <1>2, <1>3, <1>4, <1>5, <1>6, <1>7, <1>8, Zenon DEF TypeOK

(* The slots after the loop, counted from the new head. *)
LEMMA SlotsAfterLoop ==
    ASSUME IInv, NEW op \in Ops, NEW gone \in 0..count[op],
           NEW h, h = Place(op, gone),
           NEW old, old = Len(granted[op]) - count[op] + gone
    PROVE  /\ h \in 0..(Capacity[op] - 1)
           /\ \A k \in 0..(count[op] - gone - 1) :
                 timestamps[op][(h + k) % Capacity[op]] = granted[op][old + k + 1]
<1>1. /\ Capacity[op] \in Nat \ {0}
      /\ head[op] \in 0..(Capacity[op] - 1)
      /\ count[op] \in 0..Capacity[op]
      /\ Len(granted[op]) \in Nat
  <2>1. granted[op] \in Seq(0..MaxTime)
    BY Facts
  <2>. QED  BY <2>1, Facts
<1>2. gone \in 0..Capacity[op] /\ gone + 0 <= Capacity[op]
    BY <1>1
<1>3. h \in 0..(Capacity[op] - 1)
    BY <1>1, <1>2, 0 \in 0..Capacity[op], ModAdd, Zenon DEF Place
<1>4. ASSUME NEW k \in 0..(count[op] - gone - 1)
      PROVE  timestamps[op][(h + k) % Capacity[op]] = granted[op][old + k + 1]
  <2>1. k \in 0..Capacity[op] /\ gone + k <= Capacity[op] /\ gone + k \in 0..(count[op] - 1)
    <3>1. Capacity[op] \in Int /\ count[op] \in Int /\ count[op] <= Capacity[op]
      BY <1>1
    <3>. QED  BY <3>1
  <2>2. (h + k) % Capacity[op] = Place(op, gone + k)
    BY <1>1, <1>2, <2>1, ModAdd, ZenonT(30) DEF Place
  <2>3. Slot(op, gone + k) = granted[op][Len(granted[op]) - count[op] + (gone + k) + 1]
    BY <2>1, Facts
  <2>4. Len(granted[op]) - count[op] + (gone + k) + 1 = old + k + 1
    <3>1. Len(granted[op]) \in Int /\ count[op] \in Int /\ gone \in Int /\ k \in Int
      BY <1>1
    <3>. QED  BY <3>1
  <2>. QED  BY <2>2, <2>3, <2>4 DEF Slot
<1>. QED  BY <1>3, <1>4

(* A grant or a refusal leaves an endpoint's ring with its latest grants. *)
LEMMA AcquireRecent ==
    ASSUME IInv, NEW op \in Ops, NEW gone \in 0..count[op], StopsAfter(op, gone),
           Acquire(op, Place(op, gone), count[op] - gone)
    PROVE  Recent(op)'
<1>. DEFINE g == granted[op]
            h == Place(op, gone)
            left == count[op] - gone
            old == Len(g) - count[op] + gone
            C == Capacity[op]
<1>1. /\ C \in Nat \ {0}
      /\ count[op] \in 0..C
      /\ now \in 0..MaxTime
      /\ g \in Seq(0..MaxTime)
      /\ count[op] <= Len(g)
      /\ timestamps[op] \in [0..(C - 1) -> 0..MaxTime]
    BY Facts
<1>2. /\ \A i, j \in 1..Len(g) : i <= j => g[i] <= g[j]
      /\ \A i \in 1..Len(g) : g[i] <= now
    BY Facts
<1>3. /\ old \in 0..Len(g)
      /\ \A i \in 1..old : g[i] < now - Window[op]
    BY Expiry
<1>4. /\ h \in 0..(C - 1)
      /\ \A k \in 0..(left - 1) : timestamps[op][(h + k) % C] = g[old + k + 1]
    BY SlotsAfterLoop
<1>5. Len(g) \in Nat /\ DOMAIN g = 1..Len(g) /\ left \in 0..C /\ old = Len(g) - left
    BY <1>1
<1>6. now' = now /\ head'[op] = h
    BY DEF Acquire, IInv, TypeOK
<1>7. ASSUME NEW k PROVE Slot(op, k)' = timestamps'[op][(h + k) % C]
    BY <1>6 DEF Slot, Place
<1>8. CASE Full(op, left)
  <2>1. granted'[op] = g /\ count'[op] = left /\ timestamps' = timestamps
    BY <1>8 DEF Acquire, IInv, TypeOK
  <2>. HIDE DEF g, h, left, old, C
  <2>2. \A k \in 0..(left - 1) : Slot(op, k)' = g[old + k + 1]
    BY <1>4, <1>7, <2>1
  <2>. QED  BY <1>2, <1>3, <1>5, <1>6, <2>1, <2>2 DEF Recent
<1>9. CASE ~Full(op, left)
  <2>1. /\ granted'[op] = Append(g, now)
        /\ count'[op] = left + 1
        /\ timestamps'[op] = [timestamps[op] EXCEPT ![(h + left) % C] = now]
    BY <1>9, Zenon DEF Acquire, IInv, TypeOK
  <2>2. left < C
    BY <1>1, <1>5, <1>9 DEF Full
  <2>. HIDE DEF g, h, left, old, C
  <2>3. /\ Len(Append(g, now)) = Len(g) + 1
        /\ DOMAIN Append(g, now) = 1..(Len(g) + 1)
        /\ \A i \in 1..Len(g) : Append(g, now)[i] = g[i]
        /\ Append(g, now)[Len(g) + 1] = now
    BY <1>1
  <2>4. Len(Append(g, now)) - (left + 1) = old
    BY <1>5, <2>3
  <2>5. ASSUME NEW k \in 0..left PROVE Slot(op, k)' = Append(g, now)[old + k + 1]
    <3>1. (h + left) % C \in 0..(C - 1)
      BY <1>1, <1>4, <1>5, 0 \in 0..C, left + 0 <= C, ModAdd
    <3>2. CASE k = left
      BY <1>1, <1>5, <1>7, <2>1, <2>3, <3>1, <3>2
    <3>3. CASE k # left
      <4>1. k \in 0..(left - 1) /\ k \in 0..(C - 1) /\ left \in 0..(C - 1)
        BY <1>1, <1>5, <2>2, <3>3
      <4>2. (h + k) % C # (h + left) % C
        BY <1>1, <1>4, <3>3, <4>1, ModDistinct, Zenon
      <4>3. (h + k) % C \in 0..(C - 1)
        BY <1>1, <1>4, <4>1
      <4>4. timestamps'[op][(h + k) % C] = timestamps[op][(h + k) % C]
        BY <1>1, <2>1, <4>2, <4>3
      <4>5. old + k + 1 \in 1..Len(g)
        BY <1>3, <1>5, <4>1
      <4>. QED  BY <1>4, <1>7, <2>3, <4>1, <4>4, <4>5
    <3>. QED  BY <3>2, <3>3, Zenon
  <2>6. \A i \in 1..old : Append(g, now)[i] < now - Window[op]
    BY <1>3, <1>5, <2>3
  <2>7. \A i \in 1..(Len(g) + 1) : Append(g, now)[i] <= now
    BY <1>1, <1>2, <1>5, <2>3
  <2>8. \A i, j \in 1..(Len(g) + 1) : i <= j => Append(g, now)[i] <= Append(g, now)[j]
    BY <1>1, <1>2, <1>5, <2>3
  <2>10. Len(granted'[op]) - count'[op] = old
    BY <2>1, <2>4
  <2>11. old >= 0 /\ 0..(count'[op] - 1) = 0..left
    <3>1. old >= 0
      BY <1>3, <1>5
    <3>2. count'[op] - 1 = left
      BY <1>5, <2>1
    <3>. QED  BY <3>1, <3>2, Zenon
  <2>12. \A k \in 0..(count'[op] - 1) : Slot(op, k)' = granted'[op][old + k + 1]
    <3>1. \A k \in 0..left : Slot(op, k)' = Append(g, now)[old + k + 1]
      BY <2>5, Zenon
    <3>. QED  BY <2>1, <2>11, <3>1, Zenon
  <2>13. \A i \in 1..old : granted'[op][i] < now' - Window[op]
    BY <1>6, <2>1, <2>6, Zenon
  <2>14. /\ \A i \in DOMAIN granted'[op] : granted'[op][i] <= now'
         /\ \A i, j \in DOMAIN granted'[op] : i <= j => granted'[op][i] <= granted'[op][j]
    BY <1>6, <2>1, <2>3, <2>7, <2>8
  <2>. QED  BY <2>10, <2>11, <2>12, <2>13, <2>14, Zenon DEF Recent
<1>. QED  BY <1>8, <1>9

(* A grant comes more than a Window after the grant Capacity places before. *)
LEMMA AcquireSpaced ==
    ASSUME IInv, NEW op \in Ops, NEW gone \in 0..count[op], StopsAfter(op, gone),
           Acquire(op, Place(op, gone), count[op] - gone)
    PROVE  Spaced(op, granted[op])'
<1>. DEFINE g == granted[op]
            left == count[op] - gone
            old == Len(g) - count[op] + gone
            C == Capacity[op]
<1>1. /\ C \in Nat \ {0} /\ Window[op] \in Nat
      /\ count[op] \in 0..C
      /\ now \in 0..MaxTime
      /\ g \in Seq(0..MaxTime)
      /\ count[op] <= Len(g)
    BY Facts
<1>2. /\ old \in 0..Len(g)
      /\ \A i \in 1..old : g[i] < now - Window[op]
    BY Expiry
<1>3. Spaced(op, g)
    BY DEF IInv, GrantsRespectWindow
<1>4. Len(g) \in Nat /\ DOMAIN g = 1..Len(g) /\ left \in 0..C /\ old = Len(g) - left
    BY <1>1
<1>5. CASE Full(op, left)
    BY <1>3, <1>5 DEF Acquire, IInv, TypeOK, Spaced
<1>6. CASE ~Full(op, left)
  <2>0. granted'[op] = Append(g, now)
    BY <1>6 DEF Acquire, IInv, TypeOK
  <2>1. left < C
    BY <1>1, <1>4, <1>6 DEF Full
  <2>. HIDE DEF g, left, old, C
  <2>2. /\ DOMAIN Append(g, now) = 1..(Len(g) + 1)
        /\ \A i \in 1..Len(g) : Append(g, now)[i] = g[i]
        /\ Append(g, now)[Len(g) + 1] = now
    BY <1>1
  <2>3. ASSUME NEW i \in 1..(Len(g) + 1), i + C \in 1..(Len(g) + 1)
        PROVE  Append(g, now)[i + C] - Append(g, now)[i] > Window[op]
    <3>1. i \in 1..Len(g)
      BY <1>1, <1>4, <2>3
    <3>2. CASE i + C = Len(g) + 1
      <4>1. i \in 1..old
        BY <1>1, <1>4, <2>1, <3>1, <3>2
      <4>2. g[i] \in Int
        BY <1>1, <3>1, SeqLength, LimitsAssumption
      <4>. QED  BY <1>1, <1>2, <2>2, <3>1, <3>2, <4>1, <4>2
    <3>3. CASE i + C # Len(g) + 1
      <4>1. i + C \in 1..Len(g)
        BY <1>1, <1>4, <2>3, <3>3
      <4>. QED  BY <1>3, <1>4, <2>2, <3>1, <4>1 DEF Spaced, C
    <3>. QED  BY <3>2, <3>3, ZenonT(30)
  <2>. QED  BY <2>0, <2>2, <2>3 DEF Spaced, C
<1>. QED  BY <1>5, <1>6

(* An endpoint's invariants depend on nothing another endpoint changes. *)
LEMMA OthersKeep ==
    ASSUME IInv, NEW op \in Ops, now' = now, granted'[op] = granted[op],
           count'[op] = count[op], head'[op] = head[op], timestamps'[op] = timestamps[op]
    PROVE  Recent(op)' /\ Spaced(op, granted[op])'
<1>1. Recent(op) /\ Spaced(op, granted[op])
    BY Zenon DEF IInv, RingIsRecent, GrantsRespectWindow
<1>2. \A k : Slot(op, k)' = Slot(op, k)
    BY Zenon DEF Slot, Place
<1>3. Recent(op)'
    BY <1>1, <1>2 DEF Recent
<1>. QED  BY <1>1, <1>3 DEF Spaced

(* TryAcquire keeps the invariant, whether it grants or not. *)
LEMMA TryAcquireKeepsIInv ==
    ASSUME IInv, NEW op \in Ops, TryAcquire(op)
    PROVE  IInv'
<1>1. PICK gone \in 0..count[op] :
          StopsAfter(op, gone) /\ Acquire(op, Place(op, gone), count[op] - gone)
    BY Zenon DEF TryAcquire
<1>2. Place(op, gone) \in 0..(Capacity[op] - 1) /\ count[op] - gone \in 0..Capacity[op]
  <2>1. Place(op, gone) \in 0..(Capacity[op] - 1)
    BY SlotsAfterLoop
  <2>2. count[op] \in 0..Capacity[op] /\ Capacity[op] \in Nat
    BY Facts
  <2>. QED  BY <2>1, <2>2
<1>3. TypeOK'
    BY <1>1, <1>2, AcquireType DEF IInv
<1>4. ASSUME NEW q \in Ops PROVE Recent(q)' /\ Spaced(q, granted[q])'
  <2>1. CASE q = op
    BY <1>1, <2>1, AcquireRecent, AcquireSpaced
  <2>2. CASE q # op
    <3>1. /\ now' = now /\ granted'[q] = granted[q] /\ count'[q] = count[q]
          /\ head'[q] = head[q] /\ timestamps'[q] = timestamps[q]
      BY <1>1, <2>2 DEF Acquire, IInv, TypeOK
    <3>. QED  BY <3>1, OthersKeep
  <2>. QED  BY <2>1, <2>2
<1>. QED  BY <1>3, <1>4, Zenon DEF IInv, RingIsRecent, GrantsRespectWindow

(* A request that bypasses the limiter keeps the invariant. *)
LEMMA RoundTripKeepsIInv ==
    ASSUME IInv, NEW op \in Ops, RoundTripSends(op)
    PROVE  IInv'
<1>1. TypeOK'
  <2>1. sent \in [Ops -> Seq(0..MaxTime)] /\ sent[op] \in Seq(0..MaxTime) /\ now \in 0..MaxTime
    BY DEF IInv, TypeOK
  <2>2. sent' \in [Ops -> Seq(0..MaxTime)]
    BY <2>1, Append(sent[op], now) \in Seq(0..MaxTime) DEF RoundTripSends
  <2>3. roundTrips' \in 0..MaxRoundTrips
    BY LimitsAssumption DEF IInv, TypeOK, RoundTripSends
  <2>. QED  BY <2>2, <2>3, Zenon DEF IInv, TypeOK, RoundTripSends
<1>2. ASSUME NEW q \in Ops PROVE Recent(q)' /\ Spaced(q, granted[q])'
    BY OthersKeep DEF RoundTripSends
<1>. QED  BY <1>1, <1>2, Zenon DEF IInv, RingIsRecent, GrantsRespectWindow

(* Every step keeps the invariant. *)
LEMMA NextKeepsIInv == IInv /\ [Next]_vars => IInv'
<1>. SUFFICES ASSUME IInv, [Next]_vars PROVE IInv'
    OBVIOUS
<1>1. CASE UNCHANGED vars
  <2>1. TypeOK'
    BY <1>1, Zenon DEF IInv, TypeOK, vars
  <2>2. ASSUME NEW q \in Ops PROVE Recent(q)' /\ Spaced(q, granted[q])'
    BY <1>1, OthersKeep DEF vars
  <2>. QED  BY <2>1, <2>2, Zenon DEF IInv, RingIsRecent, GrantsRespectWindow
<1>. QED  BY <1>1, TickKeepsIInv, TryAcquireKeepsIInv, RoundTripKeepsIInv, Zenon DEF Next

-----------------------------------------------------------------------------

(* The invariant: types, the ring against the history, the window. *)
THEOREM Invariance == Spec => []IInv
<1>. QED  BY InitIInv, NextKeepsIInv, PTL DEF Spec

(* The ring's indices and counters stay in range. *)
THEOREM TypeCorrect == Spec => []TypeOK
<1>1. IInv => TypeOK
    BY DEF IInv
<1>. QED  BY <1>1, Invariance, PTL

(* No window of any endpoint ever holds more than its capacity of grants. *)
THEOREM WindowIsRespected == Spec => []GrantsRespectWindow
<1>1. IInv => GrantsRespectWindow
    BY DEF IInv
<1>. QED  BY <1>1, Invariance, PTL

-----------------------------------------------------------------------------
(* Refinement. *)

(* The instance's Cardinality is the library's. *)
LEMMA SameCardinality == ASSUME NEW S PROVE WL!Cardinality(S) = Cardinality(S)
    BY Zenon DEF WL!Cardinality, Cardinality

(* After the loop the ring counts exactly the grants of the window. *)
LEMMA CountIsWindow ==
    ASSUME IInv, NEW op \in Ops, NEW gone \in 0..count[op], StopsAfter(op, gone)
    PROVE  Cardinality(WL!InWindow(op)) = count[op] - gone
<1>. DEFINE g == granted[op]
            old == Len(g) - count[op] + gone
<1>1. /\ g \in Seq(0..MaxTime) /\ Len(g) \in Nat /\ DOMAIN g = 1..Len(g)
      /\ count[op] \in Nat /\ now - Window[op] \in Int
  <2>1. /\ g \in Seq(0..MaxTime) /\ count[op] \in 0..Capacity[op] /\ Capacity[op] \in Nat
        /\ now \in 0..MaxTime /\ Window[op] \in Nat
    BY Facts
  <2>. QED  BY <2>1
<1>2. /\ old \in 0..Len(g)
      /\ \A i \in 1..old : g[i] < now - Window[op]
      /\ \A i \in (old + 1)..Len(g) : g[i] >= now - Window[op]
    BY Expiry
<1>3. \A i \in 1..Len(g) : g[i] \in Int
    BY <1>1, SeqLength, LimitsAssumption
<1>4. WL!InWindow(op) = {i \in DOMAIN g : g[i] >= now - Window[op]}
    BY DEF WL!InWindow
<1>5. Len(g) - old = count[op] - gone
    BY <1>1
<1>. HIDE DEF g, old
<1>6. WL!InWindow(op) = (old + 1)..Len(g)
  <2>1. ASSUME NEW i \in 1..Len(g) PROVE g[i] >= now - Window[op] <=> i \in (old + 1)..Len(g)
    BY <1>1, <1>2, <1>3
  <2>. QED  BY <1>1, <1>2, <1>4, <2>1
<1>7. Cardinality((old + 1)..Len(g)) = Len(g) - old
  <2>1. old + 1 \in Int /\ Len(g) \in Int
    BY <1>1, <1>2
  <2>2. Cardinality((old + 1)..Len(g))
          = IF old + 1 > Len(g) THEN 0 ELSE Len(g) - (old + 1) + 1
    BY <2>1, FS_Interval
  <2>. QED  BY <1>1, <1>2, <2>2
<1>. QED  BY <1>5, <1>6, <1>7

(* TryAcquire is a request of the sliding window, with the same answer. *)
LEMMA TryAcquireIsRequest ==
    ASSUME IInv, NEW op \in Ops, TryAcquire(op)
    PROVE  WL!Request(op)
<1>1. PICK gone \in 0..count[op] :
          StopsAfter(op, gone) /\ Acquire(op, Place(op, gone), count[op] - gone)
    BY Zenon DEF TryAcquire
<1>2. Cardinality(WL!InWindow(op)) = count[op] - gone
    BY <1>1, CountIsWindow
<1>3. count[op] - gone \in Int /\ Capacity[op] \in Int
  <2>1. count[op] \in 0..Capacity[op] /\ Capacity[op] \in Nat
    BY Facts
  <2>. QED  BY <2>1
<1>4. Cardinality(WL!InWindow(op)) < Capacity[op] <=> ~Full(op, count[op] - gone)
    BY <1>2, <1>3 DEF Full
<1>. DEFINE ok == Cardinality(WL!InWindow(op)) < Capacity[op]
<1>5. ok \in BOOLEAN
    BY <1>2, <1>3
<1>. HIDE DEF ok
<1>6. answer' = ok
  <2>1. CASE ok
    <3>1. ~Full(op, count[op] - gone) /\ ok = TRUE
      BY <1>4, <1>5, <2>1 DEF ok
    <3>. QED  BY <1>1, <3>1, Zenon DEF Acquire
  <2>2. CASE ~ok
    <3>1. Full(op, count[op] - gone)
      BY <1>4, <2>2 DEF ok
    <3>2. ok = FALSE
      BY <1>5, <2>2, Zenon
    <3>. QED  BY <1>1, <3>1, <3>2, Zenon DEF Acquire
  <2>. QED  BY <2>1, <2>2
<1>7. granted' = IF ok THEN [granted EXCEPT ![op] = Append(@, now)] ELSE granted
  <2>1. CASE ok
    <3>1. ~Full(op, count[op] - gone)
      BY <1>4, <2>1 DEF ok
    <3>2. granted' = [granted EXCEPT ![op] = Append(@, now)]
      BY <1>1, <3>1 DEF Acquire
    <3>. QED  BY <2>1, <3>2
  <2>2. CASE ~ok
    <3>1. Full(op, count[op] - gone)
      BY <1>4, <2>2 DEF ok
    <3>2. granted' = granted
      BY <1>1, <3>1 DEF Acquire
    <3>. QED  BY <2>2, <3>2
  <2>. QED  BY <2>1, <2>2
<1>8. now' = now
    BY <1>1 DEF Acquire
<1>9. (WL!Cardinality(WL!InWindow(op)) < Capacity[op]) = ok
    BY SameCardinality DEF ok
<1>. QED  BY <1>6, <1>7, <1>8, <1>9, Zenon DEF WL!Request

(* The limiter answers as the abstract window does, for every sequence of
   requests at any times: the ring never forgets a grant it still needs. *)
THEOREM Refinement == Spec => ImplementsWindow
<1>1. Init => WL!Init
    BY Zenon DEF Init, WL!Init
<1>2. IInv /\ [Next]_vars => [WL!Next]_<<now, granted, answer>>
  <2>. SUFFICES ASSUME IInv, [Next]_vars PROVE [WL!Next]_<<now, granted, answer>>
    OBVIOUS
  <2>1. CASE Tick
    BY <2>1, Zenon DEF Tick, WL!Next, WL!Tick
  <2>2. ASSUME NEW op \in Ops, TryAcquire(op) PROVE WL!Next
    BY <2>2, TryAcquireIsRequest, Zenon DEF WL!Next
  <2>3. ASSUME NEW op \in Ops, RoundTripSends(op)
        PROVE  UNCHANGED <<now, granted, answer>>
    BY <2>3, Zenon DEF RoundTripSends
  <2>4. CASE UNCHANGED vars
    BY <2>4, Zenon DEF vars
  <2>. QED  BY <2>1, <2>2, <2>3, <2>4, Zenon DEF Next
<1>. QED  BY <1>1, <1>2, Invariance, PTL DEF Spec, ImplementsWindow, WL!Spec
=============================================================================
