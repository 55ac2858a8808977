--------------------------- MODULE BookFeedProofs ---------------------------
(***************************************************************************)
(* The order book and its feed, for every capacity, every set of prices    *)
(* and sizes and every history of pushes: the bisection finds the place of *)
(* a price, Set keeps the array sorted and changes one level of it, and    *)
(* the book is the exchange's as of the latest push applied.               *)
(***************************************************************************)
EXTENDS BookFeed, TLAPS

(* The provers a leaf is given to, in turn, when it names none. *)
USE ZenonT(3), SMTT(25), ZenonT(30), Z3T(25)

-----------------------------------------------------------------------------
(* Sequences. *)

(* A sequence is a function from 1 to its length. *)
LEMMA SeqLength ==
    ASSUME NEW S, NEW s \in Seq(S)
    PROVE  Len(s) \in Nat /\ DOMAIN s = 1..Len(s) /\ \A i \in 1..Len(s) : s[i] \in S
OBVIOUS

(* The empty sequence. *)
LEMMA SeqEmpty ==
    ASSUME NEW S
    PROVE  <<>> \in Seq(S) /\ \A s \in Seq(S) : Len(s) = 0 => s = <<>>
OBVIOUS

(* A function on 1..m is a sequence of length m. *)
LEMMA FunctionIsSeq ==
    ASSUME NEW S, NEW m \in Nat, NEW f \in [1..m -> S]
    PROVE  f \in Seq(S) /\ Len(f) = m /\ DOMAIN f = 1..m
    OBVIOUS

(* The elements of Tail are those of the sequence but the first, one place down. *)
LEMMA TailFacts ==
    ASSUME NEW S, NEW s \in Seq(S), s # <<>>
    PROVE  /\ 1 \in DOMAIN s /\ Head(s) = s[1] /\ Head(s) \in S
           /\ Tail(s) \in Seq(S)
           /\ \A i \in DOMAIN Tail(s) : i \in Nat /\ i + 1 # 1 /\ i + 1 \in DOMAIN s /\ Tail(s)[i] = s[i + 1]
           /\ \A j \in DOMAIN s : j # 1 => j - 1 \in DOMAIN Tail(s) /\ s[j] = Tail(s)[j - 1]
<1>1. Len(s) \in Nat \ {0} /\ DOMAIN s = 1..Len(s)
    BY SeqEmpty, SeqLength
<1>2. /\ Tail(s) \in Seq(S) /\ Len(Tail(s)) = Len(s) - 1
      /\ \A i \in 1..Len(Tail(s)) : Tail(s)[i] = s[i + 1]
    OBVIOUS
<1>3. DOMAIN Tail(s) = 1..(Len(s) - 1)
    BY <1>2, SeqLength
<1>4. 1 \in DOMAIN s /\ Head(s) = s[1] /\ Head(s) \in S
    BY <1>1
<1>5. \A i \in DOMAIN Tail(s) : i \in Nat /\ i + 1 # 1 /\ i + 1 \in DOMAIN s /\ Tail(s)[i] = s[i + 1]
    BY <1>1, <1>2, <1>3
<1>6. ASSUME NEW j \in DOMAIN s, j # 1
      PROVE  j - 1 \in DOMAIN Tail(s) /\ s[j] = Tail(s)[j - 1]
  <2>1. j - 1 \in DOMAIN Tail(s) /\ (j - 1) + 1 = j
    BY <1>1, <1>3, <1>6
  <2>. QED  BY <1>5, <2>1
<1>. QED  BY <1>2, <1>4, <1>5, <1>6

(* The elements of Append are those of the sequence, in place, and the new one. *)
LEMMA AppendFacts ==
    ASSUME NEW S, NEW s \in Seq(S), NEW h \in S
    PROVE  /\ Append(s, h) \in Seq(S)
           /\ \A i \in DOMAIN Append(s, h) :
                 \/ i \in DOMAIN s /\ Append(s, h)[i] = s[i]
                 \/ i = Len(s) + 1 /\ Append(s, h)[i] = h
           /\ \A i \in DOMAIN s : i \in DOMAIN Append(s, h) /\ Append(s, h)[i] = s[i]
           /\ Len(s) + 1 \in DOMAIN Append(s, h) /\ Append(s, h)[Len(s) + 1] = h
           /\ Len(s) + 1 \notin DOMAIN s
<1>1. Len(s) \in Nat /\ DOMAIN s = 1..Len(s)
    BY SeqLength
<1>2. Append(s, h) \in Seq(S) /\ Len(Append(s, h)) = Len(s) + 1
    OBVIOUS
<1>3. DOMAIN Append(s, h) = 1..(Len(s) + 1)
    BY <1>2, SeqLength
<1>4. \A i \in 1..Len(s) : Append(s, h)[i] = s[i]
    BY <1>1
<1>5. Append(s, h)[Len(s) + 1] = h
    BY <1>1
<1>. QED  BY <1>1, <1>2, <1>3, <1>4, <1>5

-----------------------------------------------------------------------------
(* Sides of the book. *)

SomeLevel == [price : Nat, size : Nat]
Members(levels) == {levels[k] : k \in DOMAIN levels}

(* A side as it always is. *)
Side(side, levels) == levels \in Seq(SomeLevel) /\ Sorted(side, levels) /\ Len(levels) <= Capacity

(* The levels but the one at a price. *)
Others(levels, price) == {l \in Members(levels) : l.price # price}

(* The levels there should be after level: the others and, unless it is the
   deletion of one that was there, this one. *)
Updated(levels, level) ==
    Others(levels, level.price) \cup
        (IF (\E l \in Members(levels) : l.price = level.price) /\ level.size = 0 THEN {} ELSE {level})

(* The first i levels, and no others, come before price. *)
Before(side, levels, price, i) ==
    /\ i \in 0..Len(levels)
    /\ \A k \in 1..Len(levels) : Compare(side, levels[k].price, price) <=> k <= i

(* The level behind the first i is the one at price. *)
Here(levels, price, i) == i < Len(levels) /\ levels[i + 1].price = price

(* Different numbers are one below the other. *)
LEMMA Apart ==
    ASSUME NEW a \in Nat, NEW b \in Nat
    PROVE  (a < b => a # b) /\ (a <= b /\ a # b => a < b) /\ (a <= b => a = b \/ a < b)
    OBVIOUS

(* The array that BeginSnapshot leaves is a side, with no level. *)
LEMMA EmptySide ==
    ASSUME NEW side
    PROVE  Side(side, <<>>) /\ Members(<<>>) = {}
<1>1. Capacity \in Nat
    BY FeedAssumption
<1>. QED  BY <1>1 DEF Side, Sorted, Members

(* Compare is a strict total order. *)
LEMMA CompareOrder ==
    ASSUME NEW side \in Sides, NEW p \in Nat, NEW q \in Nat
    PROVE  /\ ~Compare(side, p, p)
           /\ p = q \/ Compare(side, p, q) \/ Compare(side, q, p)
           /\ Compare(side, p, q) => ~Compare(side, q, p)
           /\ \A r \in Nat : Compare(side, p, q) /\ Compare(side, q, r) => Compare(side, p, r)
<1>1. CASE side = "bids"
    BY <1>1 DEF Compare
<1>2. CASE side # "bids"
    BY <1>2 DEF Compare
<1>. QED  BY <1>1, <1>2

(* Where the first i levels come before price, the level at price, if the
   array has one, is the next, and the levels behind that place come after. *)
LEMMA PlaceFacts ==
    ASSUME NEW side \in Sides, NEW levels \in Seq(SomeLevel), Sorted(side, levels),
           NEW price \in Nat, NEW i, Before(side, levels, price, i)
    PROVE  /\ Here(levels, price, i) => i + 1 \in 1..Len(levels) /\ levels[i + 1].price = price
           /\ \A k \in 1..Len(levels) :
                 /\ levels[k].price = price => k = i + 1 /\ Here(levels, price, i)
                 /\ k <= i => Compare(side, levels[k].price, price)
                 /\ i + 1 < k => Compare(side, price, levels[k].price)
                 /\ i + 1 = k /\ ~Here(levels, price, i) => Compare(side, price, levels[k].price)
<1>1. i \in 0..Len(levels) /\ \A k \in 1..Len(levels) : Compare(side, levels[k].price, price) <=> k <= i
    BY DEF Before
<1>2. Here(levels, price, i) <=> i < Len(levels) /\ levels[i + 1].price = price
    BY DEF Here
<1>3. Len(levels) \in Nat /\ DOMAIN levels = 1..Len(levels)
    OBVIOUS
<1>4. ASSUME NEW k \in 1..Len(levels) PROVE levels[k].price \in Nat
  <2>1. levels[k] \in SomeLevel
    BY <1>3
  <2>. QED  BY <2>1 DEF SomeLevel
<1>5. Here(levels, price, i) => i + 1 \in 1..Len(levels) /\ levels[i + 1].price = price
    BY <1>1, <1>2, <1>3
<1>6. ASSUME NEW k \in 1..Len(levels), i + 1 < k PROVE Compare(side, price, levels[k].price)
  <2>1. i + 1 \in 1..Len(levels) /\ i < i + 1
    BY <1>6, <1>1, <1>3
  <2>2. Compare(side, levels[i + 1].price, levels[k].price)
    BY <2>1, <1>6, <1>3 DEF Sorted
  <2>3. ~Compare(side, levels[i + 1].price, price)
    BY <2>1, <1>1
  <2>. QED  BY <2>1, <2>2, <2>3, <1>4, CompareOrder
<1>7. ASSUME NEW k \in 1..Len(levels), levels[k].price = price
      PROVE  k = i + 1 /\ Here(levels, price, i)
  <2>1. ~Compare(side, levels[k].price, price) /\ ~Compare(side, price, levels[k].price)
    BY <1>7, CompareOrder
  <2>2. i < k
    BY <2>1, <1>1
  <2>3. k <= i + 1
    BY <2>1, <1>1, <1>6
  <2>. QED  BY <2>2, <2>3, <1>1, <1>2, <1>3, <1>7
<1>8. ASSUME NEW k \in 1..Len(levels), i + 1 = k, ~Here(levels, price, i)
      PROVE  Compare(side, price, levels[k].price)
  <2>1. ~Compare(side, levels[k].price, price)
    BY <1>8, <1>1
  <2>2. levels[k].price # price
    BY <1>7, <1>8
  <2>. QED  BY <2>1, <2>2, <1>4, CompareOrder
<1>9. \A k \in 1..Len(levels) : k <= i => Compare(side, levels[k].price, price)
    BY <1>1
<1>. QED  BY <1>5, <1>6, <1>7, <1>8, <1>9

(* InsertAt there keeps the array sorted and within its capacity, and if the
   array was not full adds the level to it. *)
LEMMA InsertedIs ==
    ASSUME NEW side \in Sides, NEW levels, Side(side, levels), NEW level \in SomeLevel,
           NEW i, Before(side, levels, level.price, i), ~Here(levels, level.price, i)
    PROVE  /\ Side(side, Inserted(levels, i, level))
           /\ Len(levels) < Capacity =>
                 Members(Inserted(levels, i, level)) = Others(levels, level.price) \cup {level}
<1>. DEFINE price == level.price
            n == Len(levels)
            last == IF n = Capacity THEN n - 1 ELSE n
            R == Inserted(levels, i, level)
            At(k) == IF k <= i THEN levels[k] ELSE IF k = i + 1 THEN level ELSE levels[k - 1]
<1>1. /\ levels \in Seq(SomeLevel) /\ Sorted(side, levels) /\ n \in Nat /\ n <= Capacity
      /\ DOMAIN levels = 1..n /\ Capacity \in Nat /\ price \in Nat
    BY FeedAssumption DEF Side, SomeLevel
<1>. HIDE DEF last
<1>2. /\ i \in 0..n
      /\ \A k \in 1..n : k <= i => Compare(side, levels[k].price, price)
      /\ \A k \in 1..n : i < k => Compare(side, price, levels[k].price)
      /\ \A k \in 1..n : levels[k].price # price
  <2>1. i \in 0..n
    BY DEF Before
  <2>2. \A k \in 1..n : i < k => i + 1 < k \/ i + 1 = k
    BY <2>1, <1>1
  <2>. QED  BY <1>1, <2>1, <2>2, PlaceFacts, Zenon
<1>3. ASSUME NEW k \in 1..n PROVE levels[k] \in SomeLevel
    BY <1>1
<1>4. CASE i >= Capacity
  <2>1. R = levels /\ n = Capacity
    BY <1>4, <1>1, <1>2 DEF Inserted
  <2>. QED  BY <2>1, <1>1
<1>5. CASE i < Capacity
  <2>1. R = [k \in 1..(last + 1) |-> At(k)]
    BY <1>5, <1>1, <1>2 DEF Inserted, last
  <2>2. last \in Nat /\ last + 1 \in Nat /\ last <= n /\ last + 1 <= Capacity /\ i <= last
    <3>1. CASE n = Capacity
      <4>1. last = n - 1
        BY <3>1 DEF last
      <4>. QED  BY <3>1, <4>1, <1>5, <1>1, <1>2
    <3>2. CASE n < Capacity
      <4>1. n # Capacity
        BY <3>2, <1>1, Apart, Zenon
      <4>2. last = n
        BY <4>1 DEF last
      <4>. QED  BY <4>2, <3>2, <1>5, <1>1, <1>2
    <3>3. n = Capacity \/ n < Capacity
      BY <1>1, Apart, Zenon
    <3>. QED  BY <3>1, <3>2, <3>3
  <2>. HIDE DEF R
  <2>3. ASSUME NEW k \in 1..(last + 1)
        PROVE  /\ k <= i => k \in 1..n /\ At(k) = levels[k]
               /\ k = i + 1 => At(k) = level
               /\ i + 1 < k => k - 1 \in 1..n /\ i < k - 1 /\ At(k) = levels[k - 1]
    BY <2>2, <1>1, <1>2
  <2>4. ASSUME NEW k \in 1..(last + 1) PROVE At(k) \in SomeLevel
    <3>1. k <= i \/ k = i + 1 \/ i + 1 < k
      BY <1>2, <2>2
    <3>. HIDE DEF At
    <3>. QED  BY <3>1, <2>3, <1>3
  <2>5. R \in Seq(SomeLevel) /\ Len(R) = last + 1 /\ DOMAIN R = 1..(last + 1)
    <3>. HIDE DEF At
    <3>1. R \in [1..(last + 1) -> SomeLevel]
      BY <2>1, <2>4
    <3>. QED  BY <3>1, <2>2, FunctionIsSeq
  <2>6. Sorted(side, R)
    <3>. SUFFICES ASSUME NEW k \in 1..(last + 1), NEW l \in 1..(last + 1), k < l
                  PROVE  Compare(side, R[k].price, R[l].price)
      BY <2>5 DEF Sorted
    <3>0. R[k] = At(k) /\ R[l] = At(l)
      BY <2>1
    <3>. HIDE DEF At
    <3>a. \A a, b \in 1..n : a < b => Compare(side, levels[a].price, levels[b].price)
      BY <1>1 DEF Sorted
    <3>i. i \in Int /\ k \in Int /\ l \in Int
      BY <1>2, <2>2
    <3>1. CASE l <= i
      <4>1. k <= i
        BY <3>1, <3>i
      <4>2. k \in 1..n /\ l \in 1..n /\ R[k] = levels[k] /\ R[l] = levels[l]
        BY <3>1, <4>1, <3>0, <2>3, Zenon
      <4>. QED  BY <4>2, <3>a, Zenon
    <3>2. CASE l = i + 1
      <4>1. k <= i
        BY <3>2, <3>i
      <4>2. k \in 1..n /\ R[k] = levels[k] /\ R[l] = level
        BY <3>2, <4>1, <3>0, <2>3, Zenon
      <4>. QED  BY <4>1, <4>2, <1>2, Zenon
    <3>3. CASE i + 1 < l /\ k = i + 1
      <4>1. l - 1 \in 1..n /\ i < l - 1 /\ R[l] = levels[l - 1] /\ R[k] = level
        BY <3>3, <3>0, <2>3, Zenon
      <4>. QED  BY <4>1, <1>2, Zenon
    <3>4. CASE i + 1 < l /\ i + 1 < k
      <4>1. k - 1 < l - 1
        BY <3>i
      <4>2. k - 1 \in 1..n /\ l - 1 \in 1..n /\ R[k] = levels[k - 1] /\ R[l] = levels[l - 1]
        BY <3>4, <3>0, <2>3, Zenon
      <4>. QED  BY <4>1, <4>2, <3>a, Zenon
    <3>5. CASE i + 1 < l /\ k <= i
      <4>1. k < l - 1
        BY <3>5, <3>i
      <4>2. k \in 1..n /\ l - 1 \in 1..n /\ R[k] = levels[k] /\ R[l] = levels[l - 1]
        BY <3>5, <3>0, <2>3, Zenon
      <4>. QED  BY <4>1, <4>2, <3>a, Zenon
    <3>6. l <= i \/ l = i + 1 \/ (i + 1 < l /\ (k = i + 1 \/ i + 1 < k \/ k <= i))
      BY <3>i
    <3>. QED  BY <3>1, <3>2, <3>3, <3>4, <3>5, <3>6, Zenon
  <2>7. ASSUME n < Capacity PROVE Members(R) = Others(levels, price) \cup {level}
    <3>0. last = n
      <4>1. n # Capacity
        BY <2>7, <1>1, Apart, Zenon
      <4>. QED  BY <4>1 DEF last
    <3>1. ASSUME NEW l \in Members(R) PROVE l \in Others(levels, price) \cup {level}
      <4>1. PICK k \in 1..(last + 1) : l = At(k)
        BY <2>1, <2>5 DEF Members
      <4>. HIDE DEF At
      <4>2. k <= i \/ k = i + 1 \/ i + 1 < k
        BY <1>2, <2>2
      <4>. QED  BY <4>1, <4>2, <2>3, <1>1, <1>2 DEF Others, Members
    <3>2. level \in Members(R)
      <4>1. i + 1 \in 1..(last + 1)
        BY <1>2, <2>2
      <4>2. R[i + 1] = level
        BY <4>1, <2>1, <1>2
      <4>. QED  BY <4>1, <4>2, <2>5 DEF Members
    <3>3. ASSUME NEW l \in Members(levels) PROVE l \in Members(R)
      <4>1. PICK k \in 1..n : l = levels[k]
        BY <1>1 DEF Members
      <4>2. CASE k <= i
        <5>1. k \in 1..(last + 1)
          BY <3>0, <1>1
        <5>2. R[k] = levels[k]
          BY <5>1, <4>2, <2>1
        <5>. QED  BY <5>1, <5>2, <4>1, <2>5 DEF Members
      <4>3. CASE i < k
        <5>1. k + 1 \in 1..(last + 1) /\ i + 1 < k + 1 /\ (k + 1) - 1 = k
          BY <3>0, <1>1, <1>2, <4>3
        <5>2. R[k + 1] = levels[k]
          BY <5>1, <1>2, <2>1
        <5>. QED  BY <5>1, <5>2, <4>1, <2>5 DEF Members
      <4>. QED  BY <4>2, <4>3, <1>2
    <3>. QED  BY <3>1, <3>2, <3>3 DEF Others
  <2>. QED  BY <2>2, <2>5, <2>6, <2>7 DEF Side, R
<1>. QED  BY <1>1, <1>2, <1>4, <1>5

(* RemoveAt there keeps the array sorted and takes the level at price out. *)
LEMMA RemovedIs ==
    ASSUME NEW side \in Sides, NEW levels, Side(side, levels), NEW price \in Nat,
           NEW i, Before(side, levels, price, i), Here(levels, price, i)
    PROVE  /\ Side(side, Removed(levels, i))
           /\ Members(Removed(levels, i)) = Others(levels, price)
<1>. DEFINE n == Len(levels)
            R == Removed(levels, i)
            At(k) == IF k <= i THEN levels[k] ELSE levels[k + 1]
<1>1. /\ levels \in Seq(SomeLevel) /\ Sorted(side, levels) /\ n \in Nat /\ n <= Capacity
      /\ DOMAIN levels = 1..n /\ Capacity \in Nat
    BY FeedAssumption DEF Side
<1>2. /\ i \in 0..n /\ i + 1 \in 1..n
      /\ \A k \in 1..n : levels[k].price = price <=> k = i + 1
  <2>1. i \in 0..n
    BY DEF Before
  <2>. QED  BY <2>1, <1>1, PlaceFacts
<1>3. R = [k \in 1..(n - 1) |-> At(k)] /\ n - 1 \in Nat
    BY <1>1, <1>2 DEF Removed
<1>4. ASSUME NEW k \in 1..(n - 1)
      PROVE  /\ k <= i => k \in 1..n /\ At(k) = levels[k]
             /\ i < k => k + 1 \in 1..n /\ At(k) = levels[k + 1]
             /\ At(k) \in SomeLevel
  <2>1. k \in 1..n /\ k + 1 \in 1..n /\ (k <= i \/ i < k)
    BY <1>1, <1>2
  <2>2. levels[k] \in SomeLevel /\ levels[k + 1] \in SomeLevel
    BY <2>1, <1>1
  <2>. QED  BY <2>1, <2>2, <1>2
<1>. HIDE DEF R
<1>5. R \in Seq(SomeLevel) /\ Len(R) = n - 1 /\ DOMAIN R = 1..(n - 1)
  <2>. HIDE DEF At
  <2>1. R \in [1..(n - 1) -> SomeLevel]
    BY <1>3, <1>4
  <2>. QED  BY <2>1, <1>3, FunctionIsSeq
<1>6. Sorted(side, R)
  <2>. SUFFICES ASSUME NEW k \in 1..(n - 1), NEW l \in 1..(n - 1), k < l
                PROVE  Compare(side, R[k].price, R[l].price)
    BY <1>5 DEF Sorted
  <2>1. R[k] = At(k) /\ R[l] = At(l)
    BY <1>3
  <2>. HIDE DEF At
  <2>a. \A a, b \in 1..n : a < b => Compare(side, levels[a].price, levels[b].price)
    BY <1>1, Zenon DEF Sorted
  <2>i. i \in Int /\ k \in Int /\ l \in Int
    BY <1>2
  <2>2. CASE l <= i
    <3>1. k <= i
      BY <2>2, <2>i
    <3>2. k \in 1..n /\ l \in 1..n /\ R[k] = levels[k] /\ R[l] = levels[l]
      BY <2>2, <3>1, <2>1, <1>4, Zenon
    <3>. QED  BY <3>2, <2>a, Zenon
  <2>3. CASE i < l /\ k <= i
    <3>1. k < l + 1
      BY <2>i
    <3>2. k \in 1..n /\ l + 1 \in 1..n /\ R[k] = levels[k] /\ R[l] = levels[l + 1]
      BY <2>3, <2>1, <1>4, Zenon
    <3>. QED  BY <3>1, <3>2, <2>a, Zenon
  <2>4. CASE i < l /\ i < k
    <3>1. k + 1 < l + 1
      BY <2>i
    <3>2. k + 1 \in 1..n /\ l + 1 \in 1..n /\ R[k] = levels[k + 1] /\ R[l] = levels[l + 1]
      BY <2>4, <2>1, <1>4, Zenon
    <3>. QED  BY <3>1, <3>2, <2>a, Zenon
  <2>5. l <= i \/ (i < l /\ (k <= i \/ i < k))
    BY <2>i
  <2>. QED  BY <2>2, <2>3, <2>4, <2>5, Zenon
<1>7. ASSUME NEW l \in Members(R) PROVE l \in Others(levels, price)
  <2>1. PICK k \in 1..(n - 1) : l = At(k)
    BY <1>3, <1>5 DEF Members
  <2>. HIDE DEF At
  <2>2. PICK m \in 1..n : m # i + 1 /\ At(k) = levels[m]
    <3>1. CASE k <= i
      BY <3>1, <1>4, <1>2
    <3>2. CASE i < k
      BY <3>2, <1>4, <1>2
    <3>. QED  BY <3>1, <3>2, <1>2
  <2>. QED  BY <2>1, <2>2, <1>1, <1>2 DEF Others, Members
<1>8. ASSUME NEW l \in Others(levels, price) PROVE l \in Members(R)
  <2>1. PICK m \in 1..n : l = levels[m] /\ m # i + 1
    BY <1>1, <1>2 DEF Others, Members
  <2>2. CASE m <= i
    <3>1. m \in 1..(n - 1)
      BY <2>2, <1>1, <1>2
    <3>2. R[m] = l
      BY <2>1, <2>2, <3>1, <1>3
    <3>. QED  BY <3>1, <3>2, <1>5 DEF Members
  <2>3. CASE i + 1 < m
    <3>1. m - 1 \in 1..(n - 1) /\ i < m - 1 /\ (m - 1) + 1 = m
      BY <2>3, <1>1, <1>2
    <3>2. R[m - 1] = l
      BY <2>1, <3>1, <1>2, <1>3
    <3>. QED  BY <3>1, <3>2, <1>5 DEF Members
  <2>. QED  BY <2>1, <2>2, <2>3, <1>2
<1>9. Len(R) <= Capacity
    BY <1>1, <1>5
<1>. QED  BY <1>5, <1>6, <1>7, <1>8, <1>9, Zenon DEF Side, R

(* The assignment of Set to the size of a level that is there. *)
Resized(levels, i, level) == [levels EXCEPT ![i + 1].size = level.size]

(* It keeps the array sorted and replaces the level at price. *)
LEMMA ReplacedIs ==
    ASSUME NEW side \in Sides, NEW levels, Side(side, levels), NEW level \in SomeLevel,
           NEW i, Before(side, levels, level.price, i), Here(levels, level.price, i)
    PROVE  /\ Side(side, Resized(levels, i, level))
           /\ Members(Resized(levels, i, level)) = Others(levels, level.price) \cup {level}
<1>. DEFINE n == Len(levels)
            price == level.price
<1>0. PICK R : R = Resized(levels, i, level)
    BY Zenon
<1>. SUFFICES Side(side, R) /\ Members(R) = Others(levels, level.price) \cup {level}
    BY <1>0, Zenon
<1>1. /\ levels \in Seq(SomeLevel) /\ Sorted(side, levels) /\ n \in Nat /\ n <= Capacity
      /\ DOMAIN levels = 1..n /\ price \in Nat
    BY DEF Side, SomeLevel
<1>2. /\ i + 1 \in 1..n
      /\ \A k \in 1..n : levels[k].price = price <=> k = i + 1
    BY <1>1, PlaceFacts
<1>3. levels[i + 1] \in SomeLevel
    BY <1>1, <1>2
<1>4. /\ R = [k \in 1..n |-> IF k = i + 1 THEN [levels[i + 1] EXCEPT !.size = level.size] ELSE levels[k]]
    BY <1>0, <1>1, <1>2, Zenon DEF Resized
<1>5. [levels[i + 1] EXCEPT !.size = level.size] = level
    BY <1>2, <1>3 DEF SomeLevel
<1>6. R = [k \in 1..n |-> IF k = i + 1 THEN level ELSE levels[k]]
    BY <1>4, <1>5
<1>7. R \in Seq(SomeLevel) /\ Len(R) = n /\ DOMAIN R = 1..n
  <2>1. \A k \in 1..n : (IF k = i + 1 THEN level ELSE levels[k]) \in SomeLevel
    BY <1>1
  <2>. DEFINE At(k) == IF k = i + 1 THEN level ELSE levels[k]
  <2>2. R = [k \in 1..n |-> At(k)] /\ \A k \in 1..n : At(k) \in SomeLevel
    BY <1>6, <2>1, Zenon
  <2>. HIDE DEF At
  <2>3. R \in [1..n -> SomeLevel]
    BY <2>2
  <2>. QED  BY <2>3, <1>1, FunctionIsSeq
<1>8. \A k \in 1..n : R[k].price = levels[k].price
    BY <1>6, <1>2
<1>9. Sorted(side, R)
    BY <1>1, <1>7, <1>8 DEF Sorted
<1>10. Members(R) = Others(levels, price) \cup {level}
  <2>1. ASSUME NEW l \in Members(R) PROVE l \in Others(levels, price) \cup {level}
    BY <1>1, <1>2, <1>6, <1>7 DEF Members, Others
  <2>2. level \in Members(R)
    BY <1>2, <1>6, <1>7 DEF Members
  <2>3. ASSUME NEW l \in Others(levels, price) PROVE l \in Members(R)
    BY <1>1, <1>2, <1>6, <1>7 DEF Members, Others
  <2>. QED  BY <2>1, <2>2, <2>3
<1>. QED  BY <1>1, <1>7, <1>9, <1>10, Zenon DEF Side

(* PriceLevels::Set at the place that LowerBound returns: see SetIs. *)
LEMMA SetAt ==
    ASSUME NEW side \in Sides, NEW levels, Side(side, levels), NEW level \in SomeLevel, NEW i,
           i = LowerBound(side, levels, level.price), Before(side, levels, level.price, i)
    PROVE  /\ Side(side, Set(side, levels, level))
           /\ ~Overflows(side, levels, level) =>
                 Members(Set(side, levels, level)) = Updated(levels, level)
<1>. DEFINE held == \E l \in Members(levels) : l.price = level.price
<1>1. levels \in Seq(SomeLevel) /\ Sorted(side, levels) /\ level.price \in Nat
      /\ Len(levels) \in Nat /\ DOMAIN levels = 1..Len(levels) /\ Len(levels) <= Capacity
    BY DEF Side, SomeLevel
<1>2. Found(side, levels, level.price) <=> Here(levels, level.price, i)
    BY Zenon DEF Found, Here
<1>3. Found(side, levels, level.price) <=> held
  <2>1. /\ Here(levels, level.price, i) => i + 1 \in 1..Len(levels) /\ levels[i + 1].price = level.price
        /\ \A k \in 1..Len(levels) : levels[k].price = level.price => Here(levels, level.price, i)
    BY <1>1, PlaceFacts
  <2>2. held <=> \E k \in 1..Len(levels) : levels[k].price = level.price
    BY <1>1, Zenon DEF Members
  <2>. HIDE DEF held
  <2>. QED  BY <1>2, <2>1, <2>2, Zenon
<1>4. PICK R : R = Set(side, levels, level)
    BY Zenon
<1>. SUFFICES Side(side, R) /\ (~Overflows(side, levels, level) => Members(R) = Updated(levels, level))
    BY <1>4, Zenon
<1>5. CASE ~Found(side, levels, level.price)
  <2>1. R = Inserted(levels, i, level)
    BY <1>4, <1>5, Zenon DEF Set
  <2>2. ~Overflows(side, levels, level) => Len(levels) < Capacity
    <3>1. ~Overflows(side, levels, level) => Len(levels) # Capacity
      BY <1>5, Zenon DEF Overflows
    <3>2. Capacity \in Nat
      BY FeedAssumption, Zenon
    <3>. QED  BY <1>1, <3>1, <3>2, Apart, Zenon
  <2>3. Updated(levels, level) = Others(levels, level.price) \cup {level}
    BY <1>3, <1>5, Zenon DEF Updated
  <2>4. ~Here(levels, level.price, i)
    BY <1>2, <1>5, Zenon
  <2>5. /\ Side(side, Inserted(levels, i, level))
        /\ Len(levels) < Capacity =>
              Members(Inserted(levels, i, level)) = Others(levels, level.price) \cup {level}
    BY <2>4, InsertedIs
  <2>. QED  BY <2>1, <2>2, <2>3, <2>5, Zenon
<1>6. CASE Found(side, levels, level.price) /\ level.size = 0
  <2>1. R = Removed(levels, i)
    BY <1>4, <1>6, Zenon DEF Set
  <2>2. Updated(levels, level) = Others(levels, level.price)
    BY <1>3, <1>6 DEF Updated
  <2>3. Here(levels, level.price, i)
    BY <1>2, <1>6, Zenon
  <2>4. /\ Side(side, Removed(levels, i))
        /\ Members(Removed(levels, i)) = Others(levels, level.price)
    BY <1>1, <2>3, RemovedIs
  <2>. QED  BY <2>1, <2>2, <2>4, Zenon
<1>7. CASE Found(side, levels, level.price) /\ level.size # 0
  <2>1. R = Resized(levels, i, level)
    BY <1>4, <1>7, Zenon DEF Set, Resized
  <2>2. Updated(levels, level) = Others(levels, level.price) \cup {level}
    BY <1>7, Zenon DEF Updated
  <2>3. Here(levels, level.price, i)
    BY <1>2, <1>7, Zenon
  <2>4. /\ Side(side, Resized(levels, i, level))
        /\ Members(Resized(levels, i, level)) = Others(levels, level.price) \cup {level}
    BY <2>3, ReplacedIs
  <2>. QED  BY <2>1, <2>2, <2>4, Zenon
<1>. QED  BY <1>5, <1>6, <1>7, Zenon

(* When one level of the exchange's book changes, Updated is what the levels of
   the book become: a size of 0 always deletes a level that is there. *)
LEMMA LevelChanges ==
    ASSUME NEW P, NEW f \in [P -> Nat], NEW level \in SomeLevel, level.price \in P,
           f[level.price] # level.size, NEW levels, Members(levels) = LevelsOf(f),
           NEW g \in [P -> Nat], g[level.price] = level.size,
           \A q \in P : q # level.price => g[q] = f[q]
    PROVE  Updated(levels, level) = LevelsOf(g)
<1>. DEFINE p == level.price
            held == \E l \in Members(levels) : l.price = p
<1>1. level = [price |-> p, size |-> level.size] /\ level.size \in Nat
    BY DEF SomeLevel
<1>2. g \in [P -> Nat] /\ g[p] = level.size /\ \A q \in P : q # p => g[q] = f[q]
    OBVIOUS
<1>3. \A l : l \in LevelsOf(f) <=> \E q \in P : f[q] > 0 /\ l = [price |-> q, size |-> f[q]]
    BY DEF LevelsOf
<1>4. \A l : l \in LevelsOf(g) <=> \E q \in P : g[q] > 0 /\ l = [price |-> q, size |-> g[q]]
    BY <1>2 DEF LevelsOf
<1>5. \A l : l \in Others(levels, p) <=> \E q \in P : q # p /\ f[q] > 0 /\ l = [price |-> q, size |-> f[q]]
    BY <1>3 DEF Others
<1>6. \A l : l \in Others(levels, p) <=> \E q \in P : q # p /\ g[q] > 0 /\ l = [price |-> q, size |-> g[q]]
    BY <1>5, <1>2
<1>7. CASE level.size = 0
  <2>1. f[p] > 0
    BY <1>7
  <2>2. held
    <3>1. [price |-> p, size |-> f[p]] \in LevelsOf(f)
      BY <2>1, <1>3
    <3>. QED  BY <3>1
  <2>3. ~(g[p] > 0)
    BY <1>2, <1>7
  <2>4. Others(levels, p) = LevelsOf(g)
    BY <1>4, <1>6, <2>3
  <2>. QED  BY <2>2, <2>4, <1>7 DEF Updated
<1>8. CASE level.size # 0
  <2>1. g[p] > 0
    BY <1>1, <1>2, <1>8
  <2>2. \A l : l \in LevelsOf(g) <=> l \in Others(levels, p) \/ l = level
    BY <1>1, <1>2, <1>4, <1>6, <2>1
  <2>. QED  BY <2>2, <1>8 DEF Updated
<1>. QED  BY <1>7, <1>8

-----------------------------------------------------------------------------
(* The inductive invariant. *)

AllPrices == Prices["bids"] \cup Prices["asks"]
AnyBook == [Sides -> [AllPrices -> Nat]]
BookRecs == [bids : Seq(SomeLevel), asks : Seq(SomeLevel), lastSeqId : Int, hasSnapshot : BOOLEAN]
BooksPush == [channel : {"books"}, prevSeqId : Int, seqId : Nat,
              bids : Seq(SomeLevel), asks : Seq(SomeLevel), exch : AnyBook]
Push == BooksPush \cup [channel : {"other"}]

TypeOK ==
    /\ book \in BookRecs
    /\ requests \in Seq({"subscribe", "unsubscribe"})
    /\ pushes \in Seq(Push)
    /\ exch \in AnyBook
    /\ seen \in AnyBook
    /\ seq \in Nat
    /\ subscribed \in BOOLEAN
    /\ overflowed \in BOOLEAN
    /\ gapped \in BOOLEAN

IsBooks(p) == p.channel = "books"
IsSnapshot(p) == p.channel = "books" /\ p.prevSeqId = SnapshotSeqId
IsChange(p) == p.channel = "books" /\ p.prevSeqId # SnapshotSeqId

(* The push takes the exchange's book b to its own by one level. *)
Moved(b, p) ==
    \E side \in Sides :
        /\ Len(p[side]) = 1
        /\ \A other \in Sides : other # side => p[other] = <<>>
        /\ p[side][1].price \in AllPrices
        /\ b[side][p[side][1].price] # p[side][1].size
        /\ p.exch = [b EXCEPT ![side][p[side][1].price] = p[side][1].size]

Lists(p) ==
    \A side \in Sides : Sorted(side, p[side]) /\ Members(p[side]) = LevelsOf(p.exch[side])

(* A change is not older than the book b of seqId s, and is b's next if it chains. *)
Chains(s, b, p) == IsChange(p) => s <= p.prevSeqId /\ (s = p.prevSeqId => Moved(b, p))

PushOf(p, s, b) ==
    IsBooks(p) =>
        /\ p.seqId <= s
        /\ p.seqId = s => p.exch = b
        /\ IF p.prevSeqId = SnapshotSeqId THEN Lists(p) ELSE p.prevSeqId \in Nat /\ p.seqId = p.prevSeqId + 1

Queue(q, s, b) ==
    /\ \A i \in DOMAIN q : PushOf(q[i], s, b)
    /\ \A i, j \in DOMAIN q : i < j /\ IsBooks(q[i]) => Chains(q[i].seqId, q[i].exch, q[j])

Follow(q, s, b) == \A i \in DOMAIN q : Chains(s, b, q[i])

(* Before the first snapshot is applied. *)
Started(q) ==
    \A j \in DOMAIN q : IsChange(q[j]) => \E i \in DOMAIN q : i < j /\ IsSnapshot(q[i])

Beyond(q, s) == \A i \in DOMAIN q : IsChange(q[i]) => s < q[i].prevSeqId

SidesHold ==
    \A side \in Sides :
        /\ Side(side, book[side])
        /\ ~overflowed => Members(book[side]) = LevelsOf(seen[side])

BookFollows ==
    IF book.hasSnapshot
    THEN /\ book.lastSeqId <= seq
         /\ book.lastSeqId = seq => seen = exch
         /\ Follow(pushes, book.lastSeqId, seen)
    ELSE /\ Started(pushes)
         /\ subscribed => \E i \in DOMAIN pushes : IsSnapshot(pushes[i])

GapStays == gapped => book.hasSnapshot /\ book.lastSeqId < seq /\ Beyond(pushes, book.lastSeqId)

IInv ==
    /\ TypeOK
    /\ SidesHold
    /\ Queue(pushes, seq, exch)
    /\ BookFollows
    /\ GapStays

-----------------------------------------------------------------------------
(* The pushes on their way. *)

(* When the first push is taken, the rest still chain, and follow it. *)
LEMMA QueueTail ==
    ASSUME NEW q \in Seq(Push), q # <<>>, NEW s, NEW b, Queue(q, s, b)
    PROVE  /\ PushOf(Head(q), s, b)
           /\ Queue(Tail(q), s, b)
           /\ IsBooks(Head(q)) => Follow(Tail(q), Head(q).seqId, Head(q).exch)
<1>1. /\ 1 \in DOMAIN q /\ Head(q) = q[1]
      /\ \A i \in DOMAIN Tail(q) : i \in Nat /\ i + 1 # 1 /\ i + 1 \in DOMAIN q /\ Tail(q)[i] = q[i + 1]
    BY TailFacts
<1>2. \A i \in DOMAIN Tail(q) : 1 < i + 1
    BY <1>1
<1>3. \A i, j \in DOMAIN Tail(q) : i < j => i + 1 < j + 1
    BY <1>1
<1>4. PushOf(Head(q), s, b)
    BY <1>1 DEF Queue
<1>5. Queue(Tail(q), s, b)
    BY <1>1, <1>3 DEF Queue
<1>6. IsBooks(Head(q)) => Follow(Tail(q), Head(q).seqId, Head(q).exch)
    BY <1>1, <1>2 DEF Queue, Follow
<1>. QED  BY <1>4, <1>5, <1>6

(* What follows a book, or lies beyond it, still does without its first push. *)
LEMMA FollowTail ==
    ASSUME NEW q \in Seq(Push), q # <<>>, NEW s, NEW b
    PROVE  /\ Follow(q, s, b) => Chains(s, b, Head(q)) /\ Follow(Tail(q), s, b)
           /\ Beyond(q, s) => Beyond(Tail(q), s)
<1>1. /\ 1 \in DOMAIN q /\ Head(q) = q[1]
      /\ \A i \in DOMAIN Tail(q) : i + 1 \in DOMAIN q /\ Tail(q)[i] = q[i + 1]
    BY TailFacts
<1>. QED  BY <1>1 DEF Follow, Beyond

(* Before the first snapshot no change is at the front, and what is there but
   is no snapshot can be dropped. *)
LEMMA StartedTail ==
    ASSUME NEW q \in Seq(Push), q # <<>>, Started(q)
    PROVE  /\ ~IsChange(Head(q))
           /\ ~IsSnapshot(Head(q)) =>
                 /\ Started(Tail(q))
                 /\ (\E i \in DOMAIN q : IsSnapshot(q[i])) => \E i \in DOMAIN Tail(q) : IsSnapshot(Tail(q)[i])
<1>1. /\ 1 \in DOMAIN q /\ Head(q) = q[1]
      /\ \A i \in DOMAIN Tail(q) : i \in Nat /\ i + 1 # 1 /\ i + 1 \in DOMAIN q /\ Tail(q)[i] = q[i + 1]
      /\ \A j \in DOMAIN q : j # 1 => j - 1 \in DOMAIN Tail(q) /\ q[j] = Tail(q)[j - 1]
      /\ \A i \in DOMAIN q : i \in Nat /\ ~(i < 1)
    BY TailFacts
<1>2. ~IsChange(Head(q))
    BY <1>1 DEF Started
<1>3. ASSUME ~IsSnapshot(Head(q)) PROVE Started(Tail(q))
  <2>. SUFFICES ASSUME NEW j \in DOMAIN Tail(q), IsChange(Tail(q)[j])
                PROVE  \E i \in DOMAIN Tail(q) : i < j /\ IsSnapshot(Tail(q)[i])
    BY DEF Started
  <2>1. j + 1 \in DOMAIN q /\ IsChange(q[j + 1])
    BY <1>1
  <2>2. PICK i \in DOMAIN q : i < j + 1 /\ IsSnapshot(q[i])
    BY <2>1 DEF Started
  <2>3. i # 1
    BY <1>1, <1>3, <2>2
  <2>4. i - 1 < j
    BY <1>1, <2>2
  <2>. QED  BY <1>1, <2>2, <2>3, <2>4
<1>4. ASSUME ~IsSnapshot(Head(q)), \E i \in DOMAIN q : IsSnapshot(q[i])
      PROVE  \E i \in DOMAIN Tail(q) : IsSnapshot(Tail(q)[i])
    BY <1>1, <1>4, Zenon
<1>. QED  BY <1>2, <1>3, <1>4

(* A push that every push on its way chains to can be put behind them. *)
LEMMA QueueAppend ==
    ASSUME NEW q \in Seq(Push), NEW p \in Push, NEW s, NEW b, Queue(q, s, b), PushOf(p, s, b),
           \A i \in DOMAIN q : IsBooks(q[i]) => Chains(q[i].seqId, q[i].exch, p)
    PROVE  Queue(Append(q, p), s, b)
<1>. DEFINE r == Append(q, p)
<1>1. /\ \A i \in DOMAIN r : \/ i \in DOMAIN q /\ r[i] = q[i]
                             \/ i = Len(q) + 1 /\ r[i] = p
      /\ \A i \in DOMAIN q : i \in Nat /\ i <= Len(q)
      /\ Len(q) \in Nat
    BY AppendFacts
<1>. HIDE DEF r
<1>2. \A i \in DOMAIN r : PushOf(r[i], s, b)
    BY <1>1 DEF Queue
<1>3. ASSUME NEW i \in DOMAIN r, NEW j \in DOMAIN r, i < j, IsBooks(r[i])
      PROVE  Chains(r[i].seqId, r[i].exch, r[j])
  <2>1. i \in DOMAIN q /\ r[i] = q[i]
    BY <1>1, <1>3
  <2>2. CASE j \in DOMAIN q /\ r[j] = q[j]
    BY <1>3, <2>1, <2>2 DEF Queue
  <2>3. CASE r[j] = p
    BY <1>3, <2>1, <2>3
  <2>. QED  BY <1>1, <2>2, <2>3
<1>. QED  BY <1>2, <1>3 DEF Queue, r

(* The same for the pushes that follow a book or lie beyond it. *)
LEMMA FollowAppend ==
    ASSUME NEW q \in Seq(Push), NEW p \in Push, NEW s, NEW b
    PROVE  /\ Follow(q, s, b) /\ Chains(s, b, p) => Follow(Append(q, p), s, b)
           /\ Beyond(q, s) /\ (IsChange(p) => s < p.prevSeqId) => Beyond(Append(q, p), s)
<1>1. \A i \in DOMAIN Append(q, p) : \/ i \in DOMAIN q /\ Append(q, p)[i] = q[i]
                                     \/ Append(q, p)[i] = p
    BY AppendFacts
<1>. QED  BY <1>1 DEF Follow, Beyond

(* The same before the first snapshot: a change comes behind one. *)
LEMMA StartedAppend ==
    ASSUME NEW q \in Seq(Push), NEW p \in Push, Started(q),
           IsChange(p) => \E i \in DOMAIN q : IsSnapshot(q[i])
    PROVE  /\ Started(Append(q, p))
           /\ IsSnapshot(p) \/ (\E i \in DOMAIN q : IsSnapshot(q[i])) =>
                 \E i \in DOMAIN Append(q, p) : IsSnapshot(Append(q, p)[i])
<1>. DEFINE r == Append(q, p)
<1>1. /\ \A i \in DOMAIN r : \/ i \in DOMAIN q /\ r[i] = q[i]
                             \/ i = Len(q) + 1 /\ r[i] = p
      /\ \A i \in DOMAIN q : i \in DOMAIN r /\ r[i] = q[i]
      /\ Len(q) + 1 \in DOMAIN r /\ r[Len(q) + 1] = p
      /\ \A i \in DOMAIN q : i < Len(q) + 1
    BY AppendFacts
<1>. HIDE DEF r
<1>2. Started(r)
  <2>. SUFFICES ASSUME NEW j \in DOMAIN r, IsChange(r[j])
                PROVE  \E i \in DOMAIN r : i < j /\ IsSnapshot(r[i])
    BY DEF Started
  <2>1. CASE j \in DOMAIN q /\ r[j] = q[j]
    BY <1>1, <2>1 DEF Started
  <2>2. CASE j = Len(q) + 1 /\ r[j] = p
    BY <1>1, <2>2
  <2>. QED  BY <1>1, <2>1, <2>2
<1>3. IsSnapshot(p) \/ (\E i \in DOMAIN q : IsSnapshot(q[i])) => \E i \in DOMAIN r : IsSnapshot(r[i])
    BY <1>1
<1>. QED  BY <1>2, <1>3 DEF r

(* When the exchange's book moves on, the pushes on their way are older. *)
LEMMA QueueMoves ==
    ASSUME NEW q \in Seq(Push), NEW s \in Nat, NEW b, NEW c, Queue(q, s, b)
    PROVE  Queue(q, s + 1, c)
<1>1. \A i \in DOMAIN q : q[i] \in Push
    OBVIOUS
<1>2. ASSUME NEW p \in Push, PushOf(p, s, b) PROVE PushOf(p, s + 1, c)
  <2>1. SUFFICES ASSUME IsBooks(p) PROVE PushOf(p, s + 1, c)
    BY DEF PushOf
  <2>2. p.seqId \in Nat
    BY <2>1 DEF Push, BooksPush, IsBooks
  <2>3. p.seqId <= s
    BY <1>2, <2>1 DEF PushOf
  <2>4. p.seqId <= s + 1 /\ p.seqId # s + 1
    BY <2>2, <2>3
  <2>. QED  BY <1>2, <2>1, <2>4 DEF PushOf
<1>. QED  BY <1>1, <1>2 DEF Queue

-----------------------------------------------------------------------------
(* The steps that apply no push keep the invariant. *)

(* The book is empty, and nothing is on its way. *)
LEMMA InitHolds == ASSUME Init PROVE IInv
<1>1. TypeOK
  <2>1. exch \in AnyBook
    BY FeedAssumption, ZenonT(30) DEF Init, Books, AnyBook, AllPrices
  <2>2. seen \in AnyBook
    BY DEF Init, AnyBook, AllPrices
  <2>3. book \in BookRecs
    BY DEF Init, NewBook, BookRecs
  <2>4. requests \in Seq({"subscribe", "unsubscribe"}) /\ pushes \in Seq(Push) /\ seq \in Nat
    BY SeqEmpty DEF Init
  <2>5. subscribed \in BOOLEAN /\ overflowed \in BOOLEAN /\ gapped \in BOOLEAN
    BY Zenon DEF Init
  <2>. QED  BY <2>1, <2>2, <2>3, <2>4, <2>5 DEF TypeOK
<1>2. SidesHold
  <2>1. \A side \in Sides : book[side] = <<>>
    BY DEF Init, NewBook, Sides
  <2>2. \A side \in Sides : LevelsOf(seen[side]) = {}
    BY DEF Init, LevelsOf
  <2>. QED  BY <2>1, <2>2, EmptySide, Zenon DEF SidesHold
<1>3. pushes = <<>> /\ ~book.hasSnapshot /\ ~subscribed /\ ~gapped
    BY DEF Init, NewBook
<1>4. Queue(<<>>, seq, exch) /\ Started(<<>>)
    BY DEF Queue, Started
<1>. QED  BY <1>1, <1>2, <1>3, <1>4 DEF IInv, BookFollows, GapStays

(* A push that does not chain lies behind a book the exchange has left: a gap
   is open, and every later change lies beyond the book. *)
LEMMA GapKeeps == ASSUME IInv, OnGap PROVE IInv'
<1>. DEFINE p == Head(pushes)
            last == book.lastSeqId
<1>1. /\ pushes \in Seq(Push) /\ pushes # <<>> /\ p.channel = "books" /\ IsGap(p)
      /\ pushes' = Tail(pushes) /\ gapped' = TRUE /\ requests' = requests \o Resubscribe
      /\ UNCHANGED <<book, seen, overflowed, exch, seq, subscribed>>
    BY DEF OnGap, exchangeVars, IInv, TypeOK
<1>2. p \in Push /\ Tail(pushes) \in Seq(Push)
    BY <1>1, TailFacts
<1>3. PushOf(p, seq, exch) /\ Queue(Tail(pushes), seq, exch)
      /\ (IsBooks(p) => Follow(Tail(pushes), p.seqId, p.exch))
    BY <1>1, QueueTail DEF IInv
<1>4. book.hasSnapshot /\ p.prevSeqId # SnapshotSeqId /\ p.prevSeqId # last
    BY <1>1 DEF IsGap
<1>5. Follow(pushes, last, seen) /\ last <= seq /\ (last = seq => seen = exch)
    BY <1>4 DEF IInv, BookFollows
<1>6. Chains(last, seen, p) /\ Follow(Tail(pushes), last, seen)
    BY <1>1, <1>5, FollowTail
<1>. HIDE DEF p
<1>7. p \in BooksPush /\ IsBooks(p) /\ IsChange(p)
    BY <1>1, <1>2, <1>4 DEF Push, BooksPush, IsBooks, IsChange
<1>8. last <= p.prevSeqId /\ p.seqId <= seq /\ p.seqId = p.prevSeqId + 1
    BY <1>3, <1>4, <1>6, <1>7 DEF Chains, PushOf
<1>9. last \in Int /\ p.prevSeqId \in Int /\ p.seqId \in Int /\ seq \in Int
    BY <1>7 DEF IInv, TypeOK, BookRecs, BooksPush
<1>. HIDE DEF last
<1>10. last < seq /\ last < p.seqId
    BY <1>4, <1>8, <1>9
<1>11. Beyond(Tail(pushes), last)
  <2>. SUFFICES ASSUME NEW i \in DOMAIN Tail(pushes), IsChange(Tail(pushes)[i])
                PROVE  last < Tail(pushes)[i].prevSeqId
    BY DEF Beyond
  <2>1. p.seqId <= Tail(pushes)[i].prevSeqId
    BY <1>3, <1>7 DEF Follow, Chains
  <2>2. Tail(pushes)[i] \in Push
    BY <1>2
  <2>3. Tail(pushes)[i].prevSeqId \in Int
    BY <2>2 DEF Push, BooksPush, IsChange
  <2>. QED  BY <1>9, <1>10, <2>1, <2>3
<1>12. requests' \in Seq({"subscribe", "unsubscribe"})
    BY <1>1 DEF IInv, TypeOK, Resubscribe
<1>13. TypeOK'
    BY <1>1, <1>2, <1>12 DEF IInv, TypeOK
<1>14. SidesHold' /\ Queue(pushes, seq, exch)'
    BY <1>1, <1>3 DEF IInv, SidesHold
<1>15. BookFollows' /\ GapStays'
    BY <1>1, <1>4, <1>5, <1>6, <1>10, <1>11 DEF BookFollows, GapStays, last
<1>. QED  BY <1>13, <1>14, <1>15 DEF IInv

(* An answer or another channel's push changes nothing. *)
LEMMA IgnoredKeeps == ASSUME IInv, OnIgnored PROVE IInv'
<1>. DEFINE p == Head(pushes)
<1>1. /\ pushes \in Seq(Push) /\ pushes # <<>> /\ p.channel = "other"
      /\ pushes' = Tail(pushes)
      /\ UNCHANGED <<book, seen, overflowed, gapped, requests, exch, seq, subscribed>>
    BY DEF OnIgnored, exchangeVars, feedVars, IInv, TypeOK
<1>2. Tail(pushes) \in Seq(Push)
    BY <1>1, TailFacts
<1>3. Queue(Tail(pushes), seq, exch)
    BY <1>1, QueueTail DEF IInv
<1>4. ~IsSnapshot(p)
    BY <1>1 DEF IsSnapshot
<1>5. TypeOK' /\ SidesHold' /\ Queue(pushes, seq, exch)'
    BY <1>1, <1>2, <1>3 DEF IInv, TypeOK, SidesHold
<1>6. BookFollows'
    BY <1>1, <1>4, FollowTail, StartedTail DEF IInv, BookFollows
<1>7. GapStays'
    BY <1>1, FollowTail, Zenon DEF IInv, GapStays
<1>. QED  BY <1>5, <1>6, <1>7 DEF IInv

(* Neither a timer nor a new session touches the book; a lost session and an
   unsubscription leave it as it is. *)
LEMMA ConnectionKeeps == ASSUME IInv, OnTimer \/ OnConnected \/ Disconnect \/ ExchangeUnsubscribes PROVE IInv'
<1>1. CASE OnTimer
  <2>1. UNCHANGED <<book, seen, overflowed, gapped, pushes, requests, exch, seq, subscribed>>
    BY <1>1, Zenon DEF OnTimer, feedVars, sessionVars, exchangeVars
  <2>. QED  BY <2>1 DEF IInv, TypeOK, SidesHold, BookFollows, GapStays
<1>2. CASE OnConnected
  <2>1. UNCHANGED <<book, seen, overflowed, gapped, pushes, exch, seq, subscribed>>
    BY <1>2 DEF OnConnected, feedVars, exchangeVars
  <2>2. requests' \in Seq({"subscribe", "unsubscribe"})
    BY <1>2 DEF OnConnected
  <2>. QED  BY <2>1, <2>2 DEF IInv, TypeOK, SidesHold, BookFollows, GapStays
<1>3. CASE Disconnect
  <2>1. /\ UNCHANGED <<book, seen, overflowed, gapped, exch, seq>>
        /\ requests' = <<>> /\ pushes' = <<>> /\ subscribed' = FALSE
    BY <1>3 DEF Disconnect, feedVars
  <2>2. TypeOK'
    BY <2>1, SeqEmpty, Zenon DEF IInv, TypeOK
  <2>3. /\ Queue(<<>>, seq, exch) /\ Started(<<>>)
        /\ Follow(<<>>, book.lastSeqId, seen) /\ Beyond(<<>>, book.lastSeqId)
    BY DEF Queue, Started, Follow, Beyond
  <2>. QED  BY <2>1, <2>2, <2>3 DEF IInv, SidesHold, BookFollows, GapStays
<1>4. CASE ExchangeUnsubscribes
  <2>1. /\ UNCHANGED <<book, seen, overflowed, gapped, pushes, exch, seq>>
        /\ requests # <<>> /\ requests' = Tail(requests) /\ subscribed' = FALSE
    BY <1>4 DEF ExchangeUnsubscribes, feedVars
  <2>2. requests' \in Seq({"subscribe", "unsubscribe"})
    BY <2>1, TailFacts DEF IInv, TypeOK
  <2>. QED  BY <2>1, <2>2, Zenon DEF IInv, TypeOK, SidesHold, BookFollows, GapStays
<1>. QED  BY <1>1, <1>2, <1>3, <1>4

(* A subscription puts a snapshot of the exchange's book behind every push. *)
LEMMA SubscribesKeeps == ASSUME IInv, ExchangeSubscribes PROVE IInv'
<1>1. /\ UNCHANGED <<book, seen, overflowed, gapped, exch, seq>>
      /\ requests # <<>> /\ requests' = Tail(requests) /\ subscribed' = TRUE
    BY DEF ExchangeSubscribes, feedVars
<1>2. PICK bids \in Listings("bids"), asks \in Listings("asks") :
         pushes' = pushes \o <<[channel |-> "other"],
                               [channel |-> "books", prevSeqId |-> SnapshotSeqId, seqId |-> seq,
                                bids |-> bids, asks |-> asks, exch |-> exch]>>
    BY Zenon DEF ExchangeSubscribes
<1>. DEFINE other == [channel |-> "other"]
            p == [channel |-> "books", prevSeqId |-> SnapshotSeqId, seqId |-> seq,
                  bids |-> bids, asks |-> asks, exch |-> exch]
            first == Append(pushes, other)
<1>3. pushes \in Seq(Push) /\ exch \in AnyBook /\ seq \in Nat
    BY DEF IInv, TypeOK
<1>4. ASSUME NEW side \in Sides, NEW list \in Listings(side)
      PROVE  /\ list \in Seq(SomeLevel) /\ Sorted(side, list)
             /\ Members(list) = LevelsOf(exch[side])
  <2>1. exch[side] \in [AllPrices -> Nat] /\ AllPrices \subseteq Nat
    BY <1>3, FeedAssumption DEF AnyBook, AllPrices, Sides
  <2>3. /\ Sorted(side, list) /\ Members(list) = LevelsOf(exch[side])
        /\ \E n \in 0..Cardinality(LevelsOf(exch[side])) : list \in [1..n -> LevelsOf(exch[side])]
    BY DEF Listings, Members
  <2>4. ASSUME NEW l \in LevelsOf(exch[side]) PROVE l \in SomeLevel
    <3>1. PICK q \in AllPrices : l = [price |-> q, size |-> exch[side][q]]
      BY <2>1 DEF LevelsOf
    <3>2. q \in Nat /\ exch[side][q] \in Nat
      BY <2>1
    <3>. QED  BY <3>1, <3>2 DEF SomeLevel
  <2>5. PICK n \in Nat : list \in [1..n -> LevelsOf(exch[side])]
    BY <2>3
  <2>6. list \in [1..n -> SomeLevel]
    BY <2>4, <2>5
  <2>. QED  BY <2>3, <2>6
<1>5. /\ bids \in Seq(SomeLevel) /\ Sorted("bids", bids) /\ Members(bids) = LevelsOf(exch["bids"])
      /\ asks \in Seq(SomeLevel) /\ Sorted("asks", asks) /\ Members(asks) = LevelsOf(exch["asks"])
    BY <1>4 DEF Sides
<1>6. p \in BooksPush /\ Lists(p)
    BY <1>3, <1>5 DEF BooksPush, Lists, Sides, SnapshotSeqId
<1>7. other \in Push /\ p \in Push
    BY <1>6 DEF Push
<1>8. ~IsBooks(other) /\ ~IsChange(other) /\ ~IsSnapshot(other)
    BY DEF IsBooks, IsChange, IsSnapshot
<1>9. IsBooks(p) /\ IsSnapshot(p) /\ ~IsChange(p) /\ p.prevSeqId = SnapshotSeqId /\ p.seqId = seq /\ p.exch = exch
    BY DEF IsBooks, IsChange, IsSnapshot
<1>10. pushes' = Append(first, p)
    BY <1>2, <1>3, <1>7
<1>. HIDE DEF other, p
<1>11. first \in Seq(Push) /\ Append(first, p) \in Seq(Push)
    BY <1>3, <1>7, AppendFacts
<1>12. PushOf(other, seq, exch) /\ PushOf(p, seq, exch)
    BY <1>3, <1>6, <1>8, <1>9 DEF PushOf
<1>13. \A s, b : Chains(s, b, other) /\ Chains(s, b, p)
    BY <1>8, <1>9 DEF Chains
<1>14. Queue(first, seq, exch)
    BY <1>3, <1>7, <1>12, <1>13, QueueAppend DEF IInv
<1>. HIDE DEF first
<1>15. Queue(Append(first, p), seq, exch)
    BY <1>7, <1>11, <1>12, <1>13, <1>14, QueueAppend
<1>16. requests' \in Seq({"subscribe", "unsubscribe"})
    BY <1>1, TailFacts DEF IInv, TypeOK
<1>17. TypeOK'
    BY <1>1, <1>10, <1>11, <1>16 DEF IInv, TypeOK
<1>18. SidesHold' /\ Queue(pushes, seq, exch)'
    BY <1>1, <1>10, <1>15 DEF IInv, SidesHold
<1>19. BookFollows'
  <2>1. CASE book.hasSnapshot
    <3>1. Follow(first, book.lastSeqId, seen)
      BY <2>1, <1>3, <1>7, <1>13, FollowAppend DEF IInv, BookFollows, first
    <3>2. Follow(Append(first, p), book.lastSeqId, seen)
      BY <3>1, <1>7, <1>11, <1>13, FollowAppend
    <3>. QED  BY <2>1, <3>2, <1>1, <1>10 DEF IInv, BookFollows
  <2>2. CASE ~book.hasSnapshot
    <3>1. Started(first)
      BY <2>2, <1>3, <1>7, <1>8, StartedAppend, Zenon DEF IInv, BookFollows, first
    <3>2. /\ Started(Append(first, p))
          /\ \E i \in DOMAIN Append(first, p) : IsSnapshot(Append(first, p)[i])
      BY <3>1, <1>7, <1>9, <1>11, StartedAppend
    <3>. QED  BY <2>2, <3>2, <1>1, <1>10, Zenon DEF BookFollows
  <2>. QED  BY <2>1, <2>2
<1>20. GapStays'
  <2>1. ASSUME gapped PROVE Beyond(Append(first, p), book.lastSeqId)
    <3>1. Beyond(first, book.lastSeqId)
      BY <2>1, <1>3, <1>7, <1>8, FollowAppend DEF IInv, GapStays, first
    <3>. QED  BY <3>1, <1>7, <1>9, <1>11, FollowAppend
  <2>. QED  BY <2>1, <1>1, <1>10 DEF IInv, GapStays
<1>. QED  BY <1>17, <1>18, <1>19, <1>20 DEF IInv

(* A change of the exchange's book is the one that the last push, or the book
   itself if it is up to date, is waiting for. *)
LEMMA MovesKeeps ==
    ASSUME IInv, NEW side \in Sides, NEW level \in Level, ExchangeMoves(side, level)
    PROVE  IInv'
<1>. DEFINE p == [channel |-> "books", prevSeqId |-> seq, seqId |-> seq + 1,
                  bids |-> IF side = "bids" THEN <<level>> ELSE <<>>,
                  asks |-> IF side = "asks" THEN <<level>> ELSE <<>>,
                  exch |-> exch']
            last == book.lastSeqId
<1>1. /\ exch[side][level.price] # level.size
      /\ exch' = [exch EXCEPT ![side][level.price] = level.size]
      /\ seq' = seq + 1
      /\ pushes' = pushes \/ (subscribed /\ pushes' = Append(pushes, p))
      /\ UNCHANGED <<book, seen, overflowed, gapped, requests, subscribed>>
    BY DEF ExchangeMoves, feedVars
<1>2. /\ pushes \in Seq(Push) /\ exch \in AnyBook /\ seq \in Nat /\ last \in Int
      /\ Queue(pushes, seq, exch) /\ SidesHold
    BY DEF IInv, TypeOK, BookRecs
<1>3. level \in SomeLevel /\ level.price \in AllPrices /\ level.size \in Nat
  <2>1. level \in [price : AllPrices, size : Sizes] /\ AllPrices \subseteq Nat /\ Sizes \subseteq Nat
    BY FeedAssumption DEF Level, AllPrices, Sides
  <2>. QED  BY <2>1, Zenon DEF SomeLevel
<1>4. exch' \in AnyBook
    BY <1>1, <1>2, <1>3 DEF AnyBook
<1>5. Queue(pushes, seq + 1, exch')
    BY <1>2, QueueMoves
<1>6. /\ p.channel = "books" /\ p.prevSeqId = seq /\ p.seqId = seq + 1 /\ p.exch = exch'
      /\ p["bids"] = (IF side = "bids" THEN <<level>> ELSE <<>>)
      /\ p["asks"] = (IF side = "asks" THEN <<level>> ELSE <<>>)
    OBVIOUS
<1>7. p \in Push
  <2>1. p.bids \in Seq(SomeLevel) /\ p.asks \in Seq(SomeLevel)
    BY <1>3
  <2>2. seq \in Int /\ seq + 1 \in Nat
    BY <1>2
  <2>. QED  BY <2>1, <2>2, <1>4, Zenon DEF Push, BooksPush
<1>. HIDE DEF p
<1>8. Moved(exch, p)
  <2>1. p[side] = <<level>> /\ \A other \in Sides : other # side => p[other] = <<>>
    BY <1>6 DEF Sides
  <2>2. Len(p[side]) = 1 /\ p[side][1] = level
    BY <2>1
  <2>. QED  BY <2>1, <2>2, <1>1, <1>3, <1>6, Zenon DEF Moved
<1>9. IsBooks(p) /\ IsChange(p) /\ ~IsSnapshot(p)
    BY <1>2, <1>6 DEF IsBooks, IsChange, IsSnapshot, SnapshotSeqId
<1>10. PushOf(p, seq + 1, exch')
    BY <1>2, <1>6 DEF PushOf, SnapshotSeqId
<1>11. ASSUME NEW s \in Int, NEW b, s <= seq, s = seq => b = exch PROVE Chains(s, b, p)
    BY <1>6, <1>8, <1>11 DEF Chains
<1>12. \A i \in DOMAIN pushes : IsBooks(pushes[i]) => Chains(pushes[i].seqId, pushes[i].exch, p)
  <2>. SUFFICES ASSUME NEW i \in DOMAIN pushes, IsBooks(pushes[i])
                PROVE  Chains(pushes[i].seqId, pushes[i].exch, p)
    OBVIOUS
  <2>1. pushes[i] \in Push
    BY <1>2
  <2>2. pushes[i].seqId \in Int
    BY <2>1 DEF Push, BooksPush, IsBooks
  <2>3. pushes[i].seqId <= seq /\ (pushes[i].seqId = seq => pushes[i].exch = exch)
    BY <1>2, Zenon DEF Queue, PushOf
  <2>. QED  BY <2>2, <2>3, <1>11
<1>13. Append(pushes, p) \in Seq(Push) /\ Queue(Append(pushes, p), seq + 1, exch')
    BY <1>2, <1>5, <1>7, <1>10, <1>12, QueueAppend, AppendFacts
<1>14. TypeOK' /\ SidesHold' /\ Queue(pushes, seq, exch)'
  <2>1. pushes' \in Seq(Push) /\ Queue(pushes', seq + 1, exch')
    BY <1>1, <1>2, <1>5, <1>13, Zenon
  <2>2. seq' \in Nat
    BY <1>1, <1>2
  <2>. QED  BY <1>1, <1>4, <2>1, <2>2 DEF IInv, TypeOK, SidesHold
<1>15. BookFollows'
  <2>1. CASE book.hasSnapshot
    <3>1. last <= seq /\ (last = seq => seen = exch) /\ Follow(pushes, last, seen)
      BY <2>1 DEF IInv, BookFollows
    <3>2. Chains(last, seen, p)
      BY <1>2, <3>1, <1>11
    <3>3. Follow(pushes', last, seen)
      BY <1>1, <1>2, <1>7, <3>1, <3>2, FollowAppend, Zenon
    <3>. HIDE DEF last
    <3>4. last <= seq + 1 /\ last # seq + 1
      BY <1>2, <3>1
    <3>. QED  BY <2>1, <1>1, <3>3, <3>4 DEF BookFollows, last
  <2>2. CASE ~book.hasSnapshot
    <3>1. Started(pushes) /\ (subscribed => \E i \in DOMAIN pushes : IsSnapshot(pushes[i]))
      BY <2>2 DEF IInv, BookFollows
    <3>2. CASE pushes' = pushes
      BY <2>2, <3>1, <3>2, <1>1 DEF BookFollows
    <3>3. CASE subscribed /\ pushes' = Append(pushes, p)
      <4>1. Started(pushes') /\ \E i \in DOMAIN pushes' : IsSnapshot(pushes'[i])
        BY <3>1, <3>3, <1>2, <1>7, StartedAppend
      <4>. QED  BY <2>2, <4>1, <1>1 DEF BookFollows
    <3>. QED  BY <3>2, <3>3, <1>1
  <2>. QED  BY <2>1, <2>2
<1>16. GapStays'
  <2>. SUFFICES ASSUME gapped PROVE GapStays'
    BY <1>1 DEF GapStays
  <2>1. book.hasSnapshot /\ last < seq /\ Beyond(pushes, last)
    BY DEF IInv, GapStays
  <2>2. Beyond(pushes', last)
    BY <2>1, <1>1, <1>2, <1>6, <1>7, FollowAppend, Zenon
  <2>. HIDE DEF last
  <2>3. last < seq + 1
    BY <2>1, <1>2
  <2>. QED  BY <2>1, <2>2, <2>3, <1>1 DEF GapStays, last
<1>. QED  BY <1>14, <1>15, <1>16 DEF IInv

(* A stuttering step. *)
LEMMA StutterKeeps == ASSUME IInv, UNCHANGED vars PROVE IInv'
<1>1. UNCHANGED <<book, seen, overflowed, gapped, pushes, requests, exch, seq, subscribed>>
    BY DEF vars, feedVars, sessionVars, exchangeVars
<1>. QED  BY <1>1, Zenon DEF IInv, TypeOK, SidesHold, BookFollows, GapStays

(* While a gap is open no change chains onto the book. *)
LEMMA GapApplies == ASSUME IInv, gapped, OnApplied PROVE ~gapped'
<1>. DEFINE p == Head(pushes)
<1>1. /\ pushes \in Seq(Push) /\ pushes # <<>> /\ p.channel = "books" /\ ~IsGap(p)
      /\ gapped' => p.prevSeqId # SnapshotSeqId
    BY Zenon DEF OnApplied, IInv, TypeOK
<1>2. book.hasSnapshot /\ Beyond(pushes, book.lastSeqId)
    BY DEF IInv, GapStays
<1>3. 1 \in DOMAIN pushes /\ p = pushes[1] /\ p \in Push
    BY <1>1, TailFacts
<1>. HIDE DEF p
<1>4. p.prevSeqId # SnapshotSeqId => book.lastSeqId < p.prevSeqId
    BY <1>1, <1>2, <1>3 DEF Beyond, IsChange
<1>5. p.prevSeqId # SnapshotSeqId => p.prevSeqId = book.lastSeqId
    BY <1>1, <1>2 DEF IsGap
<1>6. p.prevSeqId \in Int
    BY <1>1, <1>3 DEF Push, BooksPush
<1>. QED  BY <1>1, <1>4, <1>5, <1>6

-----------------------------------------------------------------------------
(* What needs induction. *)

(* Every non-empty set of natural numbers has a least element.  The lemmas of
   this section assume it; the theorems take it from the library's well-founded
   induction. *)
LeastNumbers == \A T \in SUBSET Nat : T # {} => \E m \in T : \A n \in T : m <= n

(* The same for one set. *)
LEMMA LeastOf ==
    ASSUME LeastNumbers, NEW T \in SUBSET Nat, T # {}
    PROVE  \E m \in T : \A n \in T : m <= n
BY Zenon DEF LeastNumbers

(* A sorted array has one place for a price. *)
LEMMA Place ==
    ASSUME LeastNumbers, NEW side \in Sides, NEW levels \in Seq(SomeLevel), Sorted(side, levels),
           NEW price \in Nat
    PROVE  \E K \in 0..Len(levels) :
              \A k \in 1..Len(levels) : Compare(side, levels[k].price, price) <=> k <= K
<1>0. Len(levels) \in Nat /\ DOMAIN levels = 1..Len(levels)
    OBVIOUS
<1>. DEFINE T == {i \in 0..Len(levels) :
                     i = Len(levels) \/ ~Compare(side, levels[i + 1].price, price)}
<1>1. T \in SUBSET Nat /\ T # {}
    BY <1>0
<1>2. \A i \in T : i \in 0..Len(levels) /\ (i # Len(levels) => ~Compare(side, levels[i + 1].price, price))
    OBVIOUS
<1>3. \A i \in 0..Len(levels) : i # Len(levels) /\ i \notin T => Compare(side, levels[i + 1].price, price)
    OBVIOUS
<1>. HIDE DEF T
<1>4. PICK K \in T : \A i \in T : K <= i
    BY <1>1, LeastOf
<1>5. K \in 0..Len(levels)
    BY <1>2
<1>6. ASSUME NEW k \in 1..Len(levels), k <= K PROVE Compare(side, levels[k].price, price)
  <2>1. k - 1 \in 0..Len(levels) /\ k - 1 < K /\ k - 1 # Len(levels) /\ (k - 1) + 1 = k
    BY <1>5, <1>6, <1>0
  <2>2. k - 1 \notin T
    BY <1>4, <1>5, <2>1, <1>0
  <2>. QED  BY <1>3, <2>1, <2>2
<1>7. ASSUME NEW k \in 1..Len(levels), K < k PROVE ~Compare(side, levels[k].price, price)
  <2>1. K < Len(levels) /\ K + 1 \in 1..Len(levels)
    BY <1>5, <1>7, <1>0
  <2>2. ~Compare(side, levels[K + 1].price, price)
    BY <1>2, <2>1
  <2>3. k = K + 1 \/ Compare(side, levels[K + 1].price, levels[k].price)
    BY <2>1, <1>0, <1>5, <1>7 DEF Sorted
  <2>4. levels[K + 1] \in SomeLevel /\ levels[k] \in SomeLevel
    BY <2>1, <1>0
  <2>5. levels[K + 1].price \in Nat /\ levels[k].price \in Nat
    BY <2>4 DEF SomeLevel
  <2>. QED  BY <2>2, <2>3, <2>5 DEF Compare
<1>. QED  BY <1>5, <1>6, <1>7

(* LowerBound's bisection returns that place: among the ranges that contain it
   and on which the search went wrong, none is the smallest. *)
LEMMA Search ==
    ASSUME LeastNumbers, NEW side \in Sides, NEW levels \in Seq(SomeLevel), NEW price \in Nat,
           NEW K \in 0..Len(levels),
           \A k \in 1..Len(levels) : Compare(side, levels[k].price, price) <=> k <= K
    PROVE  LowerBound(side, levels, price) = K
<1>. DEFINE n == Len(levels)
            Mid(b, e) == b + (e - b) \div 2
            Half(f, b, e) == IF b >= e THEN b
                             ELSE IF Compare(side, levels[Mid(b, e) + 1].price, price)
                                  THEN f[<<Mid(b, e) + 1, e>>]
                                  ELSE f[<<b, Mid(b, e)>>]
            Is(f) == f = [r \in (0..n) \X (0..n) |-> Half(f, r[1], r[2])]
            Clamp(b, e) == IF b >= e THEN b ELSE IF K < b THEN b ELSE IF e < K THEN e ELSE K
            w == [r \in (0..n) \X (0..n) |-> Clamp(r[1], r[2])]
            search == CHOOSE f : Is(f)
<1>0. n \in Nat
    OBVIOUS
<1>1. ASSUME NEW b \in 0..n, NEW e \in 0..n, b < e
      PROVE  Mid(b, e) \in 0..n /\ b <= Mid(b, e) /\ Mid(b, e) < e /\ Mid(b, e) + 1 \in 1..n
    BY <1>0, <1>1
<1>2. LowerBound(side, levels, price) = search[<<0, n>>]
    BY Zenon DEF LowerBound
<1>3. Is(w)
  <2>1. ASSUME NEW b \in 0..n, NEW e \in 0..n PROVE Half(w, b, e) = Clamp(b, e)
    <3>1. CASE b >= e
      BY <3>1
    <3>2. CASE b < e
      <4>. DEFINE m == Mid(b, e)
      <4>1. m \in 0..n /\ b <= m /\ m < e /\ m + 1 \in 0..n /\ m + 1 \in 1..n
        BY <3>2, <1>1, <1>0
      <4>2. w[<<m + 1, e>>] = Clamp(m + 1, e) /\ w[<<b, m>>] = Clamp(b, m)
        BY <4>1, Zenon
      <4>3. Compare(side, levels[m + 1].price, price) <=> m + 1 <= K
        BY <4>1
      <4>4. Half(w, b, e) = IF m + 1 <= K THEN Clamp(m + 1, e) ELSE Clamp(b, m)
        <5>1. ~(b >= e)
          BY <3>2
        <5>. QED  BY <5>1, <4>2, <4>3, Zenon
      <4>. HIDE DEF m, Half, w
      <4>. QED BY <4>1, <4>4, <3>2
    <3>3. b >= e \/ b < e
      BY <1>0
    <3>. HIDE DEF Half, Clamp, w
    <3>. QED  BY <3>1, <3>2, <3>3, Zenon
  <2>2. ASSUME NEW r \in (0..n) \X (0..n) PROVE Half(w, r[1], r[2]) = Clamp(r[1], r[2])
    BY <2>1, Zenon
  <2>. QED  BY <2>2, Zenon
<1>4. Is(search)
  <2>1. \E f : Is(f)
    BY <1>3, Zenon
  <2>. HIDE DEF Is
  <2>. QED  BY <2>1, Zenon
<1>5. ASSUME NEW b \in 0..n, NEW e \in 0..n PROVE search[<<b, e>>] = Half(search, b, e)
  <2>. HIDE DEF search, Half
  <2>. QED  BY <1>4
<1>. HIDE DEF search
<1>6. ASSUME NEW b \in 0..n, NEW e \in 0..n, b <= K, K <= e PROVE search[<<b, e>>] = K
  <2>. DEFINE Wrong(i, j) == i <= K /\ K <= j /\ search[<<i, j>>] # K
              T == {d \in Nat : \E i, j \in 0..n : Wrong(i, j) /\ j - i = d}
  <2>0. ASSUME NEW i \in 0..n, NEW j \in 0..n, Wrong(i, j) PROVE j - i \in T
    <3>1. j - i \in Nat
      BY <2>0, <1>0
    <3>. HIDE DEF Wrong
    <3>2. \E k, l \in 0..n : Wrong(k, l) /\ l - k = j - i
      BY <2>0, Zenon
    <3>. QED  BY <3>1, <3>2
  <2>1. SUFFICES ASSUME T # {} PROVE FALSE
    BY <1>6, <2>0, Zenon
  <2>2. PICK d \in T : \A x \in T : d <= x
    BY <2>1, LeastOf, Zenon
  <2>3. PICK i \in 0..n, j \in 0..n : Wrong(i, j) /\ j - i = d
    BY Zenon
  <2>4. \A k, l \in 0..n : k <= K /\ K <= l /\ l - k < j - i => search[<<k, l>>] = K
    <3>. SUFFICES ASSUME NEW k \in 0..n, NEW l \in 0..n, Wrong(k, l), l - k < j - i PROVE FALSE
      OBVIOUS
    <3>1. l - k \in T
      BY <2>0, Zenon
    <3>2. d <= l - k
      BY <2>2, <3>1, Zenon
    <3>. QED  BY <2>3, <3>2, <1>0
  <2>. HIDE DEF T
  <2>5. CASE i >= j
    <3>1. search[<<i, j>>] = i
      BY <1>5, <2>5, Zenon
    <3>. QED  BY <2>3, <2>5, <3>1
  <2>6. CASE i < j
    <3>. DEFINE m == Mid(i, j)
    <3>1. m \in 0..n /\ i <= m /\ m < j /\ m + 1 \in 0..n /\ m + 1 \in 1..n
      BY <2>6, <1>1, <1>0
    <3>2. search[<<i, j>>] = IF m + 1 <= K THEN search[<<m + 1, j>>] ELSE search[<<i, m>>]
      BY <1>5, <2>6, <3>1
    <3>. HIDE DEF m
    <3>3. m + 1 <= K => search[<<m + 1, j>>] = K
      BY <2>3, <2>4, <3>1
    <3>4. K < m + 1 => search[<<i, m>>] = K
      BY <2>3, <2>4, <3>1
    <3>. QED  BY <2>3, <3>1, <3>2, <3>3, <3>4
  <2>. QED  BY <2>5, <2>6
<1>7. 0 \in 0..n /\ n \in 0..n /\ 0 <= K /\ K <= n
    BY <1>0
<1>. QED  BY <1>2, <1>6, <1>7

(* What LowerBound returns on a sorted array. *)
LEMMA LowerBoundIs ==
    ASSUME LeastNumbers, NEW side \in Sides, NEW levels \in Seq(SomeLevel), Sorted(side, levels),
           NEW price \in Nat
    PROVE  Before(side, levels, price, LowerBound(side, levels, price))
<1>1. PICK K \in 0..Len(levels) :
         \A k \in 1..Len(levels) : Compare(side, levels[k].price, price) <=> k <= K
    BY Place, Zenon
<1>2. LowerBound(side, levels, price) = K
    BY <1>1, Search, Zenon
<1>. QED  BY <1>1, <1>2 DEF Before

(* PriceLevels::Set: whatever the level, the array stays sorted and within its
   capacity; and unless it was full, it holds the other levels and, if it is not
   the deletion of a level it held, this one. *)
LEMMA SetIs ==
    ASSUME LeastNumbers, NEW side \in Sides, NEW levels, Side(side, levels), NEW level \in SomeLevel
    PROVE  /\ Side(side, Set(side, levels, level))
           /\ ~Overflows(side, levels, level) =>
                 Members(Set(side, levels, level)) = Updated(levels, level)
<1>1. levels \in Seq(SomeLevel) /\ Sorted(side, levels) /\ level.price \in Nat
    BY Zenon DEF Side, SomeLevel
<1>2. Before(side, levels, level.price, LowerBound(side, levels, level.price))
    BY <1>1, LowerBoundIs, Zenon
<1>. QED  BY <1>2, SetAt

(* ApplyLevels: the side before and after each level of an array, by induction
   over the array; each is a side. *)
LEMMA HeldIs ==
    ASSUME LeastNumbers, NEW side \in Sides, NEW levels, Side(side, levels), NEW array \in Seq(SomeLevel)
    PROVE  LET h == Held(side, levels, array)
           IN  /\ h[0] = levels
               /\ \A i \in 1..Len(array) : h[i] = Set(side, h[i - 1], array[i])
               /\ \A i \in 0..Len(array) : Side(side, h[i])
<1>. DEFINE n == Len(array)
            S == {x \in Seq(SomeLevel) : Side(side, x)}
            Body(f, i) == IF i = 0 THEN levels
                          ELSE CHOOSE after \in {Set(side, before, array[i]) : before \in {f[i - 1]}} : TRUE
            Step(f, i) == IF i = 0 THEN levels ELSE Set(side, f[i - 1], array[i])
            Upto(f, m) == \A i \in 0..m : f[i] = Step(f, i)
            Is(f) == f = [i \in 0..n |-> Body(f, i)]
            h == CHOOSE f : Is(f)
<1>0. n \in Nat /\ \A i \in 1..n : array[i] \in SomeLevel
    OBVIOUS
<1>1. Held(side, levels, array) = h
    BY DEF Held
<1>2. ASSUME NEW f, NEW i PROVE Body(f, i) = Step(f, i)
    OBVIOUS
<1>3. levels \in S /\ \A x \in S : \A i \in 1..n : Set(side, x, array[i]) \in S
    BY <1>0, SetIs, Zenon DEF Side
<1>. HIDE DEF h, S
<1>4. ASSUME NEW m \in 0..n PROVE \E f \in [0..n -> S] : Upto(f, m)
  <2>. DEFINE T == {k \in 0..n : ~ \E f \in [0..n -> S] : Upto(f, k)}
  <2>1. SUFFICES ASSUME T # {} PROVE FALSE
    OBVIOUS
  <2>2. T \in SUBSET Nat
    BY <1>0
  <2>3. PICK k \in T : \A l \in T : k <= l
    BY <2>1, <2>2, LeastOf, Zenon
  <2>4. k \in 0..n /\ ~ \E f \in [0..n -> S] : Upto(f, k)
    OBVIOUS
  <2>5. CASE k = 0
    <3>. DEFINE f == [i \in 0..n |-> levels]
    <3>1. f \in [0..n -> S]
      BY <1>3
    <3>2. Upto(f, 0)
      BY <1>0
    <3>. HIDE DEF f, T, Upto
    <3>. QED  BY <2>4, <2>5, <3>1, <3>2
  <2>6. CASE k # 0
    <3>1. k - 1 \in 0..n /\ k - 1 < k /\ k \in 1..n
      BY <2>4, <2>6, <1>0
    <3>2. k - 1 \notin T
      <4>. HIDE DEF T
      <4>. QED  BY <2>3, <2>4, <3>1, <1>0
    <3>3. PICK f \in [0..n -> S] : Upto(f, k - 1)
      BY <3>1, <3>2
    <3>. HIDE DEF T
    <3>. DEFINE g == [f EXCEPT ![k] = Set(side, f[k - 1], array[k])]
    <3>4. g \in [0..n -> S]
      BY <1>3, <3>1
    <3>5. g[k] = Set(side, f[k - 1], array[k]) /\ \A i \in 0..n : i # k => g[i] = f[i]
      BY <3>1, <2>4
    <3>. HIDE DEF g
    <3>6. ASSUME NEW i \in 0..k PROVE g[i] = Step(g, i)
      <4>1. i \in 0..n /\ (i # 0 => i - 1 \in 0..n /\ i - 1 # k)
        BY <2>4, <1>0
      <4>2. i # 0 => g[i - 1] = f[i - 1]
        BY <4>1, <3>5
      <4>3. CASE i = k
        BY <4>2, <4>3, <3>5, <2>6
      <4>4. CASE i # k
        <5>1. i \in 0..(k - 1)
          BY <4>4, <3>1, <1>0
        <5>2. f[i] = Step(f, i)
          BY <5>1, <3>3
        <5>. QED  BY <4>1, <4>2, <4>4, <5>2, <3>5
      <4>. QED  BY <4>3, <4>4
    <3>. QED  BY <2>4, <3>4, <3>6
  <2>. QED  BY <2>5, <2>6
<1>5. PICK w \in [0..n -> S] : Upto(w, n)
  <2>1. n \in 0..n
    BY <1>0
  <2>. HIDE DEF Upto
  <2>. QED  BY <2>1, <1>4
<1>6. Is(w)
  <2>1. w = [i \in 0..n |-> Step(w, i)]
    BY <1>5
  <2>. QED  BY <2>1, <1>2, Zenon
<1>7. Is(h)
  <2>1. \E f : Is(f)
    BY <1>6
  <2>. HIDE DEF Is
  <2>. QED  BY <2>1, Zenon DEF h
<1>8. ASSUME NEW i \in 0..n PROVE h[i] = Step(h, i)
  <2>. HIDE DEF Body, Step
  <2>. QED  BY <1>7, <1>2, Zenon
<1>9. h[0] = levels /\ \A i \in 1..n : h[i] = Set(side, h[i - 1], array[i])
    BY <1>8, <1>0
<1>10. ASSUME NEW m \in 0..n PROVE h[m] \in S
  <2>. DEFINE T == {k \in 0..n : h[k] \notin S}
  <2>1. SUFFICES ASSUME T # {} PROVE FALSE
    OBVIOUS
  <2>2. T \in SUBSET Nat
    BY <1>0
  <2>3. PICK k \in T : \A l \in T : k <= l
    BY <2>1, <2>2, LeastOf, Zenon
  <2>4. k \in 0..n /\ h[k] \notin S
    OBVIOUS
  <2>5. k \in 1..n /\ k - 1 \in 0..n /\ k - 1 < k
    BY <2>4, <1>0, <1>3, <1>9
  <2>6. k - 1 \notin T
    BY <2>3, <2>4, <2>5, <1>0
  <2>7. h[k - 1] \in S
    BY <2>5, <2>6
  <2>. QED  BY <2>4, <2>5, <2>7, <1>3, <1>9
<1>11. \A i \in 0..n : Side(side, h[i])
    BY <1>10 DEF S
<1>. QED  BY <1>1, <1>9, <1>11

(* A snapshot's levels, each inserted behind the others, are the side, if all of them fit. *)
LEMMA SnapshotIs ==
    ASSUME LeastNumbers, NEW side \in Sides, NEW array \in Seq(SomeLevel), Sorted(side, array),
           \A i \in DOMAIN array : array[i].size # 0,
           \A i \in DOMAIN array : ~Overflows(side, Held(side, <<>>, array)[i - 1], array[i])
    PROVE  Members(Held(side, <<>>, array)[Len(array)]) = Members(array)
<1>. DEFINE n == Len(array)
            h == Held(side, <<>>, array)
            First(k) == {array[i] : i \in 1..k}
            T == {k \in 0..n : Members(h[k]) # First(k)}
<1>0. n \in Nat /\ DOMAIN array = 1..n /\ \A i \in 1..n : array[i] \in SomeLevel
    OBVIOUS
<1>1. /\ h[0] = <<>>
      /\ \A i \in 1..n : h[i] = Set(side, h[i - 1], array[i])
      /\ \A i \in 0..n : Side(side, h[i])
    BY EmptySide, HeldIs, Zenon
<1>. HIDE DEF h
<1>2. Members(h[0]) = First(0)
  <2>1. Members(<<>>) = {}
    BY EmptySide, Zenon
  <2>2. 1..0 = {}
    OBVIOUS
  <2>3. First(0) = {}
    BY <2>2, Zenon
  <2>. QED  BY <1>1, <2>1, <2>3, Zenon
<1>3. ASSUME NEW k \in 1..n, Members(h[k - 1]) = First(k - 1) PROVE Members(h[k]) = First(k)
  <2>1. k - 1 \in 0..n /\ array[k] \in SomeLevel /\ array[k].price \in Nat
    <3>1. array[k] \in SomeLevel
      BY <1>0, Zenon
    <3>2. array[k].price \in Nat
      BY <3>1, Zenon DEF SomeLevel
    <3>. HIDE DEF n
    <3>3. k - 1 \in 0..n
      BY <1>0
    <3>. QED  BY <3>1, <3>2, <3>3, Zenon
  <2>2. \A i \in 1..(k - 1) : i \in 1..n /\ array[i].price \in Nat /\ array[i].price # array[k].price
    <3>. SUFFICES ASSUME NEW i \in 1..(k - 1)
                  PROVE  i \in 1..n /\ array[i].price \in Nat /\ array[i].price # array[k].price
      OBVIOUS
    <3>1. i \in 1..n /\ i < k
      BY <1>0
    <3>2. array[i] \in SomeLevel
      BY <3>1, <1>0
    <3>3. array[i].price \in Nat
      BY <3>2 DEF SomeLevel
    <3>4. Compare(side, array[i].price, array[k].price)
      BY <3>1, <1>0 DEF Sorted
    <3>. QED  BY <3>1, <3>3, <3>4, <2>1, CompareOrder, Zenon
  <2>3. Others(h[k - 1], array[k].price) = First(k - 1)
    BY <1>3, <2>2 DEF Others
  <2>4. ~Overflows(side, h[k - 1], array[k]) /\ array[k].size # 0
    BY <1>0, Zenon DEF h
  <2>5. Members(h[k]) = Others(h[k - 1], array[k].price) \cup {array[k]}
    <3>1. h[k] = Set(side, h[k - 1], array[k]) /\ Side(side, h[k - 1])
      BY <2>1, <1>1, Zenon
    <3>2. Members(h[k]) = Updated(h[k - 1], array[k])
      BY <2>1, <2>4, <3>1, SetIs
    <3>. QED  BY <3>2, <2>4, Zenon DEF Updated
  <2>6. First(k) = First(k - 1) \cup {array[k]}
    <3>1. \A i : i \in 1..k <=> i \in 1..(k - 1) \/ i = k
      BY <1>0
    <3>. QED  BY <3>1, Zenon
  <2>. QED  BY <2>3, <2>5, <2>6
<1>4. T = {}
  <2>1. SUFFICES ASSUME T # {} PROVE FALSE
    BY Zenon
  <2>2. T \in SUBSET Nat
    BY <1>0
  <2>3. PICK k \in T : \A l \in T : k <= l
    BY <2>1, <2>2, LeastOf, Zenon
  <2>4. k \in 0..n /\ Members(h[k]) # First(k)
    OBVIOUS
  <2>5. k \in 1..n /\ k - 1 \in 0..n /\ k - 1 < k
    <3>1. k = 0 => FALSE
      BY <2>4, <1>2, Zenon
    <3>. HIDE DEF n, T
    <3>. QED  BY <2>4, <1>0, <3>1
  <2>6. k - 1 \notin T
    <3>. HIDE DEF T
    <3>. QED  BY <2>3, <2>4, <2>5, <1>0
  <2>. QED  BY <2>4, <2>5, <2>6, <1>3, Zenon
<1>5. Members(h[n]) = First(n)
  <2>1. n \in 0..n
    <3>. HIDE DEF n
    <3>. QED  BY <1>0
  <2>. QED  BY <1>4, <2>1, Zenon
<1>. QED  BY <1>5, <1>0, Zenon DEF Members, h

(* A side holds the levels of f. *)
Holds(levels, f) == Members(levels) = LevelsOf(f)

(* g is f with one level changed. *)
LevelMoves(P, f, g, level) ==
    /\ level \in SomeLevel /\ level.price \in P /\ f \in [P -> Nat] /\ g \in [P -> Nat]
    /\ f[level.price] # level.size /\ g[level.price] = level.size
    /\ \A q \in P : q # level.price => g[q] = f[q]

(* A change's level, set on a side that holds the exchange's levels, makes it
   hold the exchange's levels after the change. *)
LEMMA SetChanges ==
    ASSUME LeastNumbers, NEW side \in Sides, NEW levels, Side(side, levels),
           NEW P, NEW f, NEW g, NEW level, LevelMoves(P, f, g, level), Holds(levels, f),
           ~Overflows(side, levels, level)
    PROVE  Holds(Set(side, levels, level), g)
<1>1. /\ level \in SomeLevel /\ level.price \in P /\ f \in [P -> Nat] /\ g \in [P -> Nat]
      /\ f[level.price] # level.size /\ g[level.price] = level.size
      /\ \A q \in P : q # level.price => g[q] = f[q]
    BY Zenon DEF LevelMoves
<1>2. Members(levels) = LevelsOf(f)
    BY Zenon DEF Holds
<1>3. Members(Set(side, levels, level)) = Updated(levels, level)
    BY <1>1, SetIs, Zenon
<1>4. Updated(levels, level) = LevelsOf(g)
    BY <1>1, <1>2, LevelChanges
<1>. QED  BY <1>3, <1>4, Zenon DEF Holds

(* The book after a push. *)
LEMMA AppliedIs ==
    ASSUME LeastNumbers, TypeOK, \A side \in Sides : Side(side, book[side]), NEW p \in BooksPush
    PROVE  /\ Applied(p) \in BookRecs
           /\ Applied(p).lastSeqId = p.seqId
           /\ Applied(p).hasSnapshot <=> (book.hasSnapshot \/ p.prevSeqId = SnapshotSeqId)
           /\ \A side \in Sides :
                 /\ Side(side, Start(p)[side])
                 /\ Start(p)[side] = IF p.prevSeqId = SnapshotSeqId THEN <<>> ELSE book[side]
                 /\ p[side] \in Seq(SomeLevel)
                 /\ Applied(p)[side] = Held(side, Start(p)[side], p[side])[Len(p[side])]
                 /\ Side(side, Applied(p)[side])
<1>1. book \in BookRecs
    BY DEF TypeOK
<1>2. \A side \in Sides : Start(p)[side] = IF p.prevSeqId = SnapshotSeqId THEN <<>> ELSE book[side]
    BY <1>1, Zenon DEF Sides, BookRecs, Start, BeginSnapshot
<1>3. \A side \in Sides : Side(side, Start(p)[side])
    BY <1>2, EmptySide
<1>4. \A side \in Sides : p[side] \in Seq(SomeLevel)
    BY DEF Sides, BooksPush
<1>5. ASSUME NEW side \in Sides
      PROVE  Side(side, ApplyLevels(side, Start(p)[side], p[side]))
  <2>1. p[side] \in Seq(SomeLevel) /\ Side(side, Start(p)[side])
    BY <1>3, <1>4
  <2>2. \A i \in 0..Len(p[side]) : Side(side, Held(side, Start(p)[side], p[side])[i])
    BY <2>1, HeldIs
  <2>3. Len(p[side]) \in 0..Len(p[side])
    BY <2>1
  <2>. QED  BY <2>2, <2>3 DEF ApplyLevels
<1>. DEFINE bids == ApplyLevels("bids", Start(p)["bids"], p["bids"])
            asks == ApplyLevels("asks", Start(p)["asks"], p["asks"])
<1>6. bids \in Seq(SomeLevel) /\ asks \in Seq(SomeLevel)
    BY <1>5 DEF Sides, Side
<1>7. Start(p) \in BookRecs /\ (Start(p).hasSnapshot <=> (book.hasSnapshot \/ p.prevSeqId = SnapshotSeqId))
  <2>1. CASE p.prevSeqId = SnapshotSeqId
    <3>1. <<>> \in Seq(SomeLevel) /\ TRUE \in BOOLEAN
      OBVIOUS
    <3>2. Start(p) = [bids |-> <<>>, asks |-> <<>>, lastSeqId |-> book.lastSeqId, hasSnapshot |-> TRUE]
      BY <1>1, <2>1, Zenon DEF BookRecs, Start, BeginSnapshot
    <3>3. book.lastSeqId \in Int
      BY <1>1 DEF BookRecs
    <3>. QED  BY <3>1, <3>2, <3>3, <2>1 DEF BookRecs
  <2>2. CASE p.prevSeqId # SnapshotSeqId
    BY <1>1, <2>2 DEF BookRecs, Start
  <2>. QED  BY <2>1, <2>2
<1>8. p.seqId \in Nat
    BY DEF BooksPush
<1>9. Applied(p) = SetSeqId([Start(p) EXCEPT !.bids = bids, !.asks = asks], p.seqId)
    BY DEF Applied
<1>. HIDE DEF bids, asks
<1>10. /\ Applied(p) \in BookRecs
       /\ Applied(p).lastSeqId = p.seqId
       /\ Applied(p).hasSnapshot = Start(p).hasSnapshot
       /\ Applied(p)["bids"] = bids
       /\ Applied(p)["asks"] = asks
  <2>. DEFINE start == Start(p)
              id == p.seqId
              b == [start EXCEPT !.bids = bids, !.asks = asks]
  <2>1. start \in BookRecs /\ id \in Nat
    BY <1>7, <1>8
  <2>. HIDE DEF start, id
  <2>2. b \in BookRecs /\ b.hasSnapshot = start.hasSnapshot /\ b["bids"] = bids /\ b["asks"] = asks
    BY <1>6, <2>1, ZenonT(30) DEF BookRecs
  <2>. HIDE DEF b
  <2>3. SetSeqId(b, id) \in BookRecs
    <3>1. SetSeqId(b, id) = [bids |-> b.bids, asks |-> b.asks, lastSeqId |-> id, hasSnapshot |-> b.hasSnapshot]
      BY <2>1, <2>2 DEF BookRecs, SetSeqId
    <3>2. b.bids \in Seq(SomeLevel) /\ b.asks \in Seq(SomeLevel) /\ id \in Int /\ b.hasSnapshot \in BOOLEAN
      BY <2>1, <2>2 DEF BookRecs
    <3>. QED  BY <3>1, <3>2 DEF BookRecs
  <2>5. /\ SetSeqId(b, id).lastSeqId = id
        /\ SetSeqId(b, id).hasSnapshot = b.hasSnapshot
        /\ SetSeqId(b, id)["bids"] = b["bids"]
        /\ SetSeqId(b, id)["asks"] = b["asks"]
    BY <2>1, <2>2 DEF BookRecs, SetSeqId
  <2>4. Applied(p) = SetSeqId(b, id)
    BY <1>9 DEF start, id, b
  <2>. QED  BY <2>2, <2>3, <2>4, <2>5 DEF start, id
<1>11. \A side \in Sides : Applied(p)[side] = ApplyLevels(side, Start(p)[side], p[side])
    BY <1>10 DEF Sides, bids, asks
<1>. QED  BY <1>2, <1>3, <1>4, <1>5, <1>7, <1>10, <1>11 DEF ApplyLevels

(* A snapshot that finds room makes the book the exchange's. *)
LEMMA SnapshotApplied ==
    ASSUME LeastNumbers, TypeOK, \A side \in Sides : Side(side, book[side]), NEW p \in BooksPush,
           p.prevSeqId = SnapshotSeqId, Lists(p), ~PushOverflows(p), NEW side \in Sides
    PROVE  Members(Applied(p)[side]) = LevelsOf(p.exch[side])
<1>. DEFINE array == p[side]
<1>1. /\ Start(p)[side] = <<>>
      /\ array \in Seq(SomeLevel)
      /\ Applied(p)[side] = Held(side, <<>>, array)[Len(array)]
  <2>1. /\ Start(p)[side] = IF p.prevSeqId = SnapshotSeqId THEN <<>> ELSE book[side]
        /\ array \in Seq(SomeLevel)
        /\ Applied(p)[side] = Held(side, Start(p)[side], array)[Len(array)]
    BY AppliedIs, Zenon
  <2>. HIDE DEF array
  <2>2. Start(p)[side] = <<>>
    BY <2>1, Zenon
  <2>. QED  BY <2>1, <2>2, Zenon
<1>2. Sorted(side, array) /\ Members(array) = LevelsOf(p.exch[side])
    BY DEF Lists
<1>3. \A i \in DOMAIN array : ~Overflows(side, Held(side, <<>>, array)[i - 1], array[i])
    BY <1>1, Zenon DEF PushOverflows
<1>4. \A l \in LevelsOf(p.exch[side]) : l.size # 0
  <2>1. p.exch[side] \in [AllPrices -> Nat]
    BY Zenon DEF BooksPush, AnyBook
  <2>. QED  BY <2>1 DEF LevelsOf
<1>5. \A i \in DOMAIN array : array[i].size # 0
    BY <1>2, <1>4, Zenon DEF Members
<1>. HIDE DEF array
<1>6. Members(Held(side, <<>>, array)[Len(array)]) = Members(array)
    BY <1>1, <1>2, <1>3, <1>5, SnapshotIs, ZenonT(30)
<1>. QED  BY <1>1, <1>2, <1>6

(* So does a change that chains onto a book that is the exchange's. *)
LEMMA ChangeApplied ==
    ASSUME LeastNumbers, TypeOK, SidesHold, NEW p \in BooksPush,
           p.prevSeqId # SnapshotSeqId, Moved(seen, p), ~overflowed, ~PushOverflows(p), NEW side \in Sides
    PROVE  Members(Applied(p)[side]) = LevelsOf(p.exch[side])
<1>. DEFINE array == p[side]
            f == seen[side]
<1>1. \A s \in Sides : Side(s, book[s])
    BY Zenon DEF SidesHold
<1>2. /\ Start(p)[side] = book[side]
      /\ array \in Seq(SomeLevel)
      /\ Applied(p)[side] = Held(side, book[side], array)[Len(array)]
  <2>1. /\ Start(p)[side] = IF p.prevSeqId = SnapshotSeqId THEN <<>> ELSE book[side]
        /\ array \in Seq(SomeLevel)
        /\ Applied(p)[side] = Held(side, Start(p)[side], array)[Len(array)]
    BY <1>1, AppliedIs, Zenon
  <2>. HIDE DEF array
  <2>2. Start(p)[side] = book[side]
    BY <2>1, Zenon
  <2>. QED  BY <2>1, <2>2, Zenon
<1>3. Side(side, book[side]) /\ Members(book[side]) = LevelsOf(f) /\ f \in [AllPrices -> Nat]
    BY Zenon DEF SidesHold, TypeOK, AnyBook
<1>4. \A i \in DOMAIN array : ~Overflows(side, Held(side, book[side], array)[i - 1], array[i])
    BY <1>2, Zenon DEF PushOverflows
<1>5. /\ Held(side, book[side], array)[0] = book[side]
      /\ \A i \in 1..Len(array) : Held(side, book[side], array)[i] = Set(side, Held(side, book[side], array)[i - 1], array[i])
    BY <1>2, <1>3, HeldIs, ZenonT(30)
<1>6. PICK at \in Sides :
        /\ Len(p[at]) = 1
        /\ \A other \in Sides : other # at => p[other] = <<>>
        /\ p[at][1].price \in AllPrices
        /\ seen[at][p[at][1].price] # p[at][1].size
        /\ p.exch = [seen EXCEPT ![at][p[at][1].price] = p[at][1].size]
    BY ZenonT(30) DEF Moved
<1>7. seen \in [Sides -> [AllPrices -> Nat]]
    BY DEF TypeOK, AnyBook
<1>8. CASE side # at
  <2>1. p.exch[side] = f
    BY <1>6, <1>7, <1>8
  <2>2. Len(array) = 0
    BY <1>6, <1>8
  <2>. HIDE DEF array
  <2>. QED  BY <1>2, <1>3, <1>5, <2>1, <2>2, Zenon
<1>9. CASE side = at
  <2>. DEFINE level == array[1]
  <2>1. Len(array) = 1 /\ level.price \in AllPrices /\ f[level.price] # level.size
    BY <1>6, <1>9
  <2>. DEFINE g == p.exch[side]
  <2>2. /\ g \in [AllPrices -> Nat] /\ g[level.price] = level.size
        /\ \A q \in AllPrices : q # level.price => g[q] = f[q]
    <3>1. g \in [AllPrices -> Nat]
      BY DEF BooksPush, AnyBook
    <3>2. g = [f EXCEPT ![level.price] = level.size]
      BY <1>6, <1>7, <1>9
    <3>. QED  BY <1>3, <2>1, <3>1, <3>2
  <2>. HIDE DEF array, f, g
  <2>3. level \in SomeLevel /\ 1 \in DOMAIN array /\ 1 - 1 = 0
    <3>0. array \in Seq(SomeLevel) /\ Len(array) = 1
      BY <1>2, <2>1, Zenon
    <3>1. DOMAIN array = 1..Len(array) /\ \A i \in 1..Len(array) : array[i] \in SomeLevel
      BY <3>0, SeqLength, Zenon
    <3>2. 1 \in 1..1 /\ 1 - 1 = 0
      OBVIOUS
    <3>. QED  BY <3>0, <3>1, <3>2, Zenon
  <2>. HIDE DEF level
  <2>4. Applied(p)[side] = Set(side, book[side], level) /\ ~Overflows(side, book[side], level)
    <3>1. Len(array) = 1 /\ 1 \in DOMAIN array /\ 1 \in 1..Len(array) /\ 1 - 1 = 0
      BY <2>1, <2>3
    <3>2. Applied(p)[side] = Held(side, book[side], array)[1]
      BY <1>2, <3>1, Zenon
    <3>3. Held(side, book[side], array)[1] = Set(side, Held(side, book[side], array)[0], array[1])
      BY <1>5, <3>1, Zenon
    <3>4. ~Overflows(side, Held(side, book[side], array)[0], array[1])
      BY <1>4, <3>1, Zenon
    <3>. QED  BY <1>5, <3>2, <3>3, <3>4, Zenon DEF level
  <2>5. level.price \in AllPrices /\ f[level.price] # level.size
    BY <2>1, Zenon DEF level
  <2>6. Members(Set(side, book[side], level)) = LevelsOf(g)
    <3>1. LevelMoves(AllPrices, f, g, level)
      BY <1>3, <2>2, <2>3, <2>5, Zenon DEF LevelMoves
    <3>2. Side(side, book[side]) /\ Holds(book[side], f)
      BY <1>3, Zenon DEF Holds
    <3>3. Holds(Set(side, book[side], level), g)
      BY <2>4, <3>1, <3>2, SetChanges, Zenon
    <3>. QED  BY <3>3, Zenon DEF Holds
  <2>. QED  BY <2>4, <2>6 DEF g
<1>. QED  BY <1>8, <1>9, Zenon

(* A push applied keeps the invariant: a snapshot replaces the book, and a
   change is applied only if it is the one the book is waiting for. *)
LEMMA AppliedKeeps == ASSUME LeastNumbers, IInv, OnApplied PROVE IInv'
<1>. DEFINE p == Head(pushes)
<1>1. /\ pushes \in Seq(Push) /\ pushes # <<>> /\ p.channel = "books" /\ ~IsGap(p)
      /\ book' = Applied(p) /\ seen' = p.exch /\ pushes' = Tail(pushes)
      /\ overflowed' = ((overflowed /\ p.prevSeqId # SnapshotSeqId) \/ PushOverflows(p))
      /\ gapped' = (gapped /\ p.prevSeqId # SnapshotSeqId)
      /\ UNCHANGED <<requests, exch, seq, subscribed>>
    BY DEF OnApplied, exchangeVars, IInv, TypeOK
<1>2. p \in Push /\ Tail(pushes) \in Seq(Push)
    BY <1>1, TailFacts
<1>3. PushOf(p, seq, exch) /\ Queue(Tail(pushes), seq, exch)
      /\ (IsBooks(p) => Follow(Tail(pushes), p.seqId, p.exch))
    BY <1>1, QueueTail DEF IInv
<1>. HIDE DEF p
<1>4. p \in BooksPush /\ IsBooks(p) /\ p.exch \in AnyBook /\ p.seqId \in Nat
    BY <1>1, <1>2 DEF Push, BooksPush, IsBooks
<1>5. \A side \in Sides : Side(side, book[side])
    BY DEF IInv, SidesHold
<1>6. /\ book' \in BookRecs
      /\ book'.lastSeqId = p.seqId
      /\ book'.hasSnapshot <=> (book.hasSnapshot \/ p.prevSeqId = SnapshotSeqId)
      /\ \A side \in Sides : Side(side, book'[side])
    BY <1>1, <1>4, <1>5, AppliedIs, Zenon DEF IInv
<1>7. TypeOK'
    BY <1>1, <1>2, <1>4, <1>6 DEF IInv, TypeOK
<1>8. p.seqId <= seq /\ (p.seqId = seq => p.exch = exch)
    BY <1>3, <1>4 DEF PushOf
<1>9. Queue(pushes, seq, exch)' /\ Follow(pushes, book.lastSeqId, seen)'
    BY <1>1, <1>3, <1>4, <1>6
<1>10. CASE p.prevSeqId = SnapshotSeqId
  <2>1. Lists(p)
    BY <1>3, <1>4, <1>10 DEF PushOf
  <2>2. SidesHold'
    BY <1>1, <1>4, <1>5, <1>6, <1>10, <2>1, SnapshotApplied, ZenonT(30) DEF IInv, SidesHold
  <2>3. BookFollows' /\ GapStays'
    BY <1>1, <1>6, <1>8, <1>9, <1>10, Zenon DEF BookFollows, GapStays
  <2>. QED  BY <1>7, <1>9, <2>2, <2>3 DEF IInv
<1>11. CASE p.prevSeqId # SnapshotSeqId
  <2>1. IsChange(p)
    BY <1>1, <1>11 DEF IsChange
  <2>2. book.hasSnapshot
    <3>1. SUFFICES ASSUME ~book.hasSnapshot PROVE FALSE
      OBVIOUS
    <3>2. Started(pushes)
      BY <3>1 DEF IInv, BookFollows
    <3>. QED  BY <1>1, <2>1, <3>2, StartedTail, Zenon DEF p
  <2>3. book.lastSeqId = p.prevSeqId
    BY <1>1, <1>11, <2>2 DEF IsGap
  <2>4. Moved(seen, p)
    <3>1. Follow(pushes, book.lastSeqId, seen)
      BY <2>2 DEF IInv, BookFollows
    <3>2. Chains(book.lastSeqId, seen, p)
      BY <1>1, <3>1, FollowTail DEF p
    <3>. QED  BY <2>1, <2>3, <3>2 DEF Chains
  <2>5. ~gapped'
    BY <1>1, GapApplies, Zenon
  <2>6. SidesHold'
    BY <1>1, <1>4, <1>6, <1>11, <2>4, ChangeApplied, Zenon DEF IInv, SidesHold
  <2>7. BookFollows' /\ GapStays'
    BY <1>1, <1>6, <1>8, <1>9, <2>2, <2>5 DEF BookFollows, GapStays
  <2>. QED  BY <1>7, <1>9, <2>6, <2>7 DEF IInv
<1>. QED  BY <1>10, <1>11

(* Every step keeps the invariant. *)
LEMMA NextKeeps == ASSUME LeastNumbers, IInv, [Next]_vars PROVE IInv'
<1>1. CASE OnMessage
    BY <1>1, AppliedKeeps, GapKeeps, IgnoredKeeps, Zenon DEF OnMessage
<1>2. CASE Next /\ ~OnMessage
    BY <1>2, ConnectionKeeps, SubscribesKeeps, MovesKeeps, StutterKeeps, Zenon DEF Next, Rests
<1>3. CASE UNCHANGED vars
    BY <1>3, StutterKeeps, Zenon
<1>. QED  BY <1>1, <1>2, <1>3, Zenon

(* The invariant says of the book what it should. *)
LEMMA InvariantHolds == IInv => BookIsExchanges
BY Zenon DEF IInv, SidesHold, Side, Members, BookIsExchanges

(* What follows a gap is not applied, until a snapshot is. *)
LEMMA GapBlocks == ASSUME IInv, [Next]_vars PROVE [gapped /\ seen' # seen => ~gapped']_vars
<1>1. SUFFICES ASSUME Next, gapped, seen' # seen PROVE ~gapped'
    BY Zenon
<1>2. OnApplied
    BY <1>1, Zenon DEF Next, OnMessage, OnGap, OnIgnored, OnTimer, OnConnected, Disconnect,
       ExchangeSubscribes, ExchangeUnsubscribes, ExchangeMoves, Rests, feedVars, vars
<1>. QED  BY <1>1, <1>2, GapApplies, Zenon

-----------------------------------------------------------------------------
(* Theorems. *)

INSTANCE WellFoundedInduction

(* The least-number principle. *)
LEMMA Least == LeastNumbers
<1>. SUFFICES ASSUME NEW T \in SUBSET Nat, T # {}
              PROVE  \E m \in T : \A n \in T : m <= n
    BY Zenon DEF LeastNumbers
<1>. DEFINE R == OpToRel(<, Nat)
<1>1. IsWellFoundedOn(R, Nat)
    BY NatLessThanWellFounded, Zenon
<1>2. \E x \in T : \A y \in T : <<y, x>> \notin R
  <2>. HIDE DEF R
  <2>. QED  BY <1>1, WFMin, Zenon
<1>3. \A x, y \in T : <<y, x>> \notin R => x <= y
    BY DEF OpToRel
<1>. QED  BY <1>2, <1>3, Zenon

(* The invariant holds in every state of every behaviour. *)
THEOREM FeedInvariant == Spec => []IInv
<1>1. Init => IInv
    BY InitHolds, Zenon
<1>2. IInv /\ [Next]_vars => IInv'
    BY Least, NextKeeps, Zenon
<1>. QED  BY <1>1, <1>2, PTL DEF Spec

(* ApplyBookMessage and PriceLevels keep the book the exchange's: whatever is
   missed or lost, each side fits its array and is sorted, and holds the
   exchange's levels as of the latest push applied unless some level has found
   no room since the snapshot. *)
THEOREM BookStaysTheExchanges == Spec => []BookIsExchanges
<1>1. IInv => BookIsExchanges
    BY InvariantHolds, Zenon
<1>. QED  BY <1>1, FeedInvariant, PTL

(* IsGap keeps every change out of the book from a gap to the next snapshot. *)
THEOREM NoUpdateInAGap == Spec => GapBlocksUpdates
<1>1. IInv /\ [Next]_vars => [gapped /\ seen' # seen => ~gapped']_vars
    BY GapBlocks, Zenon
<1>. QED  BY <1>1, FeedInvariant, PTL DEF Spec, GapBlocksUpdates
=============================================================================
