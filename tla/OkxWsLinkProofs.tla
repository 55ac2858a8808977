-------------------------- MODULE OkxWsLinkProofs ---------------------------
(***************************************************************************)
(* Proofs about OkxWsClient, part 1: the types and the inductive invariant, *)
(* what asio reports, the loss of the connection, and the ring of bytes.   *)
(***************************************************************************)
EXTENDS OkxWsClient, TLAPS

(* The provers a leaf is given to, in turn, when it names none. *)
USE ZenonT(3), SMTT(25), ZenonT(30), Z3T(25)

-----------------------------------------------------------------------------
(* Indices of the ring: positions counted from a slot, at most once around. *)

(* Positions of a ring of n slots: going at most once around. *)
LEMMA ModOnce ==
    ASSUME NEW n \in Nat \ {0}, NEW a \in 0..(n - 1), NEW b \in 0..n
    PROVE  (a + b) % n = IF a + b < n THEN a + b ELSE a + b - n
<1>1. CASE a + b < n
    BY <1>1
<1>2. CASE a + b >= n
  <2>1. a + b - n \in 0..(n - 1)
    BY <1>2
  <2>2. (a + b) % n = (a + b - n) % n
    BY <1>2, <2>1
  <2>. QED  BY <1>2, <2>1, <2>2
<1>. QED  BY <1>1, <1>2

(* Moving the head forward and then counting from it. *)
LEMMA ModAdd ==
    ASSUME NEW n \in Nat \ {0}, NEW a \in 0..(n - 1),
           NEW b \in 0..n, NEW c \in 0..n, b + c <= n
    PROVE  /\ (a + b) % n \in 0..(n - 1)
           /\ (((a + b) % n) + c) % n = (a + (b + c)) % n
<1>. DEFINE moved == (a + b) % n
            once == (moved + c) % n
            both == (a + (b + c)) % n
<1>1. moved = IF a + b < n THEN a + b ELSE a + b - n
    BY ModOnce, Zenon
<1>2. moved \in 0..(n - 1)
    BY <1>1
<1>3. once = IF moved + c < n THEN moved + c ELSE moved + c - n
    BY <1>2, ModOnce, Zenon
<1>4. b + c \in 0..n
    OBVIOUS
<1>5. both = IF a + (b + c) < n THEN a + (b + c) ELSE a + (b + c) - n
    BY <1>4, ModOnce, Zenon
<1>. HIDE DEF moved, once, both
<1>6. once = both
    BY <1>1, <1>2, <1>3, <1>5
<1>. QED  BY <1>2, <1>6 DEF moved, once, both

(* Different distances from the head are different slots. *)
LEMMA ModDistinct ==
    ASSUME NEW n \in Nat \ {0}, NEW a \in 0..(n - 1),
           NEW b \in 0..(n - 1), NEW c \in 0..(n - 1), b # c
    PROVE  (a + b) % n # (a + c) % n
<1>. b \in 0..n /\ c \in 0..n
    OBVIOUS
<1>1. (a + b) % n = IF a + b < n THEN a + b ELSE a + b - n
    BY ModOnce, Zenon
<1>2. (a + c) % n = IF a + c < n THEN a + c ELSE a + c - n
    BY ModOnce, Zenon
<1>. QED  BY <1>1, <1>2

(* How far a slot lies behind another, counted backwards around the ring. *)
LEMMA ModBack ==
    ASSUME NEW n \in Nat \ {0}, NEW a \in 0..(n - 1), NEW b \in 0..(n - 1), NEW s \in 0..n
    PROVE  (((a + b) % n) - (a + s)) % n = IF b >= s THEN b - s ELSE b - s + n
<1>. DEFINE d == b - s
<1>1. d \in Int /\ d < n /\ d >= -n
    OBVIOUS
<1>2. b \in 0..n
    OBVIOUS
<1>3. (a + b) % n = IF a + b < n THEN a + b ELSE a + b - n
    BY <1>2, ModOnce, Zenon
<1>. HIDE DEF d
<1>4. d % n = (IF d >= 0 THEN d ELSE d + n) /\ (d - n) % n = d % n
    BY <1>1
<1>5. CASE a + b < n
  <2>1. ((a + b) % n) - (a + s) = d
    BY <1>3, <1>5 DEF d
  <2>. QED  BY <1>4, <2>1 DEF d
<1>6. CASE a + b >= n
  <2>1. ((a + b) % n) - (a + s) = d - n
    BY <1>3, <1>6 DEF d
  <2>. QED  BY <1>4, <2>1 DEF d
<1>. QED  BY <1>5, <1>6

-----------------------------------------------------------------------------
(* Sequences. *)

(* A sequence is a function from 1 to its length. *)
LEMMA SeqLength ==
    ASSUME NEW S, NEW s \in Seq(S)
    PROVE  Len(s) \in Nat /\ DOMAIN s = 1..Len(s) /\ \A i \in 1..Len(s) : s[i] \in S
OBVIOUS

(* The empty sequence. *)
LEMMA SeqEmpty ==
    ASSUME NEW S
    PROVE  <<>> \in Seq(S) /\ \A s \in Seq(S) : Len(s) = 0 => s = <<>>
OBVIOUS

(* Sequences with the same elements. *)
LEMMA SeqSame ==
    ASSUME NEW S, NEW s \in Seq(S), NEW t \in Seq(S), Len(s) = Len(t),
           \A i \in 1..Len(s) : s[i] = t[i]
    PROVE  s = t
OBVIOUS

(* One sequence behind another. *)
LEMMA SeqConcat ==
    ASSUME NEW S, NEW s \in Seq(S), NEW t \in Seq(S)
    PROVE  /\ s \o t \in Seq(S) /\ Len(s \o t) = Len(s) + Len(t)
           /\ \A i \in 1..(Len(s) + Len(t)) :
                 (s \o t)[i] = IF i <= Len(s) THEN s[i] ELSE t[i - Len(s)]
OBVIOUS

(* What is left of a sequence without its beginning, and its beginning. *)
LEMMA SeqRest ==
    ASSUME NEW S, NEW s \in Seq(S), NEW m \in Nat \ {0}
    PROVE  /\ SubSeq(s, m, Len(s)) \in Seq(S)
           /\ m <= Len(s) + 1 => Len(SubSeq(s, m, Len(s))) = Len(s) + 1 - m
           /\ m <= Len(s) + 1 => SubSeq(s, 1, m - 1) \in Seq(S) /\ Len(SubSeq(s, 1, m - 1)) = m - 1
OBVIOUS

(* The elements of Tail are those of the sequence but the first, one place down. *)
LEMMA TailFacts ==
    ASSUME NEW S, NEW s \in Seq(S), s # <<>>
    PROVE  /\ 1 \in DOMAIN s /\ Head(s) = s[1] /\ Head(s) \in S
           /\ Tail(s) \in Seq(S)
           /\ \A i \in DOMAIN Tail(s) : i \in Nat /\ i + 1 # 1 /\ i + 1 \in DOMAIN s /\ Tail(s)[i] = s[i + 1]
           /\ \A j \in DOMAIN s : j # 1 => j - 1 \in DOMAIN Tail(s) /\ s[j] = Tail(s)[j - 1]
<1>1. Len(s) \in Nat \ {0} /\ DOMAIN s = 1..Len(s)
    BY SeqEmpty, SeqLength
<1>2. /\ Tail(s) \in Seq(S) /\ Len(Tail(s)) = Len(s) - 1
      /\ \A i \in 1..Len(Tail(s)) : Tail(s)[i] = s[i + 1]
    OBVIOUS
<1>3. DOMAIN Tail(s) = 1..(Len(s) - 1)
    BY <1>2, SeqLength
<1>4. 1 \in DOMAIN s /\ Head(s) = s[1] /\ Head(s) \in S
    BY <1>1
<1>5. \A i \in DOMAIN Tail(s) : i \in Nat /\ i + 1 # 1 /\ i + 1 \in DOMAIN s /\ Tail(s)[i] = s[i + 1]
    BY <1>1, <1>2, <1>3
<1>6. ASSUME NEW j \in DOMAIN s, j # 1
      PROVE  j - 1 \in DOMAIN Tail(s) /\ s[j] = Tail(s)[j - 1]
  <2>1. j - 1 \in DOMAIN Tail(s) /\ (j - 1) + 1 = j
    BY <1>1, <1>3, <1>6
  <2>. QED  BY <1>5, <2>1
<1>. QED  BY <1>2, <1>4, <1>5, <1>6

(* The elements of Append are those of the sequence, in place, and the new one. *)
LEMMA AppendFacts ==
    ASSUME NEW S, NEW s \in Seq(S), NEW h \in S
    PROVE  /\ Append(s, h) \in Seq(S)
           /\ \A i \in DOMAIN Append(s, h) :
                 \/ i \in DOMAIN s /\ Append(s, h)[i] = s[i]
                 \/ i = Len(s) + 1 /\ Append(s, h)[i] = h
           /\ \A i \in DOMAIN s : i \in DOMAIN Append(s, h) /\ Append(s, h)[i] = s[i]
           /\ Len(s) + 1 \in DOMAIN Append(s, h) /\ Append(s, h)[Len(s) + 1] = h
           /\ Len(s) + 1 \notin DOMAIN s
<1>1. Len(s) \in Nat /\ DOMAIN s = 1..Len(s)
    BY SeqLength
<1>2. Append(s, h) \in Seq(S) /\ Len(Append(s, h)) = Len(s) + 1
    OBVIOUS
<1>3. DOMAIN Append(s, h) = 1..(Len(s) + 1)
    BY <1>2, SeqLength
<1>4. \A i \in 1..Len(s) : Append(s, h)[i] = s[i]
    BY <1>1
<1>5. Append(s, h)[Len(s) + 1] = h
    BY <1>1
<1>. QED  BY <1>1, <1>2, <1>3, <1>4, <1>5

(* An element of a concatenation is an element of one of the two. *)
LEMMA ConcatFacts ==
    ASSUME NEW S, NEW s \in Seq(S), NEW t \in Seq(S)
    PROVE  /\ s \o t \in Seq(S)
           /\ \A i \in DOMAIN (s \o t) :
                 \/ i \in DOMAIN s /\ (s \o t)[i] = s[i]
                 \/ \E j \in DOMAIN t : (s \o t)[i] = t[j]
<1>1. Len(s) \in Nat /\ DOMAIN s = 1..Len(s) /\ Len(t) \in Nat /\ DOMAIN t = 1..Len(t)
    BY SeqLength
<1>2. /\ s \o t \in Seq(S) /\ Len(s \o t) = Len(s) + Len(t)
      /\ \A i \in 1..(Len(s) + Len(t)) :
            (s \o t)[i] = IF i <= Len(s) THEN s[i] ELSE t[i - Len(s)]
    BY SeqConcat
<1>3. DOMAIN (s \o t) = 1..(Len(s) + Len(t))
    BY <1>2, SeqLength
<1>4. ASSUME NEW i \in DOMAIN (s \o t)
      PROVE  \/ i \in DOMAIN s /\ (s \o t)[i] = s[i]
             \/ \E j \in DOMAIN t : (s \o t)[i] = t[j]
  <2>1. CASE i <= Len(s)
    <3>1. i \in DOMAIN s /\ i \in 1..(Len(s) + Len(t))
      BY <1>1, <1>3, <2>1
    <3>. QED  BY <1>2, <2>1, <3>1
  <2>2. CASE ~(i <= Len(s))
    <3>1. i - Len(s) \in DOMAIN t /\ i \in 1..(Len(s) + Len(t))
      BY <1>1, <1>3, <2>2
    <3>2. (s \o t)[i] = t[i - Len(s)]
      BY <1>2, <2>2, <3>1
    <3>. QED  BY <3>1, <3>2
  <2>. QED  BY <2>1, <2>2
<1>. QED  BY <1>2, <1>4

(* Taking one write off those that are pending. *)
LEMMA WithoutOne ==
    ASSUME NEW S, NEW s \in Seq(S), NEW i \in DOMAIN s
    PROVE  /\ SubSeq(s, 1, i - 1) \o SubSeq(s, i + 1, Len(s)) \in Seq(S)
           /\ Len(s) <= 1 => i = 1 /\ SubSeq(s, 1, i - 1) \o SubSeq(s, i + 1, Len(s)) = <<>>
<1>1. Len(s) \in Nat /\ DOMAIN s = 1..Len(s)
    BY SeqLength
<1>. DEFINE a == SubSeq(s, 1, i - 1)
            b == SubSeq(s, i + 1, Len(s))
<1>2. a \in Seq(S) /\ Len(a) = i - 1
  <2>1. i \in Nat \ {0} /\ i <= Len(s) + 1
    BY <1>1
  <2>. QED  BY <2>1, SeqRest
<1>3. b \in Seq(S) /\ Len(b) = Len(s) - i
  <2>1. i + 1 \in Nat \ {0} /\ i + 1 <= Len(s) + 1 /\ Len(s) + 1 - (i + 1) = Len(s) - i
    BY <1>1
  <2>. QED  BY <2>1, SeqRest
<1>. HIDE DEF a, b
<1>4. a \o b \in Seq(S) /\ Len(a \o b) = Len(s) - 1
  <2>1. a \o b \in Seq(S) /\ Len(a \o b) = Len(a) + Len(b)
    BY <1>2, <1>3, SeqConcat
  <2>2. i \in Int /\ Len(s) \in Int
    BY <1>1
  <2>. QED  BY <1>2, <1>3, <2>1, <2>2
<1>5. Len(s) <= 1 => i = 1 /\ Len(a \o b) = 0
    BY <1>1, <1>4
<1>6. Len(s) <= 1 => i = 1 /\ a \o b = <<>>
    BY <1>4, <1>5
<1>. QED  BY <1>4, <1>6 DEF a, b

-----------------------------------------------------------------------------
(* The types and the invariant. *)

Connections == 0..MaxConnections
WriteRegions == [from : 0..(N - 1), n : 0..N]
ConnectHandlers == [op : {"connect"}, of : {NoTransport}]
PlainHandlers == [op : {"readFailed", "writeFailed", "heartbeat"}, of : Connections]
ReadHandlers == [op : {"read"}, of : Connections, frame : Arrivals]
WriteHandlers == [op : {"write"}, of : Connections, from : 0..(N - 1), n : 0..N]
Handlers == ConnectHandlers \cup PlainHandlers \cup ReadHandlers \cup WriteHandlers
Fragments == [of : Connections, part : Arrivals]

TypeOK ==
    /\ status \in {"running", "overflow", "reassembly"}
    /\ transport \in Connections
    /\ authenticated \in BOOLEAN
    /\ ring \in RingBuffers
    /\ inFlight \in BOOLEAN
    /\ fragments \in Seq(Fragments)
    /\ reading \in Nat
    /\ writes \in Seq(WriteRegions)
    /\ reconnectTimer \in BOOLEAN
    /\ heartbeatTimer \in BOOLEAN
    /\ ready \in Seq(Handlers)
    /\ midMessage \in BOOLEAN
    /\ unsent \in Seq(Bytes)
    /\ intact \in BOOLEAN
    /\ first \in FrameKinds \cup {"none"}
    /\ whole \in BOOLEAN
    /\ stale \in BOOLEAN
    /\ {faults, sends, arrivals, beats, early} \subseteq Nat

(* The handlers of a read or a write, well or badly ended. *)
ReadOps == {"read", "readFailed"}
WriteOps == {"write", "writeFailed"}
Failures == {"readFailed", "writeFailed"}

(* Handler i is one of the connection t. *)
Of(i, ops, t) == ready[i].op \in ops /\ ready[i].of = t

(* Without a connection nothing is pending on one. *)
NothingPending == transport = NoTransport => reading = 0 /\ writes = <<>>

(* As long as the backoff never ended early: Connect finds no connection and
   nothing that a connection has left behind. *)
ReconnectInOrder ==
    early = 0 =>
        /\ reconnectTimer => transport = NoTransport
        /\ \A i \in DOMAIN ready :
              ready[i].op \in Failures => transport = NoTransport \/ ready[i].of = transport
        /\ \A i \in DOMAIN ready :
              ready[i].op = "connect" =>
                  /\ transport = NoTransport
                  /\ ~reconnectTimer
                  /\ \A j \in DOMAIN ready : ready[j].op \notin Failures
                  /\ \A j \in DOMAIN ready : ready[j].op = "connect" => i = j

(* A handler other than Connect's belongs to a connection. *)
HandlersHaveOne == \A i \in DOMAIN ready : ready[i].op # "connect" => ready[i].of # NoTransport

(* Without a connection there is nothing to send and nobody who sends. *)
Disconnected ==
    transport = NoTransport =>
        /\ ring.size = 0
        /\ ~inFlight
        /\ ~authenticated
        /\ ~heartbeatTimer
        /\ first = "none"

(* The connection's read is pending, or its handler is ready, or neither. *)
OneRead ==
    /\ reading <= 1
    /\ \A i \in DOMAIN ready : Of(i, ReadOps, transport) =>
          /\ reading = 0
          /\ \A j \in DOMAIN ready : Of(j, ReadOps, transport) => i = j

(* The same for the write, when the flag is set. *)
HandlerReady == \E i \in DOMAIN ready : Of(i, WriteOps, transport)

OneHandler ==
    \A i, j \in DOMAIN ready : Of(i, WriteOps, transport) /\ Of(j, WriteOps, transport) => i = j

(* A write's region is the beginning of what is in the ring. *)
IsFront(b, w) == w.from = b.pos /\ w.n <= Readable(b)

FrontReady ==
    \A i \in DOMAIN ready : Of(i, {"write"}, transport) => IsFront(ring, ready[i])

(* The write side of a connection, r telling whether a handler is ready. *)
WriteSide(x, r) ==
    /\ x.ring.size <= N
    /\ Unread(x.ring) = x.unsent
    /\ Len(x.writes) <= 1
    /\ x.writes # <<>> => x.inFlight /\ ~r /\ IsFront(x.ring, x.writes[1])
    /\ r => x.inFlight
    /\ x.first \in {"none", "login"}
    /\ x.first = "none" => x.inFlight /\ x.writes = <<>> /\ ~r
    /\ x.first = "login" /\ x.inFlight => r \/ x.writes # <<>>
    /\ ~x.inFlight => x.ring.size = 0

Session ==
    /\ HandlersHaveOne
    /\ Disconnected
    /\ OneRead
    /\ OneHandler
    /\ FrontReady
    /\ intact
    /\ Unread(ring) = unsent
    /\ transport # NoTransport => WriteSide(Tx, HandlerReady)
    /\ transport # NoTransport /\ early = 0 => first = "login"

IInv ==
    /\ TypeOK
    /\ NothingPending
    /\ ReconnectInOrder
    /\ ~stale => Session

-----------------------------------------------------------------------------
(* What sending does to the ring, the flag and the writes that are pending. *)

TxRecs ==
    [ring : RingBuffers, inFlight : BOOLEAN, writes : Seq(WriteRegions), unsent : Seq(Bytes),
     first : FrameKinds \cup {"none"}, threw : BOOLEAN]

(* What the assumption says of the two sizes of the ring. *)
LEMMA RingSizes == N \in Nat \ {0} /\ SizeMod \in Nat /\ SizeMod > N
    BY ClientAssumption

(* A ring stays one, whatever its counter says. *)
LEMMA RingTypes ==
    ASSUME NEW b \in RingBuffers
    PROVE  /\ \A bytes \in Seq(Bytes) : Written(b, bytes) \in RingBuffers
           /\ \A n \in Int : CommitRead(b, n) \in RingBuffers
           /\ Readable(b) \in 0..N
           /\ b.pos \in 0..(N - 1) /\ b.size \in Nat /\ b.data \in [0..(N - 1) -> Bytes]
<1>1. b.pos \in 0..(N - 1) /\ b.size \in Nat /\ b.data \in [0..(N - 1) -> Bytes]
    BY RingSizes DEF RingBuffers
<1>2. ASSUME NEW bytes \in Seq(Bytes) PROVE Written(b, bytes) \in RingBuffers
  <2>. DEFINE Place(i) == ((i - (b.pos + b.size)) % N) + 1
              d == [i \in 0..(N - 1) |-> IF Place(i) \in 1..Len(bytes) THEN bytes[Place(i)]
                                         ELSE b.data[i]]
  <2>1. ASSUME NEW k, k \in 1..Len(bytes) PROVE bytes[k] \in Bytes
    BY <2>1
  <2>2. ASSUME NEW i \in 0..(N - 1)
        PROVE  (IF Place(i) \in 1..Len(bytes) THEN bytes[Place(i)] ELSE b.data[i]) \in Bytes
    BY <1>1, <2>1, Zenon
  <2>3. d \in [0..(N - 1) -> Bytes]
    BY <2>2
  <2>4. (b.size + Len(bytes)) % SizeMod \in 0..(SizeMod - 1)
    BY <1>1, RingSizes
  <2>5. Written(b, bytes) = [data |-> d, pos |-> b.pos, size |-> (b.size + Len(bytes)) % SizeMod]
    BY DEF Written
  <2>. HIDE DEF d
  <2>. QED  BY <1>1, <2>3, <2>4, <2>5 DEF RingBuffers
<1>3. ASSUME NEW n \in Int PROVE CommitRead(b, n) \in RingBuffers
  <2>1. (b.pos + n) % N \in 0..(N - 1) /\ (b.size - n) % SizeMod \in 0..(SizeMod - 1)
    BY <1>1, RingSizes
  <2>. QED  BY <1>1, <2>1 DEF RingBuffers, CommitRead
<1>4. Readable(b) \in 0..N
    BY <1>1, RingSizes DEF Readable
<1>. QED  BY <1>1, <1>2, <1>3, <1>4

(* The bytes of a frame. *)
LEMMA FrameFacts ==
    ASSUME NEW kind \in FrameKinds
    PROVE  /\ Frame(kind) \in Seq(Bytes)
           /\ Len(Frame(kind)) \in 1..N
           /\ Frame(kind)[1] = <<kind, 1>>
<1>1. PICK l \in 1..N : FrameLen[kind] = l
    BY ClientAssumption
<1>2. l \in Nat /\ 1 \in 1..l
    BY ClientAssumption
<1>3. Frame(kind) = [i \in 1..l |-> <<kind, i>>]
    BY <1>1 DEF Frame
<1>4. \A i \in 1..l : <<kind, i>> \in Bytes
    BY ClientAssumption DEF Bytes
<1>5. Frame(kind) \in [1..l -> Bytes]
    BY <1>3, <1>4
<1>6. Frame(kind) \in Seq(Bytes) /\ DOMAIN Frame(kind) = 1..l
    BY <1>2, <1>5
<1>7. Len(Frame(kind)) = l
    BY <1>2, <1>6, SeqLength
<1>. QED  BY <1>2, <1>3, <1>6, <1>7

(* WriteRaw, up to the write. *)
LEMMA QueuedFacts ==
    ASSUME NEW x \in TxRecs, NEW kind \in FrameKinds
    PROVE  /\ Queued(x, kind) \in TxRecs
           /\ Queued(x, kind).inFlight = x.inFlight
           /\ Queued(x, kind).writes = x.writes
           /\ Queued(x, kind).first = x.first
           /\ ~Queued(x, kind).threw =>
                 /\ ~x.threw
                 /\ ~WriteThrows(x.ring, Frame(kind))
                 /\ Queued(x, kind).ring = Written(x.ring, Frame(kind))
                 /\ Queued(x, kind).unsent = x.unsent \o Frame(kind)
<1>1. Frame(kind) \in Seq(Bytes)
    BY FrameFacts
<1>2. x.ring \in RingBuffers /\ x.unsent \in Seq(Bytes)
    BY DEF TxRecs
<1>3. Written(x.ring, Frame(kind)) \in RingBuffers /\ x.unsent \o Frame(kind) \in Seq(Bytes)
    BY <1>1, <1>2, RingTypes
<1>4. CASE x.threw \/ WriteThrows(x.ring, Frame(kind))
  <2>1. Queued(x, kind) = [x EXCEPT !.threw = TRUE]
    BY <1>4 DEF Queued
  <2>. QED  BY <2>1, Zenon DEF TxRecs
<1>5. CASE ~(x.threw \/ WriteThrows(x.ring, Frame(kind)))
  <2>. DEFINE y == Queued(x, kind)
  <2>1. y = [x EXCEPT !.ring = Written(x.ring, Frame(kind)), !.unsent = x.unsent \o Frame(kind)]
    BY <1>5 DEF Queued
  <2>. HIDE DEF y
  <2>2. y \in TxRecs
    BY <1>3, <2>1, Zenon DEF TxRecs
  <2>3. /\ y.ring = Written(x.ring, Frame(kind)) /\ y.unsent = x.unsent \o Frame(kind)
        /\ y.inFlight = x.inFlight /\ y.writes = x.writes /\ y.first = x.first
    BY <2>1 DEF TxRecs
  <2>. QED  BY <1>5, <2>2, <2>3 DEF y
<1>. QED  BY <1>4, <1>5

(* StartWrite. *)
LEMMA StartWriteFacts ==
    ASSUME NEW x \in TxRecs, NEW t
    PROVE  /\ StartWrite(x, t) \in TxRecs
           /\ t = NoTransport => StartWrite(x, t) = x
           /\ t # NoTransport =>
                 /\ StartWrite(x, t).ring = x.ring
                 /\ StartWrite(x, t).unsent = x.unsent
                 /\ StartWrite(x, t).threw = x.threw
                 /\ StartWrite(x, t).inFlight
                 /\ StartWrite(x, t).writes
                      = Append(x.writes, [from |-> x.ring.pos, n |-> Readable(x.ring)])
                 /\ StartWrite(x, t).first
                      = IF x.first = "none" /\ Readable(x.ring) > 0
                        THEN x.ring.data[x.ring.pos][1] ELSE x.first
<1>1. CASE t = NoTransport
    BY <1>1 DEF StartWrite
<1>2. CASE t # NoTransport
  <2>. DEFINE y == StartWrite(x, t)
              w == [from |-> x.ring.pos, n |-> Readable(x.ring)]
              f == IF x.first = "none" /\ Readable(x.ring) > 0
                   THEN x.ring.data[x.ring.pos][1] ELSE x.first
  <2>1. y = [x EXCEPT !.inFlight = TRUE, !.writes = Append(x.writes, w), !.first = f]
    BY <1>2 DEF StartWrite
  <2>2. w \in WriteRegions
    BY RingTypes DEF TxRecs, WriteRegions
  <2>3. f \in FrameKinds \cup {"none"}
    <3>1. x.ring.data[x.ring.pos] \in Bytes
      BY RingTypes, Zenon DEF TxRecs
    <3>2. \A v \in Bytes : v[1] \in FrameKinds \cup {"none"}
      BY DEF Bytes
    <3>. QED  BY <3>1, <3>2 DEF TxRecs
  <2>4. Append(x.writes, w) \in Seq(WriteRegions)
    BY <2>2 DEF TxRecs
  <2>. HIDE DEF y, w, f
  <2>5. y \in TxRecs
    BY <2>1, <2>3, <2>4, Zenon DEF TxRecs
  <2>6. /\ y.ring = x.ring /\ y.unsent = x.unsent /\ y.threw = x.threw /\ y.inFlight = TRUE
        /\ y.writes = Append(x.writes, w) /\ y.first = f
    BY <2>1 DEF TxRecs
  <2>. QED  BY <1>2, <2>5, <2>6 DEF y, w, f
<1>. QED  BY <1>1, <1>2

(* WriteRaw hands on a record of the same type. *)
LEMMA WriteRawType ==
    ASSUME NEW x \in TxRecs, NEW kind \in FrameKinds, NEW t
    PROVE  WriteRaw(x, kind, t) \in TxRecs
    BY QueuedFacts, StartWriteFacts, Zenon DEF WriteRaw, StartIfIdle

(* So does StartIfIdle. *)
LEMMA StartIfIdleType ==
    ASSUME NEW x \in TxRecs, NEW t
    PROVE  StartIfIdle(x, t) \in TxRecs
    BY StartWriteFacts, Zenon DEF StartIfIdle

-----------------------------------------------------------------------------
(* The handlers that are ready. *)

(* The record of the write side. *)
LEMMA TxFacts ==
    ASSUME TypeOK
    PROVE  /\ Tx \in TxRecs /\ ~Tx.threw
           /\ Tx.ring = ring /\ Tx.inFlight = inFlight /\ Tx.writes = writes
           /\ Tx.unsent = unsent /\ Tx.first = first
    BY DEF TypeOK, Tx, TxRecs

(* After TxDone the variables hold what the record says. *)
LEMMA TxNext ==
    ASSUME NEW y \in TxRecs, ~y.threw, TxDone(y)
    PROVE  /\ Tx' = y
           /\ ring' \in RingBuffers /\ inFlight' \in BOOLEAN /\ writes' \in Seq(WriteRegions)
           /\ unsent' \in Seq(Bytes) /\ first' \in FrameKinds \cup {"none"}
<1>1. y = [ring |-> y.ring, inFlight |-> y.inFlight, writes |-> y.writes, unsent |-> y.unsent,
           first |-> y.first, threw |-> y.threw]
    BY DEF TxRecs
<1>2. y.threw = FALSE
    BY DEF TxRecs
<1>3. Tx' = y
    BY <1>1, <1>2 DEF Tx, TxDone
<1>. QED  BY <1>3 DEF TxDone, TxRecs

OtherTypes ==
    /\ status \in {"running", "overflow", "reassembly"}
    /\ fragments \in Seq(Fragments)
    /\ midMessage \in BOOLEAN
    /\ whole \in BOOLEAN
    /\ {faults, sends, arrivals, beats, early} \subseteq Nat

(* What kind of handler it is. *)
LEMMA HandlerKinds ==
    ASSUME NEW h \in Handlers
    PROVE  /\ h.of \in Connections
           /\ h.op = "read" => h.frame \in Arrivals
           /\ h.op = "write" => h.from \in 0..(N - 1) /\ h.n \in 0..N
<1>1. CASE h \in ConnectHandlers
  <2>1. NoTransport \in Connections
    BY ClientAssumption DEF Connections, NoTransport
  <2>. QED  BY <1>1, <2>1 DEF ConnectHandlers
<1>2. CASE h \in PlainHandlers
    BY <1>2 DEF PlainHandlers
<1>3. CASE h \in ReadHandlers
    BY <1>3 DEF ReadHandlers
<1>4. CASE h \in WriteHandlers
    BY <1>4 DEF WriteHandlers
<1>. QED  BY <1>1, <1>2, <1>3, <1>4 DEF Handlers

(* In a session the handler of a read, a write or a heartbeat that did not
   outlive its connection runs on a connection. *)
LEMMA OnItsConnection ==
    ASSUME IInv, ready # <<>>, Head(ready).op # "connect", ~Stale
    PROVE  /\ Session
           /\ Head(ready).of = transport
           /\ transport # NoTransport
<1>1. ~stale /\ Head(ready).of = transport
    BY DEF Stale
<1>2. Session
    BY <1>1 DEF IInv
<1>3. 1 \in DOMAIN ready /\ Head(ready) = ready[1]
    BY TailFacts DEF IInv, TypeOK
<1>4. transport # NoTransport
    BY <1>1, <1>2, <1>3 DEF Session, HandlersHaveOne
<1>. QED  BY <1>1, <1>2, <1>4

(* What stays when the first handler has run and the connection is the same. *)
LEMMA TailKeeps ==
    ASSUME TypeOK, ready # <<>>, ready' = Tail(ready), transport' = transport
    PROVE  /\ ready' \in Seq(Handlers)
           /\ HandlersHaveOne => HandlersHaveOne'
           /\ OneHandler => OneHandler'
           /\ OneRead /\ UNCHANGED reading => OneRead'
           /\ ~Of(1, WriteOps, transport) => (HandlerReady' <=> HandlerReady)
           /\ OneHandler /\ Of(1, WriteOps, transport) => ~HandlerReady'
           /\ ReconnectInOrder /\ UNCHANGED <<reconnectTimer, early>> => ReconnectInOrder'
<1>1. /\ 1 \in DOMAIN ready
      /\ ready' \in Seq(Handlers)
      /\ \A i \in DOMAIN ready' : i + 1 # 1 /\ i + 1 \in DOMAIN ready /\ ready'[i] = ready[i + 1]
      /\ \A j \in DOMAIN ready : j # 1 => j - 1 \in DOMAIN ready' /\ ready[j] = ready'[j - 1]
    BY TailFacts DEF TypeOK
<1>2. DOMAIN ready' \subseteq Int
    BY <1>1
<1>3. HandlersHaveOne => HandlersHaveOne'
    BY <1>1 DEF HandlersHaveOne
<1>4. OneHandler => OneHandler'
    BY <1>1, <1>2 DEF OneHandler, Of
<1>5. ~Of(1, WriteOps, transport) => (HandlerReady' <=> HandlerReady)
  <2>1. ASSUME NEW i \in DOMAIN ready', Of(i, WriteOps, transport)' PROVE HandlerReady
    BY <1>1, <2>1 DEF HandlerReady, Of
  <2>2. ASSUME NEW j \in DOMAIN ready, Of(j, WriteOps, transport), j # 1 PROVE HandlerReady'
    BY <1>1, <2>2, ZenonT(30) DEF HandlerReady, Of
  <2>3. HandlerReady' => HandlerReady
    BY <2>1 DEF HandlerReady
  <2>4. HandlerReady /\ ~Of(1, WriteOps, transport) => HandlerReady'
    BY <2>2 DEF HandlerReady
  <2>. QED  BY <2>3, <2>4
<1>6. OneHandler /\ Of(1, WriteOps, transport) => ~HandlerReady'
    BY <1>1 DEF OneHandler, HandlerReady, Of
<1>7. ReconnectInOrder /\ UNCHANGED <<reconnectTimer, early>> => ReconnectInOrder'
  <2>. SUFFICES ASSUME ReconnectInOrder, UNCHANGED <<reconnectTimer, early>>, early = 0
                PROVE  ReconnectInOrder'
    BY DEF ReconnectInOrder
  <2>1. reconnectTimer' => transport' = NoTransport
    BY DEF ReconnectInOrder
  <2>2. \A i \in DOMAIN ready' :
           ready'[i].op \in Failures => transport' = NoTransport \/ ready'[i].of = transport'
    BY <1>1 DEF ReconnectInOrder
  <2>3. ASSUME NEW i \in DOMAIN ready', ready'[i].op = "connect"
        PROVE  /\ transport' = NoTransport
               /\ ~reconnectTimer'
               /\ \A j \in DOMAIN ready' : ready'[j].op \notin Failures
               /\ \A j \in DOMAIN ready' : ready'[j].op = "connect" => i = j
    <3>1. i + 1 \in DOMAIN ready /\ ready[i + 1].op = "connect"
      BY <1>1, <2>3
    <3>2. /\ transport = NoTransport /\ ~reconnectTimer
          /\ \A j \in DOMAIN ready : ready[j].op \notin Failures
          /\ \A j \in DOMAIN ready : ready[j].op = "connect" => i + 1 = j
      BY <3>1 DEF ReconnectInOrder
    <3>. QED  BY <1>1, <1>2, <3>2
  <2>. QED  BY <2>1, <2>2, <2>3 DEF ReconnectInOrder
<1>8. OneRead /\ UNCHANGED reading => OneRead'
    BY <1>1, <1>2 DEF OneRead, Of
<1>. QED  BY <1>1, <1>3, <1>4, <1>5, <1>6, <1>7, <1>8

(* The process ends with an exception, and nothing else changes. *)
LEMMA ThrowStep ==
    ASSUME IInv, NEW why \in {"overflow", "reassembly"}, Throw(why)
    PROVE  IInv'
<1>1. UNCHANGED <<transport, authenticated, ring, inFlight, fragments, reading, writes,
                  reconnectTimer, heartbeatTimer, ready, midMessage, unsent, intact, first, whole,
                  stale, faults, sends, arrivals, beats, early>>
    BY DEF Throw, netVars, historyVars, boundVars
<1>2. TypeOK'
    BY <1>1 DEF IInv, TypeOK, Throw
<1>3. NothingPending' /\ ReconnectInOrder'
    BY <1>1 DEF IInv, NothingPending, ReconnectInOrder
<1>4. Session <=> Session'
    BY <1>1, Zenon DEF Session, HandlersHaveOne, Disconnected, OneRead, OneHandler, FrontReady,
                HandlerReady, Of, Tx
<1>. QED  BY <1>1, <1>2, <1>3, <1>4 DEF IInv

-----------------------------------------------------------------------------
(* What asio has pending ends. *)

(* What stays when a handler of the connection is ready. *)
LEMMA AppendKeeps ==
    ASSUME TypeOK, NEW h \in Handlers, ready' = Append(ready, h), transport' = transport
    PROVE  /\ ready' \in Seq(Handlers)
           /\ \A i \in DOMAIN ready' : \/ i \in DOMAIN ready /\ ready'[i] = ready[i]
                                       \/ i = Len(ready) + 1 /\ ready'[i] = h
           /\ HandlersHaveOne /\ (h.op # "connect" => h.of # NoTransport) => HandlersHaveOne'
           /\ h.op \notin WriteOps => /\ HandlerReady' <=> HandlerReady
                                      /\ OneHandler => OneHandler'
           /\ h.op \in WriteOps /\ h.of = transport => /\ HandlerReady'
                                                       /\ ~HandlerReady => OneHandler'
           /\ OneRead /\ h.op \notin ReadOps /\ UNCHANGED reading => OneRead'
           /\ FrontReady /\ UNCHANGED ring /\ (h.op = "write" => IsFront(ring, h)) => FrontReady'
           /\ /\ ReconnectInOrder /\ UNCHANGED <<reconnectTimer, early>>
              /\ h.op # "connect"
              /\ h.op \in Failures => h.of = transport /\ transport # NoTransport
              => ReconnectInOrder'
<1>1. /\ ready' \in Seq(Handlers)
      /\ \A i \in DOMAIN ready' : \/ i \in DOMAIN ready /\ ready'[i] = ready[i]
                                  \/ i = Len(ready) + 1 /\ ready'[i] = h
      /\ \A i \in DOMAIN ready : i \in DOMAIN ready' /\ ready'[i] = ready[i]
      /\ Len(ready) + 1 \in DOMAIN ready' /\ ready'[Len(ready) + 1] = h
    BY AppendFacts DEF TypeOK
<1>2. HandlersHaveOne /\ (h.op # "connect" => h.of # NoTransport) => HandlersHaveOne'
    BY <1>1 DEF HandlersHaveOne
<1>3. h.op \notin WriteOps => /\ HandlerReady' <=> HandlerReady
                              /\ OneHandler => OneHandler'
    BY <1>1 DEF HandlerReady, OneHandler, Of
<1>4. h.op \in WriteOps /\ h.of = transport => HandlerReady'
    BY <1>1 DEF HandlerReady, Of
<1>5. h.op \in WriteOps /\ h.of = transport /\ ~HandlerReady => OneHandler'
    BY <1>1 DEF HandlerReady, OneHandler, Of
<1>6. OneRead /\ h.op \notin ReadOps /\ UNCHANGED reading => OneRead'
    BY <1>1 DEF OneRead, Of
<1>7. FrontReady /\ UNCHANGED ring /\ (h.op = "write" => IsFront(ring, h)) => FrontReady'
    BY <1>1 DEF FrontReady, Of
<1>8. ASSUME ReconnectInOrder, UNCHANGED <<reconnectTimer, early>>, h.op # "connect",
             h.op \in Failures => h.of = transport /\ transport # NoTransport
      PROVE  ReconnectInOrder'
  <2>. SUFFICES ASSUME early = 0 PROVE ReconnectInOrder'
    BY <1>8, ZenonT(30) DEF ReconnectInOrder
  <2>1. reconnectTimer' => transport' = NoTransport
    BY <1>8 DEF ReconnectInOrder
  <2>2. \A i \in DOMAIN ready' :
           ready'[i].op \in Failures => transport' = NoTransport \/ ready'[i].of = transport'
    BY <1>1, <1>8 DEF ReconnectInOrder
  <2>3. ASSUME NEW i \in DOMAIN ready', ready'[i].op = "connect"
        PROVE  /\ transport' = NoTransport
               /\ ~reconnectTimer'
               /\ \A j \in DOMAIN ready' : ready'[j].op \notin Failures
               /\ \A j \in DOMAIN ready' : ready'[j].op = "connect" => i = j
    <3>1. i \in DOMAIN ready /\ ready[i].op = "connect"
      BY <1>1, <1>8, <2>3
    <3>2. /\ transport = NoTransport /\ ~reconnectTimer
          /\ \A j \in DOMAIN ready : ready[j].op \notin Failures
          /\ \A j \in DOMAIN ready : ready[j].op = "connect" => i = j
      BY <1>8, <3>1 DEF ReconnectInOrder
    <3>. QED  BY <1>1, <1>8, <3>2, ZenonT(30)
  <2>. QED  BY <2>1, <2>2, <2>3 DEF ReconnectInOrder
<1>. QED  BY <1>1, <1>2, <1>3, <1>4, <1>5, <1>6, <1>7, <1>8, ZenonT(30)

(* A read is over, well or badly. *)
LEMMA ReadOver ==
    ASSUME IInv, reading > 0, reading' = reading - 1,
           NEW h \in Handlers, h.op \in ReadOps, h.of = transport, ready' = Append(ready, h),
           midMessage' \in BOOLEAN, faults' \in Nat, arrivals' \in Nat,
           UNCHANGED <<status, transport, authenticated, ring, inFlight, fragments, writes,
                       reconnectTimer, heartbeatTimer, unsent, intact, first, whole, stale, sends,
                       beats, early>>
    PROVE  IInv'
<1>1. TypeOK /\ NothingPending /\ ReconnectInOrder
    BY DEF IInv
<1>2. transport # NoTransport
    BY <1>1 DEF NothingPending
<1>3. /\ ready' \in Seq(Handlers)
      /\ \A i \in DOMAIN ready' : \/ i \in DOMAIN ready /\ ready'[i] = ready[i]
                                  \/ i = Len(ready) + 1 /\ ready'[i] = h
      /\ HandlersHaveOne => HandlersHaveOne'
      /\ HandlerReady' <=> HandlerReady
      /\ OneHandler => OneHandler'
      /\ FrontReady => FrontReady'
      /\ ReconnectInOrder'
  <2>1. h.op \notin WriteOps /\ h.op # "connect" /\ h.op # "write"
    BY DEF ReadOps, WriteOps
  <2>. QED  BY <1>1, <1>2, <2>1, AppendKeeps, ZenonT(30)
<1>4. TypeOK'
  <2>1. reading' \in Nat
    BY <1>1 DEF TypeOK
  <2>. QED  BY <1>1, <1>3, <2>1, ZenonT(30) DEF TypeOK
<1>5. NothingPending'
    BY <1>2 DEF NothingPending
<1>6. ASSUME ~stale' PROVE Session'
  <2>1. Session
    BY <1>6 DEF IInv
  <2>2. OneRead'
    <3>1. reading' = 0 /\ \A i \in DOMAIN ready : ~Of(i, ReadOps, transport)
      BY <1>1, <2>1 DEF Session, OneRead, TypeOK
    <3>2. \A i \in DOMAIN ready' : Of(i, ReadOps, transport)' => i = Len(ready) + 1
      BY <1>3, <3>1, Zenon DEF Of
    <3>3. \A i, j \in DOMAIN ready' : Of(i, ReadOps, transport)' /\ Of(j, ReadOps, transport)' => i = j
      BY <3>2
    <3>4. reading' <= 1
      BY <3>1
    <3>. QED  BY <3>1, <3>3, <3>4, Zenon DEF OneRead
  <2>3. HandlersHaveOne' /\ OneHandler' /\ FrontReady'
    BY <1>3, <2>1, Zenon DEF Session
  <2>4. Tx' = Tx
    BY DEF Tx
  <2>5. WriteSide(Tx', HandlerReady')
    BY <1>2, <1>3, <2>1, <2>4, ZenonT(30) DEF Session, WriteSide
  <2>6. Disconnected' /\ intact' /\ Unread(ring') = unsent' /\ (early' = 0 => first' = "login")
    BY <1>2, <2>1 DEF Disconnected, Session
  <2>. QED  BY <2>2, <2>3, <2>5, <2>6 DEF Session
<1>. QED  BY <1>3, <1>4, <1>5, <1>6, ZenonT(30) DEF IInv

(* A read that ends well keeps the invariant. *)
LEMMA ReadEndsStep ==
    ASSUME IInv, ReadEnds
    PROVE  IInv'
<1>1. PICK frame \in Arrivals :
         /\ Ends([op |-> "read", of |-> transport, frame |-> frame])
         /\ midMessage' = (frame = "first" \/ (midMessage /\ frame # "last"))
    BY DEF ReadEnds
<1>. DEFINE h == [op |-> "read", of |-> transport, frame |-> frame]
<1>2. /\ ready' = Append(ready, h) /\ reading > 0 /\ reading' = reading - 1
      /\ arrivals' = arrivals + 1
      /\ UNCHANGED <<status, transport, authenticated, ring, inFlight, fragments, writes,
                     reconnectTimer, heartbeatTimer, unsent, intact, first, whole, stale, faults,
                     sends, beats, early>>
    BY <1>1 DEF ReadEnds, Ends, historyVars
<1>3. h \in Handlers /\ h.op \in ReadOps /\ h.of = transport
    BY ZenonT(30) DEF IInv, TypeOK, Handlers, ReadHandlers, ReadOps
<1>4. midMessage' \in BOOLEAN /\ faults' \in Nat /\ arrivals' \in Nat
    BY <1>1, <1>2 DEF IInv, TypeOK
<1>. HIDE DEF h
<1>. QED  BY <1>2, <1>3, <1>4, ReadOver

(* A read that fails keeps the invariant. *)
LEMMA ReadFailsStep ==
    ASSUME IInv, ReadFails
    PROVE  IInv'
<1>. DEFINE h == [op |-> "readFailed", of |-> transport]
<1>1. /\ ready' = Append(ready, h) /\ reading > 0 /\ reading' = reading - 1
      /\ faults' = faults + 1
      /\ UNCHANGED <<status, transport, authenticated, ring, inFlight, fragments, writes,
                     reconnectTimer, heartbeatTimer, midMessage, unsent, intact, first, whole,
                     stale, sends, arrivals, beats, early>>
    BY DEF ReadFails, Ends, historyVars
<1>2. h \in Handlers /\ h.op \in ReadOps /\ h.of = transport
    BY DEF IInv, TypeOK, Handlers, PlainHandlers, ReadOps
<1>3. midMessage' \in BOOLEAN /\ faults' \in Nat /\ arrivals' \in Nat
    BY <1>1 DEF IInv, TypeOK
<1>. HIDE DEF h
<1>. QED  BY <1>1, <1>2, <1>3, ReadOver

(* A write is over, well or badly. *)
LEMMA WriteOver ==
    ASSUME IInv, NEW i \in DOMAIN writes,
           writes' = SubSeq(writes, 1, i - 1) \o SubSeq(writes, i + 1, Len(writes)),
           NEW h \in Handlers, h.op \in WriteOps, h.of = transport,
           h.op = "write" => h.from = writes[i].from /\ h.n = writes[i].n,
           ready' = Append(ready, h), faults' \in Nat,
           UNCHANGED <<status, transport, authenticated, ring, inFlight, fragments, reading,
                       reconnectTimer, heartbeatTimer, midMessage, unsent, intact, first, whole,
                       stale, sends, arrivals, beats, early>>
    PROVE  IInv'
<1>1. TypeOK /\ NothingPending /\ ReconnectInOrder
    BY DEF IInv
<1>2. writes # <<>> /\ transport # NoTransport
    BY <1>1 DEF NothingPending
<1>3. /\ writes' \in Seq(WriteRegions)
      /\ Len(writes) <= 1 => i = 1 /\ writes' = <<>>
  <2>1. writes \in Seq(WriteRegions)
    BY <1>1 DEF TypeOK
  <2>. HIDE DEF WriteRegions
  <2>. QED  BY <2>1, WithoutOne, Zenon
<1>4. /\ ready' \in Seq(Handlers)
      /\ HandlersHaveOne => HandlersHaveOne'
      /\ HandlerReady'
      /\ ~HandlerReady => OneHandler'
      /\ OneRead => OneRead'
      /\ FrontReady /\ (h.op = "write" => IsFront(ring, h)) => FrontReady'
      /\ ReconnectInOrder'
  <2>1. h.op \notin ReadOps /\ h.op # "connect"
    BY Zenon DEF ReadOps, WriteOps
  <2>. QED  BY <1>1, <1>2, <2>1, AppendKeeps, Zenon
<1>5. TypeOK'
    BY <1>1, <1>3, <1>4, ZenonT(30) DEF TypeOK
<1>6. NothingPending'
    BY <1>2 DEF NothingPending
<1>7. ASSUME ~stale' PROVE Session'
  <2>1. Session
    BY <1>7, ZenonT(30) DEF IInv
  <2>2. /\ ring.size <= N /\ Unread(ring) = unsent /\ Len(writes) <= 1
        /\ inFlight /\ ~HandlerReady /\ IsFront(ring, writes[1]) /\ first = "login"
    <3>1. WriteSide(Tx, HandlerReady)
      BY <1>2, <2>1 DEF Session
    <3>. QED  BY <1>1, <1>2, <3>1, TxFacts, ZenonT(30) DEF WriteSide
  <2>3. i = 1 /\ writes' = <<>>
    BY <1>3, <2>2
  <2>4. h.op = "write" => IsFront(ring, h)
    BY <2>2, <2>3 DEF IsFront
  <2>5. HandlersHaveOne' /\ OneHandler' /\ OneRead' /\ FrontReady' /\ HandlerReady'
    BY <1>4, <2>1, <2>2, <2>4, ZenonT(30) DEF Session
  <2>6. /\ Tx'.ring = ring /\ Tx'.inFlight = inFlight /\ Tx'.writes = <<>>
        /\ Tx'.unsent = unsent /\ Tx'.first = first
    BY <2>3, ZenonT(30) DEF Tx
  <2>7. Len(Tx'.writes) <= 1
    BY <2>6
  <2>8. WriteSide(Tx', HandlerReady')
    BY <2>2, <2>5, <2>6, <2>7, ZenonT(30) DEF WriteSide
  <2>9. Disconnected' /\ intact' /\ Unread(ring') = unsent' /\ (early' = 0 => first' = "login")
    BY <1>2, <2>1 DEF Disconnected, Session
  <2>. QED  BY <2>5, <2>8, <2>9, ZenonT(30) DEF Session
<1>. QED  BY <1>4, <1>5, <1>6, <1>7, ZenonT(30) DEF IInv

(* A write that ends well keeps the invariant. *)
LEMMA WriteEndsStep ==
    ASSUME IInv, WriteEnds
    PROVE  IInv'
<1>1. PICK i \in DOMAIN writes :
         /\ Ends([op |-> "write", of |-> transport, from |-> writes[i].from, n |-> writes[i].n])
         /\ writes' = SubSeq(writes, 1, i - 1) \o SubSeq(writes, i + 1, Len(writes))
    BY Zenon DEF WriteEnds
<1>. DEFINE h == [op |-> "write", of |-> transport, from |-> writes[i].from, n |-> writes[i].n]
<1>2. /\ ready' = Append(ready, h)
      /\ UNCHANGED <<status, transport, authenticated, ring, inFlight, fragments, reading,
                     reconnectTimer, heartbeatTimer, midMessage, unsent, intact, first, whole,
                     stale, faults, sends, arrivals, beats, early>>
    BY <1>1 DEF WriteEnds, Ends, historyVars
<1>3. writes[i] \in WriteRegions
    BY DEF IInv, TypeOK
<1>4. h \in Handlers /\ h.op \in WriteOps /\ h.of = transport
    BY <1>3 DEF IInv, TypeOK, Handlers, WriteHandlers, WriteRegions, WriteOps
<1>5. faults' \in Nat /\ h.from = writes[i].from /\ h.n = writes[i].n
    BY <1>2, Zenon DEF IInv, TypeOK
<1>. HIDE DEF h
<1>. QED  BY <1>1, <1>2, <1>4, <1>5, WriteOver, ZenonT(30)

(* A write that fails keeps the invariant. *)
LEMMA WriteFailsStep ==
    ASSUME IInv, WriteFails
    PROVE  IInv'
<1>1. PICK i \in DOMAIN writes :
         /\ Ends([op |-> "writeFailed", of |-> transport])
         /\ writes' = SubSeq(writes, 1, i - 1) \o SubSeq(writes, i + 1, Len(writes))
    BY ZenonT(30) DEF WriteFails
<1>. DEFINE h == [op |-> "writeFailed", of |-> transport]
<1>2. /\ ready' = Append(ready, h) /\ faults' = faults + 1
      /\ UNCHANGED <<status, transport, authenticated, ring, inFlight, fragments, reading,
                     reconnectTimer, heartbeatTimer, midMessage, unsent, intact, first, whole,
                     stale, sends, arrivals, beats, early>>
    BY <1>1 DEF WriteFails, Ends, historyVars
<1>3. h \in Handlers /\ h.op = "writeFailed" /\ h.of = transport
    BY Zenon DEF IInv, TypeOK, Handlers, PlainHandlers
<1>4. faults' \in Nat /\ h.op \in WriteOps /\ h.op # "write"
    BY <1>2, <1>3 DEF IInv, TypeOK, WriteOps
<1>. HIDE DEF h
<1>. QED  BY <1>1, <1>2, <1>3, <1>4, WriteOver, Zenon

(* The end of the heartbeat timer keeps the invariant. *)
LEMMA HeartbeatTimerEndsStep ==
    ASSUME IInv, HeartbeatTimerEnds
    PROVE  IInv'
<1>. DEFINE h == [op |-> "heartbeat", of |-> transport]
<1>1. /\ heartbeatTimer /\ ready' = Append(ready, h) /\ heartbeatTimer' = FALSE
      /\ beats' = beats + 1
      /\ UNCHANGED <<status, transport, authenticated, ring, inFlight, fragments, reading, writes,
                     reconnectTimer, midMessage, unsent, intact, first, whole, stale, faults,
                     sends, arrivals, early>>
    BY DEF HeartbeatTimerEnds, Ends, historyVars
<1>2. TypeOK /\ NothingPending /\ ReconnectInOrder
    BY DEF IInv
<1>3. h \in Handlers /\ h.op = "heartbeat" /\ h.of = transport
    BY <1>2 DEF TypeOK, Handlers, PlainHandlers
<1>. HIDE DEF h
<1>4. /\ ready' \in Seq(Handlers)
      /\ HandlersHaveOne /\ transport # NoTransport => HandlersHaveOne'
      /\ HandlerReady' <=> HandlerReady
      /\ OneHandler => OneHandler'
      /\ OneRead => OneRead'
      /\ FrontReady => FrontReady'
      /\ ReconnectInOrder'
  <2>1. h.op \notin WriteOps /\ h.op \notin ReadOps /\ h.op \notin Failures
    BY <1>3 DEF WriteOps, ReadOps, Failures
  <2>2. h.op # "connect" /\ h.op # "write"
    BY <1>3
  <2>. QED  BY <1>1, <1>2, <1>3, <2>1, <2>2, AppendKeeps, Zenon
<1>5. TypeOK'
  <2>1. beats \in Nat /\ beats' = beats + 1
    BY <1>1, <1>2, Zenon DEF TypeOK
  <2>2. heartbeatTimer' \in BOOLEAN
    BY <1>1, Zenon
  <2>3. beats' \in Nat
    BY <2>1
  <2>. QED  BY <1>1, <1>2, <1>4, <2>2, <2>3, ZenonT(30) DEF TypeOK
<1>6. NothingPending'
    BY <1>1, <1>2 DEF NothingPending
<1>7. ASSUME ~stale' PROVE Session'
  <2>1. Session
    BY <1>1, <1>7 DEF IInv
  <2>2. transport # NoTransport
    BY <1>1, <2>1 DEF Session, Disconnected
  <2>3. Tx' = Tx
    BY <1>1 DEF Tx
  <2>4. WriteSide(Tx', HandlerReady')
    BY <1>4, <2>1, <2>2, <2>3, ZenonT(30) DEF Session, WriteSide
  <2>5. HandlersHaveOne' /\ OneHandler' /\ OneRead' /\ FrontReady'
    BY <1>4, <2>1, <2>2 DEF Session
  <2>6. Disconnected' /\ intact' /\ Unread(ring') = unsent' /\ (early' = 0 => first' = "login")
    BY <1>1, <2>1, <2>2 DEF Disconnected, Session
  <2>. QED  BY <2>4, <2>5, <2>6 DEF Session
<1>. QED  BY <1>4, <1>5, <1>6, <1>7 DEF IInv

(* The end of the backoff keeps the invariant, early or not. *)
LEMMA ReconnectTimerEndsStep ==
    ASSUME IInv, ReconnectTimerEnds
    PROVE  IInv'
<1>. DEFINE h == [op |-> "connect", of |-> NoTransport]
<1>1. /\ reconnectTimer /\ ready' = Append(ready, h) /\ reconnectTimer' = FALSE
      /\ early' = IF ready = <<>> THEN early ELSE early + 1
      /\ UNCHANGED <<status, transport, authenticated, ring, inFlight, fragments, reading, writes,
                     heartbeatTimer, midMessage, unsent, intact, first, whole, stale, faults,
                     sends, arrivals, beats>>
    BY DEF ReconnectTimerEnds, Ends, historyVars
<1>2. TypeOK /\ NothingPending /\ ReconnectInOrder
    BY DEF IInv
<1>3. h \in Handlers /\ h.op = "connect"
    BY DEF Handlers, ConnectHandlers
<1>. HIDE DEF h
<1>4. /\ ready' \in Seq(Handlers)
      /\ \A i \in DOMAIN ready' : \/ i \in DOMAIN ready /\ ready'[i] = ready[i]
                                  \/ i = Len(ready) + 1 /\ ready'[i] = h
      /\ HandlersHaveOne => HandlersHaveOne'
      /\ HandlerReady' <=> HandlerReady
      /\ OneHandler => OneHandler'
      /\ OneRead => OneRead'
      /\ FrontReady => FrontReady'
  <2>1. h.op \notin WriteOps /\ h.op \notin ReadOps
    BY <1>3 DEF WriteOps, ReadOps
  <2>2. h.op # "write"
    BY <1>3
  <2>. QED  BY <1>1, <1>2, <1>3, <2>1, <2>2, AppendKeeps, Zenon
<1>5. early' \in Nat /\ (early' = 0 => ready = <<>> /\ early = 0)
    BY <1>1, <1>2 DEF TypeOK
<1>6. TypeOK'
    BY <1>1, <1>2, <1>4, <1>5, ZenonT(30) DEF TypeOK
<1>7. NothingPending'
    BY <1>1, <1>2 DEF NothingPending
<1>8. ReconnectInOrder'
  <2>. SUFFICES ASSUME early' = 0 PROVE ReconnectInOrder'
    BY DEF ReconnectInOrder
  <2>1. ready = <<>> /\ transport' = NoTransport /\ ~reconnectTimer'
    BY <1>1, <1>2, <1>5, ZenonT(30) DEF ReconnectInOrder
  <2>2. \A i \in DOMAIN ready' : i = Len(ready) + 1 /\ ready'[i].op = "connect"
    BY <1>3, <1>4, <2>1
  <2>3. \A i \in DOMAIN ready' : ready'[i].op \notin Failures
    BY <2>2 DEF Failures
  <2>. QED  BY <2>1, <2>2, <2>3, ZenonT(30) DEF ReconnectInOrder
<1>9. ASSUME ~stale' PROVE Session'
  <2>1. Session
    BY <1>1, <1>9 DEF IInv
  <2>2. Tx' = Tx
    BY <1>1 DEF Tx
  <2>3. transport # NoTransport => WriteSide(Tx', HandlerReady')
    BY <1>4, <2>1, <2>2, ZenonT(30) DEF Session, WriteSide
  <2>4. HandlersHaveOne' /\ OneHandler' /\ OneRead' /\ FrontReady'
    BY <1>4, <2>1, ZenonT(30) DEF Session
  <2>5. Disconnected' /\ intact' /\ Unread(ring') = unsent'
    BY <1>1, <2>1 DEF Disconnected, Session
  <2>6. transport' # NoTransport /\ early' = 0 => first' = "login"
    BY <1>1, <1>5, <2>1 DEF Session
  <2>. QED  BY <1>1, <2>3, <2>4, <2>5, <2>6 DEF Session
<1>. QED  BY <1>6, <1>7, <1>8, <1>9 DEF IInv

-----------------------------------------------------------------------------
(* The first state, and giving the connection up. *)

(* What is read from a ring is a sequence of its size. *)
LEMMA UnreadFacts ==
    ASSUME NEW b \in RingBuffers
    PROVE  /\ Unread(b) \in Seq(Bytes)
           /\ Len(Unread(b)) = b.size
           /\ \A i \in 1..b.size : Unread(b)[i] = b.data[(b.pos + i - 1) % N]
<1>1. b.size \in Nat /\ b.pos \in 0..(N - 1) /\ b.data \in [0..(N - 1) -> Bytes]
    BY RingSizes DEF RingBuffers
<1>2. ASSUME NEW i \in 1..b.size PROVE b.data[(b.pos + i - 1) % N] \in Bytes
  <2>1. (b.pos + i - 1) % N \in 0..(N - 1)
    BY <1>1, RingSizes
  <2>. QED  BY <1>1, <2>1, Zenon
<1>3. Unread(b) \in [1..b.size -> Bytes]
    BY <1>2 DEF Unread
<1>4. Unread(b) \in Seq(Bytes)
    BY <1>1, <1>3
<1>5. DOMAIN Unread(b) = 1..b.size
    BY <1>3
<1>6. Len(Unread(b)) = b.size
    BY <1>1, <1>4, <1>5, SeqLength
<1>7. \A i \in 1..b.size : Unread(b)[i] = b.data[(b.pos + i - 1) % N]
    BY DEF Unread
<1>. QED  BY <1>4, <1>6, <1>7

(* A client that has just been made: Connect is its first handler. *)
LEMMA InitInv == Init => IInv
<1>. SUFFICES ASSUME Init PROVE IInv
    OBVIOUS
<1>1. ring \in RingBuffers /\ ring.size = 0
  <2>1. <<"none", 0>> \in Bytes
    BY ClientAssumption DEF Bytes
  <2>2. [i \in 0..(N - 1) |-> <<"none", 0>>] \in [0..(N - 1) -> Bytes]
    BY <2>1
  <2>. QED  BY <2>2, RingSizes DEF Init, RingBuffers
<1>2. Unread(ring) = unsent
  <2>1. Unread(ring) \in Seq(Bytes) /\ Len(Unread(ring)) = 0
    BY <1>1, UnreadFacts, RingSizes
  <2>. QED  BY <2>1 DEF Init
<1>. DEFINE h == [op |-> "connect", of |-> NoTransport]
<1>3. h \in Handlers /\ h.op = "connect"
    BY DEF Handlers, ConnectHandlers
<1>4. ready = <<h>>
    BY DEF Init
<1>. HIDE DEF h
<1>5. ready \in Seq(Handlers) /\ \A i \in DOMAIN ready : i = 1 /\ ready[i].op = "connect"
    BY <1>3, <1>4
<1>6. TypeOK
  <2>1. transport \in Connections
    <3>1. transport = NoTransport
      BY DEF Init
    <3>2. NoTransport \in Connections
      BY ClientAssumption DEF Connections, NoTransport
    <3>. QED  BY <3>1, <3>2, Zenon
  <2>2. /\ fragments \in Seq(Fragments) /\ writes \in Seq(WriteRegions) /\ unsent \in Seq(Bytes)
        /\ first \in FrameKinds \cup {"none"}
    BY DEF Init
  <2>3. {faults, sends, arrivals, beats, early} \subseteq Nat /\ reading \in Nat
    BY DEF Init
  <2>4. /\ status \in {"running", "overflow", "reassembly"}
        /\ authenticated \in BOOLEAN /\ inFlight \in BOOLEAN /\ reconnectTimer \in BOOLEAN
        /\ heartbeatTimer \in BOOLEAN /\ midMessage \in BOOLEAN /\ intact \in BOOLEAN
        /\ whole \in BOOLEAN /\ stale \in BOOLEAN
    BY ZenonT(30) DEF Init
  <2>. QED  BY <1>1, <1>5, <2>1, <2>2, <2>3, <2>4, ZenonT(30) DEF TypeOK
<1>7. NothingPending
    BY DEF Init, NothingPending
<1>8. ReconnectInOrder
    BY <1>5 DEF Init, ReconnectInOrder, Failures
<1>9. Session
  <2>1. \A i \in DOMAIN ready : /\ ~Of(i, ReadOps, transport) /\ ~Of(i, WriteOps, transport)
                                /\ ~Of(i, {"write"}, transport)
    BY <1>5 DEF Of, ReadOps, WriteOps
  <2>2. HandlersHaveOne
    BY <1>5 DEF HandlersHaveOne
  <2>3. Disconnected
    BY <1>1 DEF Disconnected, Init
  <2>4. OneRead /\ OneHandler /\ FrontReady
    BY <2>1 DEF OneRead, OneHandler, FrontReady, Init
  <2>. QED  BY <1>2, <2>2, <2>3, <2>4 DEF Session, Init
<1>. QED  BY <1>6, <1>7, <1>8, <1>9 DEF IInv

(* An emptied ring. *)
LEMMA ResetFacts ==
    ASSUME NEW b \in RingBuffers
    PROVE  Reset(b) \in RingBuffers /\ Reset(b).size = 0 /\ Unread(Reset(b)) = <<>>
<1>1. Reset(b) \in RingBuffers /\ Reset(b).size = 0
    BY RingSizes DEF RingBuffers, Reset
<1>2. Unread(Reset(b)) \in Seq(Bytes) /\ Len(Unread(Reset(b))) = 0
    BY <1>1, UnreadFacts
<1>. QED  BY <1>1, <1>2

(* The handlers that a connection leaves behind. *)
LEMMA AbortedFacts ==
    ASSUME TypeOK, NothingPending
    PROVE  /\ Aborted \in Seq(Handlers)
           /\ \A i \in DOMAIN Aborted :
                 Aborted[i].op \in Failures /\ Aborted[i].of = transport /\ transport # NoTransport
           /\ transport = NoTransport => Aborted = <<>>
<1>1. PICK l \in Nat : reading + Len(writes) = l
    BY DEF TypeOK
<1>2. ASSUME NEW i \in 1..l
      PROVE  [op |-> IF i <= reading THEN "readFailed" ELSE "writeFailed", of |-> transport]
               \in Handlers
    BY DEF TypeOK, Handlers, PlainHandlers
<1>3. Aborted = [i \in 1..l |->
           [op |-> IF i <= reading THEN "readFailed" ELSE "writeFailed", of |-> transport]]
    BY <1>1 DEF Aborted
<1>4. Aborted \in [1..l -> Handlers]
    BY <1>2, <1>3
<1>5. Aborted \in Seq(Handlers)
    BY <1>4
<1>6. transport = NoTransport => l = 0
    BY <1>1 DEF NothingPending
<1>7. transport = NoTransport => Aborted = <<>>
  <2>. SUFFICES ASSUME transport = NoTransport PROVE Aborted = <<>>
    OBVIOUS
  <2>1. DOMAIN Aborted = 1..0
    BY <1>3, <1>6
  <2>2. Len(Aborted) = 0
    BY <1>5, <2>1, SeqLength
  <2>. QED  BY <1>5, <2>2
<1>8. ASSUME NEW i \in DOMAIN Aborted
      PROVE  /\ Aborted[i].op \in Failures /\ Aborted[i].of = transport
             /\ transport # NoTransport
  <2>1. i \in 1..l
    BY <1>3
  <2>2. Aborted[i] = [op |-> IF i <= reading THEN "readFailed" ELSE "writeFailed",
                      of |-> transport]
    BY <1>3, <2>1
  <2>3. transport # NoTransport
    BY <1>6, <2>1
  <2>. QED  BY <2>2, <2>3 DEF Failures
<1>. QED  BY <1>5, <1>7, <1>8

(* The ready handlers but the first, and those of a connection that is given up. *)
LEMMA LaterFacts ==
    ASSUME TypeOK, NothingPending, ready # <<>>
    PROVE  /\ Tail(ready) \o Aborted \in Seq(Handlers)
           /\ \A i \in DOMAIN (Tail(ready) \o Aborted) :
                 \/ \E j \in DOMAIN ready : j # 1 /\ (Tail(ready) \o Aborted)[i] = ready[j]
                 \/ /\ (Tail(ready) \o Aborted)[i].op \in Failures
                    /\ (Tail(ready) \o Aborted)[i].of = transport
                    /\ transport # NoTransport
<1>1. ready \in Seq(Handlers)
    BY DEF TypeOK
<1>2. /\ Tail(ready) \in Seq(Handlers)
      /\ \A i \in DOMAIN Tail(ready) : i + 1 # 1 /\ i + 1 \in DOMAIN ready /\ Tail(ready)[i] = ready[i + 1]
    BY <1>1, TailFacts
<1>3. /\ Aborted \in Seq(Handlers)
      /\ \A i \in DOMAIN Aborted :
            Aborted[i].op \in Failures /\ Aborted[i].of = transport /\ transport # NoTransport
    BY AbortedFacts
<1>. DEFINE l == Tail(ready) \o Aborted
<1>4. /\ l \in Seq(Handlers)
      /\ \A i \in DOMAIN l : \/ i \in DOMAIN Tail(ready) /\ l[i] = Tail(ready)[i]
                             \/ \E j \in DOMAIN Aborted : l[i] = Aborted[j]
    BY <1>2, <1>3, ConcatFacts
<1>. HIDE DEF l
<1>5. \A i \in DOMAIN l :
         \/ \E j \in DOMAIN ready : j # 1 /\ l[i] = ready[j]
         \/ l[i].op \in Failures /\ l[i].of = transport /\ transport # NoTransport
    BY <1>2, <1>3, <1>4
<1>. QED  BY <1>4, <1>5 DEF l

(* The connection is given up, by the first handler of those that are ready. *)
LEMMA GiveUpStep ==
    ASSUME IInv, ready # <<>>, ScheduleReconnect(Tail(ready) \o Aborted), OtherTypes',
           UNCHANGED <<intact, stale, early>>,
           early = 0 => \A i \in DOMAIN ready : i # 1 => ready[i].op # "connect"
    PROVE  IInv'
<1>. DEFINE later == Tail(ready) \o Aborted
<1>0. /\ transport' = NoTransport /\ heartbeatTimer' = FALSE /\ reconnectTimer' = TRUE
      /\ reading' = 0 /\ writes' = <<>> /\ ready' = later /\ first' = "none"
      /\ ring' = Reset(ring) /\ unsent' = <<>> /\ authenticated' = FALSE /\ inFlight' = FALSE
    BY DEF ScheduleReconnect, GiveUp, EmptyRing
<1>1. /\ ready' \in Seq(Handlers)
      /\ \A i \in DOMAIN ready' :
            \/ \E j \in DOMAIN ready : j # 1 /\ ready'[i] = ready[j]
            \/ /\ ready'[i].op \in Failures
               /\ ready'[i].of = transport
               /\ transport # NoTransport
    BY <1>0, LaterFacts DEF IInv
<1>. HIDE DEF later
<1>2. ring' \in RingBuffers /\ ring'.size = 0 /\ Unread(ring') = <<>>
    BY <1>0, ResetFacts DEF IInv, TypeOK
<1>3. TypeOK'
  <2>1. NoTransport \in Connections
    BY ClientAssumption DEF Connections, NoTransport
  <2>2. intact' \in BOOLEAN /\ stale' \in BOOLEAN
    BY DEF IInv, TypeOK
  <2>3. writes' \in Seq(WriteRegions) /\ unsent' \in Seq(Bytes)
    BY <1>0
  <2>. QED  BY <1>0, <1>1, <1>2, <2>1, <2>2, <2>3, ZenonT(30) DEF TypeOK, OtherTypes
<1>4. NothingPending'
    BY <1>0 DEF NothingPending
<1>5. ReconnectInOrder'
  <2>. SUFFICES ASSUME early' = 0
                PROVE  \A i \in DOMAIN ready' : ready'[i].op # "connect"
    BY <1>0 DEF ReconnectInOrder
  <2>1. "connect" \notin Failures
    BY DEF Failures
  <2>. QED  BY <1>1, <2>1
<1>6. ASSUME ~stale' PROVE Session'
  <2>1. Session
    BY <1>6 DEF IInv
  <2>2. HandlersHaveOne'
    BY <1>1, <2>1 DEF Session, HandlersHaveOne
  <2>3. \A i \in DOMAIN ready' :
           ~Of(i, ReadOps, transport)' /\ ~Of(i, WriteOps, transport)' /\ ~Of(i, {"write"}, transport)'
    BY <1>0, <2>2 DEF HandlersHaveOne, Of, ReadOps, WriteOps
  <2>4. Disconnected'
    BY <1>0, <1>2 DEF Disconnected
  <2>5. OneRead' /\ OneHandler' /\ FrontReady'
    <3>1. reading' <= 1
      BY <1>0
    <3>. QED  BY <2>3, <3>1, Zenon DEF OneRead, OneHandler, FrontReady
  <2>. QED  BY <1>0, <1>2, <2>1, <2>2, <2>4, <2>5 DEF Session
<1>. QED  BY <1>3, <1>4, <1>5, <1>6 DEF IInv

(* The error branches keep the invariant, whichever connection they are about. *)
LEMMA OnErrorStep ==
    ASSUME IInv, OnError
    PROVE  IInv'
<1>1. /\ ready # <<>> /\ Head(ready).op \in Failures
      /\ ScheduleReconnect(Tail(ready) \o Aborted)
      /\ UNCHANGED <<status, fragments, midMessage, intact, whole, stale, faults, sends, arrivals,
                     beats, early>>
    BY DEF OnError, Runs, boundVars, Failures
<1>2. 1 \in DOMAIN ready /\ Head(ready) = ready[1]
    BY <1>1, TailFacts DEF IInv, TypeOK
<1>3. early = 0 => \A i \in DOMAIN ready : ready[i].op # "connect"
    BY <1>1, <1>2 DEF IInv, ReconnectInOrder
<1>4. OtherTypes'
    BY <1>1 DEF IInv, TypeOK, OtherTypes
<1>. QED  BY <1>1, <1>3, <1>4, GiveUpStep

(* As long as the backoff never ended early, Connect's handler is the only one
   of its kind, and there is no connection. *)
LEMMA ConnectAlone ==
    ASSUME IInv, Runs("connect"), early = 0
    PROVE  /\ transport = NoTransport
           /\ ~reconnectTimer
           /\ \A i \in DOMAIN ready : ready[i].op \notin Failures
           /\ \A i \in DOMAIN ready : i # 1 => ready[i].op # "connect"
<1>1. 1 \in DOMAIN ready /\ ready[1].op = "connect"
    BY TailFacts DEF IInv, TypeOK, Runs
<1>. QED  BY <1>1 DEF IInv, ReconnectInOrder

(* A connect that fails keeps the invariant. *)
LEMMA ConnectFailsStep ==
    ASSUME IInv, ConnectFails
    PROVE  IInv'
<1>1. /\ ready # <<>> /\ Runs("connect") /\ faults' = faults + 1
      /\ ScheduleReconnect(Tail(ready) \o Aborted)
      /\ UNCHANGED <<status, fragments, midMessage, intact, whole, stale, sends, arrivals, beats,
                     early>>
    BY DEF ConnectFails, Runs
<1>2. OtherTypes'
    BY <1>1 DEF IInv, TypeOK, OtherTypes
<1>3. early = 0 => \A i \in DOMAIN ready : i # 1 => ready[i].op # "connect"
    BY <1>1, ConnectAlone
<1>. QED  BY <1>1, <1>2, <1>3, GiveUpStep

-----------------------------------------------------------------------------
(* The ring of bytes. *)

(* Write puts the bytes behind those in the ring and touches none of them. *)
LEMMA WrittenFacts ==
    ASSUME NEW b \in RingBuffers, b.size <= N, NEW bytes \in Seq(Bytes), ~WriteThrows(b, bytes)
    PROVE  /\ Written(b, bytes) \in RingBuffers
           /\ Written(b, bytes).pos = b.pos
           /\ Written(b, bytes).size = b.size + Len(bytes)
           /\ Written(b, bytes).size <= N
           /\ Unread(Written(b, bytes)) = Unread(b) \o bytes
<1>. DEFINE w == Written(b, bytes)
            Place(i) == ((i - (b.pos + b.size)) % N) + 1
<1>1. PICK p \in 0..(N - 1), s \in 0..N, l \in Nat : b.pos = p /\ b.size = s /\ Len(bytes) = l
    BY RingSizes DEF RingBuffers
<1>2. b.data \in [0..(N - 1) -> Bytes]
    BY DEF RingBuffers
<1>3. s + l <= N
  <2>1. (N - s) % SizeMod = N - s
    BY RingSizes
  <2>. QED  BY <1>1, <2>1, RingSizes DEF WriteThrows, FreeSpace
<1>4. (s + l) % SizeMod = s + l
    BY <1>3, RingSizes
<1>5. w.pos = p /\ w.size = s + l
    BY <1>1, <1>4 DEF Written
<1>6. w.data = [i \in 0..(N - 1) |-> IF Place(i) \in 1..Len(bytes) THEN bytes[Place(i)] ELSE b.data[i]]
    BY DEF Written
<1>7. w.data \in [0..(N - 1) -> Bytes]
  <2>1. ASSUME NEW k, k \in 1..Len(bytes) PROVE bytes[k] \in Bytes
    BY <2>1
  <2>2. ASSUME NEW i \in 0..(N - 1)
        PROVE  (IF Place(i) \in 1..Len(bytes) THEN bytes[Place(i)] ELSE b.data[i]) \in Bytes
    BY <1>2, <2>1, Zenon
  <2>. QED  BY <1>6, <2>2
<1>8. w = [data |-> w.data, pos |-> w.pos, size |-> w.size]
    BY DEF Written
<1>. HIDE DEF w
<1>9. w \in RingBuffers
  <2>1. s + l \in 0..(SizeMod - 1)
    BY <1>3, RingSizes
  <2>. QED  BY <1>5, <1>7, <1>8, <2>1 DEF RingBuffers
<1>10. /\ Len(Unread(w)) = s + l /\ Unread(w) \in Seq(Bytes)
       /\ Len(Unread(b)) = s /\ Unread(b) \in Seq(Bytes)
    BY <1>1, <1>5, <1>9, UnreadFacts
<1>11. ASSUME NEW i \in 1..(s + l)
       PROVE  Unread(w)[i] = (Unread(b) \o bytes)[i]
  <2>1. PICK j \in 0..(N - 1) : i = j + 1
    BY <1>3, RingSizes, i - 1 \in 0..(N - 1)
  <2>2. PICK slot \in 0..(N - 1) : slot = (p + j) % N
    BY RingSizes
  <2>3. (p + i - 1) % N = slot
    <3>1. p + i - 1 = p + j
      BY <2>1
    <3>. QED  BY <2>2, <3>1
  <2>4. Unread(w)[i] = w.data[slot]
    BY <1>5, <1>9, <2>3, UnreadFacts, Zenon
  <2>5. Place(slot) = IF j >= s THEN j - s + 1 ELSE j - s + N + 1
    <3>1. (slot - (p + s)) % N = IF j >= s THEN j - s ELSE j - s + N
      BY <2>2, ModBack, RingSizes, Zenon
    <3>. QED  BY <1>1, <3>1, RingSizes
  <2>. HIDE DEF Place
  <2>6. CASE j < s
    <3>1. Place(slot) \notin 1..l
      BY <1>3, <2>5, <2>6, RingSizes
    <3>2. w.data[slot] = b.data[slot]
      BY <1>1, <1>6, <2>2, <3>1
    <3>3. i \in 1..s
      BY <2>1, <2>6
    <3>4. Unread(b)[i] = b.data[slot]
      BY <1>1, <2>3, <3>3, UnreadFacts
    <3>5. (Unread(b) \o bytes)[i] = Unread(b)[i]
      <4>1. i \in 1..(Len(Unread(b)) + Len(bytes)) /\ i <= Len(Unread(b))
        BY <1>1, <1>10, <3>3
      <4>. QED  BY <1>10, <4>1, SeqConcat
    <3>. QED  BY <2>4, <3>2, <3>4, <3>5, Zenon
  <2>7. CASE j >= s
    <3>1. Place(slot) = i - s /\ i - s \in 1..l /\ i > s
      BY <2>1, <2>5, <2>7, RingSizes
    <3>2. w.data[slot] = bytes[i - s]
      BY <1>1, <1>6, <2>2, <3>1
    <3>3. (Unread(b) \o bytes)[i] = bytes[i - s]
      <4>1. i \in 1..(Len(Unread(b)) + Len(bytes)) /\ ~(i <= Len(Unread(b)))
        BY <1>1, <1>10, <3>1
      <4>2. (Unread(b) \o bytes)[i] = bytes[i - Len(Unread(b))]
        BY <1>10, <4>1, SeqConcat
      <4>. QED  BY <1>10, <4>2
    <3>. QED  BY <2>4, <3>2, <3>3
  <2>8. j < s \/ j >= s
    OBVIOUS
  <2>. QED  BY <2>6, <2>7, <2>8, Zenon
<1>12. Unread(b) \o bytes \in Seq(Bytes) /\ Len(Unread(b) \o bytes) = s + l
    BY <1>1, <1>10
<1>13. Unread(w) = Unread(b) \o bytes
    BY <1>10, <1>11, <1>12, SeqSame
<1>. QED  BY <1>1, <1>3, <1>5, <1>9, <1>13 DEF w

(* CommitRead takes the bytes read off the front. *)
LEMMA CommitFacts ==
    ASSUME NEW b \in RingBuffers, b.size <= N, NEW n \in Nat, n <= b.size
    PROVE  /\ CommitRead(b, n) \in RingBuffers
           /\ CommitRead(b, n).size = b.size - n
           /\ Unread(CommitRead(b, n)) = SubSeq(Unread(b), n + 1, Len(Unread(b)))
<1>1. PICK p \in 0..(N - 1), s \in 0..N : b.pos = p /\ b.size = s
    BY RingSizes DEF RingBuffers
<1>. DEFINE w == CommitRead(b, n)
            rest == SubSeq(Unread(b), n + 1, s)
<1>2. b.data \in [0..(N - 1) -> Bytes] /\ n \in 0..s /\ n \in 0..N
  <2>1. n <= s
    BY <1>1, Zenon
  <2>2. n \in 0..s /\ n \in 0..N
    BY <2>1, RingSizes
  <2>. QED  BY <2>2 DEF RingBuffers
<1>3. PICK q \in 0..(N - 1) : q = (p + n) % N
    BY <1>2, RingSizes
<1>4. PICK t \in 0..N : t = s - n
    BY <1>2, RingSizes, s - n \in 0..N
<1>5. t % SizeMod = t /\ t \in 0..(SizeMod - 1)
    BY RingSizes
<1>6. w.data = b.data /\ w.pos = q /\ w.size = t
    BY <1>1, <1>3, <1>4, <1>5 DEF CommitRead
<1>7. w = [data |-> w.data, pos |-> w.pos, size |-> w.size]
    BY DEF CommitRead
<1>. HIDE DEF w
<1>8. w \in RingBuffers
    BY <1>2, <1>5, <1>6, <1>7 DEF RingBuffers
<1>9. /\ Len(Unread(w)) = t /\ Unread(w) \in Seq(Bytes)
      /\ Len(Unread(b)) = s /\ Unread(b) \in Seq(Bytes)
    BY <1>1, <1>6, <1>8, UnreadFacts
<1>10. /\ rest \in Seq(Bytes) /\ Len(rest) = t
       /\ \A i \in 1..t : rest[i] = Unread(b)[n + i]
    BY <1>2, <1>4, <1>9
<1>11. ASSUME NEW i \in 1..t PROVE Unread(w)[i] = rest[i]
  <2>1. PICK j \in 0..N : i = j + 1 /\ n + j <= N /\ n + i \in 1..s
    <3>1. i - 1 \in 0..N
      BY RingSizes
    <3>2. n + (i - 1) <= N /\ n + i \in 1..s
      BY <1>2, <1>4, RingSizes
    <3>. QED  BY <3>1, <3>2
  <2>2. (q + j) % N = (p + (n + j)) % N
    BY <1>2, <1>3, <2>1, RingSizes, ModAdd, ZenonT(30)
  <2>3. q + i - 1 = q + j /\ p + (n + i) - 1 = p + (n + j)
    BY <2>1
  <2>4. Unread(w)[i] = b.data[(q + i - 1) % N]
    BY <1>6, <1>8, UnreadFacts, Zenon
  <2>5. Unread(b)[n + i] = b.data[(p + (n + i) - 1) % N]
    BY <1>1, <2>1, UnreadFacts
  <2>. QED  BY <1>10, <2>2, <2>3, <2>4, <2>5
<1>. HIDE DEF rest
<1>12. Unread(w) = rest
    BY <1>9, <1>10, <1>11, SeqSame
<1>. QED  BY <1>1, <1>4, <1>6, <1>8, <1>9, <1>12 DEF w, rest

(* The region a write takes is the beginning of what is in the ring. *)
LEMMA RegionFacts ==
    ASSUME NEW b \in RingBuffers, b.size <= N, NEW n \in Nat, n <= Readable(b)
    PROVE  /\ n <= b.size
           /\ Region(b, b.pos, n) = SubSeq(Unread(b), 1, n)
<1>1. PICK p \in 0..(N - 1), s \in 0..N : b.pos = p /\ b.size = s
    BY RingSizes DEF RingBuffers
<1>2. n \in 0..s /\ p + n <= N
    BY <1>1, RingSizes DEF Readable
<1>3. Len(Unread(b)) = s /\ Unread(b) \in Seq(Bytes)
    BY <1>1, UnreadFacts
<1>4. ASSUME NEW i \in 1..n PROVE Unread(b)[i] = b.data[p + i - 1]
  <2>1. (p + i - 1) % N = p + i - 1
    BY <1>2, RingSizes
  <2>2. i \in 1..s
    BY <1>2
  <2>. QED  BY <1>1, <2>1, <2>2, UnreadFacts
<1>5. SubSeq(Unread(b), 1, n) = [i \in 1..n |-> Unread(b)[i]]
    BY <1>2, <1>3
<1>. QED  BY <1>1, <1>2, <1>4, <1>5 DEF Region
=============================================================================
