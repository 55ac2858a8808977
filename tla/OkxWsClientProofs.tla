------------------------- MODULE OkxWsClientProofs --------------------------
(***************************************************************************)
(* Proofs about OkxWsClient, part 2: the write side, the handlers, then the *)
(* theorems, which hold for every value of the constants.                  *)
(***************************************************************************)
EXTENDS OkxWsLinkProofs

(* The provers a leaf is given to, in turn, when it names none. *)
USE ZenonT(3), SMTT(25), ZenonT(30), Z3T(25)

-----------------------------------------------------------------------------
(* Sending, one write after the other. *)

(* What the write side keeps in the middle of a batch: all of WriteSide but
   that without a write under way the ring is empty. *)
Sending(x, r) ==
    /\ x.ring.size <= N
    /\ Unread(x.ring) = x.unsent
    /\ Len(x.writes) <= 1
    /\ x.writes # <<>> => x.inFlight /\ ~r /\ IsFront(x.ring, x.writes[1])
    /\ r => x.inFlight
    /\ x.first \in {"none", "login"}
    /\ x.first = "none" => x.inFlight /\ x.writes = <<>> /\ ~r
    /\ x.first = "login" /\ x.inFlight => r \/ x.writes # <<>>

(* Between batches a write is under way or the ring is empty. *)
LEMMA SideIsSending ==
    ASSUME NEW x, NEW r
    PROVE  WriteSide(x, r) <=> Sending(x, r) /\ (~x.inFlight => x.ring.size = 0)
    BY Zenon DEF WriteSide, Sending

(* A frame behind those in the ring leaves a region at the front where it is. *)
LEMMA QueuedRing ==
    ASSUME NEW x \in TxRecs, NEW kind \in FrameKinds, x.ring.size <= N,
           Unread(x.ring) = x.unsent, ~Queued(x, kind).threw
    PROVE  /\ Queued(x, kind).ring.size <= N
           /\ Queued(x, kind).ring.size > 0
           /\ Queued(x, kind).ring.pos = x.ring.pos
           /\ Unread(Queued(x, kind).ring) = Queued(x, kind).unsent
           /\ \A w : IsFront(x.ring, w) /\ w.n \in Nat => IsFront(Queued(x, kind).ring, w)
<1>. DEFINE y == Queued(x, kind)
            bytes == Frame(kind)
<1>1. bytes \in Seq(Bytes) /\ Len(bytes) \in 1..N
    BY FrameFacts
<1>2. /\ ~WriteThrows(x.ring, bytes) /\ y.ring = Written(x.ring, bytes)
      /\ y.unsent = x.unsent \o bytes
    BY QueuedFacts
<1>3. x.ring \in RingBuffers /\ y.ring \in RingBuffers
    BY QueuedFacts DEF TxRecs
<1>. HIDE DEF y, bytes
<1>4. /\ y.ring.pos = x.ring.pos /\ y.ring.size = x.ring.size + Len(bytes) /\ y.ring.size <= N
      /\ Unread(y.ring) = Unread(x.ring) \o bytes
    BY <1>1, <1>2, <1>3, WrittenFacts, ZenonT(30)
<1>5. PICK p \in 0..(N - 1), s \in 0..N, l \in 1..N :
         x.ring.pos = p /\ x.ring.size = s /\ Len(bytes) = l
  <2>1. x.ring.pos \in 0..(N - 1) /\ x.ring.size \in Nat
    BY <1>3, RingTypes, Zenon
  <2>2. x.ring.size \in 0..N
    BY <2>1, RingSizes
  <2>. QED  BY <1>1, <2>1, <2>2
<1>6. y.ring.pos = p /\ y.ring.size = s + l
    BY <1>4, <1>5
<1>7. s + l > 0
    BY RingSizes
<1>8. ASSUME NEW w, IsFront(x.ring, w), w.n \in Nat PROVE IsFront(y.ring, w)
  <2>1. PICK n \in Nat : n = w.n
    BY <1>8
  <2>2. w.from = p /\ n <= (IF s < N - p THEN s ELSE N - p)
    BY <1>5, <1>8, <2>1 DEF IsFront, Readable
  <2>3. n <= (IF s + l < N - p THEN s + l ELSE N - p)
    BY <2>2, RingSizes
  <2>. QED  BY <1>6, <2>1, <2>2, <2>3 DEF IsFront, Readable
<1>9. y.ring.size > 0
    BY <1>6, <1>7
<1>. QED  BY <1>2, <1>4, <1>8, <1>9 DEF y

(* The same for the write side as a whole. *)
LEMMA QueuedSending ==
    ASSUME NEW x \in TxRecs, NEW kind \in FrameKinds, NEW r \in BOOLEAN, Sending(x, r),
           ~Queued(x, kind).threw
    PROVE  Sending(Queued(x, kind), r)
<1>. DEFINE y == Queued(x, kind)
<1>1. /\ y.ring.size <= N /\ Unread(y.ring) = y.unsent
      /\ \A w : IsFront(x.ring, w) /\ w.n \in Nat => IsFront(y.ring, w)
    BY QueuedRing DEF Sending
<1>2. y.inFlight = x.inFlight /\ y.writes = x.writes /\ y.first = x.first
    BY QueuedFacts
<1>. HIDE DEF y
<1>3. x.writes # <<>> => IsFront(y.ring, x.writes[1])
  <2>. SUFFICES ASSUME x.writes # <<>> PROVE IsFront(y.ring, x.writes[1])
    OBVIOUS
  <2>1. x.writes \in Seq(WriteRegions)
    BY DEF TxRecs
  <2>2. x.writes[1] \in WriteRegions
    BY <2>1
  <2>3. x.writes[1].n \in Nat
    BY <2>2, RingSizes DEF WriteRegions
  <2>4. IsFront(x.ring, x.writes[1])
    BY DEF Sending
  <2>. QED  BY <1>1, <2>3, <2>4
<1>4. Sending(y, r)
    BY <1>1, <1>2, <1>3, Zenon DEF Sending
<1>. QED  BY <1>4 DEF y

(* A write that starts takes a region at the front. *)
LEMMA StartedWrites ==
    ASSUME NEW x \in TxRecs, NEW t, t # NoTransport, x.writes = <<>>
    PROVE  /\ Len(StartWrite(x, t).writes) = 1
           /\ StartWrite(x, t).writes # <<>>
           /\ IsFront(x.ring, StartWrite(x, t).writes[1])
<1>. DEFINE w == [from |-> x.ring.pos, n |-> Readable(x.ring)]
            y == StartWrite(x, t)
<1>1. y.writes = Append(x.writes, w)
    BY StartWriteFacts
<1>2. y.writes = <<w>>
    BY <1>1
<1>3. Readable(x.ring) \in 0..N
    BY RingTypes DEF TxRecs
<1>4. w.from = x.ring.pos /\ w.n <= Readable(x.ring)
    BY <1>3, RingSizes
<1>. HIDE DEF w, y
<1>5. y.writes[1] = w /\ Len(y.writes) = 1 /\ y.writes # <<>>
    BY <1>2
<1>. QED  BY <1>4, <1>5 DEF IsFront, y

(* EndBatch, and the end of WriteRaw. *)
LEMMA StartIfIdleSide ==
    ASSUME NEW x \in TxRecs, NEW t, t # NoTransport, NEW r \in BOOLEAN, Sending(x, r), ~x.threw
    PROVE  /\ WriteSide(StartIfIdle(x, t), r)
           /\ StartIfIdle(x, t).ring = x.ring
           /\ StartIfIdle(x, t).first = x.first
           /\ ~StartIfIdle(x, t).threw
<1>1. CASE x.inFlight
  <2>1. StartIfIdle(x, t) = x
    BY <1>1 DEF StartIfIdle
  <2>. QED  BY <1>1, <2>1, SideIsSending
<1>2. CASE ~x.inFlight
  <2>. DEFINE y == StartWrite(x, t)
  <2>1. StartIfIdle(x, t) = y
    BY <1>2 DEF StartIfIdle
  <2>2. x.writes = <<>> /\ ~r /\ x.first = "login"
    BY <1>2, Zenon DEF Sending
  <2>3. /\ y.ring = x.ring /\ y.unsent = x.unsent /\ y.threw = x.threw /\ y.inFlight
        /\ y.first = x.first
    BY <2>2, StartWriteFacts, Zenon
  <2>4. Len(y.writes) = 1 /\ y.writes # <<>> /\ IsFront(x.ring, y.writes[1])
    BY <2>2, StartedWrites
  <2>. HIDE DEF y
  <2>5. x.ring.size <= N /\ Unread(x.ring) = x.unsent
    BY DEF Sending
  <2>6. Len(y.writes) <= 1
    BY <2>4
  <2>7. WriteSide(y, r)
    BY <2>2, <2>3, <2>4, <2>5, <2>6 DEF WriteSide
  <2>. QED  BY <2>1, <2>3, <2>7
<1>. QED  BY <1>1, <1>2

(* WriteRaw on a connection. *)
LEMMA WriteRawSide ==
    ASSUME NEW x \in TxRecs, NEW kind \in FrameKinds, NEW t, t # NoTransport,
           NEW r \in BOOLEAN, WriteSide(x, r), ~WriteRaw(x, kind, t).threw
    PROVE  /\ WriteSide(WriteRaw(x, kind, t), r)
           /\ WriteRaw(x, kind, t).first = x.first
           /\ \A w : IsFront(x.ring, w) /\ w.n \in Nat => IsFront(WriteRaw(x, kind, t).ring, w)
<1>. DEFINE q == Queued(x, kind)
            y == WriteRaw(x, kind, t)
<1>1. q \in TxRecs /\ q.first = x.first
    BY QueuedFacts
<1>2. y = StartIfIdle(q, t)
    BY DEF WriteRaw
<1>. HIDE DEF q, y
<1>3. ~q.threw
    BY <1>2 DEF StartIfIdle, y
<1>4. Sending(x, r)
    BY SideIsSending
<1>5. Sending(q, r)
    BY <1>3, <1>4, QueuedSending DEF q
<1>6. WriteSide(y, r) /\ y.ring = q.ring /\ y.first = q.first
    BY <1>1, <1>2, <1>3, <1>5, StartIfIdleSide
<1>7. \A w : IsFront(x.ring, w) /\ w.n \in Nat => IsFront(q.ring, w)
    BY <1>3, <1>4, QueuedRing DEF q, Sending
<1>. QED  BY <1>1, <1>6, <1>7 DEF y

(* The login on a new connection: in an empty ring it is what goes out first;
   in a ring that is still being sent it waits. *)
LEMMA LoginSide ==
    ASSUME NEW x \in TxRecs, NEW t, t # NoTransport, x.writes = <<>>, x.first = "none",
           x.ring.size <= N, Unread(x.ring) = x.unsent, ~x.inFlight => x.ring.size = 0,
           ~WriteRaw(x, "login", t).threw
    PROVE  /\ WriteSide(WriteRaw(x, "login", t), FALSE)
           /\ ~x.inFlight => WriteRaw(x, "login", t).first = "login"
<1>. DEFINE q == Queued(x, "login")
            y == WriteRaw(x, "login", t)
<1>0. "login" \in FrameKinds
    BY DEF FrameKinds
<1>1. q \in TxRecs /\ q.first = x.first /\ q.inFlight = x.inFlight /\ q.writes = x.writes
    BY <1>0, QueuedFacts
<1>2. y = StartIfIdle(q, t)
    BY DEF WriteRaw
<1>. HIDE DEF y
<1>3. ~q.threw
    BY <1>2 DEF StartIfIdle, y
<1>4. q.ring.size <= N /\ q.ring.size > 0 /\ Unread(q.ring) = q.unsent
    BY <1>0, <1>3, QueuedRing
<1>5. CASE x.inFlight
  <2>1. y = q
    BY <1>1, <1>2, <1>5, Zenon DEF StartIfIdle
  <2>2. Len(q.writes) <= 1
    BY <1>1
  <2>3. WriteSide(q, FALSE)
    BY <1>1, <1>4, <1>5, <2>2, Zenon DEF WriteSide
  <2>. QED  BY <1>5, <2>1, <2>3, Zenon DEF y
<1>6. CASE ~x.inFlight
  <2>1. y = StartWrite(q, t)
    BY <1>1, <1>2, <1>3, <1>6 DEF StartIfIdle
  <2>2. q.ring \in RingBuffers /\ Readable(q.ring) > 0
    <3>1. q.ring \in RingBuffers
      BY <1>1 DEF TxRecs
    <3>2. q.ring.pos \in 0..(N - 1) /\ q.ring.size \in Nat
      BY <3>1, RingTypes
    <3>. QED  BY <1>4, <3>1, <3>2, RingSizes DEF Readable
  <2>3. q.ring.data[q.ring.pos][1] = "login"
    <3>1. x.ring \in RingBuffers /\ x.ring.size = 0
      BY <1>6 DEF TxRecs
    <3>2. Unread(x.ring) = <<>>
      <4>1. Unread(x.ring) \in Seq(Bytes) /\ Len(Unread(x.ring)) = 0
        BY <3>1, UnreadFacts
      <4>. QED  BY <4>1
    <3>3. q.unsent = x.unsent \o Frame("login")
      BY <1>0, <1>3, QueuedFacts
    <3>4. q.unsent = Frame("login")
      BY <3>2, <3>3, <1>0, FrameFacts
    <3>5. Unread(q.ring)[1] = <<"login", 1>>
      BY <1>0, <1>4, <3>4, FrameFacts
    <3>6. q.ring.pos \in 0..(N - 1) /\ q.ring.size \in Nat
      BY <2>2, RingTypes, Zenon
    <3>7. 1 \in 1..q.ring.size /\ (q.ring.pos + 1 - 1) % N = q.ring.pos
      BY <1>4, <3>6, RingSizes
    <3>8. Unread(q.ring)[1] = q.ring.data[q.ring.pos]
      BY <2>2, <3>7, UnreadFacts
    <3>. QED  BY <3>5, <3>8
  <2>. HIDE DEF q
  <2>4. /\ y.ring = q.ring /\ y.unsent = q.unsent /\ y.inFlight /\ y.first = "login"
    BY <1>1, <2>1, <2>2, <2>3, StartWriteFacts, ZenonT(30)
  <2>5. Len(y.writes) = 1 /\ y.writes # <<>> /\ IsFront(q.ring, y.writes[1])
    BY <1>1, <2>1, StartedWrites
  <2>6. Len(y.writes) <= 1
    BY <2>5
  <2>7. WriteSide(y, FALSE)
    BY <1>4, <2>4, <2>5, <2>6 DEF WriteSide
  <2>. QED  BY <2>4, <2>7, Zenon DEF y
<1>. QED  BY <1>5, <1>6, Zenon

-----------------------------------------------------------------------------
(* A write that has ended. *)

(* The bytes of a write that ended leave the ring. *)
LEMMA CommittedFacts ==
    ASSUME TypeOK, NEW h \in Handlers, h.op = "write"
    PROVE  /\ Committed(h) \in TxRecs
           /\ Committed(h).ring = CommitRead(ring, h.n)
           /\ Committed(h).unsent = IF h.of = transport THEN SubSeq(unsent, h.n + 1, Len(unsent)) ELSE unsent
           /\ Committed(h).inFlight = inFlight
           /\ Committed(h).writes = writes
           /\ Committed(h).first = first
           /\ ~Committed(h).threw
<1>1. h.n \in 0..N
    BY HandlerKinds
<1>2. h.n \in Int
    BY <1>1, RingSizes
<1>3. CommitRead(ring, h.n) \in RingBuffers
    BY <1>2, RingTypes, Zenon DEF TypeOK
<1>4. SubSeq(unsent, h.n + 1, Len(unsent)) \in Seq(Bytes)
  <2>1. unsent \in Seq(Bytes) /\ h.n + 1 \in Nat \ {0}
    BY <1>1, RingSizes DEF TypeOK
  <2>. QED  BY <2>1, SeqRest
<1>. DEFINE u == IF h.of = transport THEN SubSeq(unsent, h.n + 1, Len(unsent)) ELSE unsent
            y == Committed(h)
<1>5. u \in Seq(Bytes)
    BY <1>4 DEF TypeOK
<1>6. y = [Tx EXCEPT !.ring = CommitRead(Tx.ring, h.n),
                     !.unsent = IF h.of = transport THEN SubSeq(Tx.unsent, h.n + 1, Len(Tx.unsent))
                                ELSE Tx.unsent]
    BY DEF Committed
<1>7. y = [Tx EXCEPT !.ring = CommitRead(ring, h.n), !.unsent = u]
    BY <1>6, TxFacts, Zenon
<1>. HIDE DEF u, y
<1>8. y = [ring |-> CommitRead(ring, h.n), inFlight |-> inFlight, writes |-> writes, unsent |-> u,
           first |-> first, threw |-> FALSE]
    BY <1>7, Zenon DEF Tx
<1>9. y \in TxRecs
    BY <1>3, <1>5, <1>8 DEF TypeOK, TxRecs
<1>. QED  BY <1>8, <1>9 DEF u, y

(* on_write goes on with what is left in the ring, or clears the flag. *)
LEMMA NextWriteFacts ==
    ASSUME NEW x \in TxRecs
    PROVE  /\ NextWrite(x) \in TxRecs
           /\ NextWrite(x).threw = x.threw
           /\ NextWrite(x).ring = x.ring
           /\ NextWrite(x).unsent = x.unsent
           /\ x.ring.size > 0 => NextWrite(x) = StartWrite(x, transport)
           /\ ~(x.ring.size > 0) => /\ ~NextWrite(x).inFlight
                                    /\ NextWrite(x).writes = x.writes
                                    /\ NextWrite(x).first = x.first
           /\ transport = NoTransport => NextWrite(x).writes = x.writes
<1>1. CASE x.ring.size > 0
    BY <1>1, StartWriteFacts, Zenon DEF NextWrite
<1>2. CASE ~(x.ring.size > 0)
  <2>1. NextWrite(x) = [x EXCEPT !.inFlight = FALSE]
    BY <1>2 DEF NextWrite
  <2>. QED  BY <1>2, <2>1, Zenon DEF TxRecs
<1>. QED  BY <1>1, <1>2

(* What on_write does to the write side of a connection on which nothing else
   is under way. *)
LEMMA OnWriteSide ==
    ASSUME TypeOK, transport # NoTransport, NEW h \in Handlers, h.op = "write", h.of = transport,
           WriteSide(Tx, TRUE), IsFront(ring, h)
    PROVE  /\ SentInOrder(h)
           /\ WriteSide(NextWrite(Committed(h)), FALSE)
           /\ NextWrite(Committed(h)).first = first
<1>. DEFINE x == Committed(h)
            y == NextWrite(x)
<1>1. /\ x \in TxRecs /\ x.ring = CommitRead(ring, h.n)
      /\ x.unsent = SubSeq(unsent, h.n + 1, Len(unsent))
      /\ x.inFlight = inFlight /\ x.writes = writes /\ x.first = first /\ ~x.threw
    BY CommittedFacts, Zenon
<1>2. ring \in RingBuffers /\ unsent \in Seq(Bytes)
    BY DEF TypeOK
<1>3. /\ ring.size <= N /\ Unread(ring) = unsent /\ inFlight
      /\ writes = <<>> /\ first = "login"
    BY TxFacts DEF WriteSide
<1>4. h.n \in Nat /\ h.from = ring.pos /\ h.n <= Readable(ring)
  <2>1. h.n \in 0..N
    BY HandlerKinds
  <2>. QED  BY <2>1, RingSizes DEF IsFront
<1>5. h.n <= ring.size /\ Region(ring, h.from, h.n) = SubSeq(unsent, 1, h.n)
    BY <1>2, <1>3, <1>4, RegionFacts
<1>6. Len(unsent) = ring.size
    BY <1>2, <1>3, UnreadFacts
<1>7. SentInOrder(h)
    BY <1>5, <1>6 DEF SentInOrder
<1>8. x.ring \in RingBuffers /\ x.ring.size = ring.size - h.n /\ Unread(x.ring) = x.unsent
    BY <1>1, <1>2, <1>3, <1>4, <1>5, CommitFacts, Zenon
<1>9. x.ring.size <= N /\ x.ring.size \in Nat
  <2>1. ring.size \in Nat
    BY <1>2, RingTypes
  <2>. QED  BY <1>3, <1>4, <1>5, <1>8, <2>1, RingSizes
<1>. HIDE DEF x
<1>10. y.ring = x.ring /\ y.unsent = x.unsent
    BY <1>1, NextWriteFacts
<1>11. CASE x.ring.size > 0
  <2>1. y = StartWrite(x, transport)
    BY <1>1, <1>11, NextWriteFacts
  <2>. HIDE DEF y
  <2>2. y.inFlight /\ y.first = "login"
    <3>1. /\ StartWrite(x, transport).inFlight
          /\ StartWrite(x, transport).first = x.first
      BY <1>1, <1>3, StartWriteFacts, Zenon
    <3>. QED  BY <1>1, <1>3, <2>1, <3>1, Zenon
  <2>3. Len(y.writes) = 1 /\ y.writes # <<>> /\ IsFront(x.ring, y.writes[1])
    BY <1>1, <1>3, <2>1, StartedWrites
  <2>4. Len(y.writes) <= 1
    BY <2>3
  <2>5. WriteSide(y, FALSE)
    BY <1>8, <1>9, <1>10, <2>2, <2>3, <2>4, ZenonT(30) DEF WriteSide
  <2>. QED  BY <1>3, <1>7, <2>2, <2>5, ZenonT(30) DEF y, x
<1>12. CASE ~(x.ring.size > 0)
  <2>1. ~y.inFlight /\ y.writes = <<>> /\ y.first = "login"
    BY <1>1, <1>3, <1>12, NextWriteFacts, Zenon
  <2>2. x.ring.size = 0
    BY <1>9, <1>12
  <2>. HIDE DEF y
  <2>3. Len(y.writes) <= 1
    BY <2>1
  <2>4. WriteSide(y, FALSE)
    BY <1>8, <1>9, <1>10, <2>1, <2>2, <2>3 DEF WriteSide
  <2>. QED  BY <1>3, <1>7, <2>1, <2>4, ZenonT(30) DEF y, x
<1>. QED  BY <1>11, <1>12, Zenon

-----------------------------------------------------------------------------
(* The handlers. *)

(* How a handler may change the write side of a connection: by writing. *)
WritesTo(y) ==
    \A r \in BOOLEAN : WriteSide(Tx, r) =>
        /\ WriteSide(y, r)
        /\ y.first = first
        /\ \A w : IsFront(ring, w) /\ w.n \in Nat => IsFront(y.ring, w)

(* What writing keeps of a session, whatever becomes of the reads. *)
LEMMA WritesKeep ==
    ASSUME IInv, Session, transport # NoTransport, NEW y \in TxRecs, ~y.threw, TxDone(y), WritesTo(y)
    PROVE  /\ WriteSide(Tx', HandlerReady)
           /\ Unread(ring') = unsent'
           /\ first' = first
           /\ \A i \in DOMAIN ready : Of(i, {"write"}, transport) => IsFront(ring', ready[i])
<1>1. Tx' = y /\ ring' = y.ring /\ unsent' = y.unsent /\ first' = y.first
    BY TxNext DEF TxDone
<1>2. HandlerReady \in BOOLEAN
    BY DEF HandlerReady
<1>3. WriteSide(Tx, HandlerReady)
    BY DEF Session
<1>4. /\ WriteSide(y, HandlerReady) /\ y.first = first
      /\ \A w : IsFront(ring, w) /\ w.n \in Nat => IsFront(y.ring, w)
    BY <1>2, <1>3, Zenon DEF WritesTo
<1>5. Unread(y.ring) = y.unsent
    BY <1>4 DEF WriteSide
<1>6. ASSUME NEW i \in DOMAIN ready, Of(i, {"write"}, transport) PROVE IsFront(y.ring, ready[i])
  <2>1. ready[i] \in Handlers
    BY DEF IInv, TypeOK
  <2>2. ready[i].op = "write"
    BY <1>6 DEF Of
  <2>3. ready[i].n \in 0..N
    BY <2>1, <2>2, HandlerKinds
  <2>4. ready[i].n \in Nat
    BY <2>3, RingSizes
  <2>5. IsFront(ring, ready[i])
    BY <1>6 DEF Session, FrontReady
  <2>. QED  BY <1>4, <2>4, <2>5
<1>. QED  BY <1>1, <1>4, <1>5, <1>6

(* A handler that sends nothing leaves the write side as it was. *)
LEMMA WritesNothing ==
    ASSUME TypeOK
    PROVE  WritesTo(Tx)
    BY TxFacts DEF WritesTo

(* WriteRaw that does not throw keeps the write side in order, and without a
   connection starts no write. *)
LEMMA WritesOnce ==
    ASSUME TypeOK, NEW x \in TxRecs, NEW kind \in FrameKinds, ~WriteRaw(x, kind, transport).threw
    PROVE  /\ ~x.threw
           /\ transport = NoTransport => WriteRaw(x, kind, transport).writes = x.writes
           /\ transport # NoTransport /\ WritesTo(x) => WritesTo(WriteRaw(x, kind, transport))
<1>. DEFINE q == Queued(x, kind)
            y == WriteRaw(x, kind, transport)
<1>1. y = StartIfIdle(q, transport)
    BY DEF WriteRaw
<1>2. q \in TxRecs /\ q.writes = x.writes
    BY QueuedFacts
<1>. HIDE DEF y
<1>3. ~q.threw
    BY <1>1 DEF StartIfIdle, y
<1>4. ~x.threw
    BY <1>3, QueuedFacts
<1>5. transport = NoTransport => y.writes = x.writes
    BY <1>1, <1>2, StartWriteFacts, ZenonT(30) DEF StartIfIdle
<1>. HIDE DEF q
<1>6. ASSUME transport # NoTransport, WritesTo(x), NEW r \in BOOLEAN, WriteSide(Tx, r)
      PROVE  /\ WriteSide(y, r) /\ y.first = first
             /\ \A w : IsFront(ring, w) /\ w.n \in Nat => IsFront(y.ring, w)
  <2>1. /\ WriteSide(x, r) /\ x.first = first
        /\ \A w : IsFront(ring, w) /\ w.n \in Nat => IsFront(x.ring, w)
    BY <1>6, Zenon DEF WritesTo
  <2>2. /\ WriteSide(y, r) /\ y.first = x.first
        /\ \A w : IsFront(x.ring, w) /\ w.n \in Nat => IsFront(y.ring, w)
    BY <1>6, <2>1, WriteRawSide DEF y
  <2>. QED  BY <2>1, <2>2
<1>7. transport # NoTransport /\ WritesTo(x) => WritesTo(y)
    BY <1>6 DEF WritesTo
<1>. QED  BY <1>4, <1>5, <1>7 DEF y

(* The frame has been dealt with, y having been written, and the next read
   starts. *)
LEMMA ReadLoopStep ==
    ASSUME IInv, ready # <<>>, Head(ready).op = "read", ReadLoop,
           NEW y \in TxRecs, ~y.threw, TxDone(y),
           transport = NoTransport => y.writes = writes,
           transport # NoTransport => WritesTo(y),
           authenticated' \in BOOLEAN, fragments' \in Seq(Fragments), whole' \in BOOLEAN,
           sends' \in Nat
    PROVE  IInv'
<1>0. /\ ready' = Tail(ready)
      /\ reading' = IF transport = NoTransport THEN reading ELSE reading + 1
      /\ stale' = Stale
      /\ UNCHANGED <<status, transport, reconnectTimer, heartbeatTimer, midMessage, intact, faults,
                     arrivals, beats, early>>
    BY DEF ReadLoop
<1>1. /\ Tx' = y /\ ring' \in RingBuffers /\ inFlight' \in BOOLEAN
      /\ writes' \in Seq(WriteRegions) /\ unsent' \in Seq(Bytes)
      /\ first' \in FrameKinds \cup {"none"} /\ writes' = y.writes
    BY TxNext DEF TxDone
<1>2. TypeOK /\ NothingPending /\ ReconnectInOrder
    BY DEF IInv
<1>3. /\ ready' \in Seq(Handlers)
      /\ HandlersHaveOne => HandlersHaveOne'
      /\ OneHandler => OneHandler'
      /\ ~Of(1, WriteOps, transport) => (HandlerReady' <=> HandlerReady)
      /\ ReconnectInOrder'
    BY <1>0, <1>2, TailKeeps
<1>4. /\ 1 \in DOMAIN ready /\ Head(ready) = ready[1]
      /\ \A i \in DOMAIN ready' : i + 1 # 1 /\ i + 1 \in DOMAIN ready /\ ready'[i] = ready[i + 1]
    BY <1>0, <1>2, TailFacts DEF TypeOK
<1>5. TypeOK'
  <2>1. reading \in Nat
    BY <1>2, Zenon DEF TypeOK
  <2>2. reading' = IF transport = NoTransport THEN reading ELSE reading + 1
    BY <1>0, Zenon
  <2>3. reading' \in Nat
    BY <2>1, <2>2
  <2>4. stale' = Stale
    BY <1>0, Zenon
  <2>5. stale \in BOOLEAN
    BY <1>2, Zenon DEF TypeOK
  <2>6. stale' \in BOOLEAN
    BY <2>4, <2>5 DEF Stale
  <2>. QED  BY <1>0, <1>1, <1>2, <1>3, <2>3, <2>6, Zenon DEF TypeOK
<1>6. NothingPending'
    BY <1>0, <1>1, <1>2 DEF NothingPending
<1>7. ASSUME ~stale' PROVE Session'
  <2>1. Session /\ Head(ready).of = transport /\ transport # NoTransport
    BY <1>0, <1>7, OnItsConnection
  <2>2. Of(1, ReadOps, transport) /\ ~Of(1, WriteOps, transport)
    BY <1>4, <2>1 DEF Of, ReadOps, WriteOps
  <2>3. /\ WriteSide(Tx', HandlerReady) /\ Unread(ring') = unsent' /\ first' = first
        /\ \A i \in DOMAIN ready : Of(i, {"write"}, transport) => IsFront(ring', ready[i])
    BY <2>1, WritesKeep
  <2>4. (HandlerReady' <=> HandlerReady) /\ HandlersHaveOne' /\ OneHandler'
    BY <1>3, <2>1, <2>2 DEF Session
  <2>5. WriteSide(Tx', HandlerReady')
    BY <2>3, <2>4 DEF WriteSide
  <2>6. OneRead'
    <3>1. reading = 0 /\ \A j \in DOMAIN ready : Of(j, ReadOps, transport) => 1 = j
      BY <1>4, <2>1, <2>2 DEF Session, OneRead
    <3>2. reading' <= 1
      BY <1>0, <2>1, <3>1
    <3>3. \A i \in DOMAIN ready' : ~Of(i, ReadOps, transport)'
      BY <1>0, <1>4, <3>1 DEF Of
    <3>. QED  BY <3>2, <3>3 DEF OneRead
  <2>7. FrontReady'
    BY <1>0, <1>4, <2>3 DEF FrontReady, Of
  <2>8. Disconnected' /\ intact'
    BY <1>0, <2>1 DEF Disconnected, Session
  <2>9. early' = 0 => first' = "login"
    BY <1>0, <2>1, <2>3 DEF Session
  <2>. QED  BY <2>3, <2>4, <2>5, <2>6, <2>7, <2>8, <2>9 DEF Session
<1>. QED  BY <1>3, <1>5, <1>6, <1>7 DEF IInv

(* HandleFrame of a ping or a pong keeps the invariant. *)
LEMMA OnControlFrameStep ==
    ASSUME IInv, OnControlFrame
    PROVE  IInv'
<1>. DEFINE x == IF Head(ready).frame = "ping" THEN WriteRaw(Tx, "pong", transport) ELSE Tx
<1>1. TypeOK /\ ready # <<>> /\ Head(ready).op = "read"
    BY DEF OnControlFrame, Runs, IInv
<1>2. "pong" \in FrameKinds /\ Tx \in TxRecs /\ ~Tx.threw /\ Tx.writes = writes
    BY <1>1, TxFacts DEF FrameKinds
<1>3. x \in TxRecs
    BY <1>2, WriteRawType
<1>4. CASE x.threw
    BY <1>4, ThrowStep DEF OnControlFrame
<1>5. CASE ~x.threw
  <2>1. /\ transport = NoTransport => x.writes = writes
        /\ transport # NoTransport => WritesTo(x)
    BY <1>1, <1>2, <1>5, WritesNothing, WritesOnce
  <2>2. TxDone(x) /\ ReadLoop /\ UNCHANGED <<authenticated, fragments, whole, sends>>
    BY <1>5 DEF OnControlFrame
  <2>3. /\ authenticated' \in BOOLEAN /\ fragments' \in Seq(Fragments) /\ whole' \in BOOLEAN
        /\ sends' \in Nat
    BY <1>1, <2>2 DEF TypeOK
  <2>. HIDE DEF x
  <2>. QED  BY <1>1, <1>3, <1>5, <2>1, <2>2, <2>3, ReadLoopStep
<1>. QED  BY <1>4, <1>5

(* A message has been dispatched, whole or put together. *)
LEMMA DispatchStep ==
    ASSUME IInv, ready # <<>>, Head(ready).op = "read", NEW frame, Dispatch(frame),
           Running' => fragments' \in Seq(Fragments) /\ whole' \in BOOLEAN,
           ~Running' => UNCHANGED <<fragments, whole>>
    PROVE  IInv'
<1>1. TypeOK
    BY DEF IInv
<1>2. /\ "subscribe" \in FrameKinds /\ "order" \in FrameKinds
      /\ Tx \in TxRecs /\ ~Tx.threw /\ Tx.writes = writes
    BY <1>1, TxFacts DEF FrameKinds
<1>. DEFINE told == IF frame = "loginOk" THEN WriteRaw(Tx, "subscribe", transport) ELSE Tx
            X(n) == IF n = 1 THEN WriteRaw(told, "order", transport) ELSE told
<1>3. PICK n \in 0..1 :
          IF X(n).threw
          THEN Throw("overflow")
          ELSE /\ TxDone(X(n))
               /\ sends' = sends + n
               /\ authenticated' = (authenticated \/ frame = "loginOk")
               /\ ReadLoop
    BY DEF Dispatch
<1>4. told \in TxRecs
    BY <1>2, WriteRawType
<1>5. ~told.threw => /\ transport = NoTransport => told.writes = writes
                     /\ transport # NoTransport => WritesTo(told)
    BY <1>1, <1>2, WritesNothing, WritesOnce
<1>. HIDE DEF told
<1>6. X(n) \in TxRecs
    BY <1>2, <1>4, WriteRawType
<1>7. ~X(n).threw => /\ transport = NoTransport => X(n).writes = writes
                     /\ transport # NoTransport => WritesTo(X(n))
    BY <1>1, <1>2, <1>4, <1>5, WritesOnce
<1>. HIDE DEF X
<1>8. CASE X(n).threw
    BY <1>3, <1>8, ThrowStep
<1>9. CASE ~X(n).threw
  <2>1. /\ TxDone(X(n)) /\ sends' = sends + n /\ ReadLoop
        /\ authenticated' = (authenticated \/ frame = "loginOk")
    BY <1>3, <1>9
  <2>2. sends' \in Nat /\ authenticated' \in BOOLEAN
    BY <1>1, <2>1 DEF TypeOK
  <2>3. fragments' \in Seq(Fragments) /\ whole' \in BOOLEAN
    BY <1>1 DEF TypeOK
  <2>. QED  BY <1>6, <1>7, <1>9, <2>1, <2>2, <2>3, ReadLoopStep
<1>. QED  BY <1>8, <1>9

(* HandleFrame of a whole message, with what the engine sends in answer, keeps the
   invariant. *)
LEMMA OnWholeMessageStep ==
    ASSUME IInv, OnWholeMessage
    PROVE  IInv'
<1>1. ready # <<>> /\ Head(ready).op = "read" /\ UNCHANGED <<fragments, whole>>
    BY DEF OnWholeMessage, Runs
<1>2. Dispatch(Head(ready).frame)
    BY DEF OnWholeMessage
<1>3. fragments' \in Seq(Fragments) /\ whole' \in BOOLEAN
    BY <1>1 DEF IInv, TypeOK
<1>. QED  BY <1>1, <1>2, <1>3, DispatchStep

(* One more fragment. *)
LEMMA ReassembledType ==
    ASSUME TypeOK, ready # <<>>, Head(ready).op = "read"
    PROVE  Reassembled \in Seq(Fragments)
<1>1. Head(ready) \in Handlers
    BY TailFacts DEF TypeOK
<1>2. Head(ready).of \in Connections /\ Head(ready).frame \in Arrivals
    BY <1>1, HandlerKinds
<1>3. [of |-> Head(ready).of, part |-> Head(ready).frame] \in Fragments
    BY <1>2 DEF Fragments
<1>. QED  BY <1>3 DEF Reassembled, TypeOK

(* HandleFrame of a fragment that is not the last keeps the invariant. *)
LEMMA OnFragmentStep ==
    ASSUME IInv, OnFragment
    PROVE  IInv'
<1>1. TypeOK /\ ready # <<>> /\ Head(ready).op = "read"
    BY DEF OnFragment, Runs, IInv
<1>2. CASE ~Fits
    BY <1>2, ThrowStep DEF OnFragment
<1>3. CASE Fits
  <2>1. /\ fragments' = Reassembled /\ ReadLoop
        /\ UNCHANGED <<authenticated, ring, inFlight, writes, unsent, first, whole, sends>>
    BY <1>3 DEF OnFragment
  <2>2. Tx \in TxRecs /\ ~Tx.threw /\ Tx.writes = writes /\ WritesTo(Tx)
    BY <1>1, TxFacts, WritesNothing
  <2>3. TxDone(Tx)
    BY <1>1, <2>1, TxFacts DEF TxDone
  <2>4. /\ authenticated' \in BOOLEAN /\ fragments' \in Seq(Fragments) /\ whole' \in BOOLEAN
        /\ sends' \in Nat
    BY <1>1, <2>1, ReassembledType DEF TypeOK
  <2>. QED  BY <1>1, <2>1, <2>2, <2>3, <2>4, ReadLoopStep
<1>. QED  BY <1>2, <1>3

(* HandleFrame of the last fragment, which is dispatched, keeps the invariant. *)
LEMMA OnLastFragmentStep ==
    ASSUME IInv, OnLastFragment
    PROVE  IInv'
<1>1. TypeOK /\ ready # <<>> /\ Head(ready).op = "read"
    BY DEF OnLastFragment, Runs, IInv
<1>2. CASE ~Fits
    BY <1>2, ThrowStep DEF OnLastFragment
<1>3. CASE Fits
  <2>1. /\ Dispatch("message")
        /\ fragments' = IF Running' THEN <<>> ELSE fragments
        /\ whole' = IF Running' THEN whole /\ OneMessage(Reassembled) ELSE whole
    BY <1>3 DEF OnLastFragment
  <2>2. (whole /\ OneMessage(Reassembled)) \in BOOLEAN
    BY <1>1 DEF OneMessage, TypeOK
  <2>3. Running' => fragments' \in Seq(Fragments) /\ whole' \in BOOLEAN
    BY <2>1, <2>2
  <2>4. ~Running' => UNCHANGED <<fragments, whole>>
    BY <2>1
  <2>. QED  BY <1>1, <2>1, <2>3, <2>4, DispatchStep
<1>. QED  BY <1>2, <1>3

(* on_write keeps the invariant: what it commits is what was sent, and if bytes
   are left the next write begins with them. *)
LEMMA OnWriteStep ==
    ASSUME IInv, OnWrite
    PROVE  IInv'
<1>. DEFINE h == Head(ready)
            y == NextWrite(Committed(h))
<1>0. /\ TxDone(y) /\ intact' = (intact /\ SentInOrder(h)) /\ stale' = Stale
      /\ ready' = Tail(ready) /\ ready # <<>> /\ h.op = "write"
      /\ UNCHANGED <<status, transport, authenticated, fragments, reading, reconnectTimer,
                     heartbeatTimer, midMessage, whole, faults, sends, arrivals, beats, early>>
    BY DEF OnWrite, Runs, boundVars
<1>1. TypeOK /\ NothingPending /\ ReconnectInOrder
    BY DEF IInv
<1>2. /\ 1 \in DOMAIN ready /\ h = ready[1] /\ h \in Handlers
      /\ \A i \in DOMAIN ready' : i + 1 # 1 /\ i + 1 \in DOMAIN ready /\ ready'[i] = ready[i + 1]
    BY <1>0, <1>1, TailFacts, Zenon DEF TypeOK
<1>. HIDE DEF h
<1>3. /\ Committed(h) \in TxRecs /\ Committed(h).writes = writes /\ ~Committed(h).threw
    BY <1>0, <1>1, <1>2, CommittedFacts
<1>4. y \in TxRecs /\ ~y.threw /\ (transport = NoTransport => y.writes = writes)
    BY <1>3, NextWriteFacts
<1>. HIDE DEF y
<1>5. /\ Tx' = y /\ ring' \in RingBuffers /\ inFlight' \in BOOLEAN
      /\ writes' \in Seq(WriteRegions) /\ unsent' \in Seq(Bytes)
      /\ first' \in FrameKinds \cup {"none"}
      /\ writes' = y.writes /\ ring' = y.ring /\ unsent' = y.unsent /\ first' = y.first
    BY <1>0, <1>4, TxNext DEF TxDone
<1>6. /\ ready' \in Seq(Handlers)
      /\ HandlersHaveOne => HandlersHaveOne'
      /\ OneHandler => OneHandler'
      /\ OneRead /\ UNCHANGED reading => OneRead'
      /\ OneHandler /\ Of(1, WriteOps, transport) => ~HandlerReady'
      /\ ReconnectInOrder'
    BY <1>0, <1>1, TailKeeps, Zenon
<1>7. TypeOK'
  <2>1. intact' \in BOOLEAN /\ stale' \in BOOLEAN
    BY <1>0, <1>1 DEF TypeOK, Stale, SentInOrder
  <2>. QED  BY <1>0, <1>1, <1>5, <1>6, <2>1, Zenon DEF TypeOK
<1>8. NothingPending'
    BY <1>0, <1>1, <1>4, <1>5, ZenonT(30) DEF NothingPending
<1>9. ASSUME ~stale' PROVE Session'
  <2>1. Session /\ h.of = transport /\ transport # NoTransport
    BY <1>0, <1>9, OnItsConnection, ZenonT(30) DEF h
  <2>2. Of(1, WriteOps, transport) /\ Of(1, {"write"}, transport)
    BY <1>0, <1>2, <2>1 DEF Of, WriteOps
  <2>3. HandlerReady
    BY <1>2, <2>2 DEF HandlerReady
  <2>4. WriteSide(Tx, TRUE)
    BY <2>1, <2>3 DEF Session, WriteSide
  <2>5. IsFront(ring, h)
    BY <1>2, <2>1, <2>2 DEF Session, FrontReady
  <2>6. SentInOrder(h) /\ WriteSide(y, FALSE) /\ y.first = first
    BY <1>0, <1>1, <1>2, <2>1, <2>4, <2>5, OnWriteSide, Zenon DEF y
  <2>7. ~HandlerReady' /\ HandlersHaveOne' /\ OneHandler'
    BY <1>6, <2>1, <2>2, Zenon DEF Session
  <2>8. WriteSide(Tx', HandlerReady')
    BY <1>5, <2>6, <2>7 DEF WriteSide
  <2>9. Unread(ring') = unsent'
    BY <1>5, <2>6 DEF WriteSide
  <2>10. OneRead'
    BY <1>0, <1>6, <2>1 DEF Session
  <2>11. FrontReady'
    <3>1. \A i \in DOMAIN ready' : ~Of(i, WriteOps, transport)'
      BY <2>7 DEF HandlerReady
    <3>. QED  BY <3>1 DEF FrontReady, Of, WriteOps
  <2>12. Disconnected' /\ intact'
    BY <1>0, <2>1, <2>6, ZenonT(30) DEF Disconnected, Session
  <2>13. early' = 0 => first' = "login"
    BY <1>0, <1>5, <2>1, <2>6 DEF Session
  <2>. QED  BY <2>7, <2>8, <2>9, <2>10, <2>11, <2>12, <2>13 DEF Session
<1>. QED  BY <1>6, <1>7, <1>8, <1>9 DEF IInv

(* The heartbeat handler, which sends a ping and arms its timer, keeps the
   invariant. *)
LEMMA OnHeartbeatStep ==
    ASSUME IInv, OnHeartbeat
    PROVE  IInv'
<1>. DEFINE y == WriteRaw(Tx, "ping", transport)
<1>1. TypeOK /\ NothingPending /\ ReconnectInOrder /\ ready # <<>> /\ Head(ready).op = "heartbeat"
    BY DEF IInv, OnHeartbeat, Runs
<1>2. "ping" \in FrameKinds /\ Tx \in TxRecs /\ Tx.writes = writes
    BY <1>1, TxFacts DEF FrameKinds
<1>3. y \in TxRecs
    BY <1>2, WriteRawType
<1>4. CASE y.threw
    BY <1>4, ThrowStep DEF OnHeartbeat
<1>5. CASE ~y.threw
  <2>0. /\ TxDone(y) /\ heartbeatTimer' = TRUE /\ stale' = Stale /\ ready' = Tail(ready)
        /\ UNCHANGED <<status, transport, authenticated, fragments, reading, reconnectTimer,
                       midMessage, intact, whole, faults, sends, arrivals, beats, early>>
    BY <1>5 DEF OnHeartbeat, boundVars
  <2>1. /\ transport = NoTransport => y.writes = writes
        /\ transport # NoTransport => WritesTo(y)
    BY <1>1, <1>2, <1>5, WritesNothing, WritesOnce
  <2>. HIDE DEF y
  <2>2. /\ Tx' = y /\ ring' \in RingBuffers /\ inFlight' \in BOOLEAN
        /\ writes' \in Seq(WriteRegions) /\ unsent' \in Seq(Bytes)
        /\ first' \in FrameKinds \cup {"none"} /\ writes' = y.writes
    BY <1>3, <1>5, <2>0, TxNext DEF TxDone
  <2>3. /\ ready' \in Seq(Handlers)
        /\ HandlersHaveOne => HandlersHaveOne'
        /\ OneHandler => OneHandler'
        /\ OneRead /\ UNCHANGED reading => OneRead'
        /\ ~Of(1, WriteOps, transport) => (HandlerReady' <=> HandlerReady)
        /\ ReconnectInOrder'
    BY <1>1, <2>0, TailKeeps
  <2>4. /\ 1 \in DOMAIN ready /\ Head(ready) = ready[1]
        /\ \A i \in DOMAIN ready' : i + 1 # 1 /\ i + 1 \in DOMAIN ready /\ ready'[i] = ready[i + 1]
    BY <1>1, <2>0, TailFacts, Zenon DEF TypeOK
  <2>5. TypeOK'
    <3>1. stale' \in BOOLEAN
      BY <1>1, <2>0 DEF TypeOK, Stale
    <3>. QED  BY <1>1, <2>0, <2>2, <2>3, <3>1 DEF TypeOK
  <2>6. NothingPending'
    BY <1>1, <2>0, <2>1, <2>2 DEF NothingPending
  <2>7. ASSUME ~stale' PROVE Session'
    <3>1. Session /\ Head(ready).of = transport /\ transport # NoTransport
      BY <1>1, <2>0, <2>7, OnItsConnection
    <3>2. ~Of(1, WriteOps, transport)
      BY <1>1, <2>4 DEF Of, WriteOps
    <3>3. /\ WriteSide(Tx', HandlerReady) /\ Unread(ring') = unsent' /\ first' = first
          /\ \A i \in DOMAIN ready : Of(i, {"write"}, transport) => IsFront(ring', ready[i])
      BY <1>3, <1>5, <2>0, <2>1, <3>1, WritesKeep
    <3>4. (HandlerReady' <=> HandlerReady) /\ HandlersHaveOne' /\ OneHandler'
      BY <2>3, <3>1, <3>2, Zenon DEF Session
    <3>5. WriteSide(Tx', HandlerReady')
      BY <3>3, <3>4 DEF WriteSide
    <3>6. OneRead'
      BY <2>0, <2>3, <3>1, Zenon DEF Session
    <3>7. FrontReady'
      BY <2>0, <2>4, <3>3 DEF FrontReady, Of
    <3>8. Disconnected' /\ intact'
      BY <2>0, <3>1 DEF Disconnected, Session
    <3>9. early' = 0 => first' = "login"
      BY <2>0, <3>1, <3>3, Zenon DEF Session
    <3>. QED  BY <3>3, <3>4, <3>5, <3>6, <3>7, <3>8, <3>9, Zenon DEF Session
  <2>. QED  BY <2>3, <2>5, <2>6, <2>7 DEF IInv
<1>. QED  BY <1>4, <1>5

(* A batch, between BeginBatch and EndBatch. *)
Batching(x) ==
    \A r \in BOOLEAN : WriteSide(Tx, r) =>
        /\ Sending(x, r)
        /\ x.first = first
        /\ \A w : IsFront(ring, w) /\ w.n \in Nat => IsFront(x.ring, w)

(* BeginBatch finds the write side in order. *)
LEMMA BatchBegins ==
    ASSUME TypeOK
    PROVE  Batching(Tx)
    BY TxFacts, SideIsSending DEF Batching

(* A frame queued within a batch leaves the write side fit for the next one. *)
LEMMA BatchGrows ==
    ASSUME TypeOK, NEW x \in TxRecs, NEW kind \in FrameKinds, ~Queued(x, kind).threw, Batching(x)
    PROVE  Batching(Queued(x, kind))
<1>. DEFINE q == Queued(x, kind)
<1>1. ASSUME NEW r \in BOOLEAN, WriteSide(Tx, r)
      PROVE  /\ Sending(q, r) /\ q.first = first
             /\ \A w : IsFront(ring, w) /\ w.n \in Nat => IsFront(q.ring, w)
  <2>1. /\ Sending(x, r) /\ x.first = first
        /\ \A w : IsFront(ring, w) /\ w.n \in Nat => IsFront(x.ring, w)
    BY <1>1, Zenon DEF Batching
  <2>2. Sending(q, r)
    BY <2>1, QueuedSending
  <2>3. q.first = x.first
    BY QueuedFacts
  <2>4. \A w : IsFront(x.ring, w) /\ w.n \in Nat => IsFront(q.ring, w)
    BY <2>1, QueuedRing, ZenonT(30) DEF Sending
  <2>. HIDE DEF q
  <2>. QED  BY <2>1, <2>2, <2>3, <2>4
<1>. HIDE DEF q
<1>2. Batching(q)
    BY <1>1 DEF Batching
<1>. QED  BY <1>2 DEF q

(* EndBatch starts a write unless one is in flight, and the write side is in order
   again. *)
LEMMA BatchEnds ==
    ASSUME TypeOK, transport # NoTransport, NEW x \in TxRecs, ~x.threw, Batching(x)
    PROVE  WritesTo(StartIfIdle(x, transport))
<1>. DEFINE y == StartIfIdle(x, transport)
<1>1. ASSUME NEW r \in BOOLEAN, WriteSide(Tx, r)
      PROVE  /\ WriteSide(y, r) /\ y.first = first
             /\ \A w : IsFront(ring, w) /\ w.n \in Nat => IsFront(y.ring, w)
  <2>1. /\ Sending(x, r) /\ x.first = first
        /\ \A w : IsFront(ring, w) /\ w.n \in Nat => IsFront(x.ring, w)
    BY <1>1, Zenon DEF Batching
  <2>2. WriteSide(y, r) /\ y.ring = x.ring /\ y.first = x.first
    BY <2>1, StartIfIdleSide, Zenon
  <2>. HIDE DEF y
  <2>. QED  BY <2>1, <2>2
<1>. HIDE DEF y
<1>2. WritesTo(y)
    BY <1>1 DEF WritesTo
<1>. QED  BY <1>2 DEF y

(* A batch of the quoter keeps the invariant. *)
LEMMA EngineSendsStep ==
    ASSUME IInv, EngineSends
    PROVE  IInv'
<1>1. TypeOK /\ NothingPending /\ ReconnectInOrder /\ authenticated
    BY DEF IInv, EngineSends
<1>2. "order" \in FrameKinds /\ Tx \in TxRecs /\ ~Tx.threw /\ Tx.writes = writes /\ Batching(Tx)
    BY <1>1, TxFacts, BatchBegins DEF FrameKinds
<1>. DEFINE One(n) == IF n >= 1 THEN Queued(Tx, "order") ELSE Tx
            Two(n) == IF n = 2 THEN Queued(One(n), "order") ELSE One(n)
            X(n) == StartIfIdle(Two(n), transport)
<1>3. PICK n \in 0..2 :
          IF X(n).threw
          THEN Throw("overflow")
          ELSE /\ TxDone(X(n))
               /\ sends' = sends + n
               /\ UNCHANGED <<status, transport, authenticated, fragments, reading,
                              reconnectTimer, heartbeatTimer, ready, midMessage, intact,
                              whole, stale, faults, arrivals, beats, early>>
    BY ZenonT(30) DEF EngineSends
<1>4. One(n) \in TxRecs /\ One(n).writes = writes /\ (~One(n).threw => Batching(One(n)))
    BY <1>1, <1>2, QueuedFacts, BatchGrows, Zenon
<1>. HIDE DEF One
<1>5. Two(n) \in TxRecs /\ Two(n).writes = writes /\ (~Two(n).threw => Batching(Two(n)))
    BY <1>1, <1>2, <1>4, QueuedFacts, BatchGrows
<1>. HIDE DEF Two
<1>6. X(n) \in TxRecs /\ (transport = NoTransport => X(n).writes = writes)
    BY <1>5, StartWriteFacts, Zenon DEF StartIfIdle
<1>7. ~X(n).threw => ~Two(n).threw
    BY Zenon DEF StartIfIdle
<1>8. ~X(n).threw /\ transport # NoTransport => WritesTo(X(n))
    BY <1>1, <1>5, <1>7, BatchEnds, Zenon
<1>. HIDE DEF X
<1>9. CASE X(n).threw
    BY <1>3, <1>9, ThrowStep
<1>10. CASE ~X(n).threw
  <2>0. /\ TxDone(X(n)) /\ sends' = sends + n
        /\ UNCHANGED <<status, transport, authenticated, fragments, reading, reconnectTimer,
                       heartbeatTimer, ready, midMessage, intact, whole, stale, faults, arrivals,
                       beats, early>>
    BY <1>3, <1>10, Zenon
  <2>1. /\ Tx' = X(n) /\ ring' \in RingBuffers /\ inFlight' \in BOOLEAN
        /\ writes' \in Seq(WriteRegions) /\ unsent' \in Seq(Bytes)
        /\ first' \in FrameKinds \cup {"none"} /\ writes' = X(n).writes
    BY <1>6, <1>10, <2>0, TxNext, Zenon DEF TxDone
  <2>2. TypeOK'
    <3>1. sends \in Nat /\ {faults, arrivals, beats, early} \subseteq Nat
      BY <1>1, Zenon DEF TypeOK
    <3>2. sends' = sends + n
      BY <2>0, Zenon
    <3>3. sends' \in Nat
      BY <3>1, <3>2
    <3>4. {faults, sends, arrivals, beats, early}' \subseteq Nat
      BY <2>0, <3>1, <3>3, Zenon
    <3>. QED  BY <1>1, <2>0, <2>1, <3>4, Zenon DEF TypeOK
  <2>3. NothingPending' /\ ReconnectInOrder'
    <3>1. UNCHANGED <<transport, reading, reconnectTimer, ready, early>>
      BY <2>0, Zenon
    <3>2. transport = NoTransport => writes' = writes
      BY <1>6, <2>1, Zenon
    <3>. QED  BY <1>1, <3>1, <3>2, Zenon DEF NothingPending, ReconnectInOrder
  <2>4. ASSUME ~stale' PROVE Session'
    <3>1. Session
      BY <2>0, <2>4 DEF IInv
    <3>2. transport # NoTransport
      BY <1>1, <3>1 DEF Session, Disconnected
    <3>3. /\ WriteSide(Tx', HandlerReady) /\ Unread(ring') = unsent' /\ first' = first
          /\ \A i \in DOMAIN ready : Of(i, {"write"}, transport) => IsFront(ring', ready[i])
      BY <1>6, <1>8, <1>10, <2>0, <3>1, <3>2, WritesKeep, ZenonT(30)
    <3>4. (HandlerReady' <=> HandlerReady) /\ HandlersHaveOne' /\ OneHandler' /\ OneRead'
      BY <2>0, <3>1, ZenonT(30) DEF Session, HandlerReady, HandlersHaveOne, OneHandler, OneRead, Of
    <3>5. WriteSide(Tx', HandlerReady')
      BY <3>3, <3>4, ZenonT(30) DEF WriteSide
    <3>6. FrontReady'
      BY <2>0, <3>3, ZenonT(30) DEF FrontReady, Of
    <3>7. Disconnected' /\ intact'
      BY <2>0, <3>1, <3>2 DEF Disconnected, Session
    <3>8. early' = 0 => first' = "login"
      BY <2>0, <3>1, <3>2, <3>3 DEF Session
    <3>. QED  BY <3>3, <3>4, <3>5, <3>6, <3>7, <3>8 DEF Session
  <2>. QED  BY <2>2, <2>3, <2>4, Zenon DEF IInv
<1>. QED  BY <1>9, <1>10, Zenon

(* Connect keeps the invariant: the login is the first thing written on a
   connection that has nothing pending. *)
LEMMA ConnectStep ==
    ASSUME IInv, Connect
    PROVE  IInv'
<1>. DEFINE c == CHOOSE n \in Unused : TRUE
            new == [Tx EXCEPT !.writes = <<>>, !.first = "none"]
            x == WriteRaw(new, "login", c)
            later == Tail(ready) \o Aborted
<1>0. /\ Runs("connect") /\ ready # <<>>
      /\ IF x.threw
         THEN ScheduleReconnect(later)
         ELSE /\ transport' = c /\ authenticated' = FALSE /\ TxDone(x) /\ heartbeatTimer' = TRUE
              /\ reading' = 1 /\ ready' = later /\ UNCHANGED reconnectTimer
      /\ midMessage' = FALSE
      /\ UNCHANGED <<status, fragments, intact, whole, stale, faults, sends, arrivals, beats, early>>
    BY DEF Connect, Runs
<1>1. TypeOK /\ NothingPending /\ ReconnectInOrder
    BY DEF IInv
<1>2. /\ c \in 1..MaxConnections /\ c # NoTransport /\ c # transport
      /\ \A i \in DOMAIN ready : ready[i].of # c
  <2>1. c \in Unused
    BY DEF Connect
  <2>. HIDE DEF c
  <2>2. /\ c \in 1..MaxConnections /\ c # transport
        /\ \A i \in DOMAIN ready : ready[i].of # c
    BY <2>1, Zenon DEF Unused
  <2>3. MaxConnections \in Nat
    BY ClientAssumption, Zenon
  <2>4. c # NoTransport
    BY <2>2, <2>3 DEF NoTransport
  <2>. QED  BY <2>2, <2>4, Zenon
<1>. HIDE DEF c
<1>3. new = [ring |-> ring, inFlight |-> inFlight, writes |-> <<>>, unsent |-> unsent,
             first |-> "none", threw |-> FALSE]
  <2>1. new = [Tx EXCEPT !.writes = <<>>, !.first = "none"]
    OBVIOUS
  <2>. HIDE DEF new
  <2>. QED  BY <2>1, Zenon DEF Tx
<1>. HIDE DEF new
<1>4. /\ new \in TxRecs /\ new.ring = ring /\ new.inFlight = inFlight /\ new.writes = <<>>
      /\ new.unsent = unsent /\ new.first = "none"
  <2>1. <<>> \in Seq(WriteRegions)
    OBVIOUS
  <2>. QED  BY <1>1, <1>3, <2>1, Zenon DEF TxRecs, TypeOK
<1>5. x \in TxRecs
  <2>1. "login" \in FrameKinds
    BY Zenon DEF FrameKinds
  <2>. QED  BY <1>4, <2>1, WriteRawType
<1>6. CASE x.threw
  <2>1. ScheduleReconnect(later)
    BY <1>0, <1>6
  <2>2. OtherTypes'
    BY <1>0, <1>1, Zenon DEF TypeOK, OtherTypes
  <2>3. early = 0 => \A i \in DOMAIN ready : i # 1 => ready[i].op # "connect"
    BY <1>0, ConnectAlone, Zenon
  <2>. QED  BY <1>0, <2>1, <2>2, <2>3, GiveUpStep, Zenon
<1>7. CASE ~x.threw
  <2>0. /\ transport' = c /\ authenticated' = FALSE /\ TxDone(x) /\ heartbeatTimer' = TRUE
        /\ reading' = 1 /\ ready' = later /\ UNCHANGED reconnectTimer
    BY <1>0, <1>7
  <2>1. /\ ready' \in Seq(Handlers)
        /\ \A i \in DOMAIN ready' :
              \/ \E j \in DOMAIN ready : j # 1 /\ ready'[i] = ready[j]
              \/ /\ ready'[i].op \in Failures
                 /\ ready'[i].of = transport
                 /\ transport # NoTransport
    BY <1>0, <1>1, <2>0, LaterFacts, ZenonT(30)
  <2>. HIDE DEF later
  <2>2. /\ Tx' = x /\ ring' \in RingBuffers /\ inFlight' \in BOOLEAN
        /\ writes' \in Seq(WriteRegions) /\ unsent' \in Seq(Bytes)
        /\ first' \in FrameKinds \cup {"none"} /\ ring' = x.ring /\ unsent' = x.unsent
        /\ first' = x.first
    BY <1>5, <1>7, <2>0, TxNext DEF TxDone
  <2>3. TypeOK'
    <3>1. transport' \in Connections
      <4>1. c \in 1..MaxConnections /\ MaxConnections \in Nat
        BY <1>2, ClientAssumption, Zenon
      <4>2. c \in Connections
        BY <4>1 DEF Connections
      <4>. QED  BY <2>0, <4>2, Zenon
    <3>. QED  BY <1>0, <1>1, <2>0, <2>1, <2>2, <3>1, ZenonT(30) DEF TypeOK
  <2>4. NothingPending'
    BY <1>2, <2>0 DEF NothingPending
  <2>5. ReconnectInOrder'
    <3>. SUFFICES ASSUME early' = 0 PROVE ReconnectInOrder'
      BY Zenon DEF ReconnectInOrder
    <3>1. /\ transport = NoTransport /\ ~reconnectTimer
          /\ \A i \in DOMAIN ready : ready[i].op \notin Failures
          /\ \A i \in DOMAIN ready : i # 1 => ready[i].op # "connect"
      BY <1>0, ConnectAlone
    <3>2. \A i \in DOMAIN ready' : ready'[i].op \notin Failures /\ ready'[i].op # "connect"
      BY <2>1, <3>1
    <3>. QED  BY <2>0, <3>1, <3>2, Zenon DEF ReconnectInOrder
  <2>6. ASSUME ~stale' PROVE Session'
    <3>1. Session
      BY <1>0, <2>6 DEF IInv
    <3>2. \A i \in DOMAIN ready' : ready'[i].of # c
      BY <1>2, <2>1, Zenon
    <3>3. \A i \in DOMAIN ready' :
             /\ ~Of(i, ReadOps, transport)' /\ ~Of(i, WriteOps, transport)'
             /\ ~Of(i, {"write"}, transport)'
      BY <2>0, <3>2, Zenon DEF Of
    <3>4. HandlersHaveOne'
      BY <2>1, <3>1 DEF Session, HandlersHaveOne
    <3>5. OneRead' /\ OneHandler' /\ FrontReady' /\ ~HandlerReady'
      <4>1. reading' <= 1
        <5>1. reading' = 1
          BY <2>0, Zenon
        <5>. QED  BY <5>1
      <4>. QED  BY <3>3, <4>1, ZenonT(30) DEF OneRead, OneHandler, FrontReady, HandlerReady
    <3>6. ring.size <= N /\ Unread(ring) = unsent /\ (~inFlight => ring.size = 0)
      <4>1. CASE transport = NoTransport
        BY <3>1, <4>1, RingSizes DEF Session, Disconnected
      <4>2. CASE transport # NoTransport
        BY <1>1, <3>1, <4>2, TxFacts DEF Session, WriteSide
      <4>. QED  BY <4>1, <4>2
    <3>7. WriteSide(x, FALSE) /\ (~inFlight => x.first = "login")
      BY <1>2, <1>4, <1>7, <3>6, LoginSide, ZenonT(30)
    <3>8. WriteSide(Tx', HandlerReady')
      BY <2>2, <3>5, <3>7, ZenonT(30) DEF WriteSide
    <3>9. Unread(ring') = unsent'
      BY <2>2, <3>7, ZenonT(30) DEF WriteSide
    <3>10. early' = 0 => first' = "login"
      BY <1>0, <2>2, <3>1, <3>7, ConnectAlone, ZenonT(30) DEF Session, Disconnected
    <3>11. Disconnected' /\ intact'
      BY <1>0, <1>2, <2>0, <3>1, Zenon DEF Disconnected, Session
    <3>. QED  BY <3>4, <3>5, <3>8, <3>9, <3>10, <3>11, Zenon DEF Session
  <2>. QED  BY <2>3, <2>4, <2>5, <2>6, Zenon DEF IInv
<1>. QED  BY <1>6, <1>7

-----------------------------------------------------------------------------
(* The theorems. *)

(* Every handler, and every end of what asio has pending, keeps the invariant. *)
LEMMA NextInv ==
    ASSUME IInv, [Next]_vars
    PROVE  IInv'
<1>1. CASE UNCHANGED vars
  <2>1. /\ UNCHANGED <<status, transport, authenticated, ring, inFlight, fragments, reading, writes,
                       reconnectTimer, heartbeatTimer, ready, midMessage, unsent, intact, first,
                       whole, stale, faults, sends, arrivals, beats, early>>
    BY <1>1, Zenon DEF vars, netVars, historyVars, boundVars
  <2>2. TypeOK'
    BY <2>1, ZenonT(30) DEF IInv, TypeOK
  <2>3. NothingPending' /\ ReconnectInOrder'
    BY <2>1, ZenonT(30) DEF IInv, NothingPending, ReconnectInOrder
  <2>4. Tx' = Tx /\ HandlerReady' = HandlerReady
    BY <2>1, Zenon DEF Tx, HandlerReady, Of
  <2>5. HandlersHaveOne' = HandlersHaveOne /\ Disconnected' = Disconnected
    BY <2>1 DEF HandlersHaveOne, Disconnected
  <2>6. OneRead' = OneRead /\ OneHandler' = OneHandler /\ FrontReady' = FrontReady
    BY <2>1, ZenonT(30) DEF OneRead, OneHandler, FrontReady, Of
  <2>7. WriteSide(Tx, HandlerReady) => WriteSide(Tx', HandlerReady')
    BY <2>4, ZenonT(30) DEF WriteSide
  <2>8. Session => Session'
    BY <2>1, <2>5, <2>6, <2>7 DEF Session
  <2>. QED  BY <2>1, <2>2, <2>3, <2>8 DEF IInv
<1>2. CASE Handle
    BY <1>2, OnErrorStep, ConnectFailsStep, ConnectStep, OnControlFrameStep, OnWholeMessageStep,
       OnFragmentStep, OnLastFragmentStep, OnWriteStep, OnHeartbeatStep, Zenon DEF Handle
<1>3. CASE EngineSends
    BY <1>3, EngineSendsStep
<1>4. CASE ReadEnds \/ ReadFails \/ WriteEnds \/ WriteFails
    BY <1>4, ReadEndsStep, ReadFailsStep, WriteEndsStep, WriteFailsStep, Zenon
<1>5. CASE HeartbeatTimerEnds \/ ReconnectTimerEnds
    BY <1>5, HeartbeatTimerEndsStep, ReconnectTimerEndsStep, Zenon
<1>6. CASE Rests
    BY <1>1, <1>6, Zenon DEF Rests
<1>. QED  BY <1>1, <1>2, <1>3, <1>4, <1>5, <1>6, Zenon DEF Next

(* The client keeps its invariant through every interleaving of its handlers
   with the reads, the writes and the timers. *)
THEOREM ClientInvariant == Spec => []IInv
<1>1. Init => IInv
    BY InitInv
<1>2. IInv /\ [Next]_vars => IInv'
    BY NextInv
<1>. QED  BY <1>1, <1>2, PTL DEF Spec

(* What StartWrite hands to the socket is what WriteRaw put into the ring, in
   order, and the ring holds exactly what is still to be sent: for rings and
   frames of every size, until a completion outlives its connection. *)
THEOREM StreamStaysIntact == Spec => []StreamIntact
<1>1. IInv => StreamIntact
    BY DEF IInv, Session, StreamIntact
<1>. QED  BY <1>1, ClientInvariant, PTL

(* Bytes in the ring of a connection mean that write_in_flight_ is set, and the
   flag means that a write is pending or that its handler is going to run. *)
THEOREM NoWakeupIsLost == Spec => []NoLostWakeup
<1>1. IInv => NoLostWakeup
  <2>. SUFFICES ASSUME IInv, ~stale, early = 0, transport # NoTransport
                PROVE  (ring.size > 0 => inFlight) /\ (inFlight => WriteUnderWay)
    BY Zenon DEF NoLostWakeup
  <2>1. WriteSide(Tx, HandlerReady) /\ first = "login"
    BY DEF IInv, Session
  <2>2. /\ ~inFlight => ring.size = 0
        /\ first = "login" /\ inFlight => HandlerReady \/ writes # <<>>
    BY <2>1, TxFacts, ZenonT(30) DEF WriteSide, IInv
  <2>3. HandlerReady => WriteUnderWay
    BY DEF HandlerReady, WriteUnderWay, Of, WriteOps
  <2>4. ring.size > 0 => inFlight
    <3>1. CASE inFlight
      BY <3>1
    <3>2. CASE ~inFlight
      <4>1. ring.size = 0
        BY <2>2, <3>2, Zenon
      <4>. QED  BY <4>1
    <3>. QED  BY <3>1, <3>2
  <2>5. writes # <<>> => WriteUnderWay
    BY Zenon DEF WriteUnderWay
  <2>. QED  BY <2>1, <2>2, <2>3, <2>4, <2>5, Zenon
<1>. QED  BY <1>1, ClientInvariant, PTL

(* ReadLoop and StartWrite never have two reads or two writes on a stream. *)
THEOREM OneAtATime == Spec => []OneReadOneWrite
<1>1. IInv => OneReadOneWrite
  <2>. SUFFICES ASSUME IInv, ~stale PROVE reading <= 1 /\ Len(writes) <= 1
    BY Zenon DEF OneReadOneWrite
  <2>1. Session /\ TypeOK /\ NothingPending
    BY DEF IInv
  <2>2. reading <= 1
    BY <2>1 DEF Session, OneRead
  <2>3. CASE transport = NoTransport
    BY <2>1, <2>2, <2>3, Zenon DEF NothingPending
  <2>4. CASE transport # NoTransport
    BY <2>1, <2>2, <2>4, TxFacts DEF Session, WriteSide
  <2>. QED  BY <2>3, <2>4
<1>. QED  BY <1>1, ClientInvariant, PTL

(* Nothing goes out on a connection before the login of SendLogin. *)
THEOREM LoginGoesFirst == Spec => []LoginFirst
<1>1. IInv => LoginFirst
  <2>. SUFFICES ASSUME IInv, ~stale PROVE first \in {"none", "login"}
    BY Zenon DEF LoginFirst
  <2>1. Session /\ TypeOK
    BY DEF IInv
  <2>2. CASE transport = NoTransport
    BY <2>1, <2>2, Zenon DEF Session, Disconnected
  <2>3. CASE transport # NoTransport
    BY <2>1, <2>3, TxFacts DEF Session, WriteSide
  <2>. QED  BY <2>2, <2>3
<1>. QED  BY <1>1, ClientInvariant, PTL

(* As long as no backoff has ended before the handlers that were ready have
   run, ScheduleReconnect and Connect take a connection away only after its own
   read or write has failed. *)
THEOREM NoTeardownWithoutCause == Spec => NoSpuriousTeardown
<1>. DEFINE Cause == \/ Head(ready).op \in {"readFailed", "writeFailed"} /\ Head(ready).of = transport
                     \/ early > 0
            Kept == transport # NoTransport /\ transport' # transport => Cause
<1>1. IInv /\ [Next]_vars => [Kept]_vars
  <2>. SUFFICES ASSUME IInv, Next, transport # NoTransport, transport' # transport, ~(early > 0)
                PROVE  Head(ready).op \in {"readFailed", "writeFailed"} /\ Head(ready).of = transport
    BY Zenon
  <2>1. early = 0 /\ ReconnectInOrder /\ TypeOK
    <3>1. ReconnectInOrder /\ TypeOK
      BY Zenon DEF IInv
    <3>2. early \in Nat
      BY <3>1, Zenon DEF TypeOK
    <3>3. early = 0
      BY <3>2
    <3>. QED  BY <3>1, <3>3, Zenon
  <2>2. ~Runs("connect")
    BY <2>1, ConnectAlone
  <2>3. OnError
    <3>1. ~ConnectFails /\ ~Connect
      BY <2>2, Zenon DEF ConnectFails, Connect
    <3>2. ~OnControlFrame /\ ~OnWholeMessage /\ ~OnFragment /\ ~OnLastFragment
      BY Zenon DEF OnControlFrame, OnWholeMessage, OnFragment, OnLastFragment, Dispatch, Throw, ReadLoop
    <3>3. ~OnWrite /\ ~OnHeartbeat /\ ~EngineSends
      BY Zenon DEF OnWrite, OnHeartbeat, EngineSends, Throw
    <3>4. ~ReadEnds /\ ~ReadFails /\ ~WriteEnds /\ ~WriteFails /\ ~HeartbeatTimerEnds
      BY Zenon DEF ReadEnds, ReadFails, WriteEnds, WriteFails, HeartbeatTimerEnds, Ends
    <3>5. ~ReconnectTimerEnds /\ ~Rests
      BY Zenon DEF ReconnectTimerEnds, Rests, Ends, vars
    <3>. QED  BY <3>1, <3>2, <3>3, <3>4, <3>5, Zenon DEF Next, Handle
  <2>4. ready # <<>> /\ Head(ready).op \in Failures
    BY <2>3, Zenon DEF OnError, Runs, Failures
  <2>5. 1 \in DOMAIN ready /\ Head(ready) = ready[1]
    BY <2>1, <2>4, TailFacts DEF TypeOK
  <2>. QED  BY <2>1, <2>4, <2>5 DEF ReconnectInOrder, Failures
<1>. QED  BY <1>1, ClientInvariant, PTL DEF Spec, NoSpuriousTeardown
=============================================================================
