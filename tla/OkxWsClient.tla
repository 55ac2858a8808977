---------------------------- MODULE OkxWsClient ----------------------------
(***************************************************************************)
(* OkxWsClient on the private endpoint: the connection and its timers, the *)
(* ring of bytes to send, the read loop and the reassembly of fragmented   *)
(* messages.  Everything runs on one thread; what is concurrent is what    *)
(* asio has pending.  A pending operation or timer ends by putting its     *)
(* handler into ready, which io_context::poll works off in order.          *)
(* Destroying the transport aborts what it has pending; a handler already  *)
(* in ready keeps its result.  The backoff's length is left open.          *)
(***************************************************************************)
EXTENDS Integers, Sequences

CONSTANTS
    N, SizeMod,    \* tx_ring_, see RingBuffer
    FrameLen,      \* encoded length of each kind of frame
    MaxFragments,  \* capacity of reassembler_, in fragments
    MaxConnections, \* bound: connections that something refers to at once
    MaxFaults,     \* bound: failures of a read, a write or a connect
    MaxSends,      \* bound: frames the engine sends on its own
    MaxArrivals,   \* bound: frames that arrive
    MaxBeats,      \* bound: heartbeats
    MaxReady,      \* bound: handlers ready at once, aborted ones not counted
    MaxEarly       \* bound: times the backoff ends with handlers still ready

FrameKinds == {"login", "ping", "pong", "subscribe", "order"}

ASSUME ClientAssumption ==
    /\ N \in Nat \ {0}
    /\ SizeMod \in Nat /\ SizeMod > N /\ SizeMod % N = 0
    /\ FrameLen \in [FrameKinds -> 1..N]
    /\ {MaxFragments, MaxConnections, MaxFaults, MaxSends, MaxArrivals, MaxBeats, MaxReady,
        MaxEarly} \subseteq Nat

Bytes == {<<"none", 0>>} \cup (FrameKinds \X (1..N))

INSTANCE RingBuffer

VARIABLES
    status,          \* running, or what ended the process
    transport,       \* transport_: the connection's number, or NoTransport
    authenticated,   \* authenticated_
    ring,            \* tx_ring_
    inFlight,        \* write_in_flight_
    fragments,       \* reassembler_: the fragments it holds
    reading,         \* how many async_read_some the transport has pending
    writes,          \* the async_writes it has pending: the regions
    reconnectTimer,  \* whether reconnect_timer_ is waiting
    heartbeatTimer,  \* whether heartbeat_timer_ is waiting
    ready,           \* handlers to run
    midMessage,      \* the server has sent a message up to a fragment
    unsent,          \* history: bytes of the frames written and not yet sent
    intact,          \* history: what was sent is what was to be sent
    first,           \* history: first frame of the connection
    whole,           \* history: every message dispatched was one message
    stale,           \* history: a read, write or heartbeat ended well, and its
                     \* handler ran when its connection had been given up
    faults, sends, arrivals, beats, early

netVars == <<reading, writes, reconnectTimer, heartbeatTimer>>
historyVars == <<unsent, intact, first, whole, stale>>
boundVars == <<faults, sends, arrivals, beats, early>>
vars == <<status, transport, authenticated, ring, inFlight, fragments, netVars, ready, midMessage,
          historyVars, boundVars>>

NoTransport == 0

(* What the server sends: control frames, the login's answer, a whole message
   or the fragments of one. *)
Arrivals == {"ping", "pong", "loginOk", "loginRefused", "message", "first", "middle", "last"}

Init ==
    /\ status = "running"
    /\ transport = NoTransport
    /\ authenticated = FALSE
    /\ ring = [data |-> [i \in 0..(N - 1) |-> <<"none", 0>>], pos |-> 0, size |-> 0]
    /\ inFlight = FALSE
    /\ fragments = <<>>
    /\ reading = 0
    /\ writes = <<>>
    /\ reconnectTimer = FALSE
    /\ heartbeatTimer = FALSE
    /\ ready = <<[op |-> "connect", of |-> NoTransport]>>
    /\ midMessage = FALSE
    /\ unsent = <<>>
    /\ intact = TRUE
    /\ first = "none"
    /\ whole = TRUE
    /\ stale = FALSE
    /\ faults = 0
    /\ sends = 0
    /\ arrivals = 0
    /\ beats = 0
    /\ early = 0

Running == status = "running"

Throw(why) ==
    /\ status' = why
    /\ UNCHANGED <<transport, authenticated, ring, inFlight, fragments, netVars, ready, midMessage,
                   historyVars, boundVars>>

-----------------------------------------------------------------------------
(* Sending.  A handler may write several frames: what sending changes is a
   record handed from one write to the next. *)

Frame(kind) == [i \in 1..FrameLen[kind] |-> <<kind, i>>]

Tx == [ring |-> ring, inFlight |-> inFlight, writes |-> writes, unsent |-> unsent, first |-> first,
       threw |-> FALSE]

TxDone(x) ==
    /\ ring' = x.ring
    /\ inFlight' = x.inFlight
    /\ writes' = x.writes
    /\ unsent' = x.unsent
    /\ first' = x.first

(* StartWrite on connection t: one async_write of the readable region, which
   may be empty. *)
StartWrite(x, t) ==
    IF t = NoTransport
    THEN x
    ELSE [x EXCEPT !.inFlight = TRUE,
                   !.writes = Append(@, [from |-> x.ring.pos, n |-> Readable(x.ring)]),
                   !.first = IF @ = "none" /\ Readable(x.ring) > 0
                             THEN x.ring.data[x.ring.pos][1]
                             ELSE @]

(* WriteRaw up to the write: the frame goes into the ring, or it throws. *)
Queued(x, kind) ==
    IF x.threw \/ WriteThrows(x.ring, Frame(kind))
    THEN [x EXCEPT !.threw = TRUE]
    ELSE [x EXCEPT !.ring = Written(@, Frame(kind)), !.unsent = @ \o Frame(kind)]

MutStartIfIdle(x, t) == StartWrite(x, t)

StartIfIdle(x, t) == IF x.inFlight \/ x.threw THEN x ELSE StartWrite(x, t)

WriteRaw(x, kind, t) == StartIfIdle(Queued(x, kind), t)

-----------------------------------------------------------------------------
(* Losing the connection. *)

(* The handlers of what the transport still has pending, when it goes. *)
Aborted ==
    [i \in 1..(reading + Len(writes)) |->
        [op |-> IF i <= reading THEN "readFailed" ELSE "writeFailed", of |-> transport]]

(* transport_.reset, the two timers, and the handlers that are ready next. *)
GiveUp(later, armed) ==
    /\ transport' = NoTransport
    /\ heartbeatTimer' = FALSE
    /\ reconnectTimer' = armed
    /\ reading' = 0
    /\ writes' = <<>>
    /\ ready' = later
    /\ first' = "none"

EmptyRing == ring' = Reset(ring) /\ unsent' = <<>>

MutReconnectKeepsFlag(later) ==
    GiveUp(later, TRUE) /\ EmptyRing /\ authenticated' = FALSE /\ UNCHANGED inFlight

MutReconnectKeepsRing(later) ==
    GiveUp(later, TRUE) /\ authenticated' = FALSE /\ inFlight' = FALSE /\ UNCHANGED <<ring, unsent>>

MutReconnectNotArmed(later) ==
    GiveUp(later, FALSE) /\ EmptyRing /\ authenticated' = FALSE /\ inFlight' = FALSE

ScheduleReconnect(later) ==
    /\ GiveUp(later, TRUE)
    /\ authenticated' = FALSE
    /\ EmptyRing
    /\ inFlight' = FALSE

(* The handler whose turn it is. *)
Runs(op) ==
    /\ Running
    /\ ready # <<>>
    /\ Head(ready).op = op

Stale == stale \/ Head(ready).of # transport

(* The error branches of the read handler and of on_write: whichever connection
   they are about. *)
OnError ==
    /\ Runs("readFailed") \/ Runs("writeFailed")
    /\ ScheduleReconnect(Tail(ready) \o Aborted)
    /\ UNCHANGED <<status, fragments, midMessage, intact, whole, stale, boundVars>>

(* The numbers a connection may get: one that nothing refers to any more. *)
Unused ==
    (1..MaxConnections) \ ({transport} \cup {ready[i].of : i \in DOMAIN ready}
                                      \cup {fragments[i].of : i \in DOMAIN fragments})

(* Connect: the new transport replaces whatever was there; an exception on the
   way, the overflow of the ring included, ends in ScheduleReconnect. *)
ConnectFails ==
    /\ Runs("connect")
    /\ faults < MaxFaults
    /\ faults' = faults + 1
    /\ ScheduleReconnect(Tail(ready) \o Aborted)
    /\ UNCHANGED <<status, fragments, midMessage, intact, whole, stale, sends, arrivals,
                   beats, early>>

Connect ==
    /\ Runs("connect")
    /\ Unused # {}
    /\ LET c == CHOOSE n \in Unused : TRUE
           x == WriteRaw([Tx EXCEPT !.writes = <<>>, !.first = "none"], "login", c)
       IN  IF x.threw
           THEN ScheduleReconnect(Tail(ready) \o Aborted)
           ELSE /\ transport' = c
                /\ authenticated' = FALSE
                /\ TxDone(x)
                /\ heartbeatTimer' = TRUE
                /\ reading' = 1
                /\ ready' = Tail(ready) \o Aborted
                /\ UNCHANGED reconnectTimer
    /\ midMessage' = FALSE
    /\ UNCHANGED <<status, fragments, intact, whole, stale, faults, sends, arrivals, beats, early>>

-----------------------------------------------------------------------------
(* Reading. *)

(* The fragments of one message of the current connection, in order. *)
OneMessage(parts) ==
    /\ \A i \in DOMAIN parts : parts[i].of = Head(ready).of
    /\ \A i \in DOMAIN parts : parts[i].part = "first" <=> i = 1

(* The next ReadLoop. *)
ReadLoop ==
    /\ ready' = Tail(ready)
    /\ reading' = IF transport = NoTransport THEN reading ELSE reading + 1
    /\ stale' = Stale
    /\ UNCHANGED <<status, transport, reconnectTimer, heartbeatTimer, midMessage, intact, faults,
                   arrivals, beats, early>>

(* DispatchMessage.  The engine answers a login with a subscription, and any
   message with nothing or with the round trip's next request. *)
Dispatch(frame) ==
    \E n \in 0..1 :
        LET told == IF frame = "loginOk" THEN WriteRaw(Tx, "subscribe", transport) ELSE Tx
            x == IF n = 1 THEN WriteRaw(told, "order", transport) ELSE told
        IN  /\ sends + n <= MaxSends
            /\ IF x.threw
               THEN Throw("overflow")
               ELSE /\ TxDone(x)
                    /\ sends' = sends + n
                    /\ authenticated' = (authenticated \/ frame = "loginOk")
                    /\ ReadLoop

(* HandleFrame, by the kind of frame. *)
OnControlFrame ==
    /\ Runs("read")
    /\ Head(ready).frame \in {"ping", "pong"}
    /\ LET x == IF Head(ready).frame = "ping" THEN WriteRaw(Tx, "pong", transport) ELSE Tx
       IN  IF x.threw
           THEN Throw("overflow")
           ELSE /\ TxDone(x)
                /\ ReadLoop
                /\ UNCHANGED <<authenticated, fragments, whole, sends>>

OnWholeMessage ==
    /\ Runs("read")
    /\ Head(ready).frame \in {"message", "loginOk", "loginRefused"}
    /\ Dispatch(Head(ready).frame)
    /\ UNCHANGED <<fragments, whole>>

(* The reassembler's Append throws when the fragment does not fit; the last
   fragment completes the message, which is dispatched before the Reset. *)
Reassembled == Append(fragments, [of |-> Head(ready).of, part |-> Head(ready).frame])

Fits == Len(Reassembled) <= MaxFragments

OnFragment ==
    /\ Runs("read")
    /\ Head(ready).frame \in {"first", "middle"}
    /\ IF ~Fits
       THEN Throw("reassembly")
       ELSE /\ fragments' = Reassembled
            /\ ReadLoop
            /\ UNCHANGED <<authenticated, ring, inFlight, writes, unsent, first, whole, sends>>

OnLastFragment ==
    /\ Runs("read")
    /\ Head(ready).frame = "last"
    /\ IF ~Fits
       THEN Throw("reassembly")
       ELSE /\ Dispatch("message")
            /\ fragments' = IF Running' THEN <<>> ELSE fragments
            /\ whole' = IF Running' THEN whole /\ OneMessage(Reassembled) ELSE whole

-----------------------------------------------------------------------------
(* Writing and the heartbeat. *)

(* on_write: the bytes written leave the ring, whichever connection they went
   to; if bytes are left, the next write starts. *)
MutNextWrite(x) == [x EXCEPT !.inFlight = FALSE]

NextWrite(x) ==
    IF x.ring.size > 0 THEN StartWrite(x, transport) ELSE [x EXCEPT !.inFlight = FALSE]

Committed(h) ==
    [Tx EXCEPT !.ring = CommitRead(@, h.n),
               !.unsent = IF h.of = transport THEN SubSeq(@, h.n + 1, Len(@)) ELSE @]

SentInOrder(h) ==
    h.of = transport =>
        h.n <= Len(unsent) /\ Region(ring, h.from, h.n) = SubSeq(unsent, 1, h.n)

MutOnWrite ==
    /\ Runs("write")
    /\ IF Head(ready).n = 0
       THEN /\ ScheduleReconnect(Tail(ready) \o Aborted)
            /\ UNCHANGED <<intact, stale>>
       ELSE /\ TxDone(NextWrite(Committed(Head(ready))))
            /\ intact' = (intact /\ SentInOrder(Head(ready)))
            /\ stale' = Stale
            /\ ready' = Tail(ready)
            /\ UNCHANGED <<transport, authenticated, reading, reconnectTimer, heartbeatTimer>>
    /\ UNCHANGED <<status, fragments, midMessage, whole, boundVars>>

OnWrite ==
    /\ Runs("write")
    /\ TxDone(NextWrite(Committed(Head(ready))))
    /\ intact' = (intact /\ SentInOrder(Head(ready)))
    /\ stale' = Stale
    /\ ready' = Tail(ready)
    /\ UNCHANGED <<status, transport, authenticated, fragments, reading, reconnectTimer,
                   heartbeatTimer, midMessage, whole, boundVars>>

OnHeartbeat ==
    /\ Runs("heartbeat")
    /\ LET x == WriteRaw(Tx, "ping", transport)
       IN  IF x.threw
           THEN Throw("overflow")
           ELSE /\ TxDone(x)
                /\ heartbeatTimer' = TRUE
                /\ stale' = Stale
                /\ ready' = Tail(ready)
                /\ UNCHANGED <<status, transport, authenticated, fragments, reading,
                               reconnectTimer, midMessage, intact, whole, boundVars>>

(* The quoter, from a market data handler or its timer: BeginBatch, up to two
   frames, EndBatch, which starts a write even if there were none. *)
EngineSends ==
    /\ Running
    /\ authenticated
    /\ \E n \in 0..2 :
          LET one == IF n >= 1 THEN Queued(Tx, "order") ELSE Tx
              two == IF n = 2 THEN Queued(one, "order") ELSE one
              x == StartIfIdle(two, transport)
          IN  /\ sends + n <= MaxSends
              /\ IF x.threw
                 THEN Throw("overflow")
                 ELSE /\ TxDone(x)
                      /\ sends' = sends + n
                      /\ UNCHANGED <<status, transport, authenticated, fragments, reading,
                                     reconnectTimer, heartbeatTimer, ready, midMessage, intact,
                                     whole, stale, faults, arrivals, beats, early>>

Handle ==
    \/ OnError
    \/ ConnectFails
    \/ Connect
    \/ OnControlFrame
    \/ OnWholeMessage
    \/ OnFragment
    \/ OnLastFragment
    \/ OnWrite
    \/ OnHeartbeat

-----------------------------------------------------------------------------
(* What asio has pending ends. *)

Ends(handler) ==
    /\ ready' = Append(ready, handler)
    /\ UNCHANGED <<status, transport, authenticated, ring, inFlight, fragments, historyVars, sends>>

RoomInReady == Running /\ Len(ready) < MaxReady

(* The server answers the login, and sends the fragments of a message with
   nothing but control frames in between. *)
ServerMaySend(frame) ==
    CASE frame \in {"ping", "pong"}                 -> TRUE
      [] frame \in {"middle", "last"}               -> midMessage
      [] frame \in {"loginOk", "loginRefused"}      -> ~midMessage /\ ~authenticated /\ first = "login"
      [] OTHER                                       -> ~midMessage

ReadEnds ==
    /\ RoomInReady
    /\ reading > 0
    /\ arrivals < MaxArrivals
    /\ \E frame \in {f \in Arrivals : ServerMaySend(f)} :
          /\ Ends([op |-> "read", of |-> transport, frame |-> frame])
          /\ midMessage' = (frame = "first" \/ (midMessage /\ frame # "last"))
    /\ reading' = reading - 1
    /\ arrivals' = arrivals + 1
    /\ UNCHANGED <<writes, reconnectTimer, heartbeatTimer, faults, beats, early>>

ReadFails ==
    /\ RoomInReady
    /\ reading > 0
    /\ faults < MaxFaults
    /\ Ends([op |-> "readFailed", of |-> transport])
    /\ reading' = reading - 1
    /\ faults' = faults + 1
    /\ UNCHANGED <<writes, reconnectTimer, heartbeatTimer, midMessage, arrivals, beats, early>>

WriteEnds ==
    /\ RoomInReady
    /\ \E i \in DOMAIN writes :
          /\ Ends([op |-> "write", of |-> transport, from |-> writes[i].from, n |-> writes[i].n])
          /\ writes' = SubSeq(writes, 1, i - 1) \o SubSeq(writes, i + 1, Len(writes))
    /\ UNCHANGED <<reading, reconnectTimer, heartbeatTimer, midMessage, faults, arrivals, beats,
                   early>>

WriteFails ==
    /\ RoomInReady
    /\ faults < MaxFaults
    /\ \E i \in DOMAIN writes :
          /\ Ends([op |-> "writeFailed", of |-> transport])
          /\ writes' = SubSeq(writes, 1, i - 1) \o SubSeq(writes, i + 1, Len(writes))
    /\ faults' = faults + 1
    /\ UNCHANGED <<reading, reconnectTimer, heartbeatTimer, midMessage, arrivals, beats, early>>

HeartbeatTimerEnds ==
    /\ RoomInReady
    /\ heartbeatTimer
    /\ beats < MaxBeats
    /\ Ends([op |-> "heartbeat", of |-> transport])
    /\ heartbeatTimer' = FALSE
    /\ beats' = beats + 1
    /\ UNCHANGED <<reading, writes, reconnectTimer, midMessage, faults, arrivals, early>>

(* ComputeBackoff draws the delay from zero up, so it may be over before the
   handlers that are ready have run. *)
ReconnectTimerEnds ==
    /\ Running
    /\ reconnectTimer
    /\ ready = <<>> \/ early < MaxEarly
    /\ Ends([op |-> "connect", of |-> NoTransport])
    /\ reconnectTimer' = FALSE
    /\ early' = IF ready = <<>> THEN early ELSE early + 1
    /\ UNCHANGED <<reading, writes, heartbeatTimer, midMessage, faults, arrivals, beats>>

(* The process is gone, or poll finds nothing to do and nothing under way but
   a read and the heartbeat. *)
Rests ==
    /\ ~Running \/ (ready = <<>> /\ writes = <<>> /\ ~reconnectTimer)
    /\ UNCHANGED vars

Next ==
    \/ Handle
    \/ EngineSends
    \/ ReadEnds
    \/ ReadFails
    \/ WriteEnds
    \/ WriteFails
    \/ HeartbeatTimerEnds
    \/ ReconnectTimerEnds
    \/ Rests

Spec == Init /\ [][Next]_vars

(* The loop in Engine::Run polls forever, a timer ends, and a write the socket
   has taken on ends in one way or the other. *)
Fairness ==
    /\ WF_vars(Handle)
    /\ WF_vars(ReconnectTimerEnds)
    /\ WF_vars(WriteEnds \/ WriteFails)

FairSpec == Spec /\ Fairness

-----------------------------------------------------------------------------
(* Properties. *)

(* What async_write takes from the ring is what WriteRaw put there, in order
   and nothing twice, across wrap-around, batches and partial regions; and the
   ring holds exactly what is still to be sent (StartWrite, on_write,
   RingBuffer).  Only a completion that outlives its connection can break it. *)
StreamIntact == ~stale => intact /\ Unread(ring) = unsent

(* No byte is forgotten in the ring: while there is a connection, bytes to send
   mean a write is pending or its handler is ready (the write_in_flight_ flag
   is never left set by a write that is gone, nor clear with bytes waiting). *)
WriteUnderWay ==
    \/ writes # <<>>
    \/ \E i \in DOMAIN ready : ready[i].op \in {"write", "writeFailed"} /\ ready[i].of = transport

NoLostWakeup ==
    Running /\ ~stale /\ early = 0 /\ transport # NoTransport
      => /\ ring.size > 0 => inFlight
         /\ inFlight => WriteUnderWay

(* asio allows one write and one read at a time on a stream; the flag
   write_in_flight_ and the shape of ReadLoop see to it. *)
OneReadOneWrite == ~stale => reading <= 1 /\ Len(writes) <= 1

(* The login goes out before anything else on every connection (Connect calls
   SendLogin before anyone can write, and ScheduleReconnect empties the ring). *)
LoginFirst == ~stale => first \in {"none", "login"}

(* A connection is given up only because a read or a write on that very
   connection failed, unless a backoff of a few milliseconds has put Connect
   into the queue before an aborted handler armed the timer again. *)
NoSpuriousTeardown ==
    [][transport # NoTransport /\ transport' # transport
         => \/ Head(ready).op \in {"readFailed", "writeFailed"} /\ Head(ready).of = transport
            \/ early > 0]_vars

(* A lost connection is made again, once the network lets it. *)
Reconnects == (transport = NoTransport) ~> (transport # NoTransport \/ ~Running)

(* What is written goes out, or the connection or the process is lost. *)
TxDrains == (transport # NoTransport /\ ring.size > 0)
              ~> (ring.size = 0 \/ transport = NoTransport \/ ~Running)

(* What comments and the README say. *)

(* okx_ws_client.cpp, on_write: size_ > 0 after CommitRead means more is
   queued. *)
MoreQueuedWhenNotEmpty == Running => ring.size = Len(unsent)

(* README: continuation frames are reassembled into a message. *)
MessagesAreWhole == whole

(* okx_ws_client.cpp, ScheduleHeartbeat: a reconnection cancels the timer. *)
ReconnectionCancelsHeartbeat == Running /\ transport = NoTransport => ~heartbeatTimer
=============================================================================
