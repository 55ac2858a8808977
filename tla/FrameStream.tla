----------------------------- MODULE FrameStream -----------------------------
(***************************************************************************)
(* From bytes to messages: the opening handshake, OkxWsClient::ReadLoop    *)
(* with its rx_buffer_, the frame codec, HandleFrame with its control      *)
(* responses, and the reassembler, all at the grain of bytes.  A read      *)
(* takes any number of the bytes on their way, so frames are cut and       *)
(* joined in every possible place.  Timers, the tx ring and the order of   *)
(* asio's handlers are in OkxWsClient.  The server is external: it frames  *)
(* as RFC 6455 says, except for the frames that are Bad.                   *)
(***************************************************************************)
EXTENDS WebSocketFrame

LOCAL INSTANCE SequencesExt

CONSTANTS
    ServerFrames,    \* frames of the server: [rsv, masked, fin, opcode, payload]
    Keys,            \* the masking keys RAND_bytes may return
    Login,           \* payload of the login
    OkxPong,         \* payload of a pong in OKX's own heartbeat
    kReadChunkSize,  \* size of read_chunk_, and of the handshake's chunk
    Capacity,        \* capacity of reassembler_
    MaxFrames,       \* bound: frames the server sends
    MaxConnections   \* bound: connections

Byte == 0..255

ASSUME StreamAssumption ==
    /\ ServerFrames \subseteq [rsv : 0..7, masked : 0..1, fin : BOOLEAN, opcode : 0..15,
                               payload : Seq(Byte)]
    /\ Keys \subseteq [1..kMaskKeyBytes -> Byte]
    /\ {Login, OkxPong} \subseteq Seq(Byte)
    /\ {kMaxBaseLength, kMaxExtended16Length, kReadChunkSize, Capacity, MaxFrames,
        MaxConnections} \subseteq Nat

VARIABLES
    status,       \* running, or what ended the process
    phase,        \* of the connection: none, handshake or open
    wire,         \* bytes on their way to the client
    response,     \* what ReadHandshakeResponse has read
    rxBuffer,     \* rx_buffer_
    assembled,    \* reassembler_: its bytes
    tx,           \* bytes written on this connection, the request not counted
    served,       \* history: frames the server has sent on this connection
    handled,      \* history: frames HandleFrame was called with, likewise
    dispatched,   \* history: messages dispatched on this connection
    answered,     \* whether the server has answered the upgrade request
    cutOff,       \* history: a connection was lost within a message
    frames, connections

connectionVars == <<served, handled, dispatched, answered>>
boundVars == <<frames, connections>>
vars == <<status, phase, wire, response, rxBuffer, assembled, tx, connectionVars, cutOff,
          boundVars>>

(* The answer to the upgrade request, by its parts: the status line, the accept
   header and the blank line.  The numbers are none of a byte's. *)
kStatus101 == 256
kStatusOther == 257
kAcceptVerifies == 258
kAcceptOther == 259
kHeaderTerminator == 260

Answers ==
    {<<kStatus101, kAcceptVerifies, kHeaderTerminator>>,
     <<kStatus101, kAcceptOther, kHeaderTerminator>>,
     <<kStatus101, kHeaderTerminator>>,
     <<kStatusOther, kHeaderTerminator>>}

Init ==
    /\ status = "running"
    /\ phase = "none"
    /\ wire = <<>>
    /\ response = <<>>
    /\ rxBuffer = <<>>
    /\ assembled = <<>>
    /\ tx = <<>>
    /\ served = <<>>
    /\ handled = <<>>
    /\ dispatched = <<>>
    /\ answered = FALSE
    /\ cutOff = FALSE
    /\ frames = 0
    /\ connections = 0

Running == status = "running"

-----------------------------------------------------------------------------
(* Connect. *)

(* The transport is there and the upgrade request is written. *)
Dial ==
    /\ Running
    /\ phase = "none"
    /\ connections < MaxConnections
    /\ connections' = connections + 1
    /\ phase' = "handshake"
    /\ UNCHANGED <<status, wire, response, rxBuffer, assembled, tx, connectionVars, cutOff, frames>>

Chunks == 1..(IF Len(wire) < kReadChunkSize THEN Len(wire) ELSE kReadChunkSize)

(* ScheduleReconnect, as far as the stream goes: neither rx_buffer_ nor the
   reassembler is touched. *)
GiveUp ==
    /\ phase' = "none"
    /\ wire' = <<>>
    /\ response' = <<>>
    /\ tx' = <<>>
    /\ served' = <<>>
    /\ handled' = <<>>
    /\ dispatched' = <<>>
    /\ answered' = FALSE
    /\ cutOff' = (cutOff \/ assembled # <<>>)

Verified(answer) == IsPrefix(<<kStatus101>>, answer) /\ Contains(answer, kAcceptVerifies)

MutConnected(key) == tx' = EncodeFrame(kText, Login, key) /\ UNCHANGED rxBuffer

(* The rest of Connect once the handshake is done: rx_buffer_.clear and the
   login.  What response holds behind the terminator is not looked at again. *)
Connected(key) == tx' = EncodeFrame(kText, Login, key) /\ rxBuffer' = <<>>

(* One ReadSome of ReadHandshakeResponse and, once the terminator has come, the
   checks of PerformWebSocketHandshake. *)
HandshakeReads(n, key) ==
    LET read == response \o SubSeq(wire, 1, n)
        rest == SubSeq(wire, n + 1, Len(wire))
    IN  /\ Running
        /\ phase = "handshake"
        /\ \/ /\ ~Contains(read, kHeaderTerminator)
              /\ response' = read
              /\ wire' = rest
              /\ UNCHANGED <<phase, rxBuffer, tx, connectionVars, cutOff>>
           \/ /\ Contains(read, kHeaderTerminator)
              /\ Verified(read)
              /\ response' = <<>>
              /\ wire' = rest
              /\ phase' = "open"
              /\ Connected(key)
              /\ UNCHANGED <<connectionVars, cutOff>>
           \/ /\ Contains(read, kHeaderTerminator)
              /\ ~Verified(read)
              /\ GiveUp
              /\ UNCHANGED rxBuffer
        /\ UNCHANGED <<status, assembled, boundVars>>

(* A read fails, in the handshake or in ReadLoop. *)
ReadFails ==
    /\ Running
    /\ phase # "none"
    /\ GiveUp
    /\ UNCHANGED <<status, rxBuffer, assembled, boundVars>>

-----------------------------------------------------------------------------
(* ReadLoop.  What the handler changes is a record handed from one frame to the
   next. *)

Rx == [status |-> status, buffer |-> rxBuffer, assembled |-> assembled, tx |-> tx,
       handled |-> handled, dispatched |-> dispatched]

(* BuildControlResponse and WriteRaw. *)
Respond(x, frame, key) ==
    [x EXCEPT !.tx = @ \o EncodeFrame(IF frame.opcode = kPing THEN kPong ELSE kClose,
                                      frame.payload, key)]

IsOkxPong(frame) == frame.opcode = kText /\ frame.payload = OkxPong

MutReassembleAtStart(x, frame) ==
    IF Len(frame.payload) > Capacity - Len(x.assembled)
    THEN [x EXCEPT !.status = "reassembly"]
    ELSE [x EXCEPT !.assembled = frame.payload]

(* Append to the reassembler, which throws if it has no room. *)
Reassemble(x, frame) ==
    IF Len(frame.payload) > Capacity - Len(x.assembled)
    THEN [x EXCEPT !.status = "reassembly"]
    ELSE [x EXCEPT !.assembled = @ \o frame.payload]

(* The message is dispatched and the reassembler Reset. *)
DispatchAssembled(x) ==
    [x EXCEPT !.dispatched = Append(@, x.assembled), !.assembled = <<>>]

HandleFrame(x, frame, key) ==
    IF frame.opcode \in {kPing, kClose} THEN Respond(x, frame, key)
    ELSE IF frame.opcode = kPong \/ IsOkxPong(frame) THEN x
    ELSE IF frame.opcode = kContinuation
    THEN LET grown == Reassemble(x, frame)
         IN  IF frame.fin /\ grown.status = "running" THEN DispatchAssembled(grown) ELSE grown
    ELSE IF ~frame.fin THEN Reassemble(x, frame)
    ELSE [x EXCEPT !.dispatched = Append(@, frame.payload)]

(* The loop of the read handler: decode, handle, erase. *)
RECURSIVE HandleAll(_, _)
HandleAll(x, key) ==
    IF x.status # "running" THEN x
    ELSE IF DecodeThrows(x.buffer) THEN [x EXCEPT !.status = "badFrame"]
    ELSE IF FrameIncomplete(x.buffer) THEN x
    ELSE LET frame == DecodeFrame(x.buffer)
             seen == [fin |-> frame.fin, opcode |-> frame.opcode, payload |-> frame.payload]
             y == HandleFrame([x EXCEPT !.handled = Append(@, seen)], seen, key)
         IN  HandleAll([y EXCEPT !.buffer = SubSeq(@, frame.totalSize + 1, Len(@))], key)

ReadLoop(n, key) ==
    /\ Running
    /\ phase = "open"
    /\ LET x == HandleAll([Rx EXCEPT !.buffer = @ \o SubSeq(wire, 1, n)], key)
       IN  /\ status' = x.status
           /\ rxBuffer' = x.buffer
           /\ assembled' = x.assembled
           /\ tx' = x.tx
           /\ handled' = x.handled
           /\ dispatched' = x.dispatched
    /\ wire' = SubSeq(wire, n + 1, Len(wire))
    /\ UNCHANGED <<phase, response, served, answered, cutOff, boundVars>>

-----------------------------------------------------------------------------
(* The server. *)

ServerAnswers(answer) ==
    /\ Running
    /\ phase = "handshake"
    /\ ~answered
    /\ answered' = TRUE
    /\ wire' = answer
    /\ UNCHANGED <<status, phase, response, rxBuffer, assembled, tx, served, handled, dispatched,
                   cutOff, boundVars>>

ServerEncode(frame) ==
    <<(IF frame.fin THEN 128 ELSE 0) + 16 * frame.rsv + frame.opcode>>
      \o EncodeLength(128 * frame.masked, Len(frame.payload)) \o frame.payload

Bad(frame) == frame.rsv # 0 \/ frame.masked # 0 \/ frame.opcode \notin ValidOpcodes

IsData(frame) == frame.opcode \in {kContinuation, kText, kBinary}

(* The latest data frame sent left a message open. *)
MidMessage ==
    LET data == SelectSeq(served, IsData)
    IN  data # <<>> /\ ~Last(data).fin

(* Nothing is sent before the login: what came with the handshake's last bytes
   would be lost with response.  Continuations follow an open message, whose
   first fragment is never the text of a pong: messages are JSON. *)
ServerMaySend(frame) ==
    \/ Bad(frame)
    \/ ~IsData(frame)
    \/ (frame.opcode = kContinuation) = MidMessage

ServerSends(frame) ==
    /\ Running
    /\ phase = "open"
    /\ frames < MaxFrames
    /\ ServerMaySend(frame)
    /\ frames' = frames + 1
    /\ wire' = wire \o ServerEncode(frame)
    /\ served' = Append(served, frame)
    /\ UNCHANGED <<status, phase, response, rxBuffer, assembled, tx, handled, dispatched, answered,
                   cutOff, connections>>

Next ==
    \/ Dial
    \/ \E n \in Chunks, key \in Keys : HandshakeReads(n, key) \/ ReadLoop(n, key)
    \/ ReadFails
    \/ \E answer \in Answers : ServerAnswers(answer)
    \/ \E frame \in ServerFrames : ServerSends(frame)

Spec == Init /\ [][Next]_vars

-----------------------------------------------------------------------------
(* Properties. *)

Plain(frame) == [fin |-> frame.fin, opcode |-> frame.opcode, payload |-> frame.payload]

Stream(sent) == FlattenSeq([i \in DOMAIN sent |-> ServerEncode(sent[i])])

(* However reads cut the stream, HandleFrame gets the frames the server has
   sent, each once, in order and with its payload, as soon as its last byte has
   come; rx_buffer_ holds the start of the next one and nothing of an earlier
   connection; and DecodeFrame throws at a frame no server may send, and at no
   other. *)
FramesAsSent ==
    phase = "open"
      => LET k == Len(handled)
         IN  /\ k <= Len(served)
             /\ handled = [i \in 1..k |-> Plain(served[i])]
             /\ \A i \in 1..k : ~Bad(served[i])
             /\ Running => Stream(SubSeq(served, 1, k)) \o rxBuffer \o wire = Stream(served)
             /\ Running /\ k < Len(served) => Len(rxBuffer) < Len(ServerEncode(served[k + 1]))
             /\ status = "badFrame" => k < Len(served) /\ Bad(served[k + 1])

(* The messages in a sequence of frames: a data frame with fin set ends one,
   which is that frame and the fragments before it. *)
MessagesIn(sent) ==
    LET data == SelectSeq(sent, LAMBDA f : IsData(f) /\ ~IsOkxPong(f))
        ends == SelectSeq([i \in DOMAIN data |-> i], LAMBDA i : data[i].fin)
        From(e) == IF e = 1 THEN 1 ELSE ends[e - 1] + 1
    IN  [e \in DOMAIN ends |->
            FlattenSeq([i \in 1..(ends[e] - From(e) + 1) |-> data[From(e) + i - 1].payload])]

(* The messages dispatched are the ones the frames make up, whatever control
   frames and pongs come between their fragments, unless a lost connection has
   left fragments behind (HandleFrame, the reassembler). *)
MessagesAsSent ==
    phase = "open" /\ Running /\ ~cutOff => dispatched = MessagesIn(handled)

(* How a server reads the client's frames. *)
RECURSIVE ServerReads(_)
ServerReads(bytes) ==
    IF bytes = <<>> THEN <<>>
    ELSE LET header == DecodeFrameHeader(bytes)
             start == header.headerSize + kMaskKeyBytes
             key == SubSeq(bytes, header.headerSize + 1, start)
             end == start + header.payloadLength
             sent == [fin |-> header.fin, opcode |-> header.opcode,
                      payload |-> [i \in 1..header.payloadLength |->
                                      bytes[start + i] ^^ key[((i - 1) % kMaskKeyBytes) + 1]]]
         IN  <<[frame |-> sent, masked |-> Masked(bytes[2])]>>
               \o ServerReads(SubSeq(bytes, end + 1, Len(bytes)))

(* What the server reads is the login and then one answer to each ping and each
   close, in order, with the payload it came with, masked: for every form of
   the length and every key. *)
RepliesAreEchoes ==
    phase = "open"
      => LET asked == SelectSeq(handled, LAMBDA f : f.opcode \in {kPing, kClose})
             Echo(f) == [f EXCEPT !.fin = TRUE,
                                  !.opcode = IF @ = kPing THEN kPong ELSE kClose]
             login == [fin |-> TRUE, opcode |-> kText, payload |-> Login]
             expected == <<login>> \o [i \in DOMAIN asked |-> Echo(asked[i])]
         IN  ServerReads(tx) = [i \in DOMAIN expected |-> [frame |-> expected[i], masked |-> TRUE]]
=============================================================================
