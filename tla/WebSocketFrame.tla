--------------------------- MODULE WebSocketFrame ---------------------------
(***************************************************************************)
(* The frame codec (net/websocket_frame.cpp) as operators on sequences of  *)
(* bytes.  The two lengths at which the encoding of a length changes are   *)
(* constants, so that short frames take all three forms; the bits of the   *)
(* two base bytes and the markers are the code's.                          *)
(***************************************************************************)
EXTENDS Integers, Sequences, Bitwise

CONSTANTS
    kMaxBaseLength,        \* 125 in the code
    kMaxExtended16Length   \* 65535 in the code

kBaseHeaderSize == 2
kExtended16Marker == 126
kExtended64Marker == 127
kExtended16Bytes == 2
kExtended64Bytes == 8
kMaskKeyBytes == 4

kContinuation == 0
kText == 1
kBinary == 2
kClose == 8
kPing == 9
kPong == 10
ValidOpcodes == {kContinuation, kText, kBinary, kClose, kPing, kPong}

(* The fields of the base bytes. *)
Fin(byte0) == byte0 \div 128 = 1
Rsv(byte0) == (byte0 \div 16) % 8
Opcode(byte0) == byte0 % 16
Masked(byte1) == byte1 \div 128 = 1
LengthMarker(byte1) == byte1 % 128

ReadBigEndian(data, offset, n) ==
    LET value[i \in 0..n] == IF i = 0 THEN 0 ELSE value[i - 1] * 256 + data[offset + i]
    IN  value[n]

(* Lengths are below 2^31 here, so that the upper four of eight bytes are 0. *)
AppendBigEndian(value, n) ==
    [i \in 1..n |-> IF n - i >= 4 THEN 0 ELSE (value \div 256 ^ (n - i)) % 256]

(* How many bytes of length follow the base header. *)
ExtendedBytes(byte1) ==
    IF LengthMarker(byte1) = kExtended16Marker THEN kExtended16Bytes
    ELSE IF LengthMarker(byte1) = kExtended64Marker THEN kExtended64Bytes
    ELSE 0

(* What DecodeFrameHeader throws on: the base header is there and is not one a
   server may send. *)
DecodeThrows(data) ==
    /\ Len(data) >= kBaseHeaderSize
    /\ \/ Rsv(data[1]) # 0
       \/ Masked(data[2])
       \/ Opcode(data[1]) \notin ValidOpcodes

(* DecodeFrameHeader returns nullopt. *)
HeaderIncomplete(data) ==
    \/ Len(data) < kBaseHeaderSize
    \/ Len(data) < kBaseHeaderSize + ExtendedBytes(data[2])

DecodeFrameHeader(data) ==
    [fin |-> Fin(data[1]),
     opcode |-> Opcode(data[1]),
     payloadLength |-> IF ExtendedBytes(data[2]) = 0
                       THEN LengthMarker(data[2])
                       ELSE ReadBigEndian(data, kBaseHeaderSize, ExtendedBytes(data[2])),
     headerSize |-> kBaseHeaderSize + ExtendedBytes(data[2])]

(* DecodeFrame returns nullopt. *)
FrameIncomplete(data) ==
    \/ HeaderIncomplete(data)
    \/ LET header == DecodeFrameHeader(data)
       IN  Len(data) < header.headerSize + header.payloadLength

DecodeFrame(data) ==
    LET header == DecodeFrameHeader(data)
        total == header.headerSize + header.payloadLength
    IN  [fin |-> header.fin,
         opcode |-> header.opcode,
         payload |-> SubSeq(data, header.headerSize + 1, total),
         totalSize |-> total]

(* The second base byte with the bytes of length behind it. *)
EncodeLength(maskBit, n) ==
    IF n <= kMaxBaseLength THEN <<maskBit + n>>
    ELSE IF n <= kMaxExtended16Length
    THEN <<maskBit + kExtended16Marker>> \o AppendBigEndian(n, kExtended16Bytes)
    ELSE <<maskBit + kExtended64Marker>> \o AppendBigEndian(n, kExtended64Bytes)

MutApplyMask(payload, key) == [i \in DOMAIN payload |-> payload[i] ^^ key[(i % kMaskKeyBytes) + 1]]

ApplyMask(payload, key) ==
    [i \in DOMAIN payload |-> payload[i] ^^ key[((i - 1) % kMaskKeyBytes) + 1]]

EncodeFrame(opcode, payload, key) ==
    <<128 + opcode>> \o EncodeLength(128, Len(payload)) \o key \o ApplyMask(payload, key)
=============================================================================
