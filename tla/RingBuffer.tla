----------------------------- MODULE RingBuffer -----------------------------
(***************************************************************************)
(* RingBuffer<N> (net/ring_buffer.hpp) as operators on a record: the       *)
(* bytes, read_pos_ and size_.  size_ is a std::size_t: it wraps around at *)
(* SizeMod, a multiple of N as 2^64 is.                                    *)
(***************************************************************************)
EXTENDS Integers, Sequences

CONSTANTS
    N,        \* the capacity
    SizeMod,  \* 2^64
    Bytes     \* what a slot may hold

RingBuffers == [data : [0..(N - 1) -> Bytes], pos : 0..(N - 1), size : 0..(SizeMod - 1)]

FreeSpace(b) == (N - b.size) % SizeMod

MutWritten(b, bytes) ==
    [data |-> [i \in 0..(N - 1) |-> LET k == i - (b.pos + b.size) + 1
                                   IN  IF k \in 1..Len(bytes) THEN bytes[k] ELSE b.data[i]],
     pos  |-> b.pos,
     size |-> (b.size + Len(bytes)) % SizeMod]

(* Write, when it does not throw: the passes of the loop fill the slots after
   the unread ones, up to the end of the array and on from its beginning. *)
Written(b, bytes) ==
    [data |-> [i \in 0..(N - 1) |-> LET k == ((i - (b.pos + b.size)) % N) + 1
                                   IN  IF k \in 1..Len(bytes) THEN bytes[k] ELSE b.data[i]],
     pos  |-> b.pos,
     size |-> (b.size + Len(bytes)) % SizeMod]

WriteThrows(b, bytes) == Len(bytes) > FreeSpace(b)

(* How many bytes ContiguousReadableRegion offers from read_pos_ on. *)
Readable(b) == IF b.size < N - b.pos THEN b.size ELSE N - b.pos

CommitRead(b, n) ==
    [data |-> b.data, pos |-> (b.pos + n) % N, size |-> (b.size - n) % SizeMod]

Reset(b) == [data |-> b.data, pos |-> 0, size |-> 0]

(* The n bytes from a position of the array on, and all unread ones. *)
Region(b, from, n) == [i \in 1..n |-> b.data[from + i - 1]]

Unread(b) == [i \in 1..b.size |-> b.data[(b.pos + i - 1) % N]]
=============================================================================
