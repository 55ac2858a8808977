--------------------------- MODULE MCFrameStream ---------------------------
(***************************************************************************)
(* FrameStream for TLC: frames whose lengths take all three forms, the     *)
(* fragments of a message, pings and a close, both kinds of pong, and one  *)
(* frame for each thing DecodeFrameHeader throws on.                       *)
(***************************************************************************)
EXTENDS FrameStream

Good(fin, opcode, payload) ==
    [fin |-> fin, opcode |-> opcode, payload |-> payload, rsv |-> 0, masked |-> 0]

MCServerFrames ==
    {Good(TRUE, kPing, <<7, 200, 9>>), Good(TRUE, kClose, <<3, 232>>),
     Good(TRUE, kPong, <<1>>), Good(TRUE, kText, <<112>>),
     Good(TRUE, kBinary, <<137>>), Good(FALSE, kText, <<123, 1>>),
     Good(FALSE, kContinuation, <<2>>), Good(TRUE, kContinuation, <<129>>),
     [Good(TRUE, kText, <<5>>) EXCEPT !.rsv = 4],
     [Good(TRUE, kText, <<5>>) EXCEPT !.masked = 1],
     Good(TRUE, 3, <<>>)}

MCKeys == {<<0, 0, 0, 0>>, <<17, 34, 255, 128>>}
MCLogin == <<123, 125>>
MCOkxPong == <<112>>
=============================================================================
