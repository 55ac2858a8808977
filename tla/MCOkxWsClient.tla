--------------------------- MODULE MCOkxWsClient ---------------------------
(***************************************************************************)
(* OkxWsClient for TLC: a ring of five bytes that two orders and a ping    *)
(* fill, so that frames wrap around its end and overflow it.               *)
(***************************************************************************)
EXTENDS OkxWsClient

MCFrameLen == [kind \in FrameKinds |-> IF kind \in {"ping", "pong"} THEN 1 ELSE 2]
=============================================================================
