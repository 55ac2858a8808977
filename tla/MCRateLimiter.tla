--------------------------- MODULE MCRateLimiter ---------------------------
(***************************************************************************)
(* RateLimiter for TLC: two endpoints with different limits, so that rings *)
(* of one and of several slots both wrap, and windows that hold a grant on *)
(* their very edge.                                                        *)
(***************************************************************************)
EXTENDS RateLimiter

MCOps == {"order", "amend"}

MCCapacity == [op \in MCOps |-> IF op = "order" THEN 3 ELSE 1]

MCWindow == [op \in MCOps |-> IF op = "order" THEN 2 ELSE 1]
=============================================================================
