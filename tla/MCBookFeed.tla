----------------------------- MODULE MCBookFeed -----------------------------
(***************************************************************************)
(* BookFeed for TLC: one more bid price than the array holds, so that      *)
(* levels are inserted at the front, in the middle and at the end, and     *)
(* fall off.                                                               *)
(***************************************************************************)
EXTENDS BookFeed

MCPrices == [side \in Sides |-> IF side = "bids" THEN 1..3 ELSE {4}]
=============================================================================
