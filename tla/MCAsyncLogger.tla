--------------------------- MODULE MCAsyncLogger ---------------------------
(***************************************************************************)
(* AsyncLogger for TLC: a ring that holds two records, so that it wraps,   *)
(* fills and empties several times; one level below the minimum.           *)
(***************************************************************************)
EXTENDS AsyncLogger

MCLevels == {0, 1}
=============================================================================
