--------------------------- MODULE MCAccounting ---------------------------
(***************************************************************************)
(* Accounting for TLC: the currencies are interchangeable.                 *)
(***************************************************************************)
EXTENDS Accounting, TLC

CurrencySymmetry == Permutations(Currencies)
=============================================================================
