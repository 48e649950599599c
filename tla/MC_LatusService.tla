--------------------------- MODULE MC_LatusService ---------------------------
(***************************************************************************)
(* Model-checking instance of LatusService: two values for every setter.  *)
(***************************************************************************)
EXTENDS LatusService

CONSTANTS r1, r2, f1, f2, d1, d2, ba, aa, unset

MCRunNumbers == {r1, r2}
MCFileNames == {f1, f2}
MCDates == {d1, d2}

=============================================================================
