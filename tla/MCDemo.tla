-------------------------------- MODULE MCDemo --------------------------------
(***************************************************************************)
(* Two terminals and every method.                                         *)
(***************************************************************************)
EXTENDS Demo, TLC

CONSTANTS t1, t2

MCSymmetry == Permutations({t1, t2})
=============================================================================
