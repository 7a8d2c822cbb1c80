---------------------------- MODULE MCMagService ----------------------------
(* MagService on small instances.  A question that says `fact` matches the *)
(* memories that say it; no other question matches anything.               *)
EXTENDS MagService

CONSTANTS fact, secret, blank

MCMatches == [t \in Texts |-> IF t = fact THEN {fact} ELSE {}]

UserSymmetry == Permutations(Users)
Symmetry == UserSymmetry \cup Permutations(Sessions)
=============================================================================
