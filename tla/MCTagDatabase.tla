---------------------------- MODULE MCTagDatabase ----------------------------
(* TagDatabase with processes that are interchangeable.                    *)
EXTENDS TagDatabase, TLC

Symmetry == Permutations(Processes)
=============================================================================
