---------------------------- MODULE MCMagMemory ----------------------------
(* MagMemory on a small instance: two users, two texts, four rows ever     *)
(* inserted (MCMagMemory.cfg).                                             *)
EXTENDS MagMemory
=============================================================================
