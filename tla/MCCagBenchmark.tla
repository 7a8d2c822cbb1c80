---------------------------- MODULE MCCagBenchmark ----------------------------
(***************************************************************************)
(* Two versions of the corpus that start alike and another application.    *)
(* A prompt has 4 tokens, the last one is the question: one that is not in *)
(* the cache misses 4, the common start leaves 3 to miss, and both are     *)
(* cold; so is a cached prompt of which two tokens were evicted.           *)
(***************************************************************************)
EXTENDS CagBenchmark

CONSTANTS v1, v2, other

MCLength == [p \in {v1, v2, other} |-> IF p = other THEN 2 ELSE 4]
=============================================================================
