----------------------------- MODULE MCCagCorpus -----------------------------
(***************************************************************************)
(* Two files, of 2 or 3 tokens each: two of the long ones are over the     *)
(* corpus budget of 5.  With a reserve and an output of 1 each, a question *)
(* of 3 tokens fits the context of 10 beside a corpus of 5, one of 4 only  *)
(* beside a smaller one.  The last question has more tokens than half its  *)
(* characters.                                                             *)
(***************************************************************************)
EXTENDS CagCorpus

CONSTANTS short, long

MCTokens == [c \in Contents |-> IF c = short THEN 2 ELSE 3]
MCQuestions == {[chars |-> 6, tokens |-> 3], [chars |-> 6, tokens |-> 4]}
=============================================================================
