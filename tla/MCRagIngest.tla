----------------------------- MODULE MCRagIngest -----------------------------
(***************************************************************************)
(* Two documents and batches of two: one content takes two batches, the    *)
(* second one not full, one fits into one batch, one has no chunk and one  *)
(* cannot be parsed.  Searches ask for up to six passages, and rerank up   *)
(* to three.                                                               *)
(***************************************************************************)
EXTENDS RagSearch

CONSTANTS long, short, empty, broken

MCChunks == [c \in Contents |-> CASE c = long  -> 3
                                  [] c = short -> 1
                                  [] OTHER     -> 0]
=============================================================================
