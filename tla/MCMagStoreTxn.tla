--------------------------- MODULE MCMagStoreTxn ---------------------------
(* MagStoreTxn on small instances.  One search query matches one of the    *)
(* two texts, the other has no terms that match anything.                  *)
EXTENDS MagStoreTxn, TLC

CONSTANTS fact, rumour, hit, miss

MCTexts == {fact, rumour}
MCQueries == {hit, miss}
MCMatches == (hit :> {fact}) @@ (miss :> {})
=============================================================================
