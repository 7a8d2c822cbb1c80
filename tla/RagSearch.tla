------------------------------- MODULE RagSearch -------------------------------
(***************************************************************************)
(* The retrieval service (retrieval/main.py) over the collection that      *)
(* RagIngest keeps.  The service has no state and reads the collection     *)
(* once in a request, in one Qdrant query, so a search is no step but a    *)
(* function of the state it reads: the sets of points it may return.       *)
(* Embedding and reranking may raise, which the client sees as an error;   *)
(* the order of the passages and their scores are Qdrant's and the         *)
(* reranker's.  /chat puts the passages of a search into its prompt and    *)
(* cites all of them.                                                      *)
(***************************************************************************)
EXTENDS RagIngest

CONSTANT RerankCandidates   \* RERANK_CANDIDATES

ASSUME SearchAssumption == RerankCandidates \in Nat \ {0}

Stored == {id \in Ids : points[id] # NoPoint}

\* query_points: the dense search alone has an answer of limit points, or of all
\* there are; which of them come first is left open.
Fused(limit) == kSubset(Min({limit, Cardinality(Stored)}), Stored)

\* rerank: the k candidates the reranker scores highest.
Rerank(hits, k) == kSubset(k, hits)

\* Faulty variant: only k candidates are fetched, and those beyond are kept.
SearchPassagesSwapped(k, reranker) ==
    LET candidates == IF reranker THEN k ELSE RerankCandidates IN
    UNION {IF reranker /\ Cardinality(hits) > k THEN Rerank(hits, k) ELSE {hits} :
              hits \in Fused(candidates)}

\* search_passages, with RERANK_URL or without.
SearchPassages(k, reranker) ==
    LET candidates == IF reranker THEN RerankCandidates ELSE k IN
    UNION {IF reranker /\ Cardinality(hits) > k THEN Rerank(hits, k) ELSE {hits} :
              hits \in Fused(candidates)}

\* Left over from a longer text of the document, or from one that was removed.
LeftOver(id) ==
    \/ bucket[id[1]] = Absent
    \/ id[2] >= Chunks[bucket[id[1]]]

(***************************************************************************)
(* What a search finds after a finished run, while later runs over the     *)
(* same documents are at any point of their batches or have failed there:  *)
(* as many passages as were asked for or there are, each a chunk of its    *)
(* document as it is now unless it is left over, and all of them when as   *)
(* many were asked for.  (With a reranker, for k up to RERANK_CANDIDATES:  *)
(* beyond, a search returns no more than those.)                           *)
(***************************************************************************)
SearchIsCurrent ==
    Settled => \A k \in 1 .. Cardinality(Ids), reranker \in BOOLEAN :
        \A hits \in SearchPassages(k, reranker) :
            k <= RerankCandidates \/ ~ reranker =>
                /\ Cardinality(hits) = Min({k, Cardinality(Stored)})
                /\ \A id \in hits :
                      /\ id[2] < Chunks[points[id]]
                      /\ points[id] = bucket[id[1]] \/ LeftOver(id)
                /\ k >= Cardinality(Stored) =>
                      {id \in Ids : ~ LeftOver(id)} \subseteq hits
=============================================================================
