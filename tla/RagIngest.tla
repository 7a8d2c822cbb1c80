------------------------------ MODULE RagIngest ------------------------------
(***************************************************************************)
(* The ingestion job (ingest/ingest.py): every run lists the bucket, then  *)
(* parses, splits, embeds and upserts one document after the other, batch  *)
(* by batch, into one Qdrant collection, whose point ids are made of the   *)
(* document's name and the chunk's index.                                  *)
(*                                                                         *)
(* The CronJob forbids its own runs to overlap, but runs are also started  *)
(* by hand (k8s/rag/README.md), and a failed pod is started again: a run   *)
(* may start at any time.  Documents are uploaded, replaced and removed    *)
(* meanwhile.  The bucket, the embedding server and Qdrant are external.   *)
(*                                                                         *)
(* A content stands for the text of a document; all that is known of it is *)
(* how many chunks it is split into.  It makes the vectors, text, heading  *)
(* and source of a point; the rest of the payload, the time at which the   *)
(* document was ingested, is only told apart: by the run that read it.     *)
(***************************************************************************)
EXTENDS Integers, FiniteSets, FiniteSetsExt

CONSTANTS
    DocCount,     \* documents: names under the prefix with a supported extension
    Contents,     \* what a document may hold
    Chunks,       \* content -> the number of its chunks
    Unreadable,   \* the contents the parser raises on
    BatchSize,    \* EMBED_BATCH_SIZE
    MaxRuns,      \* bound on the runs ever started
    MaxChanges,   \* bound on the changes of the bucket
    Absent, NoPoint

ASSUME IngestAssumption ==
    /\ Chunks \in [Contents -> Nat]
    /\ Unreadable \subseteq Contents
    /\ BatchSize \in Nat \ {0}
    /\ {DocCount, MaxRuns, MaxChanges} \subseteq Nat
    /\ {Absent, NoPoint} \cap Contents = {}

VARIABLES
    bucket,       \* document -> its content, or Absent
    points,       \* the collection: <<document, chunk index>> -> content, or NoPoint
    ingested_at,  \* ... -> the run whose time it holds, or 0 without a point
    run,          \* the runs
    changes

vars == <<bucket, points, ingested_at, run, changes>>

Docs == 1 .. DocCount
Runs == 1 .. MaxRuns
Indexes == UNION {0 .. Chunks[c] - 1 : c \in Contents}
Ids == Docs \X Indexes

(***************************************************************************)
(* A run: the documents still to do, the contents it has listed, the text  *)
(* of the first one once it is parsed, the start of its next batch, and    *)
(* the documents counted as errors.  calm is history: no other run was     *)
(* active when it started and the bucket has not changed since.            *)
(***************************************************************************)
NotStarted == [pc |-> "new", todo |-> {}, listed |-> [d \in Docs |-> Absent],
               text |-> Absent, start |-> 0, errors |-> {}, calm |-> FALSE]

\* The document a run is at: they come in the order of their names.
Doc(r) == Min(run[r].todo)

Active(r) == run[r].pc \in {"parse", "batch"}

\* The next document, or the end of the run.
NextDocument(s) == [s EXCEPT !.pc = "parse", !.todo = @ \ {Min(@)}, !.text = Absent,
                             !.start = 0]

Init ==
    /\ bucket \in [Docs -> Contents \cup {Absent}]
    /\ points = [id \in Ids |-> NoPoint]
    /\ ingested_at = [id \in Ids |-> 0]
    /\ run = [r \in Runs |-> NotStarted]
    /\ changes = 0

\* Someone uploads, replaces or removes a document.
Change(d, c) ==
    /\ changes < MaxChanges
    /\ c # bucket[d]
    /\ bucket' = [bucket EXCEPT ![d] = c]
    /\ changes' = changes + 1
    /\ run' = [r \in Runs |-> [run[r] EXCEPT !.calm = FALSE]]
    /\ UNCHANGED <<points, ingested_at>>

\* list_documents: the names there are now, in order, each with its generation.
Start(r) ==
    /\ run[r].pc = "new"
    /\ \A s \in 1 .. r - 1 : run[s].pc # "new"
    /\ run' = [run EXCEPT ![r] =
                 [NotStarted EXCEPT !.pc = "parse", !.listed = bucket,
                                    !.todo = {d \in Docs : bucket[d] # Absent},
                                    !.calm = \A s \in Runs : ~ Active(s)]]
    /\ UNCHANGED <<bucket, points, ingested_at, changes>>

\* Faulty variant: a document that fails is tried again, without a limit.
ParseFailsRetried(r) ==
    /\ run[r].pc = "parse" /\ run[r].todo # {}
    /\ run' = [run EXCEPT ![r].errors = @ \cup {Doc(r)}]
    /\ UNCHANGED <<bucket, points, ingested_at, changes>>

\* The download or the parser raises: the document is counted and skipped.
ParseFails(r) ==
    /\ run[r].pc = "parse" /\ run[r].todo # {}
    /\ run' = [run EXCEPT ![r] = NextDocument([run[r] EXCEPT !.errors = @ \cup {Doc(r)}])]
    /\ UNCHANGED <<bucket, points, ingested_at, changes>>

\* What is downloaded is the generation listed (the bucket keeps them) or the
\* one there is by now.  A document without chunks is done.
Parse(r) ==
    /\ run[r].pc = "parse" /\ run[r].todo # {}
    /\ LET d == Doc(r) IN
       \E c \in {run[r].listed[d], bucket[d]} \ (Unreadable \cup {Absent}) :
          run' = [run EXCEPT ![r] = IF Chunks[c] = 0 THEN NextDocument(@)
                                    ELSE [@ EXCEPT !.pc = "batch", !.text = c]]
    /\ UNCHANGED <<bucket, points, ingested_at, changes>>

\* The chunks of the next batch.
Batch(r) == {i \in Indexes : run[r].start <= i /\ i < run[r].start + BatchSize
                                               /\ i < Chunks[run[r].text]}

\* The ids of its points.
InBatch(r, id) == id[1] = Doc(r) /\ id[2] \in Batch(r)

\* Faulty variant: ids are made of the position in the batch.
UpsertedByPosition(r) ==
    LET stored(id) == id[1] = Doc(r) /\ id[2] + run[r].start \in Batch(r) IN
    /\ points' = [id \in Ids |-> IF stored(id) THEN run[r].text ELSE points[id]]
    /\ ingested_at' = [id \in Ids |-> IF stored(id) THEN r ELSE ingested_at[id]]

\* Faulty variant: the first batch of a document removes its points.
UpsertedAfresh(r) ==
    LET removed(id) == id[1] = Doc(r) /\ run[r].start = 0 IN
    /\ points' = [id \in Ids |-> IF InBatch(r, id) THEN run[r].text
                                 ELSE IF removed(id) THEN NoPoint ELSE points[id]]
    /\ ingested_at' = [id \in Ids |-> IF InBatch(r, id) THEN r
                                      ELSE IF removed(id) THEN 0 ELSE ingested_at[id]]

\* The upsert of that batch: the points are stored over those with the same
\* ids, with the time the run read when it came to the document.
Upserted(r) ==
    /\ points' = [id \in Ids |-> IF InBatch(r, id) THEN run[r].text ELSE points[id]]
    /\ ingested_at' = [id \in Ids |-> IF InBatch(r, id) THEN r ELSE ingested_at[id]]

\* One batch is embedded and upserted.
Upsert(r) ==
    LET next == run[r].start + BatchSize IN
    /\ run[r].pc = "batch"
    /\ Upserted(r)
    /\ run' = [run EXCEPT ![r] = IF next < Chunks[run[r].text]
                                 THEN [@ EXCEPT !.start = next] ELSE NextDocument(@)]
    /\ UNCHANGED <<bucket, changes>>

\* embed_batch or upsert raises, after Qdrant took the points or before: no
\* handler catches it, the run ends.
BatchFails(r) ==
    /\ run[r].pc = "batch"
    /\ Upserted(r) \/ UNCHANGED <<points, ingested_at>>
    /\ run' = [run EXCEPT ![r].pc = "crashed"]
    /\ UNCHANGED <<bucket, changes>>

\* The pod is evicted or killed.
PodDies(r) ==
    /\ Active(r)
    /\ run' = [run EXCEPT ![r].pc = "crashed"]
    /\ UNCHANGED <<bucket, points, ingested_at, changes>>

\* Exit code 0 without errors, else 1.
Exit(r) ==
    /\ run[r].pc = "parse" /\ run[r].todo = {}
    /\ run' = [run EXCEPT ![r].pc = IF run[r].errors = {} THEN "ok" ELSE "errors"]
    /\ UNCHANGED <<bucket, points, ingested_at, changes>>

Step(r) == Parse(r) \/ ParseFails(r) \/ Upsert(r) \/ BatchFails(r) \/ Exit(r)

Next ==
    \/ \E r \in Runs : Start(r) \/ Step(r) \/ PodDies(r)
    \/ \E d \in Docs, c \in Contents \cup {Absent} : Change(d, c)

Spec == Init /\ [][Next]_vars

\* Downloads, embeddings and upserts answer or time out, so a run goes on.
FairSpec == Spec /\ \A r \in Runs : WF_vars(Step(r))

-----------------------------------------------------------------------------
\* Shape of the state; a point is a chunk its content has.
TypeOK ==
    /\ bucket \in [Docs -> Contents \cup {Absent}]
    /\ DOMAIN points = Ids
    /\ \A id \in Ids : points[id] # NoPoint =>
          points[id] \in Contents \ Unreadable /\ id[2] < Chunks[points[id]]
    /\ ingested_at \in [Ids -> {0} \cup Runs]
    /\ \A id \in Ids : ingested_at[id] = 0 <=> points[id] = NoPoint
    /\ \A r \in Runs :
          /\ run[r].pc \in {"new", "parse", "batch", "ok", "errors", "crashed"}
          /\ run[r].todo \subseteq Docs
          /\ run[r].errors \subseteq Docs
          /\ run[r].pc = "batch" => run[r].text \in Contents /\
                                    run[r].start < Chunks[run[r].text]

\* Every chunk of the document as it is now is in the collection.
Fresh(d) == \A i \in 0 .. Chunks[bucket[d]] - 1 : points[<<d, i>>] = bucket[d]

(***************************************************************************)
(* A run that got to its end covers every document it has not counted as   *)
(* an error, in full, and stays right until the bucket changes: a document *)
(* that fails keeps no other one out, and no later run, not even one that  *)
(* overlaps it, fails half-way or dies, undoes it.  (Only for a run that   *)
(* started alone: one started before the last change may still write what  *)
(* it had read.)                                                           *)
(***************************************************************************)
FinishedRunCovers ==
    \A r \in Runs : run[r].calm /\ run[r].pc \in {"ok", "errors"} =>
        \A d \in Docs : bucket[d] # Absent /\ d \notin run[r].errors => Fresh(d)

Settled == \E r \in Runs : run[r].calm /\ run[r].pc = "ok"

(***************************************************************************)
(* After a run that covered the bucket no step of any run changes what is  *)
(* found: the ids, texts and vectors stay, even between two batches        *)
(* (ingest.py:158-173).  That is all that is left of "re-running the job   *)
(* over the same documents is a no-op" (ingest.py:5): the time of every    *)
(* point is new (ingest.py:154, 171).                                      *)
(***************************************************************************)
ReRunKeepsPassages == [][Settled /\ Settled' => points' = points]_vars

(***************************************************************************)
(* What a failed run left half done, the next one that gets through heals  *)
(* (docs/rag-implementation.md:234): it ends, and by the above covers the  *)
(* documents.                                                              *)
(***************************************************************************)
EveryRunEnds == \A r \in Runs : Active(r) ~> ~ Active(r)
=============================================================================
