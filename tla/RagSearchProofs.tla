-------------------------- MODULE RagSearchProofs --------------------------
(***************************************************************************)
(* Proofs about RagIngest and RagSearch, for every set of documents and    *)
(* contents, any split into chunks and batches, and any number of runs and *)
(* changes of the bucket.                                                  *)
(*                                                                         *)
(* While some run is calm the bucket has not changed since that run        *)
(* started, alone: whatever run is active has therefore started since, and *)
(* goes by the bucket as it is (Agreement).  So every point written is     *)
(* right, and what a calm run has done (Coverage) is never undone.         *)
(***************************************************************************)
EXTENDS RagSearch, FiniteSetTheorems, WellFoundedInduction, TLAPS

\* The state of a run.
State == [pc : {"new", "parse", "batch", "ok", "errors", "crashed"}, todo : SUBSET Docs,
          listed : [Docs -> Contents \cup {Absent}], text : Contents \cup {Absent},
          start : Nat, errors : SUBSET Docs, calm : BOOLEAN]

Collection == [Ids -> Contents \cup {NoPoint}]

\* A point is a chunk its content has, and its content was readable.
Possible(pts) ==
    \A id \in Ids : pts[id] # NoPoint => pts[id] \notin Unreadable /\ id[2] < Chunks[pts[id]]

\* The points there are.
There(pts) == {id \in Ids : pts[id] # NoPoint}

\* A run begins a document at its first chunk.  One in a batch has a document
\* with a chunk still to do; a run that got to its end has none, and no error
\* if it says so.
Steady(s) ==
    /\ s.pc = "parse" => s.start = 0
    /\ s.pc = "batch" => s.todo # {} /\ s.text \in Contents \ Unreadable
                         /\ s.start < Chunks[s.text]
    /\ s.pc \in {"ok", "errors"} => s.todo = {}
    /\ s.pc = "ok" => s.errors = {}

\* The run goes by the bucket as it is.
Agrees(s, bk) ==
    s.pc \in {"parse", "batch"} =>
        /\ s.listed = bk
        /\ s.pc = "batch" => s.text = bk[Min(s.todo)]

\* Every chunk of the document is in the collection.
Right(d, bk, pts) == \A i \in 0 .. Chunks[bk[d]] - 1 : pts[<<d, i>>] = bk[d]

\* What the run has done so far: the documents it is through with, and the
\* first batches of the one it is at.
Covers(s, bk, pts) ==
    /\ s.pc \in {"parse", "batch", "ok", "errors"} =>
          \A d \in Docs \ (s.todo \cup s.errors) : bk[d] # Absent => Right(d, bk, pts)
    /\ s.pc = "batch" => \A i \in 0 .. s.start - 1 : pts[<<Min(s.todo), i>>] = bk[Min(s.todo)]

Shape ==
    /\ bucket \in [Docs -> Contents \cup {Absent}]
    /\ points \in Collection /\ Possible(points) /\ IsFiniteSet(There(points))
    /\ run \in [Runs -> State]
    /\ \A r \in Runs : Steady(run[r])

Agreement == \A r, s \in Runs : run[r].calm => Agrees(run[s], bucket)

Coverage == \A r \in Runs : run[r].calm => run[r].pc # "new" /\ Covers(run[r], bucket, points)

IInv == Shape /\ Agreement /\ Coverage

-----------------------------------------------------------------------------
(* Documents, chunks and points.                                           *)

\* The constants, as the proofs use them.
LEMMA Constants ==
    /\ DocCount \in Nat /\ Docs = 1 .. DocCount /\ MaxRuns \in Nat /\ Runs = 1 .. MaxRuns
    /\ \A c \in Contents : Chunks[c] \in Nat
    /\ Unreadable \subseteq Contents /\ BatchSize \in Nat \ {0}
    /\ Absent \notin Contents /\ NoPoint \notin Contents
BY IngestAssumption DEF Docs, Runs

\* A set of naturals has a least element: the smallest of its initial segments.
LEMMA LeastOf ==
    ASSUME NEW S \in SUBSET Nat, S # {}
    PROVE  \E x \in S : \A y \in S : x <= y
<1> DEFINE T == {0 .. x : x \in S}
<1>1. \A x \in Nat : IsFiniteSet(0 .. x)
  BY FS_Interval
<1>2. T \subseteq FiniteSubsetsOf(Nat) /\ T # {}
  <2>1. \A x \in S : 0 .. x \in FiniteSubsetsOf(Nat)
    BY <1>1 DEF FiniteSubsetsOf
  <2>2. T \subseteq FiniteSubsetsOf(Nat)
    BY <2>1
  <2>3. PICK x \in S : TRUE
    OBVIOUS
  <2>4. 0 .. x \in T
    BY <2>3
  <2> QED BY <2>2, <2>4
<1>3. PICK t \in T : \A u \in T : ~ (<<u, t>> \in StrictSubsetOrdering(Nat))
  <2> HIDE DEF T
  <2> QED BY <1>2, WFMin, FS_StrictSubsetOrderingWellFounded
<1>4. PICK x \in S : t = 0 .. x
  BY <1>3
<1>5. ASSUME NEW y \in S, y < x PROVE FALSE
  <2>1. 0 .. y \in T
    OBVIOUS
  <2>2. 0 .. y \subseteq 0 .. x /\ x \in 0 .. x /\ x \notin 0 .. y
    BY <1>5
  <2>3. 0 .. y \in SUBSET Nat /\ 0 .. x \in SUBSET Nat /\ 0 .. y # 0 .. x
    BY <2>2
  <2>4. <<0 .. y, 0 .. x>> \in StrictSubsetOrdering(Nat)
    BY <2>2, <2>3 DEF StrictSubsetOrdering
  <2> QED BY <1>3, <1>4, <2>1, <2>4
<1> QED BY <1>5

\* The document a run is at is one of those it has still to do.
LEMMA MinIn ==
    ASSUME NEW S \in SUBSET Docs, S # {}
    PROVE  Min(S) \in S
<1>1. S \in SUBSET Nat
  BY Constants
<1>2. \E x \in S : \A y \in S : x <= y
  BY <1>1, LeastOf
<1> QED BY <1>2 DEF Min

\* Every chunk of every content has a point in the collection.
LEMMA ChunkIds ==
    ASSUME NEW d \in Docs, NEW c \in Contents, NEW i \in 0 .. Chunks[c] - 1
    PROVE  i \in Indexes /\ <<d, i>> \in Ids /\ i \in Nat /\ <<d, i>>[1] = d /\ <<d, i>>[2] = i
<1>1. i \in Indexes
  BY DEF Indexes
<1> QED BY <1>1, Constants DEF Ids

\* A point id is a document and an index.
LEMMA IdParts ==
    ASSUME NEW id \in Ids
    PROVE  id[1] \in Docs /\ id[2] \in Indexes /\ id[2] \in Nat /\ id = <<id[1], id[2]>>
<1>1. \A c \in Contents : 0 .. Chunks[c] - 1 \subseteq Nat
  BY Constants
<1>2. Indexes \subseteq Nat
  BY <1>1 DEF Indexes
<1>3. id \in Docs \X Indexes
  BY DEF Ids
<1>4. id[1] \in Docs /\ id[2] \in Indexes /\ id = <<id[1], id[2]>>
  BY <1>3
<1> QED BY <1>2, <1>4

\* The parts of a run's state.
LEMMA StateFields ==
    ASSUME NEW s \in State
    PROVE  /\ s.pc \in {"new", "parse", "batch", "ok", "errors", "crashed"}
           /\ s.todo \in SUBSET Docs /\ s.errors \in SUBSET Docs
           /\ s.listed \in [Docs -> Contents \cup {Absent}] /\ s.text \in Contents \cup {Absent}
           /\ s.start \in Nat /\ s.calm \in BOOLEAN
BY DEF State

-----------------------------------------------------------------------------
(* What a batch writes.                                                    *)

\* The points of the collection that are right stay so.
Kept(pts) == \A id \in Ids : points[id] = bucket[id[1]] => pts[id] = bucket[id[1]]

\* The contents of the collection after the batch of run r.
Written(r) == [id \in Ids |-> IF InBatch(r, id) THEN run[r].text ELSE points[id]]

\* A collection the invariant allows.
Sound(pts) == pts \in Collection /\ Possible(pts) /\ IsFiniteSet(There(pts))

\* A batch writes chunks its content has, and, while any run is calm, right ones.
LEMMA WriteIsSound ==
    ASSUME IInv, NEW r \in Runs, run[r].pc = "batch"
    PROVE  /\ Sound(Written(r))
           /\ \A s \in Runs : run[s].calm => Kept(Written(r))
<1> DEFINE d == Doc(r)
           text == run[r].text
           batch == Batch(r)
           pts == Written(r)
<1>1. /\ run[r] \in State /\ text \in Contents \ Unreadable /\ d \in Docs
      /\ run[r].start \in Nat /\ points \in Collection /\ Possible(points)
      /\ IsFiniteSet(There(points))
  <2>1. run[r] \in State /\ Steady(run[r])
    BY DEF IInv, Shape
  <2>2. d \in Docs
    BY <2>1, StateFields, MinIn DEF Steady, Doc
  <2> QED BY <2>1, <2>2, StateFields DEF IInv, Shape, Steady
<1>2. /\ batch \subseteq run[r].start .. run[r].start + BatchSize
      /\ \A i \in batch : i < Chunks[text]
  <2>1. \A i \in Indexes : i \in Nat
    BY Constants DEF Indexes
  <2> QED BY <1>1, <2>1, Constants DEF Batch
<1>3. pts = [id \in Ids |-> IF id[1] = d /\ id[2] \in batch THEN text ELSE points[id]]
  BY DEF Written, InBatch
<1> HIDE DEF d, text, batch, pts
<1>4. pts \in Collection /\ Possible(pts)
  BY <1>1, <1>2, <1>3 DEF Collection, Possible
<1>5. IsFiniteSet(There(pts))
  <2> DEFINE new == {d} \X (run[r].start .. run[r].start + BatchSize)
  <2>1. IsFiniteSet(new)
    <3>1. IsFiniteSet({d})
      BY FS_Singleton
    <3>2. run[r].start \in Int /\ run[r].start + BatchSize \in Int
      BY <1>1, Constants
    <3>3. IsFiniteSet(run[r].start .. run[r].start + BatchSize)
      BY <3>2, FS_Interval
    <3> QED BY <3>1, <3>3, FS_Product
  <2>2. There(pts) \subseteq There(points) \cup new
    BY <1>2, <1>3, IdParts DEF There
  <2> HIDE DEF new
  <2>3. IsFiniteSet(There(points) \cup new)
    BY <1>1, <2>1, FS_Union
  <2> QED BY <2>2, <2>3, FS_Subset
<1>6. ASSUME NEW s \in Runs, run[s].calm PROVE Kept(pts)
  <2>1. text = bucket[d]
    BY <1>6 DEF IInv, Agreement, Agrees, text, d, Doc
  <2> QED BY <1>3, <2>1 DEF Kept
<1> QED BY <1>4, <1>5, <1>6 DEF Sound, pts

\* What is right stays right.
LEMMA KeptIsRight ==
    ASSUME IInv, NEW pts, Kept(pts), NEW d \in Docs, bucket[d] # Absent, Right(d, bucket, points)
    PROVE  Right(d, bucket, pts)
<1>1. bucket[d] \in Contents
  BY DEF IInv, Shape
<1>2. ASSUME NEW i \in 0 .. Chunks[bucket[d]] - 1 PROVE pts[<<d, i>>] = bucket[d]
  <2>1. <<d, i>> \in Ids /\ <<d, i>>[1] = d
    BY <1>1, ChunkIds
  <2>2. points[<<d, i>>] = bucket[d]
    BY DEF Right
  <2> QED BY <2>1, <2>2 DEF Kept
<1> QED BY <1>2 DEF Right

\* What a calm run has done is never undone.
LEMMA KeptIsCovered ==
    ASSUME IInv, NEW pts, Kept(pts), NEW s \in Runs, run[s].calm
    PROVE  Covers(run[s], bucket, pts)
<1>1. /\ run[s] \in State /\ Steady(run[s]) /\ Covers(run[s], bucket, points)
      /\ Agrees(run[s], bucket)
  BY DEF IInv, Shape, Coverage, Agreement
<1>2. ASSUME run[s].pc \in {"parse", "batch", "ok", "errors"},
             NEW d \in Docs \ (run[s].todo \cup run[s].errors), bucket[d] # Absent
      PROVE  Right(d, bucket, pts)
  BY <1>1, <1>2, KeptIsRight DEF Covers
<1>3. ASSUME run[s].pc = "batch", NEW i \in 0 .. run[s].start - 1
      PROVE  pts[<<Min(run[s].todo), i>>] = bucket[Min(run[s].todo)]
  <2> DEFINE d == Min(run[s].todo)
  <2>1. d \in Docs
    BY <1>1, <1>3, StateFields, MinIn DEF Steady
  <2>2. /\ run[s].text \in Contents /\ run[s].start < Chunks[run[s].text] /\ run[s].start \in Nat
        /\ points[<<d, i>>] = bucket[d]
    BY <1>1, <1>3, StateFields DEF Steady, Covers
  <2>3. i \in 0 .. Chunks[run[s].text] - 1
    BY <2>2, Constants
  <2> HIDE DEF d
  <2>4. <<d, i>> \in Ids /\ <<d, i>>[1] = d
    BY <2>1, <2>2, <2>3, ChunkIds
  <2>5. pts[<<d, i>>] = bucket[d]
    BY <2>2, <2>4 DEF Kept
  <2> QED BY <2>5 DEF d
<1> QED BY <1>2, <1>3 DEF Covers

-----------------------------------------------------------------------------
(* Every step preserves the invariant.                                     *)

\* A run takes its step to q.
LEMMA StepKeeps ==
    ASSUME IInv, NEW r \in Runs, NEW q \in State, Steady(q),
           run' = [run EXCEPT ![r] = q], bucket' = bucket, Sound(points'),
           \A s \in Runs : run[s].calm => Kept(points'),
           q.calm => /\ q.pc # "new" /\ Covers(q, bucket, points')
                     /\ run[r].calm \/ \A s \in Runs : ~ Active(s),
           q.calm \/ (\E s \in Runs : run[s].calm) => Agrees(q, bucket)
    PROVE  IInv'
<1>1. /\ run' \in [Runs -> State] /\ run'[r] = q
      /\ \A s \in Runs : s # r => run'[s] = run[s]
  BY DEF IInv, Shape
<1>2. Shape'
  <2>1. \A s \in Runs : Steady(run'[s])
    BY <1>1 DEF IInv, Shape
  <2>2. (\A s \in Runs : Steady(run[s]))'
    BY <2>1 DEF Steady
  <2>3. points' \in Collection /\ Possible(points)' /\ IsFiniteSet(There(points))'
    BY DEF Sound, Possible, There
  <2> QED BY <1>1, <2>2, <2>3 DEF IInv, Shape
<1>3. Agreement'
  <2>1. ASSUME NEW s \in Runs, NEW t \in Runs, run'[s].calm PROVE Agrees(run'[t], bucket)
    <3>1. CASE t = r
      BY <1>1, <2>1, <3>1
    <3>2. CASE t # r /\ run[t].pc \notin {"parse", "batch"}
      BY <1>1, <3>2 DEF Agrees
    <3>3. CASE t # r /\ run[t].pc \in {"parse", "batch"}
      <4>1. \E u \in Runs : run[u].calm
        BY <1>1, <2>1, <3>3 DEF Active
      <4> QED BY <1>1, <3>3, <4>1 DEF IInv, Agreement
    <3> QED BY <3>1, <3>2, <3>3
  <2> QED BY <2>1 DEF Agreement, Agrees
<1>4. Coverage'
  <2>1. ASSUME NEW s \in Runs, run'[s].calm
        PROVE  run'[s].pc # "new" /\ Covers(run'[s], bucket, points')
    <3>1. CASE s = r
      BY <1>1, <2>1, <3>1
    <3>2. CASE s # r
      <4>1. run[s].calm /\ run'[s] = run[s]
        BY <1>1, <2>1, <3>2
      <4>2. Kept(points')
        BY <4>1
      <4> QED BY <4>1, <4>2, KeptIsCovered DEF IInv, Coverage
    <3> QED BY <3>1, <3>2
  <2> QED BY <2>1 DEF Coverage, Covers, Right
<1> QED BY <1>2, <1>3, <1>4 DEF IInv

\* Nothing is written.
LEMMA SamePoints ==
    ASSUME IInv
    PROVE  Sound(points) /\ Kept(points)
BY DEF IInv, Shape, Sound, Kept

\* The bucket changes: no run is calm any more.
LEMMA ChangeKeeps ==
    ASSUME IInv, NEW d \in Docs, NEW c \in Contents \cup {Absent}, Change(d, c)
    PROVE  IInv'
<1>1. ASSUME NEW r \in Runs
      PROVE  /\ run'[r] \in State /\ ~ run'[r].calm /\ Steady(run'[r])
  <2>1. run[r] \in State /\ Steady(run[r]) /\ run'[r] = [run[r] EXCEPT !.calm = FALSE]
    BY DEF IInv, Shape, Change
  <2> QED BY <2>1 DEF State, Steady
<1>2. run' \in [Runs -> State]
  <2>1. run' = [r \in Runs |-> run'[r]]
    BY DEF Change
  <2> QED BY <1>1, <2>1
<1>3. Shape'
  BY <1>1, <1>2 DEF IInv, Shape, Change, Steady, Possible, There
<1> QED BY <1>1, <1>3 DEF IInv, Agreement, Coverage

\* A run lists the bucket as it is, calm if it is alone.
LEMMA StartKeeps ==
    ASSUME IInv, NEW r \in Runs, Start(r)
    PROVE  IInv'
<1>1. PICK b \in BOOLEAN : b <=> \A s \in Runs : ~ Active(s)
  OBVIOUS
<1> DEFINE there == {d \in Docs : bucket[d] # Absent}
           q == [NotStarted EXCEPT !.pc = "parse", !.listed = bucket, !.todo = there, !.calm = b]
<1>2. run' = [run EXCEPT ![r] = q] /\ points' = points /\ bucket' = bucket
  BY <1>1, Zenon DEF Start
<1>3. /\ q \in State /\ q.pc = "parse" /\ q.listed = bucket /\ q.todo = there /\ q.calm = b
      /\ q.start = 0
  <2>1. NotStarted \in State /\ NotStarted.start = 0
    BY DEF NotStarted, State
  <2>2. bucket \in [Docs -> Contents \cup {Absent}] /\ there \in SUBSET Docs
    BY DEF IInv, Shape
  <2> HIDE DEF there
  <2> QED BY <2>1, <2>2 DEF State
<1> HIDE DEF q
<1>4. Steady(q) /\ Agrees(q, bucket) /\ Covers(q, bucket, points)
  BY <1>3 DEF Steady, Agrees, Covers
<1> QED BY <1>1, <1>2, <1>3, <1>4, SamePoints, StepKeeps

\* A run that is done with its document turns to the next one.
LEMMA NextDocumentKeeps ==
    ASSUME IInv, NEW r \in Runs, run[r].pc \in {"parse", "batch"}, run[r].todo # {},
           NEW s \in State, s.todo = run[r].todo, s.listed = run[r].listed, s.calm = run[r].calm,
           s.errors = run[r].errors \/ s.errors = run[r].errors \cup {Doc(r)},
           run' = [run EXCEPT ![r] = NextDocument(s)], bucket' = bucket, Sound(points'),
           \A t \in Runs : run[t].calm => Kept(points'),
           run[r].calm /\ Doc(r) \notin s.errors /\ bucket[Doc(r)] # Absent =>
              Right(Doc(r), bucket, points')
    PROVE  IInv'
<1> DEFINE q == NextDocument(s)
<1>1. /\ q \in State /\ q.pc = "parse" /\ q.todo = run[r].todo \ {Doc(r)}
      /\ q.listed = run[r].listed /\ q.calm = run[r].calm /\ q.errors = s.errors
      /\ q.start = 0
  BY DEF State, NextDocument, Doc
<1>2. run' = [run EXCEPT ![r] = q]
  OBVIOUS
<1> HIDE DEF q
<1>3. Steady(q)
  BY <1>1 DEF Steady
<1>4. ASSUME \E t \in Runs : run[t].calm PROVE Agrees(q, bucket)
  <2>1. Agrees(run[r], bucket)
    BY <1>4 DEF IInv, Agreement
  <2> QED BY <1>1, <2>1 DEF Agrees
<1>5. ASSUME run[r].calm PROVE Covers(q, bucket, points')
  <2>1. Covers(run[r], bucket, points')
    BY <1>5, KeptIsCovered
  <2>2. \A d \in Docs \ (q.todo \cup q.errors) : bucket[d] # Absent => Right(d, bucket, points')
    BY <1>1, <1>5, <2>1 DEF Covers
  <2> QED BY <1>1, <2>2 DEF Covers
<1> QED BY <1>1, <1>2, <1>3, <1>4, <1>5, StepKeeps

\* A run reads its document: the one in the bucket, while any run is calm.
LEMMA ParseKeeps ==
    ASSUME IInv, NEW r \in Runs, Parse(r)
    PROVE  IInv'
<1>0. /\ run[r] \in State /\ run[r].pc = "parse" /\ run[r].todo # {}
      /\ bucket' = bucket /\ points' = points /\ Doc(r) \in run[r].todo /\ Doc(r) \in Docs
  <2>1. /\ run[r] \in State /\ run[r].pc = "parse" /\ run[r].todo # {}
        /\ bucket' = bucket /\ points' = points
    BY DEF IInv, Shape, Parse
  <2> QED BY <2>1, StateFields, MinIn DEF Doc
<1>1. PICK c \in {run[r].listed[Doc(r)], bucket[Doc(r)]} \ (Unreadable \cup {Absent}) :
         run' = [run EXCEPT ![r] = IF Chunks[c] = 0 THEN NextDocument(run[r])
                                   ELSE [run[r] EXCEPT !.pc = "batch", !.text = c]]
  BY DEF Parse
<1>2. c \in Contents \ Unreadable
  BY <1>0, <1>1, StateFields DEF IInv, Shape
<1>3. ASSUME \E t \in Runs : run[t].calm PROVE c = bucket[Doc(r)]
  <2>1. Agrees(run[r], bucket)
    BY <1>3 DEF IInv, Agreement
  <2> QED BY <1>0, <1>1, <2>1 DEF Agrees
<1>4. CASE Chunks[c] = 0
  <2>1. run[r].calm => Right(Doc(r), bucket, points')
    BY <1>3, <1>4 DEF Right
  <2> QED BY <1>0, <1>1, <1>4, <2>1, SamePoints, NextDocumentKeeps
<1>5. CASE Chunks[c] # 0
  <2> DEFINE q == [run[r] EXCEPT !.pc = "batch", !.text = c]
  <2>1. /\ q \in State /\ q.pc = "batch" /\ q.text = c /\ q.todo = run[r].todo
        /\ q.listed = run[r].listed /\ q.calm = run[r].calm /\ q.errors = run[r].errors
        /\ q.start = run[r].start
    BY <1>0, <1>2 DEF State
  <2>2. run' = [run EXCEPT ![r] = q]
    BY <1>1, <1>5
  <2> HIDE DEF q
  <2>3. Steady(q)
    <3>1. Chunks[c] \in Nat /\ run[r].start = 0
      BY <1>0, <1>2, Constants DEF IInv, Shape, Steady
    <3> QED BY <1>0, <1>2, <1>5, <2>1, <3>1 DEF Steady
  <2>4. ASSUME \E t \in Runs : run[t].calm PROVE Agrees(q, bucket)
    <3>1. Agrees(run[r], bucket) /\ c = bucket[Doc(r)]
      BY <1>3, <2>4 DEF IInv, Agreement
    <3> QED BY <1>0, <2>1, <3>1 DEF Agrees, Doc
  <2>5. ASSUME run[r].calm PROVE Covers(q, bucket, points)
    <3>1. Covers(run[r], bucket, points) /\ run[r].start = 0
      BY <1>0, <2>5 DEF IInv, Coverage, Shape, Steady
    <3> QED BY <1>0, <2>1, <3>1 DEF Covers
  <2> QED BY <1>0, <2>1, <2>2, <2>3, <2>4, <2>5, SamePoints, StepKeeps
<1> QED BY <1>4, <1>5

\* A run counts its document as an error and goes on.
LEMMA ParseFailsKeeps ==
    ASSUME IInv, NEW r \in Runs, ParseFails(r)
    PROVE  IInv'
<1> DEFINE s == [run[r] EXCEPT !.errors = @ \cup {Doc(r)}]
<1>0. /\ run[r] \in State /\ run[r].pc = "parse" /\ run[r].todo # {} /\ Doc(r) \in Docs
      /\ bucket' = bucket /\ points' = points
      /\ run' = [run EXCEPT ![r] = NextDocument(s)]
  <2>1. /\ run[r] \in State /\ run[r].pc = "parse" /\ run[r].todo # {}
        /\ bucket' = bucket /\ points' = points
    BY DEF IInv, Shape, ParseFails
  <2>2. run' = [run EXCEPT ![r] = NextDocument(s)]
    BY DEF ParseFails
  <2>3. Doc(r) \in Docs
    BY <2>1, StateFields, MinIn DEF Doc
  <2> QED BY <2>1, <2>2, <2>3
<1>1. /\ s \in State /\ s.todo = run[r].todo /\ s.listed = run[r].listed
      /\ s.calm = run[r].calm /\ s.errors = run[r].errors \cup {Doc(r)}
  BY <1>0 DEF State
<1> HIDE DEF s
<1> QED BY <1>0, <1>1, SamePoints, NextDocumentKeeps

\* A run stores a batch: its first chunks are right up to there, or all of them.
LEMMA UpsertKeeps ==
    ASSUME IInv, NEW r \in Runs, Upsert(r)
    PROVE  IInv'
<1> DEFINE d == Doc(r)
           text == run[r].text
           next == run[r].start + BatchSize
<1>0. /\ run[r] \in State /\ run[r].pc = "batch" /\ run[r].todo # {} /\ d \in Docs
      /\ text \in Contents /\ run[r].start < Chunks[text] /\ Chunks[text] \in Nat
      /\ next \in Nat /\ bucket' = bucket /\ points' = Written(r)
      /\ run' = [run EXCEPT ![r] = IF next < Chunks[text]
                                   THEN [run[r] EXCEPT !.start = next] ELSE NextDocument(run[r])]
  <2>1. /\ run[r] \in State /\ run[r].pc = "batch" /\ Steady(run[r])
    BY DEF IInv, Shape, Upsert
  <2>2. run[r].todo # {} /\ text \in Contents /\ run[r].start < Chunks[text] /\ d \in Docs
    BY <2>1, StateFields, MinIn DEF Steady, Doc
  <2>3. next \in Nat /\ Chunks[text] \in Nat
    BY <2>1, <2>2, StateFields, Constants
  <2> QED BY <2>1, <2>2, <2>3 DEF Upsert, Upserted, Written
<1>1. Sound(points') /\ \A s \in Runs : run[s].calm => Kept(points')
  BY <1>0, WriteIsSound
<1>2. ASSUME run[r].calm, NEW i \in 0 .. next - 1, i < Chunks[text]
      PROVE  points'[<<d, i>>] = bucket[d]
  <2>1. text = bucket[d] /\ Covers(run[r], bucket, points')
    BY <1>0, <1>1, <1>2, KeptIsCovered DEF IInv, Agreement, Agrees, Doc
  <2>2. CASE i < run[r].start
    BY <1>0, <2>1, <2>2, StateFields DEF Covers, Doc
  <2>3. CASE ~ (i < run[r].start)
    <3>1. i \in Indexes /\ <<d, i>> \in Ids
      BY <1>0, <1>2, ChunkIds
    <3>2. i \in Batch(r)
      BY <1>0, <1>2, <2>3, <3>1, StateFields DEF Batch
    <3> QED BY <1>0, <2>1, <3>1, <3>2 DEF Written, InBatch
  <2> QED BY <2>2, <2>3
<1> HIDE DEF d, text, next
<1>3. CASE next < Chunks[text]
  <2> DEFINE q == [run[r] EXCEPT !.start = next]
  <2>1. /\ q \in State /\ q.pc = "batch" /\ q.text = text /\ q.todo = run[r].todo
        /\ q.listed = run[r].listed /\ q.calm = run[r].calm /\ q.errors = run[r].errors
        /\ q.start = next
    BY <1>0 DEF State, text
  <2>2. run' = [run EXCEPT ![r] = q]
    BY <1>0, <1>3
  <2> HIDE DEF q
  <2>3. Steady(q)
    BY <1>0, <1>3, <2>1 DEF IInv, Shape, Steady, text
  <2>4. ASSUME \E t \in Runs : run[t].calm PROVE Agrees(q, bucket)
    <3>1. Agrees(run[r], bucket)
      BY <2>4 DEF IInv, Agreement
    <3> QED BY <1>0, <2>1, <3>1 DEF Agrees, text
  <2>5. ASSUME run[r].calm PROVE Covers(q, bucket, points')
    <3>1. Covers(run[r], bucket, points')
      BY <2>5, <1>1, KeptIsCovered
    <3>2. \A i \in 0 .. next - 1 : points'[<<Min(q.todo), i>>] = bucket[Min(q.todo)]
      BY <1>0, <1>2, <1>3, <2>1, <2>5 DEF d, Doc
    <3> QED BY <1>0, <2>1, <3>1, <3>2 DEF Covers
  <2> QED BY <1>0, <1>1, <2>1, <2>2, <2>3, <2>4, <2>5, StepKeeps
<1>4. CASE ~ (next < Chunks[text])
  <2>1. run' = [run EXCEPT ![r] = NextDocument(run[r])]
    BY <1>0, <1>4
  <2>2. ASSUME run[r].calm PROVE Right(Doc(r), bucket, points')
    <3>1. text = bucket[d]
      BY <1>0, <2>2 DEF IInv, Agreement, Agrees, Doc, text, d
    <3>2. \A i \in 0 .. Chunks[text] - 1 : points'[<<d, i>>] = bucket[d]
      BY <1>0, <1>2, <1>4, <2>2
    <3> QED BY <3>1, <3>2 DEF Right, d
  <2> QED BY <1>0, <1>1, <2>1, <2>2, NextDocumentKeeps
<1> QED BY <1>3, <1>4

\* A run ends, whatever it wrote last.
LEMMA EndKeeps ==
    ASSUME IInv, NEW r \in Runs, run[r].pc \in {"parse", "batch"},
           NEW pc \in {"ok", "errors", "crashed"},
           pc \in {"ok", "errors"} => run[r].pc = "parse" /\ run[r].todo = {},
           pc = "ok" => run[r].errors = {},
           run' = [run EXCEPT ![r].pc = pc], bucket' = bucket, Sound(points'),
           \A t \in Runs : run[t].calm => Kept(points')
    PROVE  IInv'
<1> DEFINE q == [run[r] EXCEPT !.pc = pc]
<1>1. /\ q \in State /\ q.pc = pc /\ q.todo = run[r].todo /\ q.calm = run[r].calm
      /\ q.errors = run[r].errors
  <2>1. run[r] \in State
    BY DEF IInv, Shape
  <2> QED BY <2>1 DEF State
<1>2. run' = [run EXCEPT ![r] = q]
  OBVIOUS
<1> HIDE DEF q
<1>3. Steady(q) /\ Agrees(q, bucket)
  BY <1>1 DEF Steady, Agrees
<1>4. ASSUME run[r].calm PROVE Covers(q, bucket, points')
  <2>1. Covers(run[r], bucket, points')
    BY <1>4, KeptIsCovered
  <2> QED BY <1>1, <2>1 DEF Covers
<1> QED BY <1>1, <1>2, <1>3, <1>4, StepKeeps

\* The ways a run can end.
LEMMA EndsKeep ==
    ASSUME IInv, NEW r \in Runs, BatchFails(r) \/ PodDies(r) \/ Exit(r)
    PROVE  IInv'
<1>1. CASE BatchFails(r)
  <2>1. Sound(points') /\ \A t \in Runs : run[t].calm => Kept(points')
    BY <1>1, SamePoints, WriteIsSound DEF BatchFails, Upserted, Written
  <2> QED BY <1>1, <2>1, EndKeeps DEF BatchFails
<1>2. CASE PodDies(r)
  BY <1>2, SamePoints, EndKeeps DEF PodDies, Active
<1>3. CASE Exit(r)
  BY <1>3, SamePoints, EndKeeps DEF Exit
<1> QED BY <1>1, <1>2, <1>3

\* An empty collection and no run yet.
LEMMA InitIInv == Init => IInv
<1> SUFFICES ASSUME Init PROVE IInv
  OBVIOUS
<1>1. NotStarted \in State /\ Steady(NotStarted) /\ ~ NotStarted.calm
  BY DEF NotStarted, State, Steady
<1>2. run \in [Runs -> State] /\ \A r \in Runs : run[r] = NotStarted
  BY <1>1 DEF Init
<1>3. There(points) = {}
  BY DEF Init, There
<1>4. points \in Collection /\ Possible(points) /\ IsFiniteSet(There(points))
  BY <1>3, FS_EmptySet DEF Init, Collection, Possible
<1> QED BY <1>1, <1>2, <1>4 DEF Init, IInv, Shape, Agreement, Coverage

-----------------------------------------------------------------------------
(* The theorems.                                                           *)

\* Every step of every run, and every change of the bucket, in any order.
THEOREM Inductive == Spec => []IInv
<1>1. IInv /\ [Next]_vars => IInv'
  <2> SUFFICES ASSUME IInv, [Next]_vars PROVE IInv'
    OBVIOUS
  <2>1. ASSUME NEW r \in Runs, Start(r) \/ Step(r) \/ PodDies(r) PROVE IInv'
    BY <2>1, StartKeeps, ParseKeeps, ParseFailsKeeps, UpsertKeeps, EndsKeep DEF Step
  <2>2. ASSUME NEW d \in Docs, NEW c \in Contents \cup {Absent}, Change(d, c) PROVE IInv'
    BY <2>2, ChangeKeeps
  <2>3. CASE UNCHANGED vars
    BY <2>3 DEF vars, IInv, Shape, Agreement, Agrees, Coverage, Covers, Right, Steady,
                Possible, There
  <2> QED BY <2>1, <2>2, <2>3 DEF Next
<1> QED BY <1>1, InitIInv, PTL DEF Spec

\* A point has the time of a run, and an id without a point none.
Stamps ==
    /\ ingested_at \in [Ids -> {0} \cup Runs]
    /\ \A id \in Ids : ingested_at[id] = 0 <=> points[id] = NoPoint

\* A batch stores its points whole.
LEMMA StampsKeep == IInv /\ Stamps /\ [Next]_vars => Stamps'
<1> SUFFICES ASSUME IInv, Stamps, [Next]_vars PROVE Stamps'
  OBVIOUS
<1>1. ASSUME NEW r \in Runs, run[r].pc = "batch", Upserted(r) PROVE Stamps'
  <2>1. run[r].text \in Contents /\ run[r].text # NoPoint /\ r # 0
    BY <1>1, Constants DEF IInv, Shape, Steady
  <2>2. ASSUME NEW id \in Ids
        PROVE  ingested_at'[id] \in {0} \cup Runs /\ (ingested_at'[id] = 0 <=> points'[id] = NoPoint)
    BY <1>1, <2>1 DEF Upserted, Stamps
  <2> QED BY <1>1, <2>2 DEF Upserted, Stamps
<1>2. CASE UNCHANGED <<points, ingested_at>>
  BY <1>2 DEF Stamps
<1>3. ASSUME NEW r \in Runs, Start(r) \/ Step(r) \/ PodDies(r) PROVE Stamps'
  BY <1>1, <1>2, <1>3 DEF Start, Step, Parse, ParseFails, Upsert, BatchFails, Exit, PodDies
<1>4. ASSUME NEW d \in Docs, NEW c \in Contents \cup {Absent}, Change(d, c) PROVE Stamps'
  BY <1>2, <1>4 DEF Change
<1> QED BY <1>2, <1>3, <1>4 DEF Next, vars

\* The shape of the bucket, of the collection and of the runs.
THEOREM TypeCorrect == Spec => []TypeOK
<1>1. IInv /\ Stamps => TypeOK
  <2> SUFFICES ASSUME IInv, Stamps PROVE TypeOK
    OBVIOUS
  <2>1. ASSUME NEW id \in Ids, points[id] # NoPoint
        PROVE  points[id] \in Contents \ Unreadable /\ id[2] < Chunks[points[id]]
    BY <2>1 DEF IInv, Shape, Collection, Possible
  <2>2. ASSUME NEW r \in Runs
        PROVE  /\ run[r].pc \in {"new", "parse", "batch", "ok", "errors", "crashed"}
               /\ run[r].todo \subseteq Docs
               /\ run[r].errors \subseteq Docs
               /\ run[r].pc = "batch" => run[r].text \in Contents /\
                                         run[r].start < Chunks[run[r].text]
    BY StateFields DEF IInv, Shape, Steady
  <2> QED BY <2>1, <2>2 DEF IInv, Shape, Stamps, TypeOK, Collection
<1>2. Init => Stamps
  BY DEF Init, Stamps
<1> QED BY <1>1, <1>2, StampsKeep, Inductive, PTL DEF Spec

(***************************************************************************)
(* A finished run covers what it did not count as an error, whatever later *)
(* runs do, until the bucket changes.                                      *)
(***************************************************************************)
THEOREM FinishedRunsCover == Spec => []FinishedRunCovers
<1>1. IInv => FinishedRunCovers
  <2> SUFFICES ASSUME IInv, NEW r \in Runs, run[r].calm, run[r].pc \in {"ok", "errors"},
                      NEW d \in Docs, bucket[d] # Absent, d \notin run[r].errors
               PROVE  Fresh(d)
    BY DEF FinishedRunCovers
  <2>1. run[r].todo = {} /\ Covers(run[r], bucket, points)
    BY DEF IInv, Shape, Steady, Coverage
  <2> QED BY <2>1 DEF Covers, Right, Fresh
<1> QED BY <1>1, Inductive, PTL

\* Once a run has covered the bucket, every document in it is right.
LEMMA SettledIsRight ==
    ASSUME IInv, Settled
    PROVE  /\ \A d \in Docs : bucket[d] # Absent => Right(d, bucket, points)
           /\ \E r \in Runs : run[r].calm
<1>1. PICK r \in Runs : run[r].calm /\ run[r].pc = "ok"
  BY DEF Settled
<1>2. run[r].todo = {} /\ run[r].errors = {} /\ Covers(run[r], bucket, points)
  BY <1>1 DEF IInv, Shape, Steady, Coverage
<1> QED BY <1>1, <1>2 DEF Covers

(***************************************************************************)
(* Running the job again over the same documents changes no id, text or    *)
(* vector of the collection, at any step of any run, for any batch size    *)
(* (ingest.py:158-173).                                                    *)
(***************************************************************************)
THEOREM SamePassagesAgain == Spec => ReRunKeepsPassages
<1>1. ASSUME IInv, Settled, NEW r \in Runs, run[r].pc = "batch"
      PROVE  Written(r) = points
  <2> DEFINE d == Doc(r)
  <2>1. /\ run[r].todo # {} /\ d \in Docs /\ run[r].text \in Contents /\ points \in Collection
    <3>1. run[r] \in State /\ Steady(run[r]) /\ points \in Collection
      BY <1>1 DEF IInv, Shape
    <3> QED BY <1>1, <3>1, StateFields, MinIn DEF Steady, Doc
  <2>2. run[r].text = bucket[d]
    BY <1>1, SettledIsRight DEF IInv, Agreement, Agrees, Doc
  <2>3. Right(d, bucket, points)
    BY <1>1, <2>1, <2>2, SettledIsRight, Constants
  <2> HIDE DEF d
  <2>4. ASSUME NEW id \in Ids, id[1] = d, id[2] \in Batch(r) PROVE points[id] = run[r].text
    <3>1. id[2] \in Nat /\ id = <<d, id[2]>> /\ id[2] < Chunks[run[r].text]
      BY <2>4, IdParts DEF Batch
    <3>2. id[2] \in 0 .. Chunks[run[r].text] - 1
      BY <2>1, <3>1, Constants
    <3> QED BY <2>2, <2>3, <3>1, <3>2 DEF Right
  <2>5. Written(r) = [id \in Ids |-> points[id]]
    BY <2>4 DEF Written, InBatch, d
  <2> QED BY <2>1, <2>5 DEF Collection
<1>2. IInv /\ [Next]_vars => (Settled /\ Settled' => points' = points)
  <2> SUFFICES ASSUME IInv, [Next]_vars, Settled PROVE points' = points
    OBVIOUS
  <2>1. ASSUME NEW r \in Runs, Start(r) \/ Step(r) \/ PodDies(r) PROVE points' = points
    BY <1>1, <2>1 DEF Start, Step, Parse, ParseFails, Upsert, BatchFails, Exit, PodDies,
                      Upserted, Written
  <2>2. ASSUME NEW d \in Docs, NEW c \in Contents \cup {Absent}, Change(d, c)
        PROVE  points' = points
    BY <2>2 DEF Change
  <2> QED BY <2>1, <2>2 DEF Next, vars
<1> QED BY <1>2, Inductive, PTL DEF Spec, ReRunKeepsPassages

\* A search returns points there are, as many as asked for or all, up to what the
\* reranker is given.
LEMMA SearchReturns ==
    ASSUME NEW S, IsFiniteSet(S), S = Stored, NEW k \in Nat \ {0}, NEW reranker \in BOOLEAN,
           NEW hits \in SearchPassages(k, reranker), k <= RerankCandidates \/ ~ reranker
    PROVE  hits \subseteq S /\ Cardinality(hits) = Min({k, Cardinality(S)})
<1> DEFINE n == Cardinality(S)
           candidates == IF reranker THEN RerankCandidates ELSE k
<1>1. n \in Nat /\ RerankCandidates \in Nat \ {0} /\ candidates \in Nat \ {0}
  BY FS_CardinalityType, SearchAssumption
<1>2. PICK fused \in Fused(candidates) :
         hits \in IF reranker /\ Cardinality(fused) > k THEN Rerank(fused, k) ELSE {fused}
  BY DEF SearchPassages
<1>3. ASSUME NEW a \in Nat, NEW b \in Nat
      PROVE  Min({a, b}) = IF a <= b THEN a ELSE b
  BY DEF Min
<1> HIDE DEF n, candidates
<1>4. fused \subseteq S /\ Cardinality(fused) = IF candidates <= n THEN candidates ELSE n
  BY <1>1, <1>2, <1>3 DEF Fused, kSubset, n
<1>5. CASE reranker /\ Cardinality(fused) > k
  <2>1. hits \subseteq fused /\ Cardinality(hits) = k
    BY <1>2, <1>5 DEF Rerank, kSubset
  <2> QED BY <1>1, <1>3, <1>4, <1>5, <2>1 DEF n
<1>6. CASE ~ (reranker /\ Cardinality(fused) > k)
  <2>1. hits = fused
    BY <1>2, <1>6
  <2> QED BY <1>1, <1>3, <1>4, <1>6, <2>1 DEF n, candidates
<1> QED BY <1>5, <1>6

(***************************************************************************)
(* After a finished run, and whatever later runs are in the middle of, a   *)
(* search finds as many passages as it should, each a chunk of its         *)
(* document as it is now unless it is left over, and misses none when      *)
(* there are no more than were asked for.                                  *)
(***************************************************************************)
THEOREM SearchStaysCurrent == Spec => []SearchIsCurrent
<1>1. IInv => SearchIsCurrent
  <2> SUFFICES ASSUME IInv, Settled, NEW k \in 1 .. Cardinality(Ids), NEW reranker \in BOOLEAN,
                      NEW hits \in SearchPassages(k, reranker),
                      k <= RerankCandidates \/ ~ reranker
               PROVE  /\ Cardinality(hits) = Min({k, Cardinality(Stored)})
                      /\ \A id \in hits :
                            /\ id[2] < Chunks[points[id]]
                            /\ points[id] = bucket[id[1]] \/ LeftOver(id)
                      /\ k >= Cardinality(Stored) =>
                            {id \in Ids : ~ LeftOver(id)} \subseteq hits
    BY DEF SearchIsCurrent
  <2>1. IsFiniteSet(Stored) /\ Cardinality(Stored) \in Nat /\ k \in Nat \ {0}
    BY FS_CardinalityType DEF IInv, Shape, There, Stored
  <2>2. hits \subseteq Stored /\ Cardinality(hits) = Min({k, Cardinality(Stored)})
    BY <2>1, SearchReturns
  <2>3. ASSUME NEW id \in Ids, ~ LeftOver(id)
        PROVE  points[id] = bucket[id[1]] /\ bucket[id[1]] \in Contents
    <3>1. id = <<id[1], id[2]>> /\ id[1] \in Docs /\ id[2] \in Nat
      BY IdParts
    <3>2. bucket[id[1]] \in Contents /\ id[2] < Chunks[bucket[id[1]]]
      BY <2>3, <3>1, Constants DEF LeftOver, IInv, Shape
    <3>3. Right(id[1], bucket, points)
      BY <3>1, <3>2, Constants, SettledIsRight
    <3>4. id[2] \in 0 .. Chunks[bucket[id[1]]] - 1
      BY <3>1, <3>2, Constants
    <3> QED BY <3>1, <3>2, <3>3, <3>4 DEF Right
  <2>4. ASSUME NEW id \in hits
        PROVE  id[2] < Chunks[points[id]] /\ (points[id] = bucket[id[1]] \/ LeftOver(id))
    <3>1. id \in Ids /\ points[id] # NoPoint
      BY <2>2 DEF Stored
    <3> QED BY <2>3, <3>1 DEF IInv, Shape, Possible
  <2>5. ASSUME k >= Cardinality(Stored) PROVE {id \in Ids : ~ LeftOver(id)} \subseteq hits
    <3>1. Cardinality(hits) = Cardinality(Stored)
      BY <2>1, <2>2, <2>5 DEF Min
    <3>2. hits = Stored
      BY <2>1, <2>2, <3>1, FS_Subset
    <3> QED BY <2>3, <3>2, Constants DEF Stored
  <2> QED BY <2>2, <2>4, <2>5
<1> QED BY <1>1, Inductive, PTL
=============================================================================
