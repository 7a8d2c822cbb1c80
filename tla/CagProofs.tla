----------------------------- MODULE CagProofs -----------------------------
(***************************************************************************)
(* Proofs about the two specifications of the CAG showcase.                *)
(*                                                                         *)
(* CagCorpus, for every corpus, tokenizer, set of questions and limits,    *)
(* and any number of requests, edits and builds.  What a request has read  *)
(* is a prefix of what its manifest pins (Reads): that is why two requests *)
(* of one version read the same, and why what was counted is what is sent. *)
(* A calm request is one for which the corpus is still the manifest's      *)
(* (Calm); it therefore cannot meet a difference.                          *)
(*                                                                         *)
(* CagBenchmark, for every set of versions, prompt lengths and thresholds, *)
(* and any number of warm requests, pods, evictions and other clients.     *)
(* While the benchmark measures, the counters of the pod in service say    *)
(* what history says: how they moved since the first reading when it is    *)
(* still the pod of that reading, all that was counted when it is not      *)
(* (Sofar, and Alone for the misses of the prime).                         *)
(***************************************************************************)
EXTENDS CagCorpus, CagBenchmark, SequenceTheorems, FiniteSetTheorems,
        WellFoundedInduction, TLAPS

Outcomes == {"none", "ok", "budget_exceeded", "corpus_error", "error"}

Request == [kind : {"none", "healthz", "chat"},
            pc : {"new", "manifest", "docs", "model", "done"},
            question : [chars : Nat, tokens : Nat], man : Pinned \cup {NoManifest},
            docs : Seq(Contents), sent : BOOLEAN, outcome : Outcomes, calm : BOOLEAN]

Corpus == [Files -> Contents \cup {Missing}]

Type ==
    /\ exact \in BOOLEAN
    /\ disk \in Corpus
    /\ manifest \in Pinned \cup {NoManifest, Torn}
    /\ builder \in [pc : {"idle", "reading", "writing"}, read : Seq(Contents)]
    /\ Len(builder.read) <= FileCount
    /\ builder.pc = "writing" => Len(builder.read) = FileCount
    /\ req \in [Requests -> Request]

\* What a request has read is what its manifest pins, and what it sent was
\* read to the end and fits.
Reads(q) ==
    /\ Len(q.docs) <= FileCount
    /\ q.pc \in {"docs", "model"} \/ q.sent => q.man \in Pinned
    /\ q.docs # <<>> => q.man \in Pinned /\ \A f \in 1 .. Len(q.docs) : q.docs[f] = q.man[f]
    /\ q.pc = "manifest" => q.docs = <<>>
    /\ q.sent => /\ q.kind = "chat"
                 /\ Len(q.docs) = FileCount
                 /\ Fits(q.man, Counted(q.question))
    /\ q.pc = "model" => q.sent

\* A request undisturbed since it arrived still sees the corpus its manifest pins.
Calm(q) ==
    q.calm =>
        /\ manifest = disk
        /\ q.pc = "docs" => q.man = manifest
        /\ q.outcome # "corpus_error"
        /\ q.outcome = "error" => q.sent

IInv == Type /\ \A r \in Requests : Reads(req[r]) /\ Calm(req[r])

-----------------------------------------------------------------------------
(* Counting the tokens.                                                    *)

\* A set of naturals has a least element: the smallest of its initial segments.
LEMMA LeastOf ==
    ASSUME NEW S \in SUBSET Nat, S # {}
    PROVE  \E x \in S : \A y \in S : x <= y
<1> DEFINE T == {0 .. x : x \in S}
<1>1. \A x \in Nat : IsFiniteSet(0 .. x)
  BY FS_Interval
<1>2. T \subseteq FiniteSubsetsOf(Nat) /\ T # {}
  <2>1. \A x \in S : 0 .. x \in FiniteSubsetsOf(Nat)
    BY <1>1 DEF FiniteSubsetsOf
  <2>2. T \subseteq FiniteSubsetsOf(Nat)
    BY <2>1
  <2>3. PICK x \in S : TRUE
    OBVIOUS
  <2>4. 0 .. x \in T
    BY <2>3
  <2> QED BY <2>2, <2>4
<1>3. PICK t \in T : \A u \in T : ~ (<<u, t>> \in StrictSubsetOrdering(Nat))
  <2> HIDE DEF T
  <2> QED BY <1>2, WFMin, FS_StrictSubsetOrderingWellFounded
<1>4. PICK x \in S : t = 0 .. x
  BY <1>3
<1>5. ASSUME NEW y \in S, y < x PROVE FALSE
  <2>1. 0 .. y \in T
    OBVIOUS
  <2>2. 0 .. y \subseteq 0 .. x /\ x \in 0 .. x /\ x \notin 0 .. y
    BY <1>5
  <2>3. 0 .. y \in SUBSET Nat /\ 0 .. x \in SUBSET Nat /\ 0 .. y # 0 .. x
    BY <2>2
  <2>4. <<0 .. y, 0 .. x>> \in StrictSubsetOrdering(Nat)
    BY <2>2, <2>3 DEF StrictSubsetOrdering
  <2> QED BY <1>3, <1>4, <2>1, <2>4
<1> QED BY <1>5

\* The constants, as the proofs use them.
LEMMA Constants ==
    /\ FileCount \in Nat \ {0} /\ Files = 1 .. FileCount
    /\ \A c \in Contents : Tokens[c] \in Nat
    /\ Missing \notin Contents
    /\ NoManifest \notin Corpus /\ Torn \notin Corpus /\ Pinned \subseteq Corpus
    /\ NoManifest \notin Pinned /\ Torn \notin Pinned
    /\ Questions \subseteq [chars : Nat, tokens : Nat]
    /\ TokenBudget \in Nat /\ Context \in Nat /\ Reserve \in Nat /\ MaxOutput \in Nat
BY CorpusAssumption DEF Files, Corpus, Pinned

\* The count of the first files is defined, whatever the contents.
LEMMA CountDefined ==
    ASSUME NEW contents
    PROVE  \A f \in 0 .. FileCount :
              TokensUpTo(contents)[f] =
                 IF f = 0 THEN 0 ELSE TokensUpTo(contents)[f - 1] + Tokens[contents[f]]
<1> DEFINE e(u, f)      == IF f = 0 THEN 0 ELSE u[f - 1] + Tokens[contents[f]]
           Counts(u, n) == u = [f \in 0 .. n |-> e(u, f)]
           T            == {n \in 0 .. FileCount : ~ \E u : Counts(u, n)}
<1>1. FileCount \in Nat
  BY Constants
<1>2. T = {}
  <2> SUFFICES ASSUME T # {} PROVE FALSE
    OBVIOUS
  <2>1. T \in SUBSET Nat
    BY <1>1
  <2>2. PICK n \in T : \A m \in T : n <= m
    <3> HIDE DEF T
    <3> QED BY <2>1, LeastOf
  <2>3. n \in 0 .. FileCount
    OBVIOUS
  <2>4. CASE n = 0
    <3> DEFINE u == [f \in 0 .. 0 |-> 0]
    <3>1. \A f \in 0 .. 0 : e(u, f) = 0
      OBVIOUS
    <3>2. Counts(u, 0)
      BY <3>1
    <3> QED BY <2>2, <2>4, <3>2
  <2>5. CASE n # 0
    <3>1. n - 1 \in 0 .. FileCount /\ n - 1 \notin T
      <4> HIDE DEF T
      <4> QED BY <1>1, <2>2, <2>3, <2>5
    <3>2. PICK u : Counts(u, n - 1)
      BY <3>1
    <3> DEFINE v == [f \in 0 .. n |-> IF f = n THEN u[n - 1] + Tokens[contents[n]] ELSE u[f]]
    <3>3. ASSUME NEW f \in 0 .. n - 1 PROVE v[f] = u[f] /\ u[f] = e(u, f) /\ f \in 0 .. n
      <4>1. f \in 0 .. n /\ f # n
        BY <1>1, <2>3
      <4>2. u[f] = e(u, f)
        <5> DEFINE g(j) == e(u, j)
        <5>1. u = [j \in 0 .. n - 1 |-> g(j)]
          BY <3>2
        <5> HIDE DEF g
        <5>2. u[f] = g(f)
          BY <5>1
        <5> QED BY <5>2 DEF g
      <4> QED BY <4>1, <4>2
    <3>4. ASSUME NEW f \in 0 .. n PROVE v[f] = e(v, f)
      <4>1. CASE f = n
        <5>1. v[n] = u[n - 1] + Tokens[contents[n]] /\ n - 1 \in 0 .. n - 1
          BY <1>1, <2>3, <2>5
        <5> QED BY <2>5, <3>3, <4>1, <5>1
      <4>2. CASE f # n /\ f # 0
        <5>1. f \in 0 .. n - 1 /\ f - 1 \in 0 .. n - 1
          BY <1>1, <2>3, <4>2
        <5> QED BY <3>3, <4>2, <5>1
      <4>3. CASE f # n /\ f = 0
        <5>1. f \in 0 .. n - 1
          BY <1>1, <2>3, <4>3
        <5> QED BY <3>3, <4>3, <5>1
      <4> QED BY <4>1, <4>2, <4>3
    <3>5. v = [f \in 0 .. n |-> v[f]]
      OBVIOUS
    <3>6. Counts(v, n)
      <4> HIDE DEF v
      <4> QED BY <3>4, <3>5
    <3> QED BY <2>2, <3>6
  <2> QED BY <2>4, <2>5
<1>3. \E u : Counts(u, FileCount)
  BY <1>1, <1>2, SMTT(30)
<1>4. TokensUpTo(contents) = CHOOSE u : Counts(u, FileCount)
  BY ZenonT(30) DEF TokensUpTo
<1> DEFINE w == TokensUpTo(contents)
<1>5. Counts(w, FileCount)
  BY <1>3, <1>4
<1>6. ASSUME NEW f \in 0 .. FileCount PROVE w[f] = e(w, f)
  <2> DEFINE g(j) == e(w, j)
  <2>1. w = [j \in 0 .. FileCount |-> g(j)]
    BY <1>5
  <2> HIDE DEF g, w
  <2>2. w[f] = g(f)
    BY <2>1
  <2> QED BY <2>2 DEF g
<1> QED BY <1>6

\* The tokens of a corpus are a number.
LEMMA TotalIsNat ==
    ASSUME NEW contents \in Pinned
    PROVE  Total(contents) \in Nat
<1> DEFINE w == TokensUpTo(contents)
           T == {f \in 0 .. FileCount : w[f] \notin Nat}
<1>1. FileCount \in Nat /\ \A f \in 1 .. FileCount : Tokens[contents[f]] \in Nat
  BY Constants DEF Pinned
<1>2. \A f \in 0 .. FileCount : w[f] = IF f = 0 THEN 0 ELSE w[f - 1] + Tokens[contents[f]]
  BY CountDefined
<1> HIDE DEF w
<1>3. T = {}
  <2> SUFFICES ASSUME T # {} PROVE FALSE
    OBVIOUS
  <2>1. T \in SUBSET Nat
    BY <1>1
  <2>2. PICK n \in T : \A m \in T : n <= m
    <3> HIDE DEF T
    <3> QED BY <2>1, LeastOf
  <2>3. n \in 0 .. FileCount /\ w[n] \notin Nat
    OBVIOUS
  <2>4. n # 0
    BY <1>1, <1>2, <2>3
  <2>5. n - 1 \in 0 .. FileCount /\ n \in 1 .. FileCount /\ n - 1 \notin T
    <3> HIDE DEF T
    <3> QED BY <1>1, <2>2, <2>3, <2>4
  <2> QED BY <1>1, <1>2, <2>3, <2>4, <2>5
<1>4. w[FileCount] \in Nat
  BY <1>1, <1>3
<1> QED BY <1>4 DEF w, Total

\* A count of what is to be sent does not depend on how it was read.
LEMMA ReadToTheEnd ==
    ASSUME NEW man \in Pinned, NEW docs \in Seq(Contents), Len(docs) = FileCount,
           \A f \in 1 .. Len(docs) : docs[f] = man[f]
    PROVE  docs = man
<1>1. docs = [f \in 1 .. Len(docs) |-> docs[f]]
  OBVIOUS
<1>2. man = [f \in 1 .. FileCount |-> man[f]]
  BY Constants DEF Pinned
<1> QED BY <1>1, <1>2
-----------------------------------------------------------------------------
(* The steps.                                                              *)

\* The fields of a request.
LEMMA RequestFields ==
    ASSUME NEW q \in Request
    PROVE  /\ q.question.chars \in Nat /\ q.question.tokens \in Nat
           /\ q.man \in Pinned \cup {NoManifest} /\ q.docs \in Seq(Contents)
           /\ Len(q.docs) \in Nat /\ q.sent \in BOOLEAN /\ q.outcome \in Outcomes
           /\ q.question \in [chars : Nat, tokens : Nat]
BY DEF Request

\* A request takes its step to q; the corpus and the manifest stay.
LEMMA StepKeeps ==
    ASSUME IInv, NEW r \in Requests, NEW q \in Request, Reads(q), Calm(q),
           req' = [req EXCEPT ![r] = q], UNCHANGED <<exact, disk, manifest, builder>>
    PROVE  IInv'
<1>1. /\ req' \in [Requests -> Request] /\ req'[r] = q
      /\ \A s \in Requests : s # r => req'[s] = req[s]
  BY DEF IInv, Type
<1>2. Type'
  BY <1>1 DEF IInv, Type, Corpus
<1>3. ASSUME NEW s \in Requests PROVE (Reads(req[s]) /\ Calm(req[s]))'
  <2>1. Reads(req'[s]) /\ Calm(req'[s])
    BY <1>1 DEF IInv
  <2> QED BY <2>1 DEF Reads, Calm, Counted
<1> QED BY <1>2, <1>3 DEF IInv

\* Nothing changes for any request: only the builder moves.
LEMMA BuilderKeeps ==
    ASSUME IInv, UNCHANGED <<exact, disk, manifest, req>>,
           builder' \in [pc : {"idle", "reading", "writing"}, read : Seq(Contents)],
           Len(builder'.read) <= FileCount,
           builder'.pc = "writing" => Len(builder'.read) = FileCount
    PROVE  IInv'
BY DEF IInv, Type, Corpus, Reads, Calm, Counted

\* The corpus or the manifest changes: no request is calm any more.
LEMMA DisturbedKeeps ==
    ASSUME IInv, UNCHANGED exact, req' = Disturbed,
           disk' \in Corpus, manifest' \in Pinned \cup {NoManifest, Torn},
           builder' \in [pc : {"idle", "reading", "writing"}, read : Seq(Contents)],
           Len(builder'.read) <= FileCount,
           builder'.pc = "writing" => Len(builder'.read) = FileCount
    PROVE  IInv'
<1>1. ASSUME NEW s \in Requests
      PROVE  /\ req'[s] \in Request /\ ~ req'[s].calm
             /\ req'[s].pc = req[s].pc /\ req'[s].man = req[s].man /\ req'[s].docs = req[s].docs
             /\ req'[s].sent = req[s].sent /\ req'[s].kind = req[s].kind
             /\ req'[s].question = req[s].question
  <2>1. req[s] \in Request
    BY DEF IInv, Type
  <2>2. req'[s] = [req[s] EXCEPT !.calm = FALSE]
    BY DEF Disturbed
  <2> QED BY <2>1, <2>2 DEF Request
<1>2. req' \in [Requests -> Request]
  <2>1. req' = [s \in Requests |-> req'[s]]
    BY DEF Disturbed
  <2> QED BY <1>1, <2>1
<1>3. Type'
  BY <1>2 DEF IInv, Type, Corpus
<1>4. ASSUME NEW s \in Requests PROVE (Reads(req[s]) /\ Calm(req[s]))'
  <2>1. Reads(req[s])
    BY DEF IInv
  <2>2. Reads(req'[s])
    BY <1>1, <2>1 DEF Reads
  <2>3. Reads(req[s])'
    BY <2>2 DEF Reads, Counted
  <2>4. Calm(req[s])'
    BY <1>1 DEF Calm
  <2> QED BY <2>3, <2>4
<1> QED BY <1>3, <1>4 DEF IInv

\* An edit of the corpus: whoever was calm is calm no more.
LEMMA EditKeeps ==
    ASSUME IInv, NEW f \in Files, NEW c \in Contents \cup {Missing}, Edit(f, c)
    PROVE  IInv'
<1>1. disk' \in Corpus
  BY DEF Edit, IInv, Type, Corpus
<1> QED BY <1>1, DisturbedKeeps DEF Edit, IInv, Type

\* Every step of build_manifest.py: what it has read are contents, and a manifest
\* changes only together with the calm of every request.
LEMMA BuildKeeps ==
    ASSUME IInv, Build
    PROVE  IInv'
<1>0. /\ builder.pc \in {"idle", "reading", "writing"} /\ builder.read \in Seq(Contents)
      /\ Len(builder.read) <= FileCount /\ FileCount \in Nat /\ Len(builder.read) \in Nat
      /\ disk \in Corpus /\ manifest \in Pinned \cup {NoManifest, Torn}
      /\ builder = [pc |-> builder.pc, read |-> builder.read]
  BY Constants DEF IInv, Type
<1>1. CASE BuildStart
  <2>1. builder' = [pc |-> "reading", read |-> <<>>] /\ <<>> \in Seq(Contents) /\ Len(<<>>) = 0
    BY <1>1 DEF BuildStart
  <2> QED BY <1>0, <1>1, <2>1, BuilderKeeps DEF BuildStart
<1>2. CASE BuildRead
  <2> DEFINE f == Len(builder.read) + 1
  <2>1. f \in Files /\ UNCHANGED <<exact, disk, manifest, req>>
    BY <1>0, <1>2, Constants DEF BuildRead
  <2>2. CASE disk[f] = Missing
    <3>1. builder' = [builder EXCEPT !.pc = "idle"]
      BY <1>2, <2>2 DEF BuildRead
    <3> QED BY <1>0, <2>1, <3>1, BuilderKeeps
  <2>3. CASE disk[f] # Missing
    <3>1. builder' = [builder EXCEPT !.read = Append(@, disk[f])] /\ builder.pc = "reading"
      BY <1>2, <2>3 DEF BuildRead
    <3>2. disk[f] \in Contents
      BY <1>0, <2>1, <2>3 DEF Corpus
    <3> DEFINE c == disk[f]
    <3> HIDE DEF c
    <3>3. builder' = [pc |-> "reading", read |-> Append(builder.read, c)]
      BY <1>0, <3>1 DEF c
    <3>4. Append(builder.read, c) \in Seq(Contents) /\ Len(Append(builder.read, c)) = Len(builder.read) + 1
      BY <1>0, <3>2 DEF c
    <3>5. Len(builder.read) + 1 <= FileCount
      BY <2>1, Constants
    <3> QED BY <2>1, <3>3, <3>4, <3>5, BuilderKeeps
  <2> QED BY <2>2, <2>3
<1>3. CASE BuildOpen
  <2>1. CASE Total(builder.read) > TokenBudget
    <3>1. builder' = [builder EXCEPT !.pc = "idle"] /\ UNCHANGED <<exact, disk, manifest, req>>
      BY <1>3, <2>1 DEF BuildOpen
    <3> QED BY <1>0, <3>1, BuilderKeeps
  <2>2. CASE ~ (Total(builder.read) > TokenBudget)
    <3>1. /\ builder' = [builder EXCEPT !.pc = "writing"] /\ manifest' = Torn /\ req' = Disturbed
          /\ Len(builder.read) = FileCount /\ UNCHANGED <<exact, disk>>
      BY <1>3, <2>2 DEF BuildOpen
    <3> QED BY <1>0, <3>1, DisturbedKeeps
  <2> QED BY <2>1, <2>2
<1>4. CASE BuildWrite
  <2>1. /\ builder' = [builder EXCEPT !.pc = "idle"] /\ manifest' = builder.read /\ req' = Disturbed
        /\ Len(builder.read) = FileCount /\ UNCHANGED <<exact, disk>>
    BY <1>4 DEF BuildWrite, IInv, Type
  <2>2. builder.read \in Pinned
    BY <1>0, <2>1, Constants DEF Pinned
  <2> QED BY <1>0, <2>1, <2>2, DisturbedKeeps
<1>5. CASE BuildStops
  <2>1. builder' = [builder EXCEPT !.pc = "idle"] /\ UNCHANGED <<exact, disk, manifest, req>>
    BY <1>5 DEF BuildStops
  <2> QED BY <1>0, <2>1, BuilderKeeps
<1> QED BY <1>1, <1>2, <1>3, <1>4, <1>5 DEF Build

\* A request that arrives has read nothing, and its calm is the one b tells.
Fresh(q, b) ==
    /\ q \in Request
    /\ q.docs = <<>> /\ ~ q.sent /\ q.pc = "manifest" /\ q.outcome = "none" /\ q.calm = b

\* What Arrive makes of a request.
LEMMA Arrivals ==
    ASSUME NEW b \in BOOLEAN, NEW question \in [chars : Nat, tokens : Nat]
    PROVE  LET arrived == [NotMade EXCEPT !.pc = "manifest", !.calm = b] IN
           /\ Fresh([arrived EXCEPT !.kind = "healthz"], b)
           /\ Fresh([arrived EXCEPT !.kind = "chat", !.question = question], b)
<1> DEFINE arrived == [NotMade EXCEPT !.pc = "manifest", !.calm = b]
<1>1. <<>> \in Seq(Contents) /\ [chars |-> 0, tokens |-> 0] \in [chars : Nat, tokens : Nat]
  OBVIOUS
<1>2. /\ NotMade \in Request
      /\ NotMade.docs = <<>> /\ ~ NotMade.sent /\ NotMade.outcome = "none"
  BY <1>1 DEF NotMade, Request, Outcomes
<1>3. Fresh(arrived, b)
  BY <1>2 DEF Fresh, Request
<1> HIDE DEF arrived
<1>4. Fresh([arrived EXCEPT !.kind = "healthz"], b)
  BY <1>3 DEF Fresh, Request
<1>5. Fresh([arrived EXCEPT !.kind = "chat", !.question = question], b)
  BY <1>3 DEF Fresh, Request
<1> QED BY <1>4, <1>5 DEF arrived

\* A request arrives, calm if the manifest pins the corpus.
LEMMA ArriveKeeps ==
    ASSUME IInv, NEW r \in Requests, Arrive(r)
    PROVE  IInv'
<1>0. PICK b \in BOOLEAN : b = (manifest = disk)
  OBVIOUS
<1>1. [chars |-> 0, tokens |-> 0] \in [chars : Nat, tokens : Nat]
  OBVIOUS
<1> DEFINE arrived == [NotMade EXCEPT !.pc = "manifest", !.calm = b]
           asked(question) == [arrived EXCEPT !.kind = "chat", !.question = question]
<1>2. \/ req' = [req EXCEPT ![r] = [arrived EXCEPT !.kind = "healthz"]]
      \/ \E question \in Questions : req' = [req EXCEPT ![r] = asked(question)]
  BY <1>0, Zenon DEF Arrive
<1>3. Fresh([arrived EXCEPT !.kind = "healthz"], b)
  BY <1>1, Arrivals
<1>4. \A question \in Questions : Fresh(asked(question), b)
  BY Arrivals, Constants
<1> HIDE DEF arrived, asked
<1>5. PICK q : Fresh(q, b) /\ req' = [req EXCEPT ![r] = q]
  BY <1>2, <1>3, <1>4, Zenon
<1>6. Reads(q) /\ Calm(q)
  <2>1. Len(<<>>) = 0 /\ FileCount \in Nat
    BY Constants
  <2>2. Reads(q)
    BY <1>5, <2>1 DEF Reads, Fresh
  <2>3. q.calm => manifest = disk
    BY <1>0, <1>5, Zenon DEF Fresh
  <2>4. Calm(q)
    BY <1>5, <2>3 DEF Calm, Fresh
  <2> QED BY <2>2, <2>4
<1>7. q \in Request /\ UNCHANGED <<exact, disk, manifest, builder>>
  BY <1>5 DEF Arrive, Fresh
<1> QED BY <1>5, <1>6, <1>7, StepKeeps

\* A request ends; it has read and sent what it had.
LEMMA EndKeeps ==
    ASSUME IInv, NEW r \in Requests, NEW outcome \in Outcomes, End(r, outcome),
           UNCHANGED <<exact, disk, manifest, builder>>,
           req[r].calm => outcome # "corpus_error" /\ (outcome = "error" => req[r].sent)
    PROVE  IInv'
<1> DEFINE q == [req[r] EXCEPT !.pc = "done", !.outcome = outcome]
<1>0. req[r] \in Request /\ Reads(req[r]) /\ Calm(req[r])
  BY DEF IInv, Type
<1>1. q \in Request
  BY <1>0 DEF Request
<1>2. Reads(q) /\ Calm(q)
  BY <1>0 DEF Reads, Calm, Request
<1>3. req' = [req EXCEPT ![r] = q]
  BY DEF End
<1> HIDE DEF q
<1> QED BY <1>1, <1>2, <1>3, StepKeeps

\* A request reads the manifest: the one it goes by from now on.
LEMMA LoadManifestKeeps ==
    ASSUME IInv, NEW r \in Requests, LoadManifest(r)
    PROVE  IInv'
<1>0. /\ req[r] \in Request /\ Reads(req[r]) /\ Calm(req[r]) /\ disk \in Corpus
      /\ manifest \in Pinned \cup {NoManifest, Torn} /\ req[r].pc = "manifest"
      /\ UNCHANGED <<exact, disk, manifest, builder>>
  BY DEF IInv, Type, LoadManifest
<1>1. req[r].calm => manifest \notin {NoManifest, Torn}
  BY <1>0, Constants DEF Calm
<1>2. CASE manifest \in {NoManifest, Torn}
  <2>1. End(r, "corpus_error") \/ End(r, "error")
    BY <1>2 DEF LoadManifest
  <2> QED BY <1>0, <1>1, <1>2, <2>1, EndKeeps DEF Outcomes
<1>3. CASE manifest \notin {NoManifest, Torn}
  <2> DEFINE q == [req[r] EXCEPT !.pc = "docs", !.man = manifest]
  <2>1. q \in Request
    BY <1>0, <1>3 DEF Request
  <2>2. /\ q.pc = "docs" /\ q.man = manifest /\ q.docs = req[r].docs /\ q.sent = req[r].sent
        /\ q.kind = req[r].kind /\ q.question = req[r].question /\ q.calm = req[r].calm
        /\ q.outcome = req[r].outcome
    BY <1>0 DEF Request
  <2>3. req' = [req EXCEPT ![r] = q]
    BY <1>3 DEF LoadManifest
  <2> HIDE DEF q
  <2>4. ~ req[r].sent /\ req[r].docs = <<>> /\ Len(req[r].docs) <= FileCount
    <3>1. Len(<<>>) = 0
      OBVIOUS
    <3> QED BY <1>0, <3>1, Constants DEF Reads
  <2>5. Reads(q) /\ Calm(q)
    BY <1>0, <1>3, <2>2, <2>4 DEF Reads, Calm
  <2> QED BY <1>0, <2>1, <2>3, <2>5, StepKeeps
<1> QED BY <1>2, <1>3

\* A request reads a file: one more that is what its manifest pins, or its end.
LEMMA LoadDocKeeps ==
    ASSUME IInv, NEW r \in Requests, LoadDoc(r)
    PROVE  IInv'
<1> DEFINE f == Len(req[r].docs) + 1
<1>0. /\ req[r] \in Request /\ Reads(req[r]) /\ Calm(req[r]) /\ disk \in Corpus
      /\ req[r].pc = "docs" /\ f <= FileCount
      /\ UNCHANGED <<exact, disk, manifest, builder>>
  BY DEF IInv, Type, LoadDoc
<1>1. /\ req[r].docs \in Seq(Contents) /\ Len(req[r].docs) \in Nat /\ req[r].man \in Pinned
      /\ f \in Files
  BY <1>0, RequestFields, Constants DEF Reads
<1>2. CASE disk[f] # req[r].man[f]
  <2>1. ~ req[r].calm
    BY <1>0, <1>2 DEF Calm
  <2>2. End(r, "corpus_error")
    BY <1>2 DEF LoadDoc
  <2> QED BY <1>0, <2>1, <2>2, EndKeeps DEF Outcomes
<1>3. CASE disk[f] = req[r].man[f]
  <2> DEFINE c == disk[f]
             docs == Append(req[r].docs, c)
             q == [req[r] EXCEPT !.docs = docs]
  <2>1. c \in Contents /\ c = req[r].man[f]
    BY <1>1, <1>3 DEF Pinned
  <2>2. req' = [req EXCEPT ![r] = q]
    BY <1>3 DEF LoadDoc
  <2> HIDE DEF c
  <2>3. /\ docs \in Seq(Contents) /\ Len(docs) = f /\ docs # <<>>
        /\ \A g \in 1 .. Len(docs) : docs[g] = IF g = f THEN c ELSE req[r].docs[g]
    <3> DEFINE old == req[r].docs
    <3>1. old \in Seq(Contents)
      BY <1>1
    <3> HIDE DEF old
    <3>2. LET new == Append(old, c) IN
          /\ new \in Seq(Contents) /\ Len(new) = Len(old) + 1 /\ Len(old) \in Nat
          /\ new[Len(old) + 1] = c /\ \A g \in 1 .. Len(old) : new[g] = old[g]
      BY <2>1, <3>1
    <3>3. Append(old, c) # <<>>
      <4>1. Len(<<>>) = 0
        OBVIOUS
      <4> QED BY <3>2, <4>1
    <3>4. \A g \in 1 .. Len(old) + 1 : g = Len(old) + 1 \/ g \in 1 .. Len(old)
      BY <3>2
    <3> QED BY <3>2, <3>3, <3>4 DEF old
  <2> HIDE DEF docs
  <2>4. \A g \in 1 .. Len(docs) : docs[g] = req[r].man[g]
    <3>1. \A g \in 1 .. Len(req[r].docs) : req[r].docs[g] = req[r].man[g]
      <4>1. Len(<<>>) = 0
        OBVIOUS
      <4> QED BY <1>0, <4>1 DEF Reads
    <3> QED BY <1>1, <2>1, <2>3, <3>1
  <2>5. q \in Request
    BY <1>0, <2>3 DEF Request
  <2>6. ~ req[r].sent
    <3>1. req[r].sent => Len(req[r].docs) = FileCount
      BY <1>0 DEF Reads
    <3> QED BY <1>0, <1>1, <3>1
  <2>7. Reads(q) /\ Calm(q)
    BY <1>0, <1>1, <2>3, <2>4, <2>6 DEF Reads, Calm, Request
  <2> HIDE DEF q
  <2> QED BY <1>0, <2>2, <2>5, <2>7, StepKeeps
<1> QED BY <1>2, <1>3

\* A request sends what it has read to the end and counted, or is refused.
LEMMA SendKeeps ==
    ASSUME IInv, NEW r \in Requests, Send(r)
    PROVE  IInv'
<1>0. /\ req[r] \in Request /\ Reads(req[r]) /\ Calm(req[r])
      /\ req[r].pc = "docs" /\ req[r].kind = "chat" /\ Len(req[r].docs) = FileCount
      /\ UNCHANGED <<exact, disk, manifest, builder>>
  BY DEF IInv, Type, Send
<1>1. CASE ~ Fits(req[r].man, Counted(req[r].question))
  <2>1. End(r, "budget_exceeded")
    BY <1>1 DEF Send
  <2> QED BY <1>0, <2>1, EndKeeps DEF Outcomes
<1>2. CASE Fits(req[r].man, Counted(req[r].question))
  <2> DEFINE q == [req[r] EXCEPT !.pc = "model", !.sent = TRUE]
  <2>1. q \in Request
    BY <1>0 DEF Request
  <2>2. Reads(q) /\ Calm(q)
    BY <1>0, <1>2 DEF Reads, Calm, Request
  <2>3. req' = [req EXCEPT ![r] = q]
    BY <1>2 DEF Send
  <2> HIDE DEF q
  <2> QED BY <1>0, <2>1, <2>2, <2>3, StepKeeps
<1> QED BY <1>1, <1>2

\* The ends that are no refusal.
LEMMA LastKeeps ==
    ASSUME IInv, NEW r \in Requests, Healthy(r) \/ Model(r)
    PROVE  IInv'
<1>1. CASE Healthy(r)
  BY <1>1, EndKeeps DEF Healthy, Outcomes
<1>2. CASE Model(r)
  <2>1. req[r].sent
    BY <1>2 DEF Model, IInv, Reads
  <2> QED BY <1>2, <2>1, EndKeeps DEF Model, Outcomes
<1> QED BY <1>1, <1>2

\* Nothing is read, built or asked yet.
LEMMA InitIInv == Init => IInv
<1> SUFFICES ASSUME Init PROVE IInv
  OBVIOUS
<1>1. NotMade \in Request
  <2>1. <<>> \in Seq(Contents)
    OBVIOUS
  <2>2. [chars |-> 0, tokens |-> 0] \in [chars : Nat, tokens : Nat]
    OBVIOUS
  <2> QED BY <2>1, <2>2 DEF NotMade, Request, Outcomes
<1>2. Len(<<>>) = 0 /\ FileCount \in Nat /\ <<>> \in Seq(Contents)
  BY Constants
<1>3. Reads(NotMade) /\ Calm(NotMade)
  BY <1>2 DEF NotMade, Reads, Calm
<1>4. req \in [Requests -> Request] /\ \A r \in Requests : req[r] = NotMade
  BY <1>1 DEF Init
<1>5. Type
  BY <1>2, <1>4 DEF Init, Type, Corpus
<1> QED BY <1>3, <1>4, <1>5 DEF IInv

-----------------------------------------------------------------------------
(* The theorems.                                                           *)

\* Every request, edit and build step, in any order.
THEOREM Inductive == Spec => []IInv
<1>1. IInv /\ [Next]_vars => IInv'
  <2> SUFFICES ASSUME IInv, [Next]_vars PROVE IInv'
    OBVIOUS
  <2>1. ASSUME NEW r \in Requests, Arrive(r) \/ Serve(r) PROVE IInv'
    BY <2>1, ArriveKeeps, LoadManifestKeeps, LoadDocKeeps, SendKeeps, LastKeeps DEF Serve
  <2>2. CASE Build
    BY <2>2, BuildKeeps
  <2>3. ASSUME NEW f \in Files, NEW c \in Contents \cup {Missing}, Edit(f, c) PROVE IInv'
    BY <2>3, EditKeeps
  <2>4. CASE UNCHANGED vars
    BY <2>4, BuilderKeeps DEF vars, IInv, Type
  <2> QED BY <2>1, <2>2, <2>3, <2>4 DEF Next
<1> QED BY <1>1, InitIInv, PTL DEF Spec

\* The shape of the corpus, of the build and of the requests.
THEOREM TypeCorrect == Spec => []TypeOK
<1>1. IInv => TypeOK
  <2> SUFFICES ASSUME IInv PROVE TypeOK
    OBVIOUS
  <2>1. ASSUME NEW r \in Requests
        PROVE  /\ req[r].pc \in {"new", "manifest", "docs", "model", "done"}
               /\ req[r].man \in Pinned \cup {NoManifest}
               /\ req[r].docs \in Seq(Contents) /\ Len(req[r].docs) <= FileCount
               /\ req[r].outcome \in {"none", "ok", "budget_exceeded", "corpus_error", "error"}
               /\ req[r].sent => req[r].kind = "chat"
    BY DEF IInv, Type, Request, Outcomes, Reads
  <2> QED BY <2>1 DEF IInv, Type, TypeOK, Corpus
<1> QED BY <1>1, Inductive, PTL

(***************************************************************************)
(* Requests of one corpus version sent the same system message, however    *)
(* the files and the manifest changed while each was reading them.         *)
(***************************************************************************)
THEOREM OneVersionOnePrefix == Spec => []SameVersionSamePrefix
<1>1. IInv => SameVersionSamePrefix
  <2> SUFFICES ASSUME IInv, NEW r \in Requests, NEW s \in Requests,
                      req[r].sent, req[s].sent, req[r].man = req[s].man
               PROVE  req[r].docs = req[s].docs
    BY DEF SameVersionSamePrefix
  <2>1. ASSUME NEW q \in {req[r], req[s]} PROVE q.docs = q.man
    <3>1. /\ q.man \in Pinned /\ q.docs \in Seq(Contents) /\ Len(q.docs) = FileCount
          /\ q.docs # <<>> => \A f \in 1 .. Len(q.docs) : q.docs[f] = q.man[f]
      BY RequestFields DEF IInv, Type, Reads
    <3>2. q.docs # <<>>
      <4>1. Len(<<>>) = 0
        OBVIOUS
      <4> QED BY <3>1, <4>1, Constants
    <3> QED BY <3>1, <3>2, ReadToTheEnd
  <2> QED BY <2>1
<1> QED BY <1>1, Inductive, PTL

(***************************************************************************)
(* What is sent fits the model's context, answer and reserve included,     *)
(* when it is counted with the tokenizer or not estimated too low.         *)
(***************************************************************************)
THEOREM NothingSentTooLong == Spec => []SentFits
<1>1. IInv => SentFits
  <2> SUFFICES ASSUME IInv, NEW r \in Requests, req[r].sent,
                      exact \/ req[r].question.tokens <= req[r].question.chars \div 2
               PROVE  Total(req[r].docs) + req[r].question.tokens + Reserve + MaxOutput <= Context
    BY DEF SentFits
  <2>1. /\ req[r].man \in Pinned /\ req[r].docs \in Seq(Contents) /\ Len(req[r].docs) = FileCount
        /\ req[r].docs # <<>> => \A f \in 1 .. Len(req[r].docs) : req[r].docs[f] = req[r].man[f]
        /\ Fits(req[r].man, Counted(req[r].question))
        /\ req[r].question.tokens \in Nat /\ req[r].question.chars \in Nat
    BY RequestFields DEF IInv, Type, Reads
  <2>2. req[r].docs # <<>>
    <3>1. Len(<<>>) = 0
      OBVIOUS
    <3> QED BY <2>1, <3>1, Constants
  <2>3. req[r].docs = req[r].man
    BY <2>1, <2>2, ReadToTheEnd
  <2>4. Total(req[r].docs) \in Nat
    BY <2>1, <2>3, TotalIsNat
  <2>5. Counted(req[r].question) \in Nat /\ req[r].question.tokens <= Counted(req[r].question)
    <3>1. req[r].question.chars \div 2 \in Nat
      BY <2>1
    <3> QED BY <2>1, <3>1 DEF Counted
  <2>6. Total(req[r].docs) + Counted(req[r].question) + Reserve + MaxOutput <= Context
    BY <2>1, <2>3 DEF Fits
  <2> QED BY <2>1, <2>4, <2>5, <2>6, Constants
<1> QED BY <1>1, Inductive, PTL

(***************************************************************************)
(* A request on a corpus its manifest pins, and that nothing changed       *)
(* meanwhile, is not refused for the corpus.                               *)
(***************************************************************************)
THEOREM NoFalseAlarmEver == Spec => []NoFalseAlarm
<1>1. IInv => NoFalseAlarm
  BY DEF IInv, Calm, NoFalseAlarm
<1> QED BY <1>1, Inductive, PTL

-----------------------------------------------------------------------------
(* The benchmark.                                                          *)

Reading == [pod : 0 .. MaxPods, queries : Nat, hits : Nat]

Server == [pod : 1 .. MaxPods, up : BOOLEAN, queries : Nat, hits : Nat,
           cached : [Prompts -> Nat]]

Run == [pc : {"poll", "describe", "read_before", "build_prime", "prime", "read_primed",
              "warm", "chat", "reported", "done", "raised"},
        round : {1, 2}, polls : 0 .. MaxPolls, warm : Nat, prompt : Versions \cup {Broken},
        before : Reading, primed : Reading, after : Reading]

Past == [foreign : BOOLEAN, company : BOOLEAN, reused : BOOLEAN, missed : Nat]

\* The question of a prompt is never cached; a pod that is down has counted nothing
\* and has a successor.
Consistent(s) ==
    /\ s.hits <= s.queries
    /\ \A p \in Prompts : s.cached[p] <= Length[p] - Question
    /\ ~ s.up => s.pod < MaxPods /\ s.queries = 0 /\ s.hits = 0

BenchType ==
    /\ server \in Server
    /\ Consistent(server)
    /\ corpus \in Versions \cup {Broken}
    /\ bench \in Run
    /\ bench.before.hits <= bench.before.queries
    /\ bench.warm <= Warm
    /\ bench.pc = "chat" => bench.warm < Warm
    /\ bench.pc \in {"prime", "chat"} => bench.prompt \in Versions
    /\ past \in Past

\* The pod whose counters were read first still answers.
SamePod == server.up /\ server.pod = bench.before.pod

\* The hits since the first reading: on its pod they are what the counter grew by,
\* on a later pod all of the counter, or fewer if yet another pod was between.
Sofar ==
    Measuring =>
        /\ bench.before.pod <= server.pod
        /\ SamePod => server.hits >= bench.before.hits
        /\ ~ past.foreign =>
              IF SamePod THEN server.hits > bench.before.hits <=> past.reused
              ELSE server.hits > 0 => past.reused

Misses(c) == c.queries - c.hits

\* The misses since the first reading, when no one else was served: none before the
\* prime, its own after it; none if the pod that served it is gone.
Alone ==
    ~ past.company =>
        /\ bench.pc \in {"build_prime", "prime"} =>
              Misses(server) = IF SamePod THEN Misses(bench.before) ELSE 0
        /\ bench.pc = "read_primed" =>
              IF SamePod THEN Misses(server) = Misses(bench.before) + past.missed
              ELSE Misses(server) <= past.missed

BenchIInv ==
    BenchType /\ Sofar /\ Alone /\ VerdictIsEarned /\ ColdIsEarned

\* The constants, as the proofs use them.
LEMMA BenchConstants ==
    /\ Other \in Prompts /\ Versions \subseteq Prompts /\ Other \notin Versions
    /\ Broken \notin Prompts
    /\ \A p \in Prompts : Length[p] \in Nat /\ Question <= Length[p]
    /\ Question \in Nat /\ Common \in Nat
    /\ \A v \in Versions : Common <= Length[v] - Question
    /\ ColdMisses \in Nat /\ ColdMisses > 0
    /\ NWarm \in Nat /\ MaxPolls \in Nat /\ MaxPods \in Nat /\ MaxPods > 0
BY BenchmarkAssumption DEF Prompts

\* A set of naturals that is bounded has a greatest element.
LEMMA GreatestBelow ==
    ASSUME NEW b \in Nat, NEW S \in SUBSET (0 .. b), S # {}
    PROVE  Max(S) \in S
<1> DEFINE T == {b - x : x \in S}
<1>1. T \in SUBSET Nat /\ T # {}
  <2>1. PICK x \in S : TRUE
    OBVIOUS
  <2>2. b - x \in T
    BY <2>1
  <2>3. ASSUME NEW t \in T PROVE t \in Nat
    <3>1. PICK y \in S : t = b - y
      BY <2>3
    <3> QED BY <3>1
  <2> QED BY <2>2, <2>3
<1>2. PICK t \in T : \A u \in T : t <= u
  <2> HIDE DEF T
  <2> QED BY <1>1, LeastOf
<1>3. PICK x \in S : t = b - x
  BY <1>2
<1>4. \A y \in S : x >= y
  BY <1>2, <1>3
<1> QED BY <1>4 DEF Max

\* What the cache holds of a prompt leaves at least the question.
LEMMA ReusableBound ==
    ASSUME server \in Server, Consistent(server),
           NEW p \in Prompts
    PROVE  Reusable(p) \in Nat /\ Reusable(p) <= Length[p] - Question
<1> DEFINE c(v) == server.cached[v]
           b    == Length[p] - Question
           S    == {c(p)} \cup {Min({c(v), Common}) : v \in Versions}
<1>1. \A v \in Prompts : c(v) \in Nat /\ c(v) <= Length[v] - Question
  BY DEF Server, Consistent
<1>2. b \in Nat
  BY BenchConstants
<1>3. CASE p = Other
  BY <1>1, <1>3 DEF Reusable
<1>4. CASE p # Other
  <2>1. p \in Versions
    BY <1>4 DEF Prompts
  <2>2. ASSUME NEW v \in Versions
        PROVE  Min({c(v), Common}) \in Nat /\ Min({c(v), Common}) <= Common
    <3>1. c(v) \in Nat /\ Common \in Nat
      BY <1>1, BenchConstants
    <3> HIDE DEF c
    <3>2. c(v) <= Common => Min({c(v), Common}) = c(v)
      BY <3>1 DEF Min
    <3>3. ~ (c(v) <= Common) => Min({c(v), Common}) = Common
      BY <3>1 DEF Min
    <3> QED BY <3>1, <3>2, <3>3
  <2>3. Common <= b
    BY <2>1, BenchConstants
  <2>4. S \in SUBSET (0 .. b) /\ S # {}
    <3>1. c(p) \in 0 .. b
      BY <1>1, <1>2
    <3>2. ASSUME NEW y \in S PROVE y \in 0 .. b
      <4>1. CASE y = c(p)
        BY <3>1, <4>1
      <4>2. CASE \E v \in Versions : y = Min({c(v), Common})
        <5> HIDE DEF c, b
        <5>1. PICK v \in Versions : y = Min({c(v), Common})
          BY <4>2
        <5> QED BY <1>2, <2>2, <2>3, <5>1, BenchConstants
      <4> QED BY <4>1, <4>2
    <3> QED BY <3>2
  <2>5. Max(S) \in 0 .. b
    <3> HIDE DEF S, b
    <3> QED BY <1>2, <2>4, GreatestBelow
  <2>6. Reusable(p) = Max(S)
    BY <1>4 DEF Reusable
  <2> QED BY <2>5, <2>6, <1>2
<1> QED BY <1>3, <1>4

\* A request moves the counters of the pod by its tokens and the reused ones.
LEMMA ServedAdds ==
    ASSUME server \in Server, Consistent(server), server.up,
           NEW p \in Prompts, Served(p)
    PROVE  /\ server' \in Server /\ Consistent(server')
           /\ server'.pod = server.pod /\ server'.up
           /\ server'.queries = server.queries + Length[p]
           /\ server'.hits = server.hits + Reusable(p)
<1>1. Reusable(p) \in Nat /\ Reusable(p) <= Length[p] - Question
  BY ReusableBound
<1>2. /\ Length[p] \in Nat /\ Question \in Nat /\ Question <= Length[p]
  BY BenchConstants
<1> DEFINE r == Reusable(p)
<1>3. server' = [server EXCEPT !.queries = @ + Length[p], !.hits = @ + r,
                               !.cached[p] = Length[p] - Question]
  BY DEF Served
<1> HIDE DEF r
<1>4. r \in Nat /\ r <= Length[p]
  BY <1>1, <1>2 DEF r
<1>5. server' \in Server
  <2>1. [server.cached EXCEPT ![p] = Length[p] - Question] \in [Prompts -> Nat]
    BY <1>2 DEF Server
  <2>2. server.queries + Length[p] \in Nat /\ server.hits + r \in Nat
    BY <1>2, <1>4 DEF Server
  <2> QED BY <1>3, <2>1, <2>2 DEF Server
<1>6. /\ server'.pod = server.pod /\ server'.up
      /\ server'.queries = server.queries + Length[p]
      /\ server'.hits = server.hits + r
  BY <1>3 DEF Server
<1>7. Consistent(server')
  <2>1. server'.hits <= server'.queries
    BY <1>2, <1>4, <1>6 DEF Server, Consistent
  <2>2. ASSUME NEW q \in Prompts PROVE server'.cached[q] <= Length[q] - Question
    BY <1>2, <1>3, BenchConstants DEF Server, Consistent
  <2> QED BY <1>6, <2>1, <2>2 DEF Consistent
<1> QED BY <1>5, <1>6, <1>7 DEF r

\* Before the first reading and after the last nothing is promised.
LEMMA Away ==
    ASSUME BenchType', bench'.pc \in {"poll", "describe", "read_before", "done", "raised"}
    PROVE  BenchIInv'
<1>1. ~ Measuring' /\ ~ Primed' /\ ~ Reported'
  BY DEF Measuring, Priming, Primed, Reported
<1>2. Sofar' /\ VerdictIsEarned' /\ ColdIsEarned'
  BY <1>1 DEF Sofar, VerdictIsEarned, ColdIsEarned
<1>3. Alone'
  BY DEF Alone
<1> QED BY <1>2, <1>3 DEF BenchIInv

\* A step of the benchmark that leaves the server, the corpus and history alone.
LEMMA Moves ==
    ASSUME BenchType, UNCHANGED <<server, corpus, past>>, bench' \in Run,
           bench'.before.hits <= bench'.before.queries, bench'.warm <= Warm',
           bench'.pc = "chat" => bench'.warm < Warm',
           bench'.pc \in {"prime", "chat"} => bench'.prompt \in Versions
    PROVE  BenchType'
BY DEF BenchType, Consistent

\* Giving up, from anywhere (TimeoutError, CorpusError, a request that fails).
LEMMA Raises ==
    ASSUME BenchType, Goto("raised"), UNCHANGED <<server, corpus, past>>
    PROVE  BenchIInv'
<1>1. bench' = [bench EXCEPT !.pc = "raised"]
  BY DEF Goto
<1>2. bench' \in Run /\ bench'.pc = "raised" /\ bench'.before = bench.before
      /\ bench'.warm = bench.warm /\ bench'.round = bench.round
  BY <1>1 DEF BenchType, Run
<1>3. Warm' = Warm
  BY <1>2 DEF Warm
<1>4. BenchType'
  BY <1>2, <1>3, Moves DEF BenchType
<1> QED BY <1>2, <1>4, Away

\* A benchmark starts with nothing promised.
LEMMA BenchInitIInv == BenchInit => BenchIInv
<1> SUFFICES ASSUME BenchInit PROVE BenchIInv
  OBVIOUS
<1>1. server = [pod |-> 1, up |-> TRUE, queries |-> 0, hits |-> 0,
                cached |-> [p \in Prompts |-> 0]]
  BY DEF BenchInit, FreshServer
<1>2. server \in Server /\ Consistent(server)
  BY <1>1, BenchConstants DEF Server, Consistent
<1>3. NoCounters \in Reading
  BY BenchConstants DEF NoCounters, Reading
<1>4. bench \in Run /\ bench.pc = "poll" /\ bench.warm = 0 /\ bench.before = NoCounters
      /\ bench.round = 1
  BY <1>3, BenchConstants DEF BenchInit, Started, Run
<1>5. past \in Past
  BY DEF BenchInit, Nothing, Past
<1>6. Warm \in Nat
  BY <1>4, BenchConstants DEF Warm
<1>7. BenchType
  BY <1>2, <1>4, <1>5, <1>6 DEF BenchType, BenchInit, NoCounters
<1>8. ~ Measuring /\ ~ Primed /\ ~ Reported
  BY <1>4 DEF Measuring, Priming, Primed, Reported
<1> QED BY <1>4, <1>7, <1>8 DEF BenchIInv, Sofar, Alone, VerdictIsEarned,
           ColdIsEarned

-----------------------------------------------------------------------------
(* The server, its other clients and the corpus.                           *)

\* Another client is in the counters and in history alike; what has been read is
\* not its concern.
LEMMA OtherRequestKeeps ==
    ASSUME BenchIInv, NEW p \in Prompts, OtherRequest(p)
    PROVE  BenchIInv'
<1>1. /\ server' \in Server /\ Consistent(server')
      /\ server'.pod = server.pod /\ server'.up
      /\ server'.queries = server.queries + Length[p]
      /\ server'.hits = server.hits + Reusable(p)
  BY ServedAdds DEF BenchIInv, BenchType, OtherRequest
<1>2. server.up /\ UNCHANGED <<corpus, bench>>
  BY DEF OtherRequest
<1>3. /\ Measuring =>
            past' = [past EXCEPT !.foreign = @ \/ p = Other, !.company = @ \/ Priming,
                                 !.reused = @ \/ Reused(p)]
      /\ ~ Measuring => past' = past
  BY DEF OtherRequest
<1>4. /\ past' \in Past
      /\ ~ Measuring => past' = past
      /\ Measuring => /\ past'.foreign = (past.foreign \/ p = Other)
                      /\ past'.company = (past.company \/ Priming)
                      /\ past'.reused = (past.reused \/ Reused(p))
                      /\ past'.missed = past.missed
  BY <1>3 DEF BenchIInv, BenchType, Past
<1>5. Reusable(p) \in Nat /\ (p # Other => (Reused(p) <=> Reusable(p) > 0))
  BY ReusableBound DEF BenchIInv, BenchType, Reused
<1>6. BenchType'
  BY <1>1, <1>2, <1>4 DEF BenchIInv, BenchType, Warm
<1>7. /\ Measuring' = Measuring /\ Priming' = Priming
      /\ Primed' = Primed /\ Reported' = Reported
      /\ Cold' = Cold /\ Verified' = Verified /\ SamePod' = SamePod
  BY <1>1, <1>2 DEF Measuring, Priming, Primed, Reported,
     Cold, PrimeMisses, Verified, SamePod
<1>8. Sofar'
  <2> SUFFICES ASSUME Measuring PROVE Sofar'
    BY <1>7 DEF Sofar
  <2> QED BY <1>1, <1>2, <1>4, <1>5, <1>7 DEF BenchIInv, Sofar, BenchType, Server, Run,
             Reading, Past
<1>9. Alone'
  <2>1. CASE Priming
    BY <1>4, <2>1 DEF Alone, Measuring, Past
  <2>2. CASE ~ Priming
    BY <1>2, <2>2 DEF Alone, Priming
  <2> QED BY <2>1, <2>2
<1>10. VerdictIsEarned'
  <2>1. Reported => ~ Measuring
    BY DEF Reported, Measuring, Priming
  <2> QED BY <1>2, <1>4, <1>7, <2>1 DEF BenchIInv, VerdictIsEarned
<1>11. ColdIsEarned'
  <2>1. Primed => ~ Priming
    BY DEF Primed, Priming
  <2>2. Primed => past'.company = past.company /\ past'.missed = past.missed
    BY <1>4, <2>1 DEF BenchIInv, BenchType, Past
  <2> QED BY <1>2, <1>7, <2>2 DEF BenchIInv, ColdIsEarned
<1> QED BY <1>6, <1>8, <1>9, <1>10, <1>11 DEF BenchIInv

\* What leaves the counters and history alone keeps what was promised about them.
LEMMA Untouched ==
    ASSUME BenchIInv, BenchType', UNCHANGED <<bench, past>>, server'.pod = server.pod,
           server'.up = server.up, server'.hits = server.hits, server'.queries = server.queries
    PROVE  BenchIInv'
<1>1. /\ Measuring' = Measuring
      /\ Primed' = Primed /\ Reported' = Reported
      /\ Cold' = Cold /\ Verified' = Verified /\ SamePod' = SamePod
      /\ Misses(server)' = Misses(server)
  BY DEF Measuring, Priming, Primed, Reported, Cold,
     PrimeMisses, Verified, SamePod, Misses
<1>2. Sofar'
  BY <1>1 DEF BenchIInv, Sofar
<1>3. Alone'
  BY <1>1 DEF BenchIInv, Alone, Misses
<1>4. VerdictIsEarned' /\ ColdIsEarned'
  BY <1>1 DEF BenchIInv, VerdictIsEarned, ColdIsEarned
<1> QED BY <1>2, <1>3, <1>4 DEF BenchIInv

\* Eviction changes what is cached, not what was counted.
LEMMA EvictKeeps ==
    ASSUME BenchIInv, NEW p \in Prompts, Evict(p)
    PROVE  BenchIInv'
<1>1. PICK left \in 0 .. server.cached[p] - 1 : server' = [server EXCEPT !.cached[p] = left]
  BY DEF Evict
<1>2. UNCHANGED <<corpus, bench, past>>
  BY DEF Evict
<1>3. server \in Server /\ Consistent(server)
  BY DEF BenchIInv, BenchType
<1>4. left \in Nat /\ left <= server.cached[p]
  BY <1>1, <1>3 DEF Server
<1>5. [server.cached EXCEPT ![p] = left] \in [Prompts -> Nat]
  BY <1>3, <1>4 DEF Server
<1>6. /\ server' \in Server /\ server'.pod = server.pod /\ server'.up = server.up
      /\ server'.hits = server.hits /\ server'.queries = server.queries
      /\ server'.cached = [server.cached EXCEPT ![p] = left]
  BY <1>1, <1>3, <1>5 DEF Server
<1>7. \A q \in Prompts : server'.cached[q] <= server.cached[q]
  BY <1>3, <1>4, <1>6 DEF Server
<1>8. \A q \in Prompts : server'.cached[q] <= Length[q] - Question
  BY <1>3, <1>6, <1>7, BenchConstants DEF Server, Consistent
<1>9. BenchType'
  BY <1>2, <1>3, <1>6, <1>8 DEF BenchIInv, BenchType, Consistent, Warm
<1> QED BY <1>2, <1>6, <1>9, Untouched

\* Nor does an edit of the corpus, which a later build reads.
LEMMA CorpusEdited ==
    ASSUME BenchIInv, NEW v \in Versions \cup {Broken}, EditCorpus(v)
    PROVE  BenchIInv'
<1>1. corpus' = v /\ UNCHANGED <<server, bench, past>>
  BY DEF EditCorpus
<1>2. BenchType'
  BY <1>1 DEF BenchIInv, BenchType, Warm
<1> QED BY <1>1, <1>2, Untouched

\* A pod with nothing counted and nothing cached.
LEMMA FreshPod ==
    ASSUME NEW n
    PROVE  /\ FreshServer(n) = [pod |-> n, up |-> TRUE, queries |-> 0, hits |-> 0,
                          cached |-> [p \in Prompts |-> 0]]
           /\ [p \in Prompts |-> 0] \in [Prompts -> Nat]
           /\ \A p \in Prompts : 0 <= Length[p] - Question
BY BenchConstants DEF FreshServer

\* A pod ends or starts: what remains of the measurement is history.
LEMMA Replaced ==
    ASSUME BenchIInv, server' \in Server, UNCHANGED <<corpus, bench, past>>,
           server'.queries = 0, server'.hits = 0, Consistent(server'),
           server'.pod >= server.pod, server'.up => server'.pod > server.pod
    PROVE  BenchIInv'
<1>1. BenchType'
  BY DEF BenchIInv, BenchType, Warm
<1>2. /\ Measuring' = Measuring
      /\ Primed' = Primed /\ Reported' = Reported
      /\ Cold' = Cold /\ Verified' = Verified
  BY DEF Measuring, Priming, Primed, Reported, Cold,
     PrimeMisses, Verified
<1>3. Measuring => ~ SamePod'
  BY DEF BenchIInv, BenchType, Sofar, SamePod, Server, Run, Reading
<1>4. Sofar'
  BY <1>2, <1>3 DEF BenchIInv, BenchType, Sofar, Server, Run, Reading
<1>5. Misses(server)' = 0
  BY DEF Misses
<1>6. Alone'
  BY <1>3, <1>5 DEF BenchIInv, BenchType, Past, Alone, Measuring, Priming,
     Misses
<1> QED BY <1>1, <1>2, <1>4, <1>6 DEF BenchIInv, VerdictIsEarned,
           ColdIsEarned

\* A pod that ends takes its counters along.
LEMMA PodEndsKeeps ==
    ASSUME BenchIInv, PodEnds
    PROVE  BenchIInv'
<1>1. server' = [FreshServer(server.pod) EXCEPT !.up = FALSE] /\ server.pod < MaxPods
      /\ UNCHANGED <<corpus, bench, past>>
  BY DEF PodEnds
<1>2. server' = [pod |-> server.pod, up |-> FALSE, queries |-> 0, hits |-> 0,
                 cached |-> [p \in Prompts |-> 0]]
  <2> DEFINE none == [p \in Prompts |-> 0]
             f    == [pod |-> server.pod, up |-> TRUE, queries |-> 0, hits |-> 0, cached |-> none]
  <2>1. server' = [f EXCEPT !.up = FALSE]
    BY <1>1, FreshPod
  <2> HIDE DEF none
  <2>2. server' = [pod |-> server.pod, up |-> FALSE, queries |-> 0, hits |-> 0, cached |-> none]
    BY <2>1
  <2> QED BY <2>2 DEF none
<1>3. server' \in Server
  BY <1>2, FreshPod DEF BenchIInv, BenchType, Server
<1>4. Consistent(server')
  BY <1>1, <1>2, FreshPod DEF Consistent
<1>5. server'.pod = server.pod /\ ~ server'.up /\ server'.queries = 0 /\ server'.hits = 0
  BY <1>2
<1>6. server'.pod >= server.pod
  BY <1>5 DEF BenchIInv, BenchType, Server
<1> QED BY <1>1, <1>3, <1>4, <1>5, <1>6, Replaced

\* Its successor has another number, so no reading is taken for its own.
LEMMA PodStartsKeeps ==
    ASSUME BenchIInv, PodStarts
    PROVE  BenchIInv'
<1>1. server' = FreshServer(server.pod + 1) /\ ~ server.up /\ UNCHANGED <<corpus, bench, past>>
  BY DEF PodStarts
<1>2. server' = [pod |-> server.pod + 1, up |-> TRUE, queries |-> 0, hits |-> 0,
                 cached |-> [p \in Prompts |-> 0]]
  BY <1>1, FreshPod
<1>3. server.pod + 1 \in 1 .. MaxPods
  BY <1>1, BenchConstants DEF BenchIInv, BenchType, Consistent, Server
<1>4. server' \in Server
  BY <1>2, <1>3, FreshPod DEF Server
<1>5. Consistent(server')
  BY <1>2, FreshPod DEF Consistent
<1> QED BY <1>1, <1>2, <1>4, <1>5, Replaced DEF BenchIInv, BenchType, Server

-----------------------------------------------------------------------------
(* The benchmark.                                                          *)

\* Waiting for the app promises nothing yet.
LEMMA PollKeeps ==
    ASSUME BenchIInv, Poll
    PROVE  BenchIInv'
<1>1. UNCHANGED <<server, corpus, past>>
  BY DEF Poll
<1>2. CASE Goto("raised")
  BY <1>1, <1>2, Raises DEF BenchIInv
<1>3. CASE Goto("describe")
  <2>1. bench' \in Run /\ bench'.pc = "describe" /\ bench'.before = bench.before
        /\ bench'.warm = bench.warm /\ bench'.round = bench.round
    BY <1>3 DEF Goto, BenchIInv, BenchType, Run
  <2>2. BenchType'
    BY <1>1, <2>1, Moves DEF BenchIInv, BenchType, Warm
  <2> QED BY <2>1, <2>2, Away
<1>4. CASE bench.polls < MaxPolls /\ bench' = [bench EXCEPT !.polls = @ + 1]
  <2>1. bench.polls + 1 \in 0 .. MaxPolls
    BY <1>4, BenchConstants DEF BenchIInv, BenchType, Run
  <2>2. bench' \in Run /\ bench'.pc = "poll" /\ bench'.before = bench.before
        /\ bench'.warm = bench.warm /\ bench'.round = bench.round
    BY <1>4, <2>1 DEF Poll, BenchIInv, BenchType, Run
  <2>3. BenchType'
    BY <1>1, <2>2, Moves DEF BenchIInv, BenchType, Warm
  <2> QED BY <2>2, <2>3, Away
<1> QED BY <1>2, <1>3, <1>4 DEF Poll

\* The first build only describes the corpus in the report.
LEMMA DescribeKeeps ==
    ASSUME BenchIInv, Describe
    PROVE  BenchIInv'
<1>1. UNCHANGED <<server, corpus, past>>
  BY DEF Describe
<1>2. CASE Goto("raised")
  BY <1>1, <1>2, Raises DEF BenchIInv
<1>3. CASE Goto("read_before")
  <2>1. bench' \in Run /\ bench'.pc = "read_before" /\ bench'.before = bench.before
        /\ bench'.warm = bench.warm /\ bench'.round = bench.round
    BY <1>3 DEF Goto, BenchIInv, BenchType, Run
  <2>2. BenchType'
    BY <1>1, <2>1, Moves DEF BenchIInv, BenchType, Warm
  <2> QED BY <2>1, <2>2, Away
<1> QED BY <1>2, <1>3 DEF Describe

\* main ends after the report.
LEMMA FinishKeeps ==
    ASSUME BenchIInv, Finish
    PROVE  BenchIInv'
<1>1. UNCHANGED <<server, corpus, past>> /\ Goto("done")
  BY DEF Finish
<1>2. bench' \in Run /\ bench'.pc = "done" /\ bench'.before = bench.before
      /\ bench'.warm = bench.warm /\ bench'.round = bench.round
  BY <1>1 DEF Goto, BenchIInv, BenchType, Run
<1>3. BenchType'
  BY <1>1, <1>2, Moves DEF BenchIInv, BenchType, Warm
<1> QED BY <1>2, <1>3, Away

\* --restart-test forgets the readings and measures again.
LEMMA RestartTestKeeps ==
    ASSUME BenchIInv, RestartTest
    PROVE  BenchIInv'
<1>1. UNCHANGED <<server, corpus, past>>
  BY DEF RestartTest
<1>2. CASE Goto("raised")
  BY <1>1, <1>2, Raises DEF BenchIInv
<1>3. CASE bench' = Started(2)
  <2>1. NoCounters \in Reading
    BY BenchConstants DEF NoCounters, Reading
  <2>2. bench' \in Run /\ bench'.pc = "poll" /\ bench'.before = NoCounters
        /\ bench'.warm = 0 /\ bench'.round = 2
    BY <1>3, <2>1, BenchConstants DEF Started, Run
  <2>3. BenchType'
    BY <1>1, <2>2, Moves DEF BenchIInv, BenchType, Warm, NoCounters
  <2> QED BY <2>2, <2>3, Away
<1> QED BY <1>2, <1>3 DEF RestartTest

\* A reading of the counters of the pod in service.
LEMMA CountersRead ==
    ASSUME server \in Server, Consistent(server)
    PROVE  /\ Counters \in Reading /\ Counters.hits <= Counters.queries
           /\ Counters.pod = server.pod /\ Counters.hits = server.hits
           /\ Counters.queries = server.queries
BY BenchConstants DEF Counters, Reading, Server, Consistent

\* At the first reading the counters have not moved and history is empty.
LEMMA ReadBeforeKeeps ==
    ASSUME BenchIInv, ReadBefore
    PROVE  BenchIInv'
<1>1. UNCHANGED <<server, corpus>>
  BY DEF ReadBefore
<1>2. CASE Goto("raised") /\ UNCHANGED past
  BY <1>1, <1>2, Raises DEF BenchIInv
<1>3. CASE /\ server.up
           /\ bench' = [bench EXCEPT !.pc = "build_prime", !.before = Counters]
           /\ past' = Nothing
  <2>1. /\ Counters \in Reading /\ Counters.hits <= Counters.queries
        /\ Counters.pod = server.pod /\ Counters.hits = server.hits
        /\ Counters.queries = server.queries
    BY CountersRead DEF BenchIInv, BenchType
  <2>2. bench' \in Run /\ bench'.pc = "build_prime" /\ bench'.before = Counters
        /\ bench'.warm = bench.warm /\ bench'.round = bench.round
    BY <1>3, <2>1 DEF BenchIInv, BenchType, Run
  <2>3. past' \in Past /\ ~ past'.foreign /\ ~ past'.reused
    BY <1>3 DEF Nothing, Past
  <2>4. BenchType'
    BY <1>1, <2>1, <2>2, <2>3 DEF BenchIInv, BenchType, Warm
  <2>5. SamePod'
    BY <1>1, <1>3, <2>1, <2>2 DEF SamePod
  <2>6. Sofar'
    BY <1>1, <2>1, <2>2, <2>3, <2>5 DEF Sofar, BenchIInv, BenchType, Server
  <2>7. Alone'
    BY <1>1, <2>1, <2>2, <2>5 DEF Alone, Misses
  <2>8. ~ Primed' /\ ~ Reported'
    BY <2>2 DEF Primed, Reported
  <2> QED BY <2>4, <2>6, <2>7, <2>8 DEF BenchIInv, VerdictIsEarned,
             ColdIsEarned
<1> QED BY <1>2, <1>3 DEF ReadBefore

\* Building the prime asks nothing of the server.
LEMMA BuildPrimeKeeps ==
    ASSUME BenchIInv, BuildPrompt("build_prime", "prime")
    PROVE  BenchIInv'
<1>1. UNCHANGED <<server, corpus, past>> /\ bench.pc = "build_prime"
  BY DEF BuildPrompt
<1>2. CASE corpus = Broken
  BY <1>1, <1>2, Raises DEF BuildPrompt, Goto, BenchIInv
<1>3. CASE corpus # Broken
  <2>1. bench' = [bench EXCEPT !.pc = "prime", !.prompt = corpus] /\ corpus \in Versions
    BY <1>3 DEF BuildPrompt, BenchIInv, BenchType
  <2>2. bench' \in Run /\ bench'.pc = "prime" /\ bench'.prompt \in Versions
        /\ bench'.before = bench.before /\ bench'.warm = bench.warm
        /\ bench'.round = bench.round
    BY <2>1 DEF BenchIInv, BenchType, Run
  <2>3. BenchType'
    BY <1>1, <2>2, Moves DEF BenchIInv, BenchType, Warm
  <2>4. Sofar'
    BY <1>1, <2>2 DEF BenchIInv, Sofar, SamePod, Measuring, Priming
  <2>5. Alone'
    BY <1>1, <2>2 DEF BenchIInv, Alone, SamePod, Misses
  <2>6. ~ Primed' /\ ~ Reported'
    BY <2>2 DEF Primed, Reported
  <2> QED BY <2>3, <2>4, <2>5, <2>6 DEF BenchIInv, VerdictIsEarned,
             ColdIsEarned
<1> QED BY <1>2, <1>3

\* Nor does building a warm request.
LEMMA BuildWarmKeeps ==
    ASSUME BenchIInv, BuildWarm
    PROVE  BenchIInv'
<1>1. UNCHANGED <<server, corpus, past>> /\ bench.pc = "warm" /\ bench.warm < Warm
  BY DEF BuildWarm, BuildPrompt
<1>2. CASE corpus = Broken
  BY <1>1, <1>2, Raises DEF BuildWarm, BuildPrompt, Goto, BenchIInv
<1>3. CASE corpus # Broken
  <2>1. bench' = [bench EXCEPT !.pc = "chat", !.prompt = corpus] /\ corpus \in Versions
    BY <1>3 DEF BuildWarm, BuildPrompt, BenchIInv, BenchType
  <2>2. bench' \in Run /\ bench'.pc = "chat" /\ bench'.prompt \in Versions
        /\ bench'.before = bench.before /\ bench'.primed = bench.primed
        /\ bench'.warm = bench.warm /\ bench'.round = bench.round
    BY <2>1 DEF BenchIInv, BenchType, Run
  <2>3. BenchType'
    BY <1>1, <2>2, Moves DEF BenchIInv, BenchType, Warm
  <2>4. Sofar'
    BY <1>1, <2>2 DEF BenchIInv, Sofar, SamePod, Measuring, Priming
  <2>5. Alone' /\ ~ Reported'
    BY <2>2 DEF Alone, Reported
  <2>6. ColdIsEarned'
    BY <1>1, <2>2 DEF BenchIInv, ColdIsEarned, Primed, Cold,
       PrimeMisses
  <2> QED BY <2>3, <2>4, <2>5, <2>6 DEF BenchIInv, VerdictIsEarned
<1> QED BY <1>2, <1>3

\* The second reading: what the counters missed since the first is the prime.
LEMMA ReadPrimedKeeps ==
    ASSUME BenchIInv, ReadPrimed
    PROVE  BenchIInv'
<1>1. UNCHANGED <<server, corpus, past>> /\ bench.pc = "read_primed"
  BY DEF ReadPrimed
<1>2. CASE Goto("raised")
  BY <1>1, <1>2, Raises DEF BenchIInv
<1>3. CASE server.up /\ bench' = [bench EXCEPT !.pc = "warm", !.primed = Counters]
  <2>1. /\ Counters \in Reading /\ Counters.hits <= Counters.queries
        /\ Counters.pod = server.pod /\ Counters.hits = server.hits
        /\ Counters.queries = server.queries
    BY CountersRead DEF BenchIInv, BenchType
  <2>2. bench' \in Run /\ bench'.pc = "warm" /\ bench'.primed = Counters
        /\ bench'.before = bench.before /\ bench'.warm = bench.warm
        /\ bench'.round = bench.round
    BY <1>3, <2>1 DEF BenchIInv, BenchType, Run
  <2>3. BenchType'
    BY <1>1, <2>2, Moves DEF BenchIInv, BenchType, Warm
  <2>4. Sofar'
    BY <1>1, <2>2 DEF BenchIInv, Sofar, SamePod, Measuring, Priming
  <2>5. Alone' /\ ~ Reported'
    BY <2>2 DEF Alone, Reported
  <2>6. ColdIsEarned'
    <3> SUFFICES ASSUME ~ past.company PROVE ColdIsEarned'
      BY <1>1 DEF ColdIsEarned
    <3>1. IF SamePod THEN Misses(server) = Misses(bench.before) + past.missed
          ELSE Misses(server) <= past.missed
      BY <1>1 DEF BenchIInv, Alone
    <3>2. PrimeMisses' = Misses(server) - Misses(bench.before)
      BY <2>1, <2>2 DEF PrimeMisses, Misses, BenchIInv, BenchType, Run, Reading,
         Server
    <3>3. /\ Misses(server) \in Int /\ Misses(bench.before) \in Nat
          /\ past.missed \in Nat /\ ColdMisses \in Nat
      BY BenchConstants DEF Misses, BenchIInv, BenchType, Run, Reading, Server, Past
    <3>4. PrimeMisses' <= past.missed /\ (SamePod => PrimeMisses' = past.missed)
      BY <3>1, <3>2, <3>3
    <3>5. (bench.before.pod = bench'.primed.pod) => SamePod
      BY <1>3, <2>1, <2>2 DEF SamePod
    <3> QED BY <1>1, <2>2, <3>2, <3>3, <3>4, <3>5 DEF ColdIsEarned, Cold
  <2> QED BY <2>3, <2>4, <2>5, <2>6 DEF BenchIInv, VerdictIsEarned
<1> QED BY <1>2, <1>3 DEF ReadPrimed

\* The last reading: the hits since the first decide the verdict.
LEMMA ReadAfterKeeps ==
    ASSUME BenchIInv, ReadAfter
    PROVE  BenchIInv'
<1>1. UNCHANGED <<server, corpus, past>> /\ bench.pc = "warm"
  BY DEF ReadAfter
<1>2. CASE Goto("raised")
  BY <1>1, <1>2, Raises DEF BenchIInv
<1>3. CASE server.up /\ bench' = [bench EXCEPT !.pc = "reported", !.after = Counters]
  <2>1. /\ Counters \in Reading /\ Counters.hits <= Counters.queries
        /\ Counters.pod = server.pod /\ Counters.hits = server.hits
        /\ Counters.queries = server.queries
    BY CountersRead DEF BenchIInv, BenchType
  <2>2. bench' \in Run /\ bench'.pc = "reported" /\ bench'.after = Counters
        /\ bench'.before = bench.before /\ bench'.primed = bench.primed
        /\ bench'.warm = bench.warm /\ bench'.round = bench.round
    BY <1>3, <2>1 DEF BenchIInv, BenchType, Run
  <2>3. BenchType'
    BY <1>1, <2>2, Moves DEF BenchIInv, BenchType, Warm
  <2>4. Sofar' /\ Alone'
    BY <2>2 DEF Sofar, Alone, Measuring, Priming
  <2>5. ColdIsEarned'
    BY <1>1, <2>2 DEF BenchIInv, ColdIsEarned, Primed, Cold,
       PrimeMisses
  <2>6. VerdictIsEarned'
    <3> SUFFICES ASSUME ~ past.foreign PROVE VerdictIsEarned'
      BY <1>1 DEF VerdictIsEarned
    <3>1. IF SamePod THEN server.hits > bench.before.hits <=> past.reused
          ELSE server.hits > 0 => past.reused
      BY <1>1 DEF BenchIInv, Sofar, Measuring
    <3>2. server.hits \in Nat /\ bench.before.hits \in Nat
      BY DEF BenchIInv, BenchType, Run, Reading, Server
    <3>3. Verified' <=> server.hits > bench.before.hits
      BY <2>1, <2>2, <3>2 DEF Verified
    <3>4. (bench.before.pod = bench'.after.pod) <=> SamePod
      BY <1>3, <2>1, <2>2 DEF SamePod
    <3> QED BY <1>1, <2>2, <3>1, <3>2, <3>3, <3>4 DEF VerdictIsEarned
  <2> QED BY <2>3, <2>4, <2>5, <2>6 DEF BenchIInv
<1> QED BY <1>2, <1>3 DEF ReadAfter

\* A request of the benchmark that the server takes in.
LEMMA ChatServes ==
    ASSUME BenchIInv, NEW prime \in BOOLEAN,
           bench.pc \in {"prime", "chat"}, server.up, Served(bench.prompt),
           past' = [past EXCEPT !.reused = @ \/ Reused(bench.prompt),
                        !.missed = IF prime THEN Length[bench.prompt] - Reusable(bench.prompt)
                                            ELSE @]
    PROVE  LET p == bench.prompt IN
           /\ Length[p] \in Nat /\ Reusable(p) \in Nat /\ Reusable(p) <= Length[p]
           /\ server' \in Server /\ Consistent(server')
           /\ server'.pod = server.pod /\ server'.up
           /\ server'.queries = server.queries + Length[p]
           /\ server'.hits = server.hits + Reusable(p)
           /\ past' \in Past
           /\ past'.foreign = past.foreign /\ past'.company = past.company
           /\ past'.reused = (past.reused \/ Reusable(p) > 0)
           /\ past'.missed = IF prime THEN Length[p] - Reusable(p) ELSE past.missed
<1> DEFINE p == bench.prompt
<1>1. p \in Versions /\ p \in Prompts /\ p # Other
  BY BenchConstants DEF BenchIInv, BenchType
<1>2. /\ Length[p] \in Nat /\ Reusable(p) \in Nat /\ Reusable(p) <= Length[p]
  BY <1>1, ReusableBound, BenchConstants DEF BenchIInv, BenchType
<1>3. Reused(p) <=> Reusable(p) > 0
  BY <1>1 DEF Reused
<1>4. /\ server' \in Server /\ Consistent(server')
      /\ server'.pod = server.pod /\ server'.up
      /\ server'.queries = server.queries + Length[p]
      /\ server'.hits = server.hits + Reusable(p)
  BY <1>1, ServedAdds DEF BenchIInv, BenchType
<1> DEFINE r == Reusable(p)
<1>5. Reused(p) = (r > 0)
  BY <1>3 DEF Reused
<1>6. past' = [past EXCEPT !.reused = @ \/ r > 0, !.missed = IF prime THEN Length[p] - r ELSE @]
  BY <1>5
<1> HIDE DEF r
<1>7. r \in Nat /\ Length[p] - r \in Nat
  BY <1>2 DEF r
<1>8. /\ past' \in Past
      /\ past'.foreign = past.foreign /\ past'.company = past.company
      /\ past'.reused = (past.reused \/ r > 0)
      /\ past'.missed = IF prime THEN Length[p] - r ELSE past.missed
  BY <1>6, <1>7 DEF BenchIInv, BenchType, Past
<1> QED BY <1>2, <1>4, <1>8 DEF r

\* The prime adds its misses to the counters and to history.
LEMMA PrimeKeeps ==
    ASSUME BenchIInv, Prime
    PROVE  BenchIInv'
<1>1. corpus' = corpus /\ bench.pc = "prime"
  BY DEF Prime
<1>2. CASE Goto("raised") /\ UNCHANGED <<server, past>>
  BY <1>1, <1>2, Raises DEF BenchIInv
<1>3. CASE /\ server.up
           /\ Served(bench.prompt)
           /\ past' = [past EXCEPT !.reused = @ \/ Reused(bench.prompt),
                          !.missed = IF TRUE THEN Length[bench.prompt] - Reusable(bench.prompt)
                                             ELSE @]
           /\ bench' = [bench EXCEPT !.pc = "read_primed"] \/ Goto("raised")
  <2> DEFINE p == bench.prompt
  <2>1. /\ Length[p] \in Nat /\ Reusable(p) \in Nat /\ Reusable(p) <= Length[p]
        /\ server' \in Server /\ Consistent(server')
        /\ server'.pod = server.pod /\ server'.up
        /\ server'.queries = server.queries + Length[p]
        /\ server'.hits = server.hits + Reusable(p)
        /\ past' \in Past
        /\ past'.foreign = past.foreign /\ past'.company = past.company
        /\ past'.reused = (past.reused \/ Reusable(p) > 0)
        /\ past'.missed = Length[p] - Reusable(p)
    BY <1>1, <1>3, ChatServes
  <2>2. bench'.pc \in {"read_primed", "raised"} /\ bench' \in Run
        /\ bench'.before = bench.before /\ bench'.warm = bench.warm
        /\ bench'.round = bench.round
    BY <1>3 DEF Goto, BenchIInv, BenchType, Run
  <2>3. BenchType'
    BY <1>1, <2>1, <2>2 DEF BenchIInv, BenchType, Warm
  <2>4. SamePod' = SamePod
    BY <1>3, <2>1, <2>2 DEF SamePod
  <2>5. Sofar'
    <3>1. Measuring
      BY <1>1 DEF Measuring, Priming
    <3> QED BY <2>1, <2>2, <2>4, <3>1 DEF BenchIInv, BenchType, Sofar, SamePod, Server,
               Run, Reading, Past
  <2>6. Alone'
    <3> SUFFICES ASSUME ~ past.company, bench'.pc = "read_primed" PROVE Alone'
      BY <2>1, <2>2 DEF Alone
    <3>1. Misses(server) = IF SamePod THEN Misses(bench.before) ELSE 0
      BY <1>1 DEF BenchIInv, Alone
    <3>2. Misses(server)' = Misses(server) + past'.missed
      BY <2>1 DEF Misses, BenchIInv, BenchType, Server
    <3>3. Misses(bench.before)' = Misses(bench.before) /\ Misses(bench.before) \in Int
      BY <2>2 DEF Misses, BenchIInv, BenchType, Run, Reading
    <3>4. past'.missed \in Nat
      BY <2>1 DEF Past
    <3> QED BY <2>2, <2>4, <3>1, <3>2, <3>3, <3>4 DEF Alone
  <2>7. ~ Primed' /\ ~ Reported'
    BY <2>2 DEF Primed, Reported
  <2> QED BY <2>3, <2>5, <2>6, <2>7 DEF BenchIInv, VerdictIsEarned,
             ColdIsEarned
<1> QED BY <1>2, <1>3 DEF Prime, Chat

\* A warm request adds its hits to the counters and to history.
LEMMA WarmRequestKeeps ==
    ASSUME BenchIInv, WarmRequest
    PROVE  BenchIInv'
<1>1. corpus' = corpus /\ bench.pc = "chat"
  BY DEF WarmRequest
<1>2. CASE Goto("raised") /\ UNCHANGED <<server, past>>
  BY <1>1, <1>2, Raises DEF BenchIInv
<1>3. CASE /\ server.up
           /\ Served(bench.prompt)
           /\ past' = [past EXCEPT !.reused = @ \/ Reused(bench.prompt),
                          !.missed = IF FALSE THEN Length[bench.prompt] - Reusable(bench.prompt)
                                              ELSE @]
           /\ bench' = [bench EXCEPT !.pc = "warm", !.warm = @ + 1] \/ Goto("raised")
  <2> DEFINE p == bench.prompt
  <2>1. /\ Length[p] \in Nat /\ Reusable(p) \in Nat /\ Reusable(p) <= Length[p]
        /\ server' \in Server /\ Consistent(server')
        /\ server'.pod = server.pod /\ server'.up
        /\ server'.queries = server.queries + Length[p]
        /\ server'.hits = server.hits + Reusable(p)
        /\ past' \in Past
        /\ past'.foreign = past.foreign /\ past'.company = past.company
        /\ past'.reused = (past.reused \/ Reusable(p) > 0)
        /\ past'.missed = past.missed
    BY <1>1, <1>3, ChatServes
  <2>2. bench'.pc \in {"warm", "raised"} /\ bench' \in Run
        /\ bench'.before = bench.before /\ bench'.primed = bench.primed
        /\ bench'.warm \in {bench.warm, bench.warm + 1} /\ bench'.round = bench.round
    <3>1. bench \in Run /\ bench.warm + 1 \in Nat
      BY DEF BenchIInv, BenchType, Run
    <3>2. CASE bench' = [bench EXCEPT !.pc = "warm", !.warm = @ + 1]
      BY <3>1, <3>2 DEF Run
    <3>3. CASE Goto("raised")
      BY <3>1, <3>3 DEF Run, Goto
    <3> QED BY <1>3, <3>2, <3>3
  <2>3. bench'.warm <= Warm'
    BY <1>1, <2>2, BenchConstants DEF BenchIInv, BenchType, Warm, Run
  <2>4. BenchType'
    BY <1>1, <2>1, <2>2, <2>3 DEF BenchIInv, BenchType
  <2>5. SamePod' = SamePod
    BY <1>3, <2>1, <2>2 DEF SamePod
  <2>6. Sofar'
    <3>1. Measuring
      BY <1>1 DEF Measuring
    <3> QED BY <2>1, <2>2, <2>5, <3>1 DEF BenchIInv, BenchType, Sofar, SamePod, Server,
               Run, Reading, Past
  <2>7. Alone' /\ ~ Reported'
    BY <2>2 DEF Alone, Reported
  <2>8. ColdIsEarned'
    BY <1>1, <2>1, <2>2 DEF BenchIInv, ColdIsEarned, Primed, Cold,
       PrimeMisses
  <2> QED BY <2>4, <2>6, <2>7, <2>8 DEF BenchIInv, VerdictIsEarned
<1> QED BY <1>2, <1>3 DEF WarmRequest, Chat

-----------------------------------------------------------------------------
\* The invariant holds in every reachable state of the benchmark and its server.
THEOREM BenchInductive == BenchSpec => []BenchIInv
<1>1. ASSUME BenchIInv, [BenchNext]_benchVars PROVE BenchIInv'
  <2>1. CASE Step
    BY <1>1, <2>1, PollKeeps, DescribeKeeps, ReadBeforeKeeps, BuildPrimeKeeps,
       PrimeKeeps,
       ReadPrimedKeeps, BuildWarmKeeps, WarmRequestKeeps, ReadAfterKeeps, FinishKeeps,
       RestartTestKeeps DEF Step
  <2>2. CASE PodEnds \/ PodStarts
    BY <1>1, <2>2, PodEndsKeeps, PodStartsKeeps
  <2>3. CASE \E p \in Prompts : OtherRequest(p) \/ Evict(p)
    BY <1>1, <2>3, OtherRequestKeeps, EvictKeeps
  <2>4. CASE \E v \in Versions \cup {Broken} : EditCorpus(v)
    BY <1>1, <2>4, CorpusEdited
  <2>5. CASE UNCHANGED benchVars
    <3>1. BenchType'
      BY <1>1, <2>5 DEF benchVars, BenchIInv, BenchType, Warm
    <3> QED BY <1>1, <2>5, <3>1, Untouched DEF benchVars
  <2> QED BY <1>1, <2>1, <2>2, <2>3, <2>4, <2>5 DEF BenchNext
<1> QED BY <1>1, BenchInitIInv, PTL DEF BenchSpec

\* The state of the benchmark is well formed, and no pod counts more hits than
\* tokens asked for.
THEOREM BenchTypeCorrect == BenchSpec => []BenchTypeOK
<1>1. BenchIInv => BenchTypeOK
  <2> SUFFICES ASSUME BenchIInv PROVE BenchTypeOK
    OBVIOUS
  <2>1. \A p \in Prompts : server.cached[p] \in 0 .. Length[p] - Question
    BY BenchConstants DEF BenchIInv, BenchType, Server, Consistent
  <2>2. server.hits \in 0 .. server.queries /\ bench.warm \in 0 .. Warm
    BY BenchConstants DEF BenchIInv, BenchType, Server, Consistent, Run, Warm
  <2> QED BY <2>1, <2>2 DEF BenchIInv, BenchType, Server, Run, BenchTypeOK
<1>2. QED BY BenchInductive, <1>1, PTL

\* run_benchmark's verdict says whether corpus tokens were taken from the cache
\* between its readings, whoever else used the server and whatever pods came and
\* went, unless another application was served.
THEOREM VerdictsAreEarned == BenchSpec => []VerdictIsEarned
<1>1. BenchIInv => VerdictIsEarned
  BY DEF BenchIInv
<1>2. QED BY BenchInductive, <1>1, PTL

\* The cache_state of the prime is cold exactly when its own request missed, if it
\* was served alone; a replaced pod can only make it read warm.
THEOREM ColdsAreEarned == BenchSpec => []ColdIsEarned
<1>1. BenchIInv => ColdIsEarned
  BY DEF BenchIInv
<1>2. QED BY BenchInductive, <1>1, PTL
=============================================================================
