# TLA+ models of vllm-gke

This directory specifies, model-checks and, but for liveness, proves the program logic of
the repository: the augmentation showcases (MAG, TAG, CAG) with their benchmark and their
manager, and the RAG ingestion job, that run beside a vLLM server on GKE.  The serving stack itself (Envoy
Gateway, the semantic router, KEDA, vLLM, Qdrant) is third-party software that
the repository configures; where the code talks to it, the models treat it as
an environment that may answer anything the code can receive, with one exception:
the embedding server is taken to return one vector per text, in order.

All paths below are relative to the repository root.

## 1. The system

| Component | State it keeps | Operations | Talks to |
| --- | --- | --- | --- |
| MAG store (`showcases/mag/memory_store.py`) | SQLite file: `memories`, FTS index, `session_turns`; one connection, one lock | add, correct, delete, delete-all, search, append_turn, recent_turns, healthcheck | called by every MAG request |
| MAG service (`showcases/mag/app.py`, `pipeline.py`) | none between requests; a thread pool | `/chat` (with `remember:`), `/memories` routes | store, model gateway |
| TAG pipeline and SQL guard (`showcases/tag/pipeline.py`, `sql_guard.py`) | per question: attempts, feedback, one read-only connection | `answer` | model gateway, SQLite file |
| TAG database (`showcases/tag/db.py`, `app.py`) | the SQLite file | `ensure_database` at start-up | a volume that outlives the container |
| CAG corpus and service (`showcases/cag/corpus.py`, `build_manifest.py`, `app.py`) | corpus files, `manifest.json` | `/chat`, `/warmup`, `/healthz`; rebuild of the manifest | files on disk, model gateway |
| CAG benchmark (`showcases/cag/benchmark.py`) | one measurement | poll, prime, warm loop, verdict, restart test | CAG service, vLLM counters, kubectl |
| Showcase manager (`showcases/demo.sh`) | none; the cluster | up, down, purge, status | kubectl |
| RAG ingestion (`ingest/ingest.py`) | the Qdrant collection | one run over the bucket | bucket, embedding server, Qdrant |
| RAG retrieval (`retrieval/main.py`) | none; reads the Qdrant collection | `/search`, `/chat` | embedding server, Qdrant, reranker, gateway |
| Chat UI, eval and bench scripts, manifests, Terraform | none | | |

What is hard about them:

* **MAG** is the one service with durable, shared, mutable state.  FastAPI runs
  its handlers in a thread pool; all threads share one SQLite connection, and
  so one transaction, behind one lock.  A method is several statements over
  three tables; any of them can fail and the process can die between any two.
  A chat makes several store calls with a model call of up to two minutes
  between them and holds no lock meanwhile.
* **TAG** runs statements a language model has written: a retry loop with
  feedback, two limits with edges (rows, opcodes), and five ways out of the SQL
  stages (accepted, given up, out of scope, gateway error, any other error) which
  must all release the connection.  Its database is created lazily, statement by
  statement, in a volume that survives the container.
* **CAG** reads its corpus anew for every request, file by file, while the
  files can be edited and the manifest is rewritten in place.
* **Ingestion** is restarted by a CronJob, by its back-off and by hand, on a
  bucket that changes, and writes the same collection from every run.
* **The CAG benchmark** draws its verdict from counters it shares with every
  other client of the server, over minutes in which the pod can be replaced.
* **demo.sh** looks and then acts, without a lock, on a cluster that finishes
  deletions in its own time.

What makes each correct is stated by the properties in section 3.

## 2. Modules

| Module | Models | Uses |
| --- | --- | --- |
| `MagMemory` | contract of the table `memories`: one atomic step per method | |
| `MagTurns` | contract of `session_turns`: one rolling window per conversation | |
| `MagStoreTxn` | `MemoryStore` statement by statement: lock, transaction, failures, crash | refines `MagMemory` and `MagTurns` |
| `MagService` | all handlers and the chat pipeline, run concurrently | composes `MagMemory` and `MagTurns` |
| `TagPipeline` | one question through synthesis, guard, execution, answer | |
| `TagDatabase` | `ensure_database` by several starts over one file | |
| `CagCorpus` | requests, editors and `build_manifest.py` over one directory | |
| `CagBenchmark` | `benchmark.py`, its restart test, and the server it measures | |
| `Demo` | `demo.sh` from several terminals, and the cluster it commands | |
| `RagIngest` | runs of the ingestion job over a changing bucket | |
| `RagSearch` | what a search may return while runs are at work | extends `RagIngest` |
| `MagMemoryProofs`, `MagStoreTxnProofs`, `MagServiceProofs`, `TagPipelineProofs`, `TagDatabaseProofs`, `CagProofs`, `RagSearchProofs`, `DemoProofs` | the theorems of section 5 | extend the module they are about; `CagProofs` extends both `CagCorpus` and `CagBenchmark`; `MagServiceProofs` and `MagStoreTxnProofs` also instantiate `MagMemoryProofs` |
| `MC...` | small instances for TLC | extend the module they instantiate |

Definitions whose comment starts with "Faulty variant" are not part of any
specification.  Each is a plausible bug of the definition it precedes, and each
property is known to fail when its variant takes the place of the original:
the way we know that a property can fail at all.

### How state and actions correspond to the code

**MagMemory, MagTurns.**  `memories` is a sequence because rows are never
removed, so SQLite's ids are positions.  `category` and the timestamps are left
out: nothing branches on them.  A method that finds no active row of its user
raises `NotFound`; at this level that is no step.  `turns[k]` is what
`recent_turns` could ever return for conversation `k`.

**MagStoreTxn.**  `disk` is what SQLite has committed, `work` what the shared
connection sees.  `Program` lists each method's statements in the order of the
code; every statement is an action, `Acquire`, `Commit` and `Release` are the
edges of `with self._lock, self.conn`.  `StatementFails` is an
`sqlite3.Error` at any statement: a writing method rolls back, a reading one
just raises.  `Crash` is the death of the process and its restart on the same
file, and also covers `close()`.  `fts5` is found out once, as in `__init__`;
without FTS5, search uses `LIKE`.  The texts a query matches are a constant,
and bm25's ranking is left open: search may return any `SearchLimit` of the hits.
`delete_all_memories` unindexes its rows in a loop; the loop is one action,
because the lock is held and a failure rolls all of it back.

**MagService.**  A request is a record with the step its handler is at; a step
is one store call, or the model call, and steps of different requests
interleave freely up to the size of the pool.  That a store call may be one
step is what `MagStoreTxn`'s refinement justifies.  The guard for secrets
(`find_secret_like`) is the set `Secrets`: which texts it recognises is not
modelled.  Endpoints that only read are left out.

**TagPipeline.**  A statement is a record of what the guard can tell: its first
keyword, whether it is one statement, whether the authorizer lets it be
prepared, the opcodes EXPLAIN and it take, whether it runs, how many rows it
has.  The guard can also raise an exception it does not map to a rejection
(`GuardRaises`), which ends the call through `finally`; and the PRAGMA of
`connect_readonly` can fail before the `try`, which drops the connection
unclosed (`Connect`, outcome `dropped`).  `After` is the arithmetic of the progress handler, which is called once
in `ProgressStep` opcodes.  Answering many questions at once adds nothing:
calls share only their configuration and a read-only file.

**TagDatabase.**  `executescript` runs in autocommit, so each statement of
`schema.sql` and `seed.sql` is a step of its own and durable at once.  `Exit`
is any end of the process, at any point.  `began` and `ended` are history.

**CagCorpus.**  A content of a file stands for its bytes and its sha256.  A
request reads the manifest, then each file once, comparing it with the manifest
it has read.  `build_manifest.py` reads the files one by one; `write_text`
truncates (`BuildOpen`) and then writes (`BuildWrite`).  `exact` says whether
the tokenizer could be loaded: the deployed image falls back to
`len(text) // 2`, as `showcases/cag/README.md` says.  `calm` is history.

**RagIngest.**  `points` maps document and chunk index, which is what point ids
are made of, to the content the chunk was cut from: it makes the vectors, text,
heading and source of the point.  `ingested_at` is the rest of the payload, the
time at which a run came to the document; as times are only ever compared, it is
the run that read it.  A run lists the bucket,
then takes the documents still to do in the order of their names, batch by batch
(`todo` is the set of them, `Doc` its least).  `Parse` reads the listed
generation or the one there is by then (the bucket keeps generations).
`BatchFails` is an exception of `embed_batch` or `upsert`, with the batch
stored or not; `PodDies` is any other end.

**RagSearch.**  The retrieval service keeps nothing and reads the collection in
one Qdrant query, so a search is no action: `SearchPassages` is the set of its
possible results in a state, and the property quantifies over them in every state
of the ingestion.  Which points come first is left open.

**CagBenchmark.**  One action per reading, request and build of the benchmark,
in its order; each may raise, which ends it.  The server is known by its pod,
its two counters, and per prompt the length of the start that is cached; a
request takes from the cache what its own prompt, or the common start of another
version's, left there.  The latency samples are left out: the verdict must not
depend on them and the model shows that it does not.  `past` is history, what a
perfect observer would have seen between the readings.  The questions of the
requests are taken to be distinct and shorter than the 100 tokens of the cold
threshold (`ColdMisses`).

**Demo.**  `Look` is `active_showcase` with the refusal; `kubectl apply` goes
through the files of the directory one by one and goes on after a failure;
`down` deletes `deployment.yaml` only; `purge` asks, deletes the claim and waits
for it to go.  Every command may fail before or after the cluster took it, and
whether it did matters only for what is printed.  A deleted claim stays while
MAG's pod runs (`VolumeGoes`), during which a second `up` leaves it as it is
(`ApplyVolume`).  `sure` and `confirmed` are history.

## 3. Runs

| Run | Checks | Shows |
| --- | --- | --- |
| `mag_memory` | `TypeOK`, `SupersedeChain`, `AuditTrail`, `OneOwner` | corrections form chains that stay with a user and never merge; no row is removed, rewritten or revived |
| `mag_store` | `Isolated`, `IndexMirrorsActive`, `ResultsAreCommitted`, `SearchIsSound`, `ImplementsMemory`, `ImplementsTurns`, `EveryCallEnds` | the lock and the transactions make each method atomic under interleaving, statement failures and crashes; the index never drifts; the lock is always given back |
| `mag_service` | `NoSecretMemory`, `RetiredOnce`, `ForgetsEveryVersion`, `PromptIsOwnAndFresh`, `ExchangesAreWhole` | racing corrections and deletions retire a memory once; delete-all forgets every version; no route lets a secret into `memories`; what prompts and session windows hold while chats overlap, fail and crash |
| `mag_service_deleted` | `DeletedLeavesPrompts` (violated) | finding 1 |
| `tag_pipeline` | `AnswersAreGrounded`, `FailsClosed`, `ToldOfTheLastError`, `ConnectionReleased`, `BudgetIsKept` | only whole results of accepted statements reach the answer; the loop gives up cleanly after its attempts; both limits hold at their edges |
| `tag_database` | `MadeOnce`, `SeededInOrder`, `StaysDerived` | a start that makes the database alone and to the end makes all of it, once; an interrupted one leaves a beginning; a complete database is never touched again |
| `tag_database_serves` | `ServesDerived` (violated) | finding 2 |
| `cag_corpus` | `SameVersionSamePrefix`, `SentFits`, `NoFalseAlarm`, `EveryRequestEnds` | one version, one prefix, under edits and rebuilds; what is sent fits the context |
| `rag_ingest` | `FinishedRunCovers`, `SearchIsCurrent`, `ReRunKeepsPassages`, `EveryRunEnds` | a finished run covers its documents, no later run undoes it or changes a passage, and searches find them |
| `cag_benchmark` | `VerdictIsEarned`, `ColdIsEarned` | the verdict and the cold label say what happened on the server, under restarts, evictions, edits and other users of the app |
| `demo` | `MemoriesOutlive`, `PurgeIsFinal` | memories vanish with a confirmed purge only, and are gone when it says so |
| `demo_one_at_a_time` | `OneAtATime` (violated) | finding 3 |

`mag_memory`, `mag_service` and `tag_pipeline` also check `TypeOK`, where it bounds
what a window, a prompt or the number of model calls may be.  The `TypeOK` of the other modules only describes the shape of the state and
is there for the proofs; it holds on the same instances.

### Bounds

* `mag_memory`: two users, two texts, four rows.  A chain of three corrections
  and a second chain beside it fit; a merge of two chains needs three rows.
* `mag_store`: two threads, three calls.  Isolation, rollback and index errors
  take at most an add and one multi-statement method with another thread at any
  point of it; a third call leaves room for a second correction or a search.
  The window keeps two turns, so a third is pruned, with two conversations
  whose ids interleave.  A prune takes all three calls in one conversation, so
  that pruning amid another's ids rests on theorem `StoreImplementsTurns`, not on
  this run.  `SearchLimit` is 1, so two hits exceed it.
* `mag_service`: three requests, two at a time, two users with two sessions each:
  every race over one memory is between two requests over a row the third has
  made.  A window keeps two turns and a prompt takes one, so one exchange fills the
  one and exceeds the other.  A blank fact takes the same branch as a secret and
  is left out.  The symmetry over users and sessions is sound: they are only
  compared, and the properties are safety.  No run with a liveness property uses
  symmetry.
* `tag_pipeline`: three attempts, one more than the default `max_sql_attempts` of 2,
  since stale feedback shows only from the third; statements at both sides of
  each limit (row cap 2, budget 4 opcodes, a handler call every 2).
* `tag_database`: two processes, four starts, two tables, three rows.  Two starts are
  enough for finding 2.
* `cag_corpus`: two requests, two files of two contents, one edit, two builds.
  Mixing two versions takes one edit and one rebuild during a request; the
  second build happens before, to give it a manifest at all.  One build can
  exceed the corpus budget, and the longer question fits the context beside one
  corpus and not beside the other.
* `rag_ingest`: two documents, two runs, one change; contents of two batches
  (the second short), one batch, no chunk, and one that cannot be parsed.
  Searches ask for up to all six points, with three candidates for the reranker.
* `cag_benchmark`: three pods (one restart in each round), two requests of
  others, one edit or eviction, two warm requests.  A prompt has four tokens and
  is cold from two misses, so that an evicted end, a changed corpus and an empty
  cache are cold and a prompt that differs in the question is warm.
* `demo`: two terminals, all three methods, eight commands, three volumes: a purge
  in one terminal can overlap with down, up and a second purge in the other, and
  a volume can be made, purged and replaced twice.  `demo_one_at_a_time` takes two
  commands.
  The terminals are symmetric and the properties are safety.

Deadlock is checked in the MAG runs, where some step is always possible.  It is
off where the instance really stops: a question that has been answered
(`tag_pipeline`), a benchmark that is over (`cag_benchmark`), bounded starts,
requests, runs and commands (`tag_database`, `cag_corpus`, `rag_ingest`, `demo`).

### Fairness

Only the code's own next steps are fair, each thread of the store, request of the
CAG service or ingestion run by itself, and weakly: a thread that can run is
scheduled, and every external call ends, because each has a timeout (120 s for the
model and the embedding server) or is SQLite's. A handler of MAG is a straight
line of store calls and one model call: what could keep it from its end is the
store's lock, so its liveness is `EveryCallEnds`. In `mag_store` a thread's wait
for the lock is part of its fairness: weak fairness suffices there because a
bounded number of calls competes for it. Failures, crashes, edits, arrivals and
builds are never assumed to happen. The liveness results therefore say: whatever
the environment does, the code's own steps lead to an end.

## 4. Findings

1. **A deleted memory stays in prompts** (`mag_service_deleted`).  "Alice deletes
   her memory; it disappears from prompts and listings"
   (`showcases/mag/README.md:111`), but what was stored by `remember:` is also a
   turn of the session, which later prompts of that session repeat.
2. **A database that is not the derived one is served** (`tag_database_serves`).
   `ensure_database()` "creates it on first use and is a no-op afterwards, so local
   runs, tests, and container startup all share one code path"
   (`showcases/tag/db.py:4-5`) and is "idempotent"
   (`showcases/tag/README.md:146`; `tests/test_seed.py:26-31` calls it one time after the
   other).  But nothing is held from `path.exists()` (`db.py:20`) to the end of the
   scripts.  A start takes for finished what another one is still making, which
   is the trace TLC prints, or what a stopped one has left half made, from then on;
   and two first starts that both find no file insert every row twice, as no key of
   `schema.sql` refuses it.  `ServesDerived` asks for each row exactly once.
3. **`up` starts a second showcase unforced** (`demo_one_at_a_time`).  "`up` refuses
   to start a second showcase unless `--force` is given"
   (`showcases/README.md:84`, `demo.sh:16-17`), but a `kubectl get` that fails
   counts as no active showcase (`demo.sh:61`), only the first active one listed is seen,
   and two terminals may both look before either applies (`demo.sh:97-108`).

One disagreement needs no run: "re-running the job over the same documents is a
no-op" (`ingest/ingest.py:4-5`), but each run puts a new `ingested_at` into the payload
of every point (`ingest.py:154,171`).  What does stay, ids, vectors and text, is
`ReRunKeepsPassages`.

Behaviour we met that no document promises otherwise: a retried `remember:`
whose turn could not be recorded stores its memory twice; overlapping chats of
one session record their turns interleaved; a document that shrinks leaves its
old chunks in the collection; an ingestion run that read a document before it
changed may overwrite the points of one that read it after; a search with a reranker
returns at most `RERANK_CANDIDATES` passages, and nothing checks its `k`; MAG's
healthz waits for a thread of the pool that serves chats; a PRAGMA that fails in
`connect_readonly` leaves its connection to the garbage collector; `load_manifest` answers an empty manifest with
a 500, not with its own error; and the estimate that stands in for the tokenizer
may let a question through that does not fit (`SentFits` excludes that case by its
premise).  A refused `remember:` keeps its text out of `memories` and still
records it as a turn.  Another application on the server can make the benchmark
say VERIFIED, and company during the prime can change its label: both properties
have that as their premise.  The note of the restart test, that the cache is
gone and the counters start from zero, need not be true: the old pod may still
answer.  A restart test that fails loses the report before it.  The corpus
version in the report was read before the prime's own build.  `up
mag` after an interrupted purge says "now active" over a claim about to go, and
MAG then waits for a volume that no one makes until the next `up mag`.

## 5. Proofs

TLC checks the instances of section 3; TLAPS proves the following for every
value of the constants that satisfies the named assumptions.  The assumptions
only say what the constants are (numbers, sets, a limit that is not zero, a
marker such as `None` that is no session); each is evaluated by the runs.  In
every module an invariant `IInv` is proved inductive first (theorem `Inductive`,
or lemmas `InitIInv` and the like where it is short), and the theorems about
properties follow from it.  Each module also has `TypeCorrect`:
`Spec => []TypeOK`.

| Module | Theorem | States |
| --- | --- | --- |
| `MagMemoryProofs` | `ChainsNeverMerge` | `Spec => []SupersedeChain` |
| | `AuditTrailSurvives`, `OneOwnerPerCall` | `Spec => AuditTrail`, `Spec => OneOwner` |
| `MagStoreTxnProofs` | `NoDirtyConnection` | `Spec => []Isolated` |
| | `IndexAlwaysMirrors` | `Spec => []IndexMirrorsActive` |
| | `ResultsAreTrue`, `SearchesAreSound` | `Spec => []ResultsAreCommitted`, `Spec => []SearchIsSound` |
| | `StoreImplementsMemory` | `Spec => ImplementsMemory` |
| | `StoreImplementsTurns` | `Spec => ImplementsTurns` |
| | `FileKeepsPromises` | `Spec => []SupersedeChain /\ AuditTrail /\ OneOwner`, of the rows in the file |
| `MagServiceProofs` | `SecretsStayOut`, `NothingRetiredTwice` | `Spec => []NoSecretMemory`, `Spec => []RetiredOnce` |
| | `PromptsAreOwnAndFresh` | `Spec => []PromptIsOwnAndFresh` |
| | `EveryVersionForgotten` | `Spec => []ForgetsEveryVersion` |
| | `EveryExchangeIsWhole` | `Spec => []ExchangesAreWhole` |
| | `ServiceKeepsContracts` | `Spec` implies the specifications of `MagMemory` and of `MagTurns` |
| `TagPipelineProofs` | `GroundedAnswers`, `GivesUpCleanly` | `Spec => []AnswersAreGrounded`, `Spec => []FailsClosed` |
| | `FeedbackIsFresh`, `ConnectionIsReleased` | `Spec => []ToldOfTheLastError`, `Spec => []ConnectionReleased` |
| | `BudgetHolds` | `Spec => []BudgetIsKept` |
| `TagDatabaseProofs` | `MadeInFull`, `SeedIsAPrefix` | `Spec => []MadeOnce`, `Spec => []SeededInOrder` |
| | `DerivedForGood` | `Spec => StaysDerived` |
| `CagProofs` | `OneVersionOnePrefix` | `Spec => []SameVersionSamePrefix` |
| | `NothingSentTooLong`, `NoFalseAlarmEver` | `Spec => []SentFits`, `Spec => []NoFalseAlarm` |
| | `VerdictsAreEarned`, `ColdsAreEarned` | `BenchSpec => []VerdictIsEarned`, `BenchSpec => []ColdIsEarned` |
| `RagSearchProofs` | `FinishedRunsCover` | `Spec => []FinishedRunCovers` |
| | `SamePassagesAgain`, `SearchStaysCurrent` | `Spec => ReRunKeepsPassages`, `Spec => []SearchIsCurrent` |
| `DemoProofs` | `PurgedForGood` | `Spec => []PurgeIsFinal` |
| | `OnlyPurgeForgets` | `Spec => MemoriesOutlive` |

### The arguments

**MagMemory** (`MaxMemoriesAssumption`).  `SupersedeChain` is not inductive by
itself: that a correction points at a row nobody points at yet holds because the
new row's id is one more than the length of the table and every pointer is an id
in it.  `IInv == TypeOK /\ SupersedeChain`.  `AddRows`, `CorrectRows`,
`DeleteRows` and `DeleteAllRows` say once, row by row, what each method does.

**MagStoreTxn** (`StoreAssumption`, `MethodsAssumption`).  The properties speak
of what is committed or returned; none is inductive, because what is committed
next is what the open transaction has prepared.  `Doing` says, for each method
and each statement it is about to execute, exactly how `work` differs from
`disk`; `Shape`, that only the lock's owner has executed anything and that what
a call has left to do is the end of its program; `Room`, that row and turn ids
never exceed the calls made (SQLite's next turn id is one more than the greatest).
`ProceedKeeps`, `FinishKeeps` and `RaiseKeeps` are the three ways a statement
can go, so that the lemma of a statement only shows that its own part of `Doing`
holds afterwards; `CommitAdd` to `CommitAppend` show that what a commit
publishes is one step of the contract and keeps the index a mirror.
For the windows the proof adds `Turning` (the transaction of `append_turn` has
inserted one turn under a new greatest id, then pruned its conversation) and
`Windows` (a conversation's rows have distinct ids, are at most `KeepTurns`, and
have a row at each place of their order).  `AppendRow`, `DropOldest` and
`PrunedWindow` are about sets of rows alone: inserting and pruning is the
contract's append to a sequence and its cut.
`FileKeepsPromises` composes: every step of the store commits a step of the
contract or nothing (`StepCommits`), so what `MagMemoryProofs` proves of the
contract, instantiated with the committed rows, holds of the file under failures
and crashes.  With `ServiceKeepsContracts`, which says the same of the handlers,
the promises about the table reach from the HTTP routes to the SQL statements.

**MagService** (`ServiceAssumption`).  Requests overlap, so what a request has
read must still mean something when it acts on it.  `Told` says what stays true of
the rows a request has found, retired or seen, whatever others do, using that
the table moves by `MagMemory` only (`MagMemoryProofs`' lemmas, instantiated).
For delete-all, `Gone(i)` is a set of rows, none active, that contains `i` and is closed
under `superseded_by`: it stays closed because a correction replaces active
rows only; following pointers from `i` therefore ends in it.  That the latest
version exists is proved from pointers leading to younger rows (`GreatestOf`).
`Said` and `Paired` relate requests to the windows: a turn in a window was said by
a request that is past saying it, once; an answer stands after its question;
what is missing was pruned from a full window.

**TagPipeline** (`PipelineAssumption`).  The properties speak of the end of a
call, or of the trace, and hold because of what the loop has kept true: no attempt so
far was accepted, each cost one model call, and the feedback is the last
rejected statement (`Trying`); the accepted statement is the last attempt
(`Accepted`); when a statement is explained the count is zero, and when it is
executed the count is what its EXPLAIN used in whole steps (`Ticking`);
before `Connect` nothing is open and the model has not been asked (`Unopened`).  `WholeSteps` bounds what the
handler counts: at most the opcodes executed, and less than one step fewer, once
for EXPLAIN and once for the statement.

**TagDatabase** (`DatabaseAssumption`, with a finite set of processes).  How
often a row is in the file cannot be bounded without counting the processes on
their way to insert it and those past it: `RowsCounted` and `InOrder` add up
copies and processes, `StartsCounted` does so for starts.  `Follows` says how
the size of such a set changes when one process moves.  `Places` and `SeedLast`
say what a process past the schema, and a first row, tell of the file and its
tables; with them `MadeOnce` is the sum for one start begun and one ended.

**CagCorpus** (`CorpusAssumption`).  `Reads`: what a request has read is a
prefix of what its manifest pins, file by file, and it sends only after it
has read and counted everything.  `Calm`: a request is undisturbed as long as the disk is
still what its manifest pins.  Token counts are sums over the corpus, written as a
recursive function over file positions (`TokensUpTo`); that the function exists
and that its values are numbers is proved from a least counterexample
(`LeastOf`), since induction over data is out of the prover's reach.

**CagBenchmark** (`BenchmarkAssumption`).  The two properties speak of readings of
counters already made; the invariant must say what the next reading will find.
`Sofar`: on the pod of the
first reading the hits have grown exactly if corpus tokens were reused, on a later
pod there are hits only if they were; pods are numbered, so a reading is never
taken for one of another pod.  `Alone`: the misses on the counters are those of
before the first reading plus the prime's, or on another pod at most the prime's.
That a request moves the counters by its length and by no more hits than that rests
on `ReusableBound`: what is cached of a prompt, or shared with another version's,
ends before the question (`GreatestBelow`, for the maximum over a set of versions
that need not be finite).

**RagIngest and RagSearch** (`IngestAssumption`, `SearchAssumption`).
`FinishedRunCovers` alone says nothing of runs still at work.  `Agreement`: while
some run is calm, every run at work goes by the bucket as it is.  `Coverage`: a
calm run has stored everything it is past, and the batches of the document it is
at.  `Shape`: every point is a chunk its content has.  `Stamps`: a
point that is there has a time, and no other.

**Demo** (`DemoAssumption`).  `Volume`: memories are only in the volume that is
there, a volume on its way out was deleted by a confirmed purge, a running pod has
its volume.  `Knows`: which volume a purge waits for and, once it has
returned, that it is not there any more; as a volume's number is never used again,
that stays true.

### Only model-checked

* The liveness properties (`EveryCallEnds`, `EveryRequestEnds`,
  `EveryRunEnds`) and the absence of deadlock: liveness under fairness and
  ENABLED are out of the prover's reach.
* That the faulty variants break the properties, and the three findings.

## 6. Not modelled

* **RAG retrieval**: ranking quality, which the repository's own evaluation
  measures, and the wording of the prompt of `/chat`.
* **Fake models, evaluation and bench scripts**: test doubles and sequential
  clients.
* **Chat UI**: a page and a stateless proxy.
* **Manifests, Helm values, Terraform**: declarations for third-party
  controllers.
* Within the modelled parts: metrics, log lines, prompt wording, and the
  patterns of the secret guard.

## 7. Plan

Done, in this order: the contracts and `MagStoreTxn` (the most valuable
state and the subtlest concurrency), `MagService` on top of the contracts,
`TagPipeline`, `TagDatabase`, `CagCorpus`, `RagIngest`, `CagBenchmark`, `Demo`,
`RagSearch`; the proofs of section 5: every safety and action property of the
passing runs, the refinement of both contracts, and what follows from it for the
database file.

What could come next: a specification of MAG as one system, in which the requests
of `MagService` run on the threads of `MagStoreTxn` and not on its contracts; and
the liveness properties, once a prover with fairness is at hand.
