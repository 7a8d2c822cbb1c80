----------------------------- MODULE CagBenchmark -----------------------------
(***************************************************************************)
(* The prefix-cache benchmark of the CAG showcase                          *)
(* (showcases/cag/benchmark.py): it waits for the demo app, reads the      *)
(* counters of the model server, sends one request to prime the cache and  *)
(* n_warm more, reads the counters again, and reports whether the prime    *)
(* was cold and whether reuse of the corpus prefix is VERIFIED.            *)
(* `--restart-test` then deletes the server's pod and measures once more.  *)
(*                                                                         *)
(* The benchmark is not alone: other clients of the server move the same   *)
(* counters, the corpus is edited, blocks are evicted from the cache, and  *)
(* the pod may restart at any time, with zero counters and no cache.       *)
(*                                                                         *)
(* The server is external.  Of its prefix cache it is known how many       *)
(* tokens at the start of each prompt are held; Other is the prompt of     *)
(* another application.  A request adds its tokens to the counter          *)
(* prefix_cache_queries and the reused ones to prefix_cache_hits.          *)
(*                                                                         *)
(* No name is also one of CagCorpus: CagProofs extends both.               *)
(***************************************************************************)
EXTENDS Integers, FiniteSetsExt

CONSTANTS
    Versions,     \* versions of the corpus, each with a prompt of its own
    Other,        \* the prompt of another application
    Length,       \* prompt -> tokens
    Question,     \* tokens at the end of a prompt, different in each request
    Common,       \* tokens the prompts of all versions start with
    ColdMisses,   \* misses from which a prime is called cold
    NWarm,        \* n_warm
    Broken,       \* no valid corpus, or one that leaves a question no room
    MaxPolls,     \* bound on the polls within the readiness timeout
    MaxTraffic,   \* bound on the requests of others
    MaxPods,      \* bound on the pods of the server
    MaxEvents     \* bound on edits of the corpus and evictions

Prompts == Versions \cup {Other}

ASSUME BenchmarkAssumption ==
    /\ Other \notin Versions /\ Broken \notin Prompts
    /\ Length \in [Prompts -> Nat]
    /\ Question \in Nat /\ \A p \in Prompts : Question <= Length[p]
    /\ Common \in Nat /\ \A v \in Versions : Common <= Length[v] - Question
    /\ ColdMisses \in Nat \ {0} /\ Question < ColdMisses
    /\ {NWarm, MaxPolls, MaxTraffic, MaxEvents} \subseteq Nat /\ MaxPods \in Nat \ {0}

VARIABLES
    server,   \* the pod in service: its number, whether it is up, counters, cache
    corpus,   \* the version on disk
    bench,    \* the run of the benchmark
    past,     \* history: what happened between the readings of the counters
    traffic, events

benchVars == <<server, corpus, bench, past, traffic, events>>

FreshServer(pod) == [pod |-> pod, up |-> TRUE, queries |-> 0, hits |-> 0,
                     cached |-> [p \in Prompts |-> 0]]

NoCounters == [pod |-> 0, queries |-> 0, hits |-> 0]

(***************************************************************************)
(* round 2 is the restart test, prompt that of the next request; before,   *)
(* primed and after are the readings of the counters (the pod in them is   *)
(* history).                                                               *)
(***************************************************************************)
Started(round) == [pc |-> "poll", round |-> round, polls |-> 0, warm |-> 0,
                   prompt |-> Broken, before |-> NoCounters,
                   primed |-> NoCounters, after |-> NoCounters]

\* Between the first reading and the last, foreign: another application was
\* served; company: anyone else was, while the prime was measured; reused: corpus
\* tokens were taken from the cache; missed: tokens of the prime that were not.
Nothing == [foreign |-> FALSE, company |-> FALSE, reused |-> FALSE, missed |-> 0]

BenchInit ==
    /\ server = FreshServer(1)
    /\ corpus \in Versions
    /\ bench = Started(1)
    /\ past = Nothing
    /\ traffic = 0
    /\ events = 0

-----------------------------------------------------------------------------
(* The model server, its other clients, and the corpus.                    *)

\* The tokens of prompt p the cache holds: its own, or the common start of the
\* prompt of another version.
Reusable(p) ==
    LET shared(v) == Min({server.cached[v], Common})
    IN  IF p = Other THEN server.cached[p]
        ELSE Max({server.cached[p]} \cup {shared(v) : v \in Versions})

\* The server takes in a request.
Served(p) ==
    server' = [server EXCEPT !.queries = @ + Length[p], !.hits = @ + Reusable(p),
                             !.cached[p] = Length[p] - Question]

Reused(p) == p # Other /\ Reusable(p) > 0

Priming == bench.pc \in {"build_prime", "prime", "read_primed"}
Measuring == Priming \/ bench.pc \in {"warm", "chat"}

\* Another client: the CAG app, with the corpus, or another application.
OtherRequest(p) ==
    /\ server.up
    /\ traffic < MaxTraffic
    /\ Served(p)
    /\ traffic' = traffic + 1
    /\ past' = IF ~ Measuring THEN past
               ELSE [past EXCEPT !.foreign = @ \/ p = Other, !.company = @ \/ Priming,
                                 !.reused = @ \/ Reused(p)]
    /\ UNCHANGED <<corpus, bench, events>>

\* Memory pressure: the end of a cached prompt is given up.
Evict(p) ==
    /\ events < MaxEvents
    /\ events' = events + 1
    /\ \E left \in 0 .. server.cached[p] - 1 : server' = [server EXCEPT !.cached[p] = left]
    /\ UNCHANGED <<corpus, bench, past, traffic>>

\* The pod ends: it was deleted, preempted or scaled to zero.
PodEnds ==
    /\ server.up
    /\ server.pod < MaxPods
    /\ server' = [FreshServer(server.pod) EXCEPT !.up = FALSE]
    /\ UNCHANGED <<corpus, bench, past, traffic, events>>

PodStarts ==
    /\ ~ server.up
    /\ server' = FreshServer(server.pod + 1)
    /\ UNCHANGED <<corpus, bench, past, traffic, events>>

\* The corpus is edited and its manifest rebuilt, or left invalid.
EditCorpus(v) ==
    /\ events < MaxEvents
    /\ v # corpus
    /\ corpus' = v
    /\ events' = events + 1
    /\ UNCHANGED <<server, bench, past, traffic>>

-----------------------------------------------------------------------------
(* The benchmark.                                                          *)

Goto(pc) == bench' = [bench EXCEPT !.pc = pc]

\* The app's /healthz: ok, or not yet, or the timeout is over.
Poll ==
    /\ bench.pc = "poll"
    /\ \/ Goto("describe")
       \/ bench.polls < MaxPolls /\ bench' = [bench EXCEPT !.polls = @ + 1]
       \/ Goto("raised")
    /\ UNCHANGED <<server, corpus, past, traffic, events>>

\* build(question): reads the corpus again for every request; an invalid one raises.
BuildPrompt(from, to) ==
    /\ bench.pc = from
    /\ bench' = IF corpus = Broken THEN [bench EXCEPT !.pc = "raised"]
                ELSE [bench EXCEPT !.pc = to, !.prompt = corpus]
    /\ UNCHANGED <<server, corpus, past, traffic, events>>

\* build(questions[0]) for the description of the corpus in the report; the prime
\* has a build of its own.
Describe ==
    /\ bench.pc = "describe"
    /\ Goto(IF corpus = Broken THEN "raised" ELSE "read_before")
    /\ UNCHANGED <<server, corpus, past, traffic, events>>

Counters == [pod |-> server.pod, queries |-> server.queries, hits |-> server.hits]

\* fetch(vllm_metrics_url), which raises when the pod is down or slow.
ReadBefore ==
    /\ bench.pc = "read_before"
    /\ \/ /\ server.up
          /\ bench' = [bench EXCEPT !.pc = "build_prime", !.before = Counters]
          /\ past' = Nothing
       \/ Goto("raised") /\ UNCHANGED past
    /\ UNCHANGED <<server, corpus, traffic, events>>

ReadPrimed ==
    /\ bench.pc = "read_primed"
    /\ \/ server.up /\ bench' = [bench EXCEPT !.pc = "warm", !.primed = Counters]
       \/ Goto("raised")
    /\ UNCHANGED <<server, corpus, past, traffic, events>>

\* chat_stream: the stream ends, or breaks after or before the server took the
\* request in.
Chat(prime, next) ==
    \/ /\ server.up
       /\ Served(bench.prompt)
       /\ past' = [past EXCEPT !.reused = @ \/ Reused(bench.prompt),
                      !.missed = IF prime THEN Length[bench.prompt] - Reusable(bench.prompt)
                                          ELSE @]
       /\ bench' = next \/ Goto("raised")
    \/ Goto("raised") /\ UNCHANGED <<server, past>>

Prime ==
    /\ bench.pc = "prime"
    /\ Chat(TRUE, [bench EXCEPT !.pc = "read_primed"])
    /\ UNCHANGED <<corpus, traffic, events>>

\* n_warm in the benchmark, 1 in the restart test.
Warm == IF bench.round = 1 THEN NWarm ELSE 1

WarmRequest ==
    /\ bench.pc = "chat"
    /\ Chat(FALSE, [bench EXCEPT !.pc = "warm", !.warm = @ + 1])
    /\ UNCHANGED <<corpus, traffic, events>>

BuildWarm ==
    /\ bench.warm < Warm
    /\ BuildPrompt("warm", "chat")

ReadAfter ==
    /\ bench.pc = "warm" /\ bench.warm = Warm
    /\ \/ server.up /\ bench' = [bench EXCEPT !.pc = "reported", !.after = Counters]
       \/ Goto("raised")
    /\ UNCHANGED <<server, corpus, past, traffic, events>>

\* main: the end, or --restart-test, which deletes the pod (PodEnds, any time from
\* here on: it does not wait for it to go) and measures again with one warm
\* request; it raises when it is not allowed or kubectl fails.
Finish ==
    /\ bench.pc = "reported"
    /\ Goto("done")
    /\ UNCHANGED <<server, corpus, past, traffic, events>>

RestartTest ==
    /\ bench.pc = "reported" /\ bench.round = 1
    /\ bench' = Started(2) \/ Goto("raised")
    /\ UNCHANGED <<server, corpus, past, traffic, events>>

Step == \/ Poll \/ Describe \/ ReadBefore \/ BuildPrompt("build_prime", "prime") \/ Prime
        \/ ReadPrimed \/ BuildWarm \/ WarmRequest \/ ReadAfter \/ Finish \/ RestartTest

BenchNext ==
    \/ Step
    \/ /\ bench.pc \notin {"done", "raised"}
       /\ \/ PodEnds \/ PodStarts
          \/ \E p \in Prompts : OtherRequest(p) \/ Evict(p)
          \/ \E v \in Versions \cup {Broken} : EditCorpus(v)

BenchSpec == BenchInit /\ [][BenchNext]_benchVars

-----------------------------------------------------------------------------
(* The report.                                                             *)

\* Faulty variant: every token asked for counts as a miss.
PrimeMissesAll == bench.primed.queries - bench.before.queries

PrimeMisses == (bench.primed.queries - bench.before.queries)
                   - (bench.primed.hits - bench.before.hits)

Cold == PrimeMisses >= ColdMisses

\* Faulty variant: the counter itself, not what was added to it.
VerifiedByLastReading == bench.after.hits > 0

Verified == bench.after.hits - bench.before.hits > 0

Primed == bench.pc \in {"warm", "chat", "reported"}
Reported == bench.pc = "reported"

-----------------------------------------------------------------------------
\* Shape of the state; the counters never run ahead of each other.
BenchTypeOK ==
    /\ server.pod \in 1 .. MaxPods /\ server.up \in BOOLEAN
    /\ server.hits \in 0 .. server.queries
    /\ \A p \in Prompts : server.cached[p] \in 0 .. Length[p] - Question
    /\ corpus \in Versions \cup {Broken}
    /\ bench.pc \in {"poll", "describe", "read_before", "build_prime", "prime", "read_primed",
                     "warm", "chat", "reported", "done", "raised"}
    /\ bench.round \in {1, 2} /\ bench.warm \in 0 .. Warm
    /\ bench.polls \in 0 .. MaxPolls

(***************************************************************************)
(* The verdict comes from counter deltas alone (benchmark.py:5), and says  *)
(* what they say: unless another application used the server between the   *)
(* first and the last reading, VERIFIED means that corpus tokens were      *)
(* taken from the cache in between, and NOT VERIFIED, when both readings   *)
(* are of one pod, that none were.  A restart in between, an eviction, an  *)
(* edit of the corpus or users of the CAG app do not make it wrong.        *)
(***************************************************************************)
VerdictIsEarned ==
    Reported /\ ~ past.foreign =>
        /\ Verified => past.reused
        /\ bench.before.pod = bench.after.pod /\ past.reused => Verified

(***************************************************************************)
(* The prime is labelled cold exactly when its own request missed the      *)
(* cache, if no one else was served while it was measured, also when the   *)
(* pod was replaced in between (then a cold prime may be called warm).     *)
(***************************************************************************)
ColdIsEarned ==
    Primed /\ ~ past.company =>
        /\ Cold => past.missed >= ColdMisses
        /\ bench.before.pod = bench.primed.pod /\ past.missed >= ColdMisses => Cold
=============================================================================
