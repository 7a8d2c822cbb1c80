------------------------------ MODULE MagService ------------------------------
(***************************************************************************)
(* The MAG service: the HTTP handlers of showcases/mag/app.py and          *)
(* MagPipeline.chat of showcases/mag/pipeline.py, run concurrently by      *)
(* FastAPI's thread pool on one MemoryStore.                               *)
(*                                                                         *)
(* A store method is one step (MagMemory, MagTurns): that MemoryStore's    *)
(* lock and transactions make it so is what MagStoreTxn shows.  Between    *)
(* two store calls, and during the call to the model gateway, no lock is   *)
(* held and any other request can run.  The gateway is external: it        *)
(* answers, or its call raises (HTTP error, 120 s timeout).  Any store     *)
(* call can raise, and the process can die with every request it is        *)
(* serving; the database survives.  A client that retries simply sends     *)
(* another request.                                                        *)
(***************************************************************************)
EXTENDS Integers, Sequences, FiniteSets, SequencesExt

CONSTANTS
    Users, Sessions,
    Texts,         \* texts of questions, facts and corrections
    Secrets,       \* the texts find_secret_like reports
    Blank,         \* the empty fact
    Matches,       \* text of a question -> texts of memories its terms match
    KeepTurns,     \* MemoryStore's keep_turns
    TurnLimit,     \* MagConfig.turn_limit
    SearchLimit,   \* MagConfig.search_limit
    Ops,           \* the operations the clients of this instance use
    PoolSize,      \* threads of the pool that runs the handlers
    MaxRequests,   \* bound on the requests ever made
    None           \* no session, no text

ASSUME ServiceAssumption ==
    /\ Secrets \subseteq Texts
    /\ Blank \notin Secrets
    /\ None \notin Sessions
    /\ Matches \in [Texts -> SUBSET Texts]
    /\ KeepTurns \in Nat \ {0}
    /\ TurnLimit \in Nat
    /\ SearchLimit \in Nat \ {0}
    /\ PoolSize \in Nat \ {0}
    /\ MaxRequests \in Nat

VARIABLES
    memories,   \* the table of memories (MagMemory)
    turns,      \* the rolling windows (MagTurns)
    req         \* the requests ever made and how far each one is

vars == <<memories, turns, req>>

Reqs == 1 .. MaxRequests

\* What is said in a turn is told apart by the request that said it.
Turn == [role : {"user", "assistant"}, by : Reqs]

Memory == INSTANCE MagMemory WITH MaxMemories <- MaxRequests

Dialogue == INSTANCE MagTurns WITH Conversations <- Users \X Sessions, Contents <- Turn

\* What a client can ask for.
Asks == {a \in
    [op : {"chat", "remember"}, user : Users, session : Sessions, text : Texts, id : {0}]
      \cup
    [op : {"add_memory"}, user : Users, session : {None}, text : Texts, id : {0}]
      \cup
    [op : {"correct_memory"}, user : Users, session : {None}, text : Texts, id : Reqs]
      \cup
    [op : {"delete_memory"}, user : Users, session : {None}, text : {None}, id : Reqs]
      \cup
    [op : {"delete_all"}, user : Users, session : {None}, text : {None}, id : {0}] :
    a.op \in Ops}

(***************************************************************************)
(* A request: what was asked, the step it is at, the memories it found,    *)
(* made or retired, the turns it put into the prompt, and its outcome.     *)
(* The field mark is history: the rows that matter to the request as they  *)
(* were when its handler started, for a chat those already inactive, for a *)
(* delete_all those its user had active.                                   *)
(***************************************************************************)
NotMade == [ask |-> None, pc |-> "new", found |-> {}, heard |-> <<>>,
            outcome |-> "none", mark |-> {}]

FirstStep == [chat |-> "search", remember |-> "remember", add_memory |-> "store",
              correct_memory |-> "store", delete_memory |-> "store",
              delete_all |-> "store"]

Ended == {"done", "lost"}
Serving(r) == req[r].pc \notin Ended \cup {"new"}

User(r) == req[r].ask.user
Conv(r) == <<req[r].ask.user, req[r].ask.session>>

\* Request r is for op and about to take step pc.
At(r, op, pc) == req[r].pc = pc /\ req[r].ask.op = op

Goto(r, pc) == req' = [req EXCEPT ![r].pc = pc]

Finish(r, pc, found, outcome) ==
    req' = [req EXCEPT ![r].pc = pc, ![r].found = found, ![r].outcome = outcome]

-----------------------------------------------------------------------------
Init ==
    /\ Memory!Init
    /\ Dialogue!Init
    /\ req = [r \in Reqs |-> NotMade]

\* A free thread of the pool takes the next request.  An id a client names is
\* one of a row, or the next one, which no row has yet.
Arrive(r) ==
    /\ req[r].pc = "new"
    /\ \A s \in 1 .. r - 1 : req[s].pc # "new"
    /\ Cardinality({s \in Reqs : Serving(s)}) < PoolSize
    /\ \E a \in Asks :
       /\ a.id <= Len(memories) + 1
       /\ req' = [req EXCEPT ![r] =
             [NotMade EXCEPT !.ask = a, !.pc = FirstStep[a.op],
                !.mark = CASE a.op = "chat"       -> {i \in Memory!Ids :
                                                         memories[i].status # "active"}
                           [] a.op = "delete_all" -> Memory!ActiveOf(a.user)
                           [] OTHER               -> {}]]
    /\ UNCHANGED <<memories, turns>>

\* POST /memories: 422 for a secret, else one row.
CreateMemory(r) ==
    /\ At(r, "add_memory", "store")
    /\ IF req[r].ask.text \in Secrets
       THEN Finish(r, "done", {}, "refused") /\ UNCHANGED memories
       ELSE /\ Memory!AddMemory(User(r), req[r].ask.text)
            /\ Finish(r, "done", {Len(memories) + 1}, "ok")
    /\ UNCHANGED turns

\* Faulty variant: the correction asks for the owner, not for status 'active'.
CorrectAnyStatus(r) ==
    LET i == req[r].ask.id IN
    /\ At(r, "correct_memory", "store")
    /\ IF i \in Memory!Ids /\ memories[i].user = User(r)
       THEN /\ memories' = Append([memories EXCEPT ![i].status = "superseded",
                                     ![i].superseded_by = Len(memories) + 1],
                                  Memory!NewRow(User(r), req[r].ask.text))
            /\ Finish(r, "done", {i}, "ok")
       ELSE Finish(r, "done", {}, "not_found") /\ UNCHANGED memories
    /\ UNCHANGED turns

\* Faulty variant: the guard is on the two ways to add a memory only.
CorrectWithAnything(r) ==
    LET i == req[r].ask.id IN
    /\ At(r, "correct_memory", "store")
    /\ \/ /\ ~ Memory!OwnActive(User(r), i)
          /\ Finish(r, "done", {}, "not_found")
          /\ UNCHANGED memories
       \/ /\ Memory!CorrectMemory(User(r), i, req[r].ask.text)
          /\ Finish(r, "done", {i}, "ok")
    /\ UNCHANGED turns

\* POST /memories/{id}/correct: 422 for a secret, 404 when the user has no
\* active memory of that id.
CorrectMemory(r) ==
    LET i == req[r].ask.id IN
    /\ At(r, "correct_memory", "store")
    /\ \/ /\ req[r].ask.text \in Secrets
          /\ Finish(r, "done", {}, "refused")
          /\ UNCHANGED memories
       \/ /\ req[r].ask.text \notin Secrets
          /\ ~ Memory!OwnActive(User(r), i)
          /\ Finish(r, "done", {}, "not_found")
          /\ UNCHANGED memories
       \/ /\ req[r].ask.text \notin Secrets
          /\ Memory!CorrectMemory(User(r), i, req[r].ask.text)
          /\ Finish(r, "done", {i}, "ok")
    /\ UNCHANGED turns

\* DELETE /memories/{id}
DeleteMemory(r) ==
    LET i == req[r].ask.id IN
    /\ At(r, "delete_memory", "store")
    /\ \/ /\ ~ Memory!OwnActive(User(r), i)
          /\ Finish(r, "done", {}, "not_found")
          /\ UNCHANGED memories
       \/ /\ Memory!DeleteMemory(User(r), i)
          /\ Finish(r, "done", {i}, "ok")
    /\ UNCHANGED turns

\* Faulty variant: the ids are read when the handler starts, before the store's lock.
DeleteThoseSeen(r) ==
    /\ At(r, "delete_all", "store")
    /\ memories' = [i \in Memory!Ids |->
          [memories[i] EXCEPT !.status =
              IF i \in req[r].mark /\ @ = "active" THEN "deleted" ELSE @]]
    /\ Finish(r, "done", req[r].mark \cap Memory!ActiveOf(User(r)), "ok")
    /\ UNCHANGED turns

\* DELETE /memories: whatever the user has active when the store is reached.
DeleteAll(r) ==
    /\ At(r, "delete_all", "store")
    /\ Memory!DeleteAllMemories(User(r))
    /\ Finish(r, "done", Memory!ActiveOf(User(r)), "ok")
    /\ UNCHANGED turns

\* chat with `remember:`: refuses an empty or secret fact, else stores it; the
\* exchange is recorded in the session either way.
Remember(r) ==
    /\ At(r, "remember", "remember")
    /\ IF req[r].ask.text \in Secrets \cup {Blank}
       THEN Finish(r, "save_question", {}, "refused") /\ UNCHANGED memories
       ELSE /\ Memory!AddMemory(User(r), req[r].ask.text)
            /\ Finish(r, "save_question", {Len(memories) + 1}, "ok")
    /\ UNCHANGED turns

\* search_memories: at most SearchLimit of the user's active memories that match,
\* in an order (bm25) the model leaves open; with no match, the most recent ones.
NewestIds(ids) == {i \in ids : Cardinality({j \in ids : j > i}) < SearchLimit}

\* Faulty variant: searches the user's rows of every status.
SearchesInactive(u, question) ==
    LET rows == {i \in Memory!Ids : memories[i].user = u}
        hits == {i \in rows : memories[i].text \in Matches[question]}
    IN  {NewestIds(IF hits = {} THEN rows ELSE hits)}

SearchResults(u, question) ==
    LET active == Memory!ActiveOf(u)
        hits   == {i \in active : memories[i].text \in Matches[question]}
    IN  IF hits = {} THEN {NewestIds(active)}
        ELSE IF Cardinality(hits) <= SearchLimit THEN {hits}
        ELSE kSubset(SearchLimit, hits)

Search(r) ==
    /\ At(r, "chat", "search")
    /\ \E ids \in SearchResults(User(r), req[r].ask.text) :
          Finish(r, "recall", ids, "none")
    /\ UNCHANGED <<memories, turns>>

\* Faulty variant: every retained turn goes into the prompt.
RecallEverything(r) ==
    /\ At(r, "chat", "recall")
    /\ req' = [req EXCEPT ![r].pc = "model", ![r].heard = turns[Conv(r)]]
    /\ UNCHANGED <<memories, turns>>

\* recent_turns, then build_messages: the prompt is complete.
Recall(r) ==
    /\ At(r, "chat", "recall")
    /\ req' = [req EXCEPT ![r].pc = "model",
                          ![r].heard = Dialogue!RecentTurns(Conv(r), TurnLimit)]
    /\ UNCHANGED <<memories, turns>>

ModelAnswers(r) ==
    /\ At(r, "chat", "model")
    /\ Finish(r, "save_question", req[r].found, "ok")
    /\ UNCHANGED <<memories, turns>>

\* The exception leaves chat before anything is recorded: HTTP 500.
ModelFails(r) ==
    /\ At(r, "chat", "model")
    /\ Finish(r, "done", req[r].found, "model_error")
    /\ UNCHANGED <<memories, turns>>

Say(r, role) == [role |-> role, by |-> r]

\* Faulty variant: recording the question may fail silently.
SaveQuestionBestEffort(r) ==
    /\ req[r].pc = "save_question"
    /\ \/ Dialogue!AppendTurn(Conv(r), Say(r, "user"))
       \/ UNCHANGED turns
    /\ Goto(r, "save_answer")
    /\ UNCHANGED memories

\* The two turns of an exchange are recorded by two store calls.
SaveQuestion(r) ==
    /\ req[r].pc = "save_question"
    /\ Dialogue!AppendTurn(Conv(r), Say(r, "user"))
    /\ Goto(r, "save_answer")
    /\ UNCHANGED memories

SaveAnswer(r) ==
    /\ req[r].pc = "save_answer"
    /\ Dialogue!AppendTurn(Conv(r), Say(r, "assistant"))
    /\ Goto(r, "done")
    /\ UNCHANGED memories

\* A store call raises and has no effect; the request ends with HTTP 500.
StoreFails(r) ==
    /\ req[r].pc \in {"store", "remember", "search", "recall", "save_question",
                      "save_answer"}
    /\ Finish(r, "done", req[r].found, "store_error")
    /\ UNCHANGED <<memories, turns>>

\* The process dies: what it was serving is lost, the database is not.
Crash ==
    /\ req' = [r \in Reqs |-> IF Serving(r) THEN [req[r] EXCEPT !.pc = "lost"]
                                            ELSE req[r]]
    /\ UNCHANGED <<memories, turns>>

Serve(r) ==
    \/ CreateMemory(r) \/ CorrectMemory(r) \/ DeleteMemory(r) \/ DeleteAll(r)
    \/ Remember(r) \/ Search(r) \/ Recall(r) \/ ModelAnswers(r) \/ ModelFails(r)
    \/ SaveQuestion(r) \/ SaveAnswer(r) \/ StoreFails(r)

Next == (\E r \in Reqs : Arrive(r) \/ Serve(r)) \/ Crash

Spec == Init /\ [][Next]_vars

-----------------------------------------------------------------------------
Steps == {"new", "store", "remember", "search", "recall", "model", "save_question",
          "save_answer"} \cup Ended

\* Shape of the tables and of the requests.
TypeOK ==
    /\ memories \in Seq(Memory!Row)
    /\ DOMAIN turns = Users \X Sessions
    /\ \A k \in DOMAIN turns : turns[k] \in Seq(Turn) /\ Len(turns[k]) <= KeepTurns
    /\ \A r \in Reqs :
          /\ req[r].pc \in Steps
          /\ req[r].pc # "new" => req[r].ask \in Asks
          /\ req[r].found \cup req[r].mark \subseteq Memory!Ids
          /\ req[r].heard \in Seq(Turn) /\ Len(req[r].heard) <= TurnLimit

(***************************************************************************)
(* The prompt of a chat holds the user's own memories only, and none that  *)
(* was already deleted or superseded when the handler started; and turns   *)
(* of its own conversation only, never its own question.  (A memory that   *)
(* is deleted while the request runs may still be in its prompt.)          *)
(***************************************************************************)
PromptIsOwnAndFresh ==
    \A r \in Reqs : req[r].pc # "new" /\ req[r].ask.op = "chat" =>
        /\ \A i \in req[r].found : memories[i].user = User(r) /\ i \notin req[r].mark
        /\ \A t \in ToSet(req[r].heard) : Conv(t.by) = Conv(r) /\ t.by # r

\* The rows a request was told it has retired.
Retired(r) ==
    IF req[r].outcome = "ok" /\ req[r].ask.op \in {"correct_memory", "delete_memory",
                                                   "delete_all"}
    THEN req[r].found ELSE {}

(***************************************************************************)
(* A memory is retired once: of all the corrections, deletions and         *)
(* delete-alls racing for a row, one succeeds and the others get 404 or    *)
(* do not count it.  Two corrections of one memory can therefore not both  *)
(* succeed and leave two current versions of it.                           *)
(***************************************************************************)
RetiredOnce ==
    \A r, s \in Reqs : r # s => Retired(r) \cap Retired(s) = {}

\* The row at the end of the chain of corrections of a row.
Latest[i \in Memory!Ids] ==
    IF memories[i].superseded_by = Memory!NoRow THEN i ELSE Latest[memories[i].superseded_by]

(***************************************************************************)
(* After DELETE /memories has succeeded, nothing the user had when its     *)
(* handler started is active in any version: a correction that ran in      *)
(* between has either been deleted with the rest or found nothing to       *)
(* correct.                                                                *)
(***************************************************************************)
ForgetsEveryVersion ==
    \A r \in Reqs : req[r].outcome = "ok" /\ req[r].ask.op = "delete_all" =>
        \A i \in req[r].mark : memories[Latest[i]].status # "active"

(***************************************************************************)
(* No way into the table of memories (POST /memories, a correction,        *)
(* `remember:`) lets a secret-like text through the guard.                 *)
(***************************************************************************)
NoSecretMemory == \A i \in Memory!Ids : memories[i].text \notin Secrets

\* The positions of what request r said in its conversation's window.
Places(r, role) ==
    IF req[r].pc = "new" \/ req[r].ask.session = None THEN {}
    ELSE {p \in DOMAIN turns[Conv(r)] : turns[Conv(r)][p] = Say(r, role)}

(***************************************************************************)
(* Exchanges are whole: the window never holds an answer without its       *)
(* question before it, except when the question was pruned out of a full   *)
(* window; a question without its answer belongs to a request still at     *)
(* work, lost in a crash or failed at the store; and a request that was    *)
(* answered has both turns recorded, unless pruned.  A chat whose model    *)
(* call failed leaves neither, so a retry does not find its question in    *)
(* the history.                                                            *)
(***************************************************************************)
ExchangesAreWhole ==
    \A r \in Reqs :
        /\ \A a \in Places(r, "assistant") :
              IF Places(r, "user") = {}
              THEN Len(turns[Conv(r)]) = KeepTurns
              ELSE \A q \in Places(r, "user") : q < a
        /\ Places(r, "user") # {} /\ Places(r, "assistant") = {} =>
              req[r].pc \in {"save_answer", "lost"} \/ req[r].outcome = "store_error"
        /\ /\ req[r].pc = "done"
           /\ req[r].ask.op \in {"chat", "remember"}
           /\ req[r].outcome \in {"ok", "refused"}
           /\ Places(r, "assistant") = {}
           => Len(turns[Conv(r)]) = KeepTurns
        /\ req[r].outcome = "model_error" => Places(r, "user") \cup Places(r, "assistant") = {}

-----------------------------------------------------------------------------
(* What the texts of the showcase say and the code does not do.            *)

(***************************************************************************)
(* "Alice deletes her memory; it disappears from prompts and listings"     *)
(* (showcases/mag/README.md).  A memory stored by `remember:` is also a    *)
(* turn of that session, and stays in the prompts of the session's next    *)
(* chats after the memory has been deleted.                                *)
(***************************************************************************)
DeletedLeavesPrompts ==
    \A r \in Reqs : req[r].pc # "new" /\ req[r].ask.op = "chat" =>
        \A t \in ToSet(req[r].heard) :
            req[t.by].ask.op = "remember" => req[t.by].found \cap req[r].mark = {}
=============================================================================
