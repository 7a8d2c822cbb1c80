----------------------------- MODULE MagStoreTxn -----------------------------
(***************************************************************************)
(* MemoryStore (showcases/mag/memory_store.py), statement by statement.    *)
(*                                                                         *)
(* FastAPI runs the handlers in a thread pool, and all threads share one   *)
(* SQLite connection (check_same_thread=False).  A connection has one      *)
(* transaction at a time: a statement sees, and a commit or a rollback     *)
(* ends, whatever any thread has left uncommitted on it.  Every method     *)
(* therefore runs under one lock, and every writing method inside          *)
(* `with self._lock, self.conn`: it commits when the block ends, rolls     *)
(* back when an exception leaves it.                                       *)
(*                                                                         *)
(* disk is what SQLite has committed and what survives a crash of the      *)
(* process; work is what the connection sees.  They differ exactly while a *)
(* transaction with changes is open.  A call is a list of statements still *)
(* to execute, taken from Program; any of them can fail (disk full, I/O    *)
(* error), and the process can die between any two of them.                *)
(***************************************************************************)
EXTENDS Integers, Sequences, FiniteSets, FiniteSetsExt

CONSTANTS
    Threads,         \* threads of the pool
    Users, Texts,    \* user ids and memory texts
    Conversations,   \* (user_id, session_id) pairs
    Contents,        \* contents of session turns
    KeepTurns,       \* keep_turns
    Queries,         \* search queries
    Matches,         \* query -> the texts at least one of its terms matches
    SearchLimit,     \* limit of search_memories
    Methods,         \* the methods the clients of this instance call
    MaxCalls,        \* bound on the calls ever made
    Free             \* the lock's value when no thread holds it

ASSUME StoreAssumption ==
    /\ Free \notin Threads
    /\ KeepTurns \in Nat \ {0}
    /\ SearchLimit \in Nat \ {0}
    /\ MaxCalls \in Nat
    /\ Matches \in [Queries -> SUBSET Texts]

VARIABLES
    fts5,    \* whether this SQLite has FTS5, found out by __init__
    disk,    \* the committed database
    work,    \* the database as the shared connection sees it
    lock,    \* the owner of MemoryStore._lock, or Free
    call,    \* per thread, the method call it is in
    calls    \* calls made so far (bounds the instance)

vars == <<fts5, disk, work, lock, call, calls>>

\* The tables: memories, the FTS index (id, text) and session_turns.
Empty == [memories |-> <<>>, fts |-> {}, turns |-> {}]

Program == [
    add_memory          |-> <<"insert", "fts_insert", "commit">>,
    correct_memory      |-> <<"find", "insert", "supersede", "fts_delete",
                              "fts_insert", "commit">>,
    delete_memory       |-> <<"mark_deleted", "fts_delete", "commit">>,
    delete_all_memories |-> <<"find_all", "mark_all_deleted", "fts_delete_all",
                              "commit">>,
    append_turn         |-> <<"insert_turn", "prune", "commit">>,
    search_memories     |-> <<"match", "most_recent">>,
    healthcheck         |-> <<"begin_immediate", "rollback">>]

ASSUME MethodsAssumption == Methods \subseteq DOMAIN Program

\* Methods whose block is also a transaction context (`with self.conn`).
Writers == {"add_memory", "correct_memory", "delete_memory",
            "delete_all_memories", "append_turn"}

\* The contracts, over what is committed and over what the connection sees.
Memory == INSTANCE MagMemory WITH memories <- disk.memories, MaxMemories <- MaxCalls
View   == INSTANCE MagMemory WITH memories <- work.memories, MaxMemories <- MaxCalls

\* A thread outside the store; `found` holds the row ids a call has read or made.
Idle == [method |-> "none", todo |-> <<>>, arg |-> <<>>, found |-> {}, result |-> "none"]

\* The arguments each method takes.
Args(m) ==
    CASE m = "add_memory"          -> [user : Users, text : Texts]
      [] m = "correct_memory"      -> [user : Users, id : 1 .. calls, text : Texts]
      [] m = "delete_memory"       -> [user : Users, id : 1 .. calls]
      [] m = "delete_all_memories" -> [user : Users]
      [] m = "append_turn"         -> [conv : Conversations, content : Contents]
      [] m = "search_memories"     -> [user : Users, query : Queries]
      [] m = "healthcheck"         -> {<<>>}

-----------------------------------------------------------------------------
Init ==
    /\ fts5 \in BOOLEAN
    /\ disk = Empty
    /\ work = Empty
    /\ lock = Free
    /\ call = [t \in Threads |-> Idle]
    /\ calls = 0

Call(t) ==
    /\ call[t] = Idle
    /\ calls < MaxCalls
    /\ \E m \in Methods : \E a \in Args(m) :
          call' = [call EXCEPT ![t] = [Idle EXCEPT !.method = m, !.todo = Program[m],
                                                   !.arg = a]]
    /\ calls' = calls + 1
    /\ UNCHANGED <<fts5, disk, work, lock>>

Acquire(t) ==
    /\ call[t].method # "none"
    /\ call[t].result = "none"
    /\ lock = Free
    /\ lock' = t
    /\ UNCHANGED <<fts5, disk, work, call, calls>>

\* Faulty variant: the statements run without the lock.
ExecutingUnlocked(t, s) ==
    /\ call[t].todo # <<>>
    /\ Head(call[t].todo) = s

\* The thread that holds the lock is about to execute statement s.
Executing(t, s) ==
    /\ lock = t
    /\ call[t].todo # <<>>
    /\ Head(call[t].todo) = s

\* Statement done, the call knows the row ids in `found`.
Proceed(t, found) ==
    /\ call' = [call EXCEPT ![t].todo = Tail(@), ![t].found = found]
    /\ UNCHANGED <<fts5, disk, lock, calls>>

\* The block ends, normally or by an exception.
Finish(t, found, result) ==
    /\ call' = [call EXCEPT ![t].todo = <<>>, ![t].found = found, ![t].result = result]
    /\ UNCHANGED <<fts5, lock, calls>>

\* Faulty variant: the exception leaves the changes uncommitted on the connection.
RaiseWithoutRollback(t, exception) ==
    /\ Finish(t, {}, exception)
    /\ UNCHANGED <<disk, work>>

\* An exception leaves `with self.conn`: the connection is rolled back.
Raise(t, exception) ==
    /\ Finish(t, {}, exception)
    /\ work' = disk
    /\ UNCHANGED disk

-----------------------------------------------------------------------------
(* The statements.                                                         *)

Insert(t) ==
    /\ Executing(t, "insert")
    /\ work' = [work EXCEPT !.memories =
                    Append(@, View!NewRow(call[t].arg.user, call[t].arg.text))]
    /\ Proceed(t, {Len(work.memories) + 1})

FtsInsert(t) ==
    /\ Executing(t, "fts_insert")
    /\ work' = [work EXCEPT !.fts =
                    IF fts5 THEN @ \cup (call[t].found \X {call[t].arg.text}) ELSE @]
    /\ Proceed(t, call[t].found)

\* correct_memory looks the row up before it writes anything.
Find(t) ==
    /\ Executing(t, "find")
    /\ IF View!OwnActive(call[t].arg.user, call[t].arg.id)
       THEN Proceed(t, {}) /\ UNCHANGED work
       ELSE Raise(t, "not_found")

\* The update names the row by its id alone: owner and status were checked by Find.
Supersede(t) ==
    /\ Executing(t, "supersede")
    /\ work' = [work EXCEPT
                  !.memories[call[t].arg.id].status = "superseded",
                  !.memories[call[t].arg.id].superseded_by =
                        CHOOSE i \in call[t].found : TRUE]
    /\ Proceed(t, call[t].found)

Unindex(ids) == [work EXCEPT !.fts = {e \in @ : e[1] \notin ids}]

\* Faulty variant: unindexes what the call has inserted, not the old version.
FtsDeleteNew(t) ==
    /\ Executing(t, "fts_delete")
    /\ work' = IF fts5 THEN Unindex(call[t].found) ELSE work
    /\ Proceed(t, call[t].found)

FtsDelete(t) ==
    /\ Executing(t, "fts_delete")
    /\ work' = IF fts5 THEN Unindex({call[t].arg.id}) ELSE work
    /\ Proceed(t, call[t].found)

\* delete_memory writes first and raises when no row was touched.
MarkDeleted(t) ==
    /\ Executing(t, "mark_deleted")
    /\ IF View!OwnActive(call[t].arg.user, call[t].arg.id)
       THEN /\ work' = [work EXCEPT !.memories[call[t].arg.id].status = "deleted"]
            /\ Proceed(t, {call[t].arg.id})
       ELSE Raise(t, "not_found")

FindAll(t) ==
    /\ Executing(t, "find_all")
    /\ Proceed(t, View!ActiveOf(call[t].arg.user))
    /\ UNCHANGED work

MarkAllDeleted(t) ==
    /\ Executing(t, "mark_all_deleted")
    /\ work' = [work EXCEPT !.memories =
                   [i \in DOMAIN @ |->
                      IF View!OwnActive(call[t].arg.user, i)
                      THEN [@[i] EXCEPT !.status = "deleted"] ELSE @[i]]]
    /\ Proceed(t, call[t].found)

\* One DELETE per row found by FindAll; the lock hides the loop.
FtsDeleteAll(t) ==
    /\ Executing(t, "fts_delete_all")
    /\ work' = IF fts5 THEN Unindex(call[t].found) ELSE work
    /\ Proceed(t, call[t].found)

\* The rows of session_turns of one conversation.
Rows(turns, k) == {r \in turns : r.conv = k}

\* INTEGER PRIMARY KEY without AUTOINCREMENT: one more than the largest id.
NextTurnId == Max({r.id : r \in work.turns} \cup {0}) + 1

InsertTurn(t) ==
    /\ Executing(t, "insert_turn")
    /\ work' = [work EXCEPT !.turns =
                   @ \cup {[id |-> NextTurnId, conv |-> call[t].arg.conv,
                            content |-> call[t].arg.content]}]
    /\ Proceed(t, {})

\* The n rows of the largest ids: ORDER BY id DESC LIMIT n.
NewestRows(rows, n) == {r \in rows : Cardinality({q \in rows : q.id > r.id}) < n}

\* Faulty variant: keeps the newest rows of all conversations together.
PruneAcrossConversations(t) ==
    /\ Executing(t, "prune")
    /\ work' = [work EXCEPT !.turns = NewestRows(@, KeepTurns)]
    /\ Proceed(t, {})

Prune(t) ==
    /\ Executing(t, "prune")
    /\ LET mine == Rows(work.turns, call[t].arg.conv)
       IN  work' = [work EXCEPT !.turns = @ \ (mine \ NewestRows(mine, KeepTurns))]
    /\ Proceed(t, {})

\* The n largest ids: ORDER BY id DESC LIMIT n.
NewestIds(ids, n) == {i \in ids : Cardinality({j \in ids : j > i}) < n}

\* Faulty variant: the search is not restricted to the user's active rows.
HitsOfAnyone(u, q) ==
    {i \in View!Ids : work.memories[i].text \in Matches[q]}

\* FTS ranks by bm25, which the model leaves open: any SearchLimit of the hits.
\* LIKE takes the newest hits.
Hits(u, q) ==
    {i \in View!ActiveOf(u) :
        IF fts5 THEN \E e \in work.fts : e[1] = i /\ e[2] \in Matches[q]
               ELSE work.memories[i].text \in Matches[q]}

Limited(ids) ==
    IF Cardinality(ids) <= SearchLimit THEN {ids}
    ELSE IF fts5 THEN kSubset(SearchLimit, ids) ELSE {NewestIds(ids, SearchLimit)}

Match(t) ==
    /\ Executing(t, "match")
    /\ LET hits == Hits(call[t].arg.user, call[t].arg.query)
       IN  IF hits = {} THEN Proceed(t, {})
           ELSE \E ids \in Limited(hits) : Finish(t, ids, "ok") /\ UNCHANGED disk
    /\ UNCHANGED work

\* Nothing matched (or the query has no terms): the most recent memories.
MostRecent(t) ==
    /\ Executing(t, "most_recent")
    /\ Finish(t, NewestIds(View!ActiveOf(call[t].arg.user), SearchLimit), "ok")
    /\ UNCHANGED <<disk, work>>

\* healthcheck takes SQLite's write lock and gives it back, changing nothing.
BeginImmediate(t) ==
    /\ Executing(t, "begin_immediate")
    /\ Proceed(t, {})
    /\ UNCHANGED work

Rollback(t) ==
    /\ Executing(t, "rollback")
    /\ Raise(t, "ok")

\* Faulty variant: the method reports success and never commits.
CommitForgotten(t) ==
    /\ Executing(t, "commit")
    /\ Finish(t, call[t].found, "ok")
    /\ work' = disk
    /\ UNCHANGED disk

Commit(t) ==
    /\ Executing(t, "commit")
    /\ disk' = work
    /\ Finish(t, call[t].found, "ok")
    /\ UNCHANGED work

\* SQLite raises at any statement; only a transaction context rolls back.
StatementFails(t) ==
    /\ lock = t
    /\ call[t].todo # <<>>
    /\ IF call[t].method \in Writers
       THEN Raise(t, "error")
       ELSE Finish(t, {}, "error") /\ UNCHANGED <<disk, work>>

\* Faulty variant: a call that raised keeps the lock.
ReleaseOnlyOnSuccess(t) ==
    /\ lock = t
    /\ call[t].method # "none"
    /\ call[t].todo = <<>>
    /\ lock' = IF call[t].result = "error" THEN t ELSE Free
    /\ call' = [call EXCEPT ![t] = Idle]
    /\ UNCHANGED <<fts5, disk, work, calls>>

\* The lock is given back and the method returns (or raises) to its caller.
Release(t) ==
    /\ lock = t
    /\ call[t].todo = <<>>
    /\ lock' = Free
    /\ call' = [call EXCEPT ![t] = Idle]
    /\ UNCHANGED <<fts5, disk, work, calls>>

\* The process dies and a new one opens the database: only what SQLite has
\* committed is left.
Crash ==
    /\ work' = disk
    /\ lock' = Free
    /\ call' = [t \in Threads |-> Idle]
    /\ UNCHANGED <<fts5, disk, calls>>

Statement(t) ==
    \/ Insert(t) \/ FtsInsert(t) \/ Find(t) \/ Supersede(t) \/ FtsDelete(t)
    \/ MarkDeleted(t) \/ FindAll(t) \/ MarkAllDeleted(t) \/ FtsDeleteAll(t)
    \/ InsertTurn(t) \/ Prune(t) \/ Match(t) \/ MostRecent(t)
    \/ BeginImmediate(t) \/ Rollback(t) \/ Commit(t)

Next ==
    \/ \E t \in Threads :
          Call(t) \/ Acquire(t) \/ Statement(t) \/ StatementFails(t) \/ Release(t)
    \/ Crash

Spec == Init /\ [][Next]_vars

\* A thread that can run does run, and a free lock is eventually taken by a
\* waiting thread; no fairness for new calls, failures and crashes.
FairSpec ==
    /\ Spec
    /\ \A t \in Threads : WF_vars(Acquire(t) \/ Statement(t) \/ Release(t))

-----------------------------------------------------------------------------
Tables == [memories : Seq(Memory!Row),
           fts      : SUBSET ((1 .. MaxCalls) \X Texts),
           turns    : SUBSET [id : 1 .. MaxCalls, conv : Conversations,
                              content : Contents]]

\* Shape of the two views of the database, of the lock and of the calls.
TypeOK ==
    /\ fts5 \in BOOLEAN
    /\ disk \in Tables
    /\ work \in Tables
    /\ lock \in Threads \cup {Free}
    /\ calls \in 0 .. MaxCalls
    /\ \A t \in Threads :
          /\ call[t].found \subseteq 1 .. MaxCalls
          /\ call[t].method # "none" =>
                /\ call[t].method \in Methods
                /\ call[t].arg \in Args(call[t].method)
                /\ \E i \in 1 .. Len(Program[call[t].method]) + 1 :
                      call[t].todo = SubSeq(Program[call[t].method], i,
                                            Len(Program[call[t].method]))

(***************************************************************************)
(* Uncommitted changes always belong to the thread that holds the lock and *)
(* is still inside its block: no method starts on, commits or rolls back   *)
(* what another one left, and none, whether it returns or raises, leaves   *)
(* anything uncommitted behind.                                            *)
(***************************************************************************)
Isolated ==
    work # disk =>
        \E t \in Threads : lock = t /\ call[t].todo # <<>> /\ call[t].method \in Writers

(***************************************************************************)
(* The FTS index holds exactly the active memories under their own text:   *)
(* after every commit, so after every crash too.  A missing entry would    *)
(* hide a memory from search_memories for good.                            *)
(***************************************************************************)
IndexMirrorsActive ==
    disk.fts = IF fts5
               THEN {<<i, disk.memories[i].text>> :
                        i \in {j \in Memory!Ids : disk.memories[j].status = "active"}}
               ELSE {}

(***************************************************************************)
(* What a writing method reports is true of the committed database when it *)
(* returns: the row add_memory or correct_memory names is there with the   *)
(* text asked for, the corrected row points at it, the deleted row is      *)
(* deleted, and after delete_all_memories the user has no active memory.   *)
(***************************************************************************)
Reported(t) ==
    LET m == call[t].method  a == call[t].arg  IN
    /\ m \in {"add_memory", "correct_memory"} =>
          \A i \in call[t].found :
             /\ i \in Memory!Ids
             /\ disk.memories[i].user = a.user
             /\ disk.memories[i].text = a.text
             /\ m = "correct_memory" => disk.memories[a.id].superseded_by = i
    /\ m = "delete_memory" => disk.memories[a.id].status = "deleted"
    /\ m = "delete_all_memories" => Memory!ActiveOf(a.user) = {}

ResultsAreCommitted ==
    \A t \in Threads : call[t].result = "ok" /\ call[t].method \in Writers => Reported(t)

(***************************************************************************)
(* search_memories never returns a row that is uncommitted, inactive or    *)
(* someone else's, never more than its limit, and it returns nothing only  *)
(* when the user has no active memory at all.                              *)
(***************************************************************************)
SearchIsSound ==
    \A t \in Threads :
        call[t].method = "search_memories" /\ call[t].result = "ok" =>
            /\ call[t].found \subseteq Memory!ActiveOf(call[t].arg.user)
            /\ Cardinality(call[t].found) <= SearchLimit
            /\ call[t].found = {} => Memory!ActiveOf(call[t].arg.user) = {}

-----------------------------------------------------------------------------
(* Refinement: a commit is one step of the contracts, every other          *)
(* statement, failure and crash is a stutter.                              *)

\* The rows inserted before row r.
Older(rows, r) == {q \in rows : q.id < r.id}

\* What rows say, in the order of their ids: the i-th row has i - 1 older ones.
InOrder(rows) ==
    [i \in 1 .. Cardinality(rows) |->
        (CHOOSE r \in rows : Cardinality(Older(rows, r)) = i - 1).content]

Window(k) == InOrder(Rows(disk.turns, k))

Conversation == INSTANCE MagTurns WITH turns <- [k \in Conversations |-> Window(k)]

\* memory_store.py implements the contract of the memories: each method's
\* effect appears all at once, and failed or interrupted calls have none.
ImplementsMemory == Memory!Spec

\* append_turn implements the rolling window of each conversation.
ImplementsTurns == Conversation!Spec

\* Every call returns or raises, or its process dies: nobody keeps the lock.
EveryCallEnds == \A t \in Threads : call[t].method # "none" ~> call[t].method = "none"
=============================================================================
