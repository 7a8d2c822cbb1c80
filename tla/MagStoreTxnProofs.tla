-------------------------- MODULE MagStoreTxnProofs --------------------------
(***************************************************************************)
(* Proofs about MagStoreTxn, for every set of threads, users, texts and    *)
(* queries and every bound.                                                *)
(*                                                                         *)
(* The properties speak of what is committed; what makes them true is what *)
(* the open transaction has done so far.  Doing says, for each method and  *)
(* each statement it is about to execute, exactly how the connection's     *)
(* view differs from the committed database; Shape, that only the owner of *)
(* the lock has executed anything; Room, that every row id and turn id was *)
(* paid for by a call, so that none exceeds the bound on the calls.        *)
(* For the windows of the conversations, Turning adds which turn the open  *)
(* transaction has inserted and pruned for, and Windows that the rows of a *)
(* conversation have distinct ids and fill every place of their order.     *)
(***************************************************************************)
EXTENDS MagStoreTxn, SequenceTheorems, FiniteSetTheorems, TLAPS

\* The arguments of all the methods, whatever the calls made so far.
Arguments ==
    {<<>>} \cup [user : Users, text : Texts] \cup [user : Users, id : Nat, text : Texts]
           \cup [user : Users, id : Nat] \cup [user : Users]
           \cup [conv : Conversations, content : Contents] \cup [user : Users, query : Queries]

\* The statements of all the methods.
Statements ==
    {"find", "find_all", "match", "most_recent", "begin_immediate", "rollback",
     "insert", "insert_turn", "supersede", "mark_deleted", "mark_all_deleted",
     "fts_insert", "fts_delete", "fts_delete_all", "prune", "commit"}

CallRecord == [method : {"none"} \cup DOMAIN Program, todo : Seq(Statements),
               arg : Arguments, found : SUBSET (1 .. MaxCalls),
               result : {"none", "ok", "error", "not_found"}]

Type ==
    /\ fts5 \in BOOLEAN
    /\ disk \in Tables
    /\ work \in Tables
    /\ lock \in Threads \cup {Free}
    /\ calls \in 0 .. MaxCalls
    /\ call \in [Threads -> CallRecord]

\* A call that has something left to execute, at statement s of method m.
At(t, m, s) ==
    /\ call[t].method = m
    /\ call[t].todo # <<>>
    /\ Head(call[t].todo) = s

\* What is left of a program after some of its statements.
Suffix(m, todo) ==
    \E i \in 1 .. Len(Program[m]) + 1 : todo = SubSeq(Program[m], i, Len(Program[m]))

CallShape(t) ==
    /\ call[t].method = "none" => call[t] = Idle
    /\ call[t].method # "none" =>
          /\ call[t].method \in Methods
          /\ call[t].arg \in Args(call[t].method)
          /\ Suffix(call[t].method, call[t].todo)
          /\ call[t].todo = <<>> <=> call[t].result # "none"
          /\ lock # t => call[t].todo = Program[call[t].method] /\ call[t].found = {}
    /\ lock = t => call[t].method # "none"

Shape == \A t \in Threads : CallShape(t)

\* The calls that may still insert a row: made, and not over.
Pending == {t \in Threads : call[t].method # "none" /\ call[t].result = "none"}

Room ==
    /\ IsFiniteSet(Pending)
    /\ Len(disk.memories) + Cardinality(Pending) <= calls
    /\ \A r \in disk.turns : r.id + Cardinality(Pending) <= calls

-----------------------------------------------------------------------------
(* What the open transaction of thread t has changed, method by method.    *)

NewId == Len(disk.memories) + 1

\* The table with row i marked as superseded by the row about to be appended.
Superseded(i) == [disk.memories EXCEPT ![i].status = "superseded", ![i].superseded_by = NewId]

AllDeleted(u) ==
    [i \in DOMAIN disk.memories |->
        [disk.memories[i] EXCEPT !.status = IF Memory!OwnActive(u, i) THEN "deleted" ELSE @]]

Without(ids) == IF fts5 THEN {e \in disk.fts : e[1] \notin ids} ELSE disk.fts
Entry(i, x) == IF fts5 THEN {<<i, x>>} ELSE {}

\* The statements before a method's first change.
Reading(t) ==
    \/ At(t, "add_memory", "insert")
    \/ At(t, "correct_memory", "find") \/ At(t, "correct_memory", "insert")
    \/ At(t, "delete_memory", "mark_deleted")
    \/ At(t, "delete_all_memories", "find_all")
    \/ At(t, "delete_all_memories", "mark_all_deleted")
    \/ At(t, "append_turn", "insert_turn")

\* A method that does not write, or a block that is over or not yet entered.
Unchanged(t) == call[t].todo = <<>> \/ call[t].method \notin Writers \/ Reading(t)

Adding(t) ==
    LET a == call[t].arg IN
    At(t, "add_memory", "fts_insert") \/ At(t, "add_memory", "commit") =>
        /\ call[t].found = {NewId}
        /\ work.memories = Append(disk.memories, Memory!NewRow(a.user, a.text))
        /\ work.turns = disk.turns
        /\ work.fts = IF Head(call[t].todo) = "commit"
                      THEN disk.fts \cup Entry(NewId, a.text) ELSE disk.fts

Correcting(t) ==
    LET a == call[t].arg
        s == Head(call[t].todo)
        new == Memory!NewRow(a.user, a.text) IN
    call[t].method = "correct_memory" /\ call[t].todo # <<>> /\ s # "find" =>
        /\ Memory!OwnActive(a.user, a.id)
        /\ s # "insert" =>
              /\ call[t].found = {NewId}
              /\ work.turns = disk.turns
              /\ work.memories = Append(IF s = "supersede" THEN disk.memories
                                        ELSE Superseded(a.id), new)
        /\ s \in {"supersede", "fts_delete"} => work.fts = disk.fts
        /\ s = "fts_insert" => work.fts = Without({a.id})
        /\ s = "commit" => work.fts = Without({a.id}) \cup Entry(NewId, a.text)

Deleting(t) ==
    LET a == call[t].arg IN
    At(t, "delete_memory", "fts_delete") \/ At(t, "delete_memory", "commit") =>
        /\ Memory!OwnActive(a.user, a.id)
        /\ work.memories = [disk.memories EXCEPT ![a.id].status = "deleted"]
        /\ work.turns = disk.turns
        /\ work.fts = IF Head(call[t].todo) = "commit" THEN Without({a.id}) ELSE disk.fts

DeletingAll(t) ==
    LET a == call[t].arg
        s == Head(call[t].todo) IN
    call[t].method = "delete_all_memories" /\ call[t].todo # <<>> /\ s # "find_all" =>
        /\ call[t].found = Memory!ActiveOf(a.user)
        /\ s # "mark_all_deleted" =>
              /\ work.memories = AllDeleted(a.user)
              /\ work.turns = disk.turns
              /\ work.fts = IF s = "commit" THEN Without(Memory!ActiveOf(a.user)) ELSE disk.fts

Appending(t) ==
    At(t, "append_turn", "prune") \/ At(t, "append_turn", "commit") =>
        /\ work.memories = disk.memories
        /\ work.fts = disk.fts
        /\ \A r \in work.turns : r.id + Cardinality(Pending) <= calls + 1

DoingOf(t) ==
    /\ Unchanged(t) => work = disk
    /\ Adding(t) /\ Correcting(t) /\ Deleting(t) /\ DeletingAll(t) /\ Appending(t)

Doing ==
    /\ lock = Free => work = disk
    /\ \A t \in Threads : lock = t => DoingOf(t)

IInv == /\ Type /\ Shape /\ Room /\ Doing
        /\ IndexMirrorsActive /\ ResultsAreCommitted /\ SearchIsSound

-----------------------------------------------------------------------------
(* The programs.                                                           *)

\* The statements of each method.
LEMMA Listing ==
    /\ DOMAIN Program = {"add_memory", "correct_memory", "delete_memory",
                         "delete_all_memories", "append_turn", "search_memories", "healthcheck"}
    /\ Program["add_memory"] = <<"insert", "fts_insert", "commit">>
    /\ Program["correct_memory"] = <<"find", "insert", "supersede", "fts_delete", "fts_insert", "commit">>
    /\ Program["delete_memory"] = <<"mark_deleted", "fts_delete", "commit">>
    /\ Program["delete_all_memories"] = <<"find_all", "mark_all_deleted", "fts_delete_all", "commit">>
    /\ Program["append_turn"] = <<"insert_turn", "prune", "commit">>
    /\ Program["search_memories"] = <<"match", "most_recent">>
    /\ Program["healthcheck"] = <<"begin_immediate", "rollback">>
BY DEF Program

\* Programs are not empty.
LEMMA ProgramType == \A m \in DOMAIN Program :
    Program[m] \in Seq(Statements) /\ Len(Program[m]) \in Nat \ {0}
<1>1. <<"insert", "fts_insert", "commit">> \in Seq(Statements)
  BY DEF Statements
<1>2. <<"find", "insert", "supersede", "fts_delete", "fts_insert", "commit">> \in Seq(Statements)
  BY DEF Statements
<1>3. <<"mark_deleted", "fts_delete", "commit">> \in Seq(Statements)
  BY DEF Statements
<1>4. <<"find_all", "mark_all_deleted", "fts_delete_all", "commit">> \in Seq(Statements)
  BY DEF Statements
<1>5. <<"insert_turn", "prune", "commit">> \in Seq(Statements)
  BY DEF Statements
<1>6. <<"match", "most_recent">> \in Seq(Statements)
  BY DEF Statements
<1>7. <<"begin_immediate", "rollback">> \in Seq(Statements)
  BY DEF Statements
<1> HIDE DEF Statements
<1>8. ASSUME NEW m \in DOMAIN Program PROVE Program[m] \in Seq(Statements)
  BY <1>1, <1>2, <1>3, <1>4, <1>5, <1>6, <1>7, Listing
<1>9. ASSUME NEW m \in DOMAIN Program PROVE Len(Program[m]) \in Nat \ {0}
  BY Listing
<1> QED BY <1>8, <1>9

\* What is empty has length 0.
LEMMA LenEmpty == ASSUME NEW s, s = <<>> PROVE Len(s) = 0
OBVIOUS

\* A call with statements left is at one of its program, and goes on with the next.
LEMMA SuffixStep ==
    ASSUME NEW m \in DOMAIN Program, NEW todo, Suffix(m, todo), todo # <<>>
    PROVE  \E i \in 1 .. Len(Program[m]) :
              /\ Head(todo) = Program[m][i]
              /\ Tail(todo) \in Seq(Statements)
              /\ Suffix(m, Tail(todo))
              /\ i = Len(Program[m]) => Tail(todo) = <<>>
              /\ i < Len(Program[m]) => Tail(todo) # <<>> /\ Head(Tail(todo)) = Program[m][i + 1]
<1> DEFINE p == Program[m]  n == Len(p)
<1>1. p \in Seq(Statements) /\ n \in Nat \ {0}
  BY ProgramType
<1> HIDE DEF p, n
<1>2. PICK i \in 1 .. n + 1 : todo = SubSeq(p, i, n)
  BY DEF Suffix, p, n
<1>3. i \in 1 .. n
  <2>1. i = n + 1 => todo = <<>>
    BY <1>1, <1>2, SubSeqEmpty
  <2> QED BY <1>1, <2>1
<1>4. Head(todo) = p[i] /\ Tail(todo) = SubSeq(p, i + 1, n)
  BY <1>1, <1>2, <1>3, HeadTailOfSubSeq DEF n
<1>5. /\ SubSeq(p, i + 1, n) \in Seq(Statements)
      /\ Len(SubSeq(p, i + 1, n)) = IF i < n THEN n - i ELSE 0
  <2>1. \A j \in i + 1 .. n : p[j] \in Statements
    BY <1>1, <1>3, ElementOfSeq DEF n
  <2>2. i + 1 \in Int /\ n \in Int
    BY <1>1, <1>3
  <2>3. /\ SubSeq(p, i + 1, n) \in Seq(Statements)
        /\ Len(SubSeq(p, i + 1, n)) = IF i + 1 <= n THEN n - (i + 1) + 1 ELSE 0
    BY <2>1, <2>2, SubSeqProperties
  <2> QED BY <1>1, <1>3, <2>3
<1>6. i < n => Head(SubSeq(p, i + 1, n)) = p[i + 1]
  BY <1>1, <1>3, HeadTailOfSubSeq DEF n
<1>7. i = n => Tail(todo) = <<>>
  BY <1>1, <1>3, <1>4, SubSeqEmpty
<1>8. i < n => Tail(todo) # <<>>
  <2>1. i < n => Len(Tail(todo)) = n - i /\ n - i # 0
    BY <1>1, <1>3, <1>4, <1>5
  <2>2. Tail(todo) = <<>> => Len(Tail(todo)) = 0
    BY LenEmpty
  <2> QED BY <2>1, <2>2
<1>9. Suffix(m, Tail(todo))
  <2>1. i + 1 \in 1 .. n + 1
    BY <1>1, <1>3
  <2> QED BY <1>4, <2>1 DEF Suffix, p, n
<1> QED BY <1>1, <1>3, <1>4, <1>5, <1>6, <1>7, <1>8, <1>9 DEF p, n

\* Statement s is followed by statement s2, or is the last one.
Then(todo, s, s2) == Head(todo) = s /\ Tail(todo) # <<>> /\ Head(Tail(todo)) = s2
AtEnd(todo, s) == Head(todo) = s /\ Tail(todo) = <<>>

\* Where a method can be, statement by statement.
LEMMA Where ==
    ASSUME NEW m \in DOMAIN Program, NEW todo, Suffix(m, todo), todo # <<>>
    PROVE  /\ Tail(todo) \in Seq(Statements)
           /\ Suffix(m, Tail(todo))
           /\ m = "add_memory" =>
                 \/ Then(todo, "insert", "fts_insert")
                 \/ Then(todo, "fts_insert", "commit") \/ AtEnd(todo, "commit")
           /\ m = "correct_memory" =>
                 \/ Then(todo, "find", "insert") \/ Then(todo, "insert", "supersede")
                 \/ Then(todo, "supersede", "fts_delete")
                 \/ Then(todo, "fts_delete", "fts_insert")
                 \/ Then(todo, "fts_insert", "commit") \/ AtEnd(todo, "commit")
           /\ m = "delete_memory" =>
                 \/ Then(todo, "mark_deleted", "fts_delete")
                 \/ Then(todo, "fts_delete", "commit") \/ AtEnd(todo, "commit")
           /\ m = "delete_all_memories" =>
                 \/ Then(todo, "find_all", "mark_all_deleted")
                 \/ Then(todo, "mark_all_deleted", "fts_delete_all")
                 \/ Then(todo, "fts_delete_all", "commit") \/ AtEnd(todo, "commit")
           /\ m = "append_turn" =>
                 \/ Then(todo, "insert_turn", "prune") \/ Then(todo, "prune", "commit")
                 \/ AtEnd(todo, "commit")
           /\ m = "search_memories" =>
                 \/ Then(todo, "match", "most_recent") \/ AtEnd(todo, "most_recent")
           /\ m = "healthcheck" =>
                 \/ Then(todo, "begin_immediate", "rollback") \/ AtEnd(todo, "rollback")
<1>1. PICK i \in 1 .. Len(Program[m]) :
         /\ Head(todo) = Program[m][i]
         /\ Tail(todo) \in Seq(Statements)
         /\ Suffix(m, Tail(todo))
         /\ i = Len(Program[m]) => Tail(todo) = <<>>
         /\ i < Len(Program[m]) => Tail(todo) # <<>> /\ Head(Tail(todo)) = Program[m][i + 1]
  BY SuffixStep
<1>2. CASE m = "add_memory"
  <2>1. i \in 1 .. 3 /\ Len(Program[m]) = 3
    BY <1>1, <1>2, Listing
  <2>2. CASE i = 1
    BY <1>1, <1>2, <2>1, <2>2, Listing DEF Then, AtEnd
  <2>3. CASE i = 2
    BY <1>1, <1>2, <2>1, <2>3, Listing DEF Then, AtEnd
  <2>4. CASE i = 3
    BY <1>1, <1>2, <2>1, <2>4, Listing DEF Then, AtEnd
  <2> QED BY <1>1, <1>2, <2>1, <2>2, <2>3, <2>4
<1>3. CASE m = "correct_memory"
  <2>1. i \in 1 .. 6 /\ Len(Program[m]) = 6
    BY <1>1, <1>3, Listing
  <2>2. CASE i = 1
    BY <1>1, <1>3, <2>1, <2>2, Listing DEF Then, AtEnd
  <2>3. CASE i = 2
    BY <1>1, <1>3, <2>1, <2>3, Listing DEF Then, AtEnd
  <2>4. CASE i = 3
    BY <1>1, <1>3, <2>1, <2>4, Listing DEF Then, AtEnd
  <2>5. CASE i = 4
    BY <1>1, <1>3, <2>1, <2>5, Listing DEF Then, AtEnd
  <2>6. CASE i = 5
    BY <1>1, <1>3, <2>1, <2>6, Listing DEF Then, AtEnd
  <2>7. CASE i = 6
    BY <1>1, <1>3, <2>1, <2>7, Listing DEF Then, AtEnd
  <2> QED BY <1>1, <1>3, <2>1, <2>2, <2>3, <2>4, <2>5, <2>6, <2>7
<1>4. CASE m = "delete_memory"
  <2>1. i \in 1 .. 3 /\ Len(Program[m]) = 3
    BY <1>1, <1>4, Listing
  <2>2. CASE i = 1
    BY <1>1, <1>4, <2>1, <2>2, Listing DEF Then, AtEnd
  <2>3. CASE i = 2
    BY <1>1, <1>4, <2>1, <2>3, Listing DEF Then, AtEnd
  <2>4. CASE i = 3
    BY <1>1, <1>4, <2>1, <2>4, Listing DEF Then, AtEnd
  <2> QED BY <1>1, <1>4, <2>1, <2>2, <2>3, <2>4
<1>5. CASE m = "delete_all_memories"
  <2>1. i \in 1 .. 4 /\ Len(Program[m]) = 4
    BY <1>1, <1>5, Listing
  <2>2. CASE i = 1
    BY <1>1, <1>5, <2>1, <2>2, Listing DEF Then, AtEnd
  <2>3. CASE i = 2
    BY <1>1, <1>5, <2>1, <2>3, Listing DEF Then, AtEnd
  <2>4. CASE i = 3
    BY <1>1, <1>5, <2>1, <2>4, Listing DEF Then, AtEnd
  <2>5. CASE i = 4
    BY <1>1, <1>5, <2>1, <2>5, Listing DEF Then, AtEnd
  <2> QED BY <1>1, <1>5, <2>1, <2>2, <2>3, <2>4, <2>5
<1>6. CASE m = "append_turn"
  <2>1. i \in 1 .. 3 /\ Len(Program[m]) = 3
    BY <1>1, <1>6, Listing
  <2>2. CASE i = 1
    BY <1>1, <1>6, <2>1, <2>2, Listing DEF Then, AtEnd
  <2>3. CASE i = 2
    BY <1>1, <1>6, <2>1, <2>3, Listing DEF Then, AtEnd
  <2>4. CASE i = 3
    BY <1>1, <1>6, <2>1, <2>4, Listing DEF Then, AtEnd
  <2> QED BY <1>1, <1>6, <2>1, <2>2, <2>3, <2>4
<1>7. CASE m = "search_memories"
  <2>1. i \in 1 .. 2 /\ Len(Program[m]) = 2
    BY <1>1, <1>7, Listing
  <2>2. CASE i = 1
    BY <1>1, <1>7, <2>1, <2>2, Listing DEF Then, AtEnd
  <2>3. CASE i = 2
    BY <1>1, <1>7, <2>1, <2>3, Listing DEF Then, AtEnd
  <2> QED BY <1>1, <1>7, <2>1, <2>2, <2>3
<1>8. CASE m = "healthcheck"
  <2>1. i \in 1 .. 2 /\ Len(Program[m]) = 2
    BY <1>1, <1>8, Listing
  <2>2. CASE i = 1
    BY <1>1, <1>8, <2>1, <2>2, Listing DEF Then, AtEnd
  <2>3. CASE i = 2
    BY <1>1, <1>8, <2>1, <2>3, Listing DEF Then, AtEnd
  <2> QED BY <1>1, <1>8, <2>1, <2>2, <2>3
<1> QED BY <1>1, <1>2, <1>3, <1>4, <1>5, <1>6, <1>7, <1>8, Listing

\* The methods there are.
LEMMA MethodNames ==
    DOMAIN Program = {"add_memory", "correct_memory", "delete_memory",
                      "delete_all_memories", "append_turn", "search_memories", "healthcheck"}
BY Listing

\* Only a commit, a rollback and a search's last statement end a program.
LEMMA Continues ==
    ASSUME NEW m \in DOMAIN Program, NEW todo, Suffix(m, todo), todo # <<>>,
           Head(todo) \notin {"commit", "most_recent", "rollback"}
    PROVE  Tail(todo) # <<>>
BY Where, MethodNames DEF Then, AtEnd

-----------------------------------------------------------------------------
(* What a step leaves alone.                                               *)

\* A program starts with all its statements, and has some.
LEMMA Whole ==
    ASSUME NEW m \in DOMAIN Program
    PROVE  Suffix(m, Program[m]) /\ Program[m] # <<>>
<1>1. Program[m] \in Seq(Statements) /\ Len(Program[m]) \in Nat \ {0}
  BY ProgramType
<1>2. SubSeq(Program[m], 1, Len(Program[m])) = Program[m]
  BY <1>1, SubSeqFull
<1>3. Program[m] # <<>>
  BY <1>1, LenEmpty
<1> QED BY <1>1, <1>2, <1>3 DEF Suffix

\* ... and is over when none is left.
LEMMA Over ==
    ASSUME NEW m \in DOMAIN Program
    PROVE  Suffix(m, <<>>)
<1> DEFINE p == Program[m]  n == Len(p)
<1>1. n \in Nat
  BY ProgramType
<1> HIDE DEF p, n
<1>2. n + 1 \in 1 .. n + 1 /\ n + 1 \in Int /\ n \in Int /\ n < n + 1
  BY <1>1
<1>3. SubSeq(p, n + 1, n) = <<>>
  BY <1>2, SubSeqEmpty
<1> QED BY <1>2, <1>3 DEF Suffix, p, n

\* The arguments of a call stay what the method takes.
LEMMA ArgsGrow ==
    ASSUME NEW m \in DOMAIN Program, calls \in Nat, calls' \in Nat, calls <= calls'
    PROVE  Args(m) \subseteq Args(m)'
<1>1. 1 .. calls \subseteq 1 .. calls'
  OBVIOUS
<1> QED BY <1>1, Listing DEF Args

\* Only the owner of the lock has executed anything, or is done.
LEMMA OthersWait ==
    ASSUME Type, Shape, NEW u \in Threads, lock # u
    PROVE  /\ call[u].result = "none"
           /\ call[u].method # "none" => call[u].todo # <<>>
<1>1. CASE call[u].method = "none"
  BY <1>1 DEF Shape, CallShape, Idle
<1>2. CASE call[u].method # "none"
  <2>1. call[u].method \in DOMAIN Program /\ call[u].todo = Program[call[u].method]
    BY <1>2, MethodsAssumption DEF Shape, CallShape
  <2>2. call[u].todo # <<>>
    BY <2>1, Whole
  <2> QED BY <1>2, <2>2 DEF Shape, CallShape
<1> QED BY <1>1, <1>2

\* The owner of the lock, inside its block.
LEMMA Inside ==
    ASSUME Type, Shape, NEW t \in Threads, lock = t, call[t].todo # <<>>
    PROVE  /\ call[t] \in CallRecord
           /\ call[t].method \in Methods /\ call[t].method \in DOMAIN Program
           /\ call[t].arg \in Args(call[t].method)
           /\ call[t].result = "none"
           /\ call[t].todo \in Seq(Statements)
           /\ Tail(call[t].todo) \in Seq(Statements)
           /\ Suffix(call[t].method, call[t].todo)
           /\ Suffix(call[t].method, Tail(call[t].todo))
           /\ t \in Pending
           /\ lock # Free
<1>1. call[t].method # "none"
  BY DEF Shape, CallShape
<1>2. call[t] \in CallRecord
  BY DEF Type
<1>3. /\ call[t].method \in Methods /\ call[t].method \in DOMAIN Program
      /\ call[t].arg \in Args(call[t].method)
      /\ call[t].result = "none"
      /\ Suffix(call[t].method, call[t].todo)
  BY <1>1, MethodsAssumption DEF Shape, CallShape
<1>4. /\ Tail(call[t].todo) \in Seq(Statements)
      /\ Suffix(call[t].method, Tail(call[t].todo))
  BY <1>3, Where
<1> QED BY <1>1, <1>2, <1>3, <1>4, StoreAssumption DEF CallRecord, Pending

\* The record of a call that goes on.
LEMMA Proceeded ==
    ASSUME Type, Shape, NEW t \in Threads, lock = t, call[t].todo # <<>>,
           NEW found \in SUBSET (1 .. MaxCalls), Proceed(t, found)
    PROVE  /\ fts5' = fts5 /\ disk' = disk /\ lock' = t /\ calls' = calls
           /\ call' \in [Threads -> CallRecord]
           /\ \A u \in Threads : u # t => call'[u] = call[u]
           /\ call'[t].method = call[t].method /\ call'[t].arg = call[t].arg
           /\ call'[t].result = "none" /\ call'[t].todo = Tail(call[t].todo)
           /\ call'[t].found = found
<1> DEFINE c == [call[t] EXCEPT !.todo = Tail(call[t].todo), !.found = found]
<1>1. /\ call[t] \in CallRecord /\ call[t].result = "none"
      /\ Tail(call[t].todo) \in Seq(Statements)
  BY Inside
<1>2. /\ c \in CallRecord /\ c.method = call[t].method /\ c.arg = call[t].arg
      /\ c.result = "none" /\ c.todo = Tail(call[t].todo) /\ c.found = found
  BY <1>1 DEF CallRecord
<1>3. call' = [call EXCEPT ![t] = c]
  BY DEF Proceed
<1>4. call \in [Threads -> CallRecord]
  BY DEF Type
<1> HIDE DEF c
<1> QED BY <1>2, <1>3, <1>4 DEF Proceed

\* A statement that is not the last of its block: the call goes on.
LEMMA ProceedKeeps ==
    ASSUME IInv, NEW t \in Threads, NEW s, Executing(t, s),
           s \notin {"commit", "most_recent", "rollback"},
           NEW found \in SUBSET (1 .. MaxCalls), Proceed(t, found),
           work' \in Tables, DoingOf(t)'
    PROVE  IInv'
<1> USE DEF IInv
<1>0. lock = t /\ call[t].todo # <<>> /\ Head(call[t].todo) = s
  BY DEF Executing
<1>1. /\ call[t] \in CallRecord
      /\ call[t].method \in Methods /\ call[t].method \in DOMAIN Program
      /\ call[t].arg \in Args(call[t].method)
      /\ call[t].result = "none" /\ call[t].method # "none"
      /\ Tail(call[t].todo) \in Seq(Statements)
      /\ Suffix(call[t].method, Tail(call[t].todo))
  BY <1>0, Inside DEF Pending
<1>2. Tail(call[t].todo) # <<>>
  <2>1. Suffix(call[t].method, call[t].todo)
    BY <1>0, Inside
  <2> QED BY <1>0, <1>1, <2>1, Continues
<1>3. /\ fts5' = fts5 /\ disk' = disk /\ lock' = t /\ calls' = calls
      /\ call' \in [Threads -> CallRecord]
      /\ \A u \in Threads : u # t => call'[u] = call[u]
      /\ call'[t].method = call[t].method /\ call'[t].arg = call[t].arg
      /\ call'[t].result = "none" /\ call'[t].todo = Tail(call[t].todo)
      /\ call'[t].found = found
  BY <1>0, Proceeded
<1>4. Type'
  BY <1>3 DEF Type, Tables
<1>5. Shape'
  <2>1. \A m \in DOMAIN Program : Args(m) \subseteq Args(m)'
    BY <1>3, ArgsGrow DEF Type
  <2>2. CallShape(t)'
    BY <1>1, <1>2, <1>3, <2>1 DEF CallShape
  <2>3. ASSUME NEW u \in Threads, u # t PROVE CallShape(u)'
    BY <1>0, <1>3, <2>1, <2>3, MethodsAssumption DEF Shape, CallShape
  <2> QED BY <2>2, <2>3 DEF Shape
<1>6. Room'
  <2>1. Pending' = Pending
    BY <1>1, <1>3 DEF Pending
  <2> QED BY <1>3, <2>1 DEF Room
<1>7. Doing'
  BY <1>0, <1>3, Inside DEF Doing
<1>8. IndexMirrorsActive'
  BY <1>3 DEF IndexMirrorsActive, Memory!Ids
<1>9. \A u \in Threads : call'[u].result = "none"
  BY <1>0, <1>3, OthersWait
<1>10. ResultsAreCommitted' /\ SearchIsSound'
  BY <1>9 DEF ResultsAreCommitted, SearchIsSound
<1> QED BY <1>4, <1>5, <1>6, <1>7, <1>8, <1>10

\* What SearchIsSound says of one call.
Sound(t) ==
    /\ call[t].found \subseteq Memory!ActiveOf(call[t].arg.user)
    /\ Cardinality(call[t].found) <= SearchLimit
    /\ call[t].found = {} => Memory!ActiveOf(call[t].arg.user) = {}

\* The block of a call ends: by its last statement, or by an exception.
LEMMA FinishKeeps ==
    ASSUME IInv, NEW t \in Threads, lock = t, call[t].todo # <<>>,
           NEW found \in SUBSET (1 .. MaxCalls),
           NEW result \in {"ok", "error", "not_found"}, Finish(t, found, result),
           disk' \in Tables, work' = disk',
           Len(disk'.memories) <= Len(disk.memories) + 1,
           \A r \in disk'.turns : r.id + Cardinality(Pending) <= calls + 1,
           IndexMirrorsActive',
           result = "ok" /\ call[t].method \in Writers => Reported(t)',
           result = "ok" /\ call[t].method = "search_memories" => Sound(t)'
    PROVE  IInv'
<1> USE DEF IInv
<1>1. /\ call[t] \in CallRecord
      /\ call[t].method \in Methods /\ call[t].method \in DOMAIN Program
      /\ call[t].arg \in Args(call[t].method)
      /\ call[t].result = "none" /\ call[t].method # "none"
      /\ t \in Pending
  BY Inside DEF Pending
<1>2. <<>> \in Seq(Statements)
  OBVIOUS
<1>3. /\ fts5' = fts5 /\ lock' = t /\ calls' = calls
      /\ call' \in [Threads -> CallRecord]
      /\ \A u \in Threads : u # t => call'[u] = call[u]
      /\ call'[t].method = call[t].method /\ call'[t].arg = call[t].arg
      /\ call'[t].result = result /\ call'[t].todo = <<>>
      /\ call'[t].found = found
  <2> DEFINE c == [call[t] EXCEPT !.todo = <<>>, !.found = found, !.result = result]
  <2>1. /\ c \in CallRecord /\ c.method = call[t].method /\ c.arg = call[t].arg
        /\ c.result = result /\ c.todo = <<>> /\ c.found = found
    BY <1>1, <1>2 DEF CallRecord
  <2>2. call' = [call EXCEPT ![t] = c]
    BY DEF Finish
  <2>3. call \in [Threads -> CallRecord]
    BY DEF Type
  <2>4. fts5' = fts5 /\ lock' = t /\ calls' = calls
    BY DEF Finish
  <2> HIDE DEF c
  <2> QED BY <2>1, <2>2, <2>3, <2>4
<1>4. Type'
  BY <1>3 DEF Type, Tables
<1>5. Shape'
  <2>1. \A m \in DOMAIN Program : Args(m) \subseteq Args(m)'
    BY <1>3, ArgsGrow DEF Type
  <2>2. Suffix(call[t].method, <<>>)
    BY <1>1, Over
  <2>3. CallShape(t)'
    BY <1>1, <1>3, <2>1, <2>2 DEF CallShape
  <2>4. ASSUME NEW u \in Threads, u # t PROVE CallShape(u)'
    BY <1>3, <2>1, <2>4, MethodsAssumption DEF Shape, CallShape
  <2> QED BY <2>3, <2>4 DEF Shape
<1>6. Room'
  <2>1. Pending' = Pending \ {t}
    BY <1>1, <1>3 DEF Pending
  <2>2. IsFiniteSet(Pending') /\ Cardinality(Pending') = Cardinality(Pending) - 1
    BY <1>1, <2>1, FS_RemoveElement DEF Room
  <2>3. Cardinality(Pending) \in Nat /\ calls \in Nat /\ Len(disk.memories) \in Nat
    BY FS_CardinalityType DEF Room, Type, Tables
  <2>4. Len(disk'.memories) \in Nat /\ \A r \in disk'.turns : r.id \in Nat
    BY DEF Tables
  <2>5. Len(disk'.memories) + Cardinality(Pending') <= calls'
    BY <1>3, <2>2, <2>3, <2>4 DEF Room
  <2>6. \A r \in disk'.turns : r.id + Cardinality(Pending') <= calls'
    BY <1>3, <2>2, <2>3, <2>4
  <2> QED BY <2>2, <2>5, <2>6 DEF Room
<1>7. Doing'
  <2>1. DoingOf(t)'
    BY <1>3 DEF DoingOf, Adding, Correcting, Deleting, DeletingAll, Appending, At
  <2> QED BY <1>3, <2>1 DEF Doing
<1>8. \A u \in Threads : u # t => call'[u].result = "none"
  BY <1>3, OthersWait
<1>9. ResultsAreCommitted'
  BY <1>3, <1>8 DEF ResultsAreCommitted
<1>10. SearchIsSound'
  BY <1>3, <1>8 DEF SearchIsSound, Sound
<1> QED BY <1>4, <1>5, <1>6, <1>7, <1>9, <1>10

\* An exception leaves the block: nothing of it is left.
LEMMA RaiseKeeps ==
    ASSUME IInv, NEW t \in Threads, lock = t, call[t].todo # <<>>,
           NEW result \in {"ok", "error", "not_found"}, Raise(t, result),
           result = "ok" => call[t].method = "healthcheck"
    PROVE  IInv'
<1>1. Finish(t, {}, result) /\ work' = disk' /\ disk' = disk /\ fts5' = fts5
  BY DEF Raise, Finish
<1>2. disk' \in Tables /\ Len(disk'.memories) <= Len(disk.memories) + 1
  BY <1>1 DEF IInv, Type, Tables
<1>3. \A r \in disk'.turns : r.id + Cardinality(Pending) <= calls + 1
  <2>1. Cardinality(Pending) \in Nat /\ calls \in Nat /\ \A r \in disk.turns : r.id \in Nat
    BY FS_CardinalityType DEF IInv, Room, Type, Tables
  <2> QED BY <1>1, <2>1 DEF IInv, Room
<1>4. IndexMirrorsActive'
  BY <1>1 DEF IInv, IndexMirrorsActive, Memory!Ids
<1>5. {} \in SUBSET (1 .. MaxCalls)
  OBVIOUS
<1> QED BY <1>1, <1>2, <1>3, <1>4, <1>5, FinishKeeps DEF Writers

\* A statement fails.
LEMMA FailKeeps ==
    ASSUME IInv, NEW t \in Threads, StatementFails(t)
    PROVE  IInv'
<1>1. lock = t /\ call[t].todo # <<>>
  BY DEF StatementFails
<1>2. CASE call[t].method \in Writers
  BY <1>1, <1>2, RaiseKeeps DEF StatementFails
<1>3. CASE call[t].method \notin Writers
  <2>1. work = disk
    BY <1>1, <1>3 DEF IInv, Doing, DoingOf, Unchanged
  <2>2. Raise(t, "error")
    BY <1>3, <2>1 DEF StatementFails, Raise, Finish
  <2> QED BY <1>1, <2>2, RaiseKeeps
<1> QED BY <1>2, <1>3

\* A rollback: the connection sees what the disk holds.
LEMMA RollbackKeeps ==
    ASSUME IInv, NEW t \in Threads, Rollback(t)
    PROVE  IInv'
<1>1. lock = t /\ call[t].todo # <<>> /\ Head(call[t].todo) = "rollback"
  BY DEF Rollback, Executing
<1>2. call[t].method = "healthcheck"
  <2>1. call[t].method \in DOMAIN Program /\ Suffix(call[t].method, call[t].todo)
    BY <1>1, Inside DEF IInv
  <2> QED BY <1>1, <2>1, Where, MethodNames DEF Then, AtEnd
<1> QED BY <1>1, <1>2, RaiseKeeps DEF Rollback

-----------------------------------------------------------------------------
(* The lock, the calls and the crash.                                      *)

\* An empty database, nothing running and the lock free.
LEMMA InitIInv == Init => IInv
<1> SUFFICES ASSUME Init PROVE IInv
  OBVIOUS
<1> USE DEF Init
<1>1. Empty \in Tables /\ Len(Empty.memories) = 0 /\ Empty.turns = {}
  BY DEF Empty, Tables
<1>2. Idle \in CallRecord /\ Idle.method = "none" /\ Idle.result = "none"
  BY DEF Idle, CallRecord, Arguments
<1>3. Type
  BY <1>1, <1>2, StoreAssumption DEF Type
<1>4. Shape
  BY <1>2, StoreAssumption DEF Shape, CallShape
<1>5. Pending = {}
  BY <1>2 DEF Pending
<1>6. Room
  BY <1>1, <1>5, FS_EmptySet DEF Room
<1>7. Doing
  BY StoreAssumption DEF Doing
<1>8. IndexMirrorsActive
  BY DEF IndexMirrorsActive, Empty, Memory!Ids
<1>9. ResultsAreCommitted /\ SearchIsSound
  BY <1>2 DEF ResultsAreCommitted, SearchIsSound
<1> QED BY <1>3, <1>4, <1>6, <1>7, <1>8, <1>9 DEF IInv

\* Nothing a thread has done changes while the tables and its call stay.
LEMMA SameWork ==
    ASSUME NEW u \in Threads, call'[u] = call[u], UNCHANGED <<fts5, disk, work>>
    PROVE  /\ (Unchanged(u) => work = disk) => (Unchanged(u)' => work' = disk')
           /\ Adding(u) => Adding(u)'
           /\ Correcting(u) => Correcting(u)'
           /\ Deleting(u) => Deleting(u)'
           /\ DeletingAll(u) => DeletingAll(u)'
<1>1. Unchanged(u)' => Unchanged(u)
  BY DEF Unchanged, Reading, At
<1>2. Adding(u) => Adding(u)'
  BY DEF Adding, At, NewId, Entry
<1>3. Correcting(u) => Correcting(u)'
  BY DEF Correcting, NewId, Superseded, Without, Entry, Memory!OwnActive, Memory!Ids
<1>4. Deleting(u) => Deleting(u)'
  BY DEF Deleting, At, Without, Memory!OwnActive, Memory!Ids
<1>5. DeletingAll(u) => DeletingAll(u)'
  BY DEF DeletingAll, Without, AllDeleted, Memory!OwnActive, Memory!ActiveOf, Memory!Ids
<1> QED BY <1>1, <1>2, <1>3, <1>4, <1>5

\* A call is made: it is one more that may insert a row.
LEMMA CallKeeps ==
    ASSUME IInv, NEW t \in Threads, Call(t)
    PROVE  IInv'
<1> USE DEF IInv
<1>0. PICK m \in Methods : \E a \in Args(m) :
         call' = [call EXCEPT ![t] = [Idle EXCEPT !.method = m, !.todo = Program[m], !.arg = a]]
  BY DEF Call
<1>1. PICK a \in Args(m) :
         call' = [call EXCEPT ![t] = [Idle EXCEPT !.method = m, !.todo = Program[m], !.arg = a]]
  BY <1>0
<1>2. /\ call[t] = Idle /\ calls \in Nat /\ calls < MaxCalls /\ calls' = calls + 1
      /\ UNCHANGED <<fts5, disk, work, lock>>
  BY DEF Call, Type
<1>3. call[t].method = "none" /\ call[t].result = "none" /\ lock # t
  BY <1>2 DEF Idle, Shape, CallShape
<1>4. /\ m \in DOMAIN Program /\ Program[m] \in Seq(Statements)
      /\ Suffix(m, Program[m]) /\ Program[m] # <<>>
  BY MethodsAssumption, ProgramType, Whole
<1>5. a \in Arguments /\ a \in Args(m)'
  <2>1. Args(m) \subseteq Args(m)'
    BY <1>2, <1>4, ArgsGrow
  <2>2. Args(m) \subseteq Arguments
    BY <1>2, <1>4, MethodNames DEF Args, Arguments
  <2> QED BY <2>1, <2>2
<1>6. /\ call' \in [Threads -> CallRecord]
      /\ \A u \in Threads : u # t => call'[u] = call[u]
      /\ call'[t].method = m /\ call'[t].arg = a /\ call'[t].todo = Program[m]
      /\ call'[t].result = "none" /\ call'[t].found = {} /\ m # "none"
  <2> DEFINE c == [Idle EXCEPT !.method = m, !.todo = Program[m], !.arg = a]
  <2>1. /\ c \in CallRecord /\ c.method = m /\ c.arg = a /\ c.todo = Program[m]
        /\ c.result = "none" /\ c.found = {}
    BY <1>4, <1>5 DEF CallRecord, Idle
  <2>2. call \in [Threads -> CallRecord] /\ call' = [call EXCEPT ![t] = c]
    BY <1>1 DEF Type
  <2>3. m # "none"
    BY <1>4, MethodNames
  <2> HIDE DEF c
  <2> QED BY <2>1, <2>2, <2>3
<1>7. Type'
  BY <1>2, <1>6, StoreAssumption DEF Type, Tables
<1>8. Shape'
  <2>1. \A n \in DOMAIN Program : Args(n) \subseteq Args(n)'
    BY <1>2, ArgsGrow
  <2>2. CallShape(t)'
    BY <1>2, <1>3, <1>4, <1>5, <1>6 DEF CallShape
  <2>3. ASSUME NEW u \in Threads, u # t PROVE CallShape(u)'
    BY <1>2, <1>6, <2>1, <2>3, MethodsAssumption DEF Shape, CallShape
  <2> QED BY <2>2, <2>3 DEF Shape
<1>9. /\ Pending' = Pending \cup {t}
      /\ IsFiniteSet(Pending') /\ Cardinality(Pending') = Cardinality(Pending) + 1
      /\ Cardinality(Pending) \in Nat
  <2>1. Pending' = Pending \cup {t} /\ t \notin Pending
    BY <1>3, <1>6 DEF Pending
  <2> QED BY <2>1, FS_AddElement, FS_CardinalityType DEF Room
<1>10. Room'
  <2>1. Len(disk.memories) \in Nat /\ \A r \in disk.turns : r.id \in Nat
    BY DEF Type, Tables
  <2>2. Len(disk'.memories) + Cardinality(Pending') <= calls'
    BY <1>2, <1>9, <2>1 DEF Room
  <2>3. \A r \in disk'.turns : r.id + Cardinality(Pending') <= calls'
    <3> TAKE r \in disk'.turns
    <3>1. r \in disk.turns /\ r.id \in Nat /\ r.id + Cardinality(Pending) <= calls
      BY <1>2, <2>1 DEF Room
    <3> QED BY <1>2, <1>9, <3>1
  <2> QED BY <1>9, <2>2, <2>3 DEF Room
<1>11. Doing'
  <2>1. ASSUME NEW u \in Threads, lock = u PROVE DoingOf(u)'
    <3>1. u # t /\ call'[u] = call[u]
      BY <1>3, <1>6, <2>1
    <3>2. DoingOf(u)
      BY <2>1 DEF Doing
    <3>3. /\ Adding(u)' /\ Correcting(u)' /\ Deleting(u)' /\ DeletingAll(u)'
          /\ Unchanged(u)' => work' = disk'
      BY <1>2, <3>1, <3>2, SameWork DEF DoingOf
    <3>4. Appending(u)'
      <4>1. \A r \in work.turns : r.id \in Nat
        BY DEF Type, Tables
      <4> QED BY <1>2, <1>9, <3>1, <3>2, <4>1 DEF DoingOf, Appending, At
    <3> QED BY <3>3, <3>4 DEF DoingOf
  <2> QED BY <1>2, <2>1 DEF Doing
<1>12. IndexMirrorsActive'
  BY <1>2 DEF IndexMirrorsActive, Memory!Ids
<1>13. ResultsAreCommitted'
  <2>1. ASSUME NEW u \in Threads, u # t, Reported(u) PROVE Reported(u)'
    BY <1>2, <1>6, <2>1 DEF Reported, Memory!Ids, Memory!ActiveOf, Memory!OwnActive
  <2> QED BY <1>6, <2>1 DEF ResultsAreCommitted
<1>14. SearchIsSound'
  <2>1. ASSUME NEW u \in Threads, u # t, Sound(u) PROVE Sound(u)'
    BY <1>2, <1>6, <2>1 DEF Sound, Memory!Ids, Memory!ActiveOf, Memory!OwnActive
  <2> QED BY <1>6, <2>1 DEF SearchIsSound, Sound
<1> QED BY <1>7, <1>8, <1>10, <1>11, <1>12, <1>13, <1>14

\* The first statement of each method.
LEMMA Firsts ==
    /\ Head(Program["add_memory"]) = "insert" /\ Head(Program["correct_memory"]) = "find"
    /\ Head(Program["delete_memory"]) = "mark_deleted"
    /\ Head(Program["delete_all_memories"]) = "find_all"
    /\ Head(Program["append_turn"]) = "insert_turn"
BY Listing

\* The lock is taken when nothing is uncommitted.
LEMMA AcquireKeeps ==
    ASSUME IInv, NEW t \in Threads, Acquire(t)
    PROVE  IInv'
<1> USE DEF IInv
<1>1. /\ call[t].method # "none" /\ lock = Free /\ lock' = t
      /\ UNCHANGED <<fts5, disk, work, call, calls>>
  BY DEF Acquire
<1>2. \A u \in Threads : lock # u
  BY <1>1, StoreAssumption
<1>3. Type'
  BY <1>1 DEF Type, Tables
<1>4. Shape'
  <2>1. \A m \in DOMAIN Program : Args(m) \subseteq Args(m)'
    BY <1>1, ArgsGrow DEF Type
  <2>2. ASSUME NEW u \in Threads PROVE CallShape(u)'
    BY <1>1, <1>2, <2>1, <2>2, MethodsAssumption DEF Shape, CallShape
  <2> QED BY <2>2 DEF Shape
<1>5. Room'
  BY <1>1 DEF Room, Pending
<1>6. Doing'
  <2>1. call[t].method \in DOMAIN Program /\ call[t].todo = Program[call[t].method]
    BY <1>1, <1>2, MethodsAssumption DEF Shape, CallShape
  <2>2. work = disk
    BY <1>1 DEF Doing
  <2>3. Adding(t)' /\ Correcting(t)' /\ Deleting(t)' /\ DeletingAll(t)' /\ Appending(t)'
    BY <1>1, <2>1, Firsts DEF Adding, Correcting, Deleting, DeletingAll, Appending, At
  <2> QED BY <1>1, <1>2, <2>2, <2>3, StoreAssumption DEF Doing, DoingOf
<1>7. IndexMirrorsActive'
  BY <1>1 DEF IndexMirrorsActive, Memory!Ids
<1>8. \A u \in Threads : call'[u].result = "none"
  BY <1>1, <1>2, OthersWait
<1>9. ResultsAreCommitted' /\ SearchIsSound'
  BY <1>8 DEF ResultsAreCommitted, SearchIsSound
<1> QED BY <1>3, <1>4, <1>5, <1>6, <1>7, <1>9

\* The lock is given back with no transaction open.
LEMMA ReleaseKeeps ==
    ASSUME IInv, NEW t \in Threads, Release(t)
    PROVE  IInv'
<1> USE DEF IInv
<1>1. /\ lock = t /\ call[t].todo = <<>> /\ lock' = Free
      /\ call' = [call EXCEPT ![t] = Idle] /\ UNCHANGED <<fts5, disk, work, calls>>
  BY DEF Release
<1>2. call[t].method # "none" /\ call[t].result # "none"
  BY <1>1 DEF Shape, CallShape
<1>3. Idle \in CallRecord /\ Idle.method = "none" /\ Idle.result = "none"
  BY DEF Idle, CallRecord, Arguments
<1>4. /\ call' \in [Threads -> CallRecord] /\ call'[t] = Idle
      /\ \A u \in Threads : u # t => call'[u] = call[u]
  BY <1>1, <1>3 DEF Type
<1>5. Type'
  BY <1>1, <1>4 DEF Type, Tables
<1>6. Shape'
  <2>1. \A m \in DOMAIN Program : Args(m) \subseteq Args(m)'
    BY <1>1, ArgsGrow DEF Type
  <2>2. ASSUME NEW u \in Threads, u # t PROVE CallShape(u)'
    BY <1>1, <1>4, <2>1, <2>2, MethodsAssumption, StoreAssumption DEF Shape, CallShape
  <2>3. CallShape(t)'
    BY <1>1, <1>3, <1>4, StoreAssumption DEF CallShape
  <2> QED BY <2>2, <2>3 DEF Shape
<1>7. Room'
  <2>1. Pending' = Pending
    BY <1>2, <1>3, <1>4 DEF Pending
  <2> QED BY <1>1, <2>1 DEF Room
<1>8. Doing'
  <2>1. work = disk
    BY <1>1 DEF Doing, DoingOf, Unchanged
  <2> QED BY <1>1, <2>1, StoreAssumption DEF Doing
<1>9. IndexMirrorsActive'
  BY <1>1 DEF IndexMirrorsActive, Memory!Ids
<1>10. \A u \in Threads : call'[u].result = "none"
  BY <1>1, <1>3, <1>4, OthersWait
<1>11. ResultsAreCommitted' /\ SearchIsSound'
  BY <1>10 DEF ResultsAreCommitted, SearchIsSound
<1> QED BY <1>5, <1>6, <1>7, <1>8, <1>9, <1>11

\* After a crash everything is what the disk holds.
LEMMA CrashKeeps ==
    ASSUME IInv, Crash
    PROVE  IInv'
<1> USE DEF IInv
<1>1. /\ work' = disk /\ lock' = Free /\ call' = [t \in Threads |-> Idle]
      /\ UNCHANGED <<fts5, disk, calls>>
  BY DEF Crash
<1>2. Idle \in CallRecord /\ Idle.method = "none" /\ Idle.result = "none"
  BY DEF Idle, CallRecord, Arguments
<1>3. Type'
  BY <1>1, <1>2 DEF Type, Tables
<1>4. Shape'
  BY <1>1, <1>2, StoreAssumption DEF Shape, CallShape
<1>5. Pending' = {}
  BY <1>1, <1>2 DEF Pending
<1>6. Room'
  <2>1. /\ Cardinality(Pending) \in Nat /\ calls \in Nat
        /\ Len(disk.memories) \in Nat /\ \A r \in disk.turns : r.id \in Nat
    BY FS_CardinalityType DEF Room, Type, Tables
  <2> QED BY <1>1, <1>5, <2>1, FS_EmptySet DEF Room
<1>7. Doing'
  BY <1>1, StoreAssumption DEF Doing
<1>8. IndexMirrorsActive'
  BY <1>1 DEF IndexMirrorsActive, Memory!Ids
<1>9. ResultsAreCommitted' /\ SearchIsSound'
  BY <1>1, <1>2 DEF ResultsAreCommitted, SearchIsSound
<1> QED BY <1>3, <1>4, <1>6, <1>7, <1>8, <1>9

\* Nothing happens.
LEMMA StutterKeeps ==
    ASSUME IInv, UNCHANGED vars
    PROVE  IInv'
<1> USE DEF IInv, vars
<1>1. Type'
  BY DEF Type, Tables
<1>2. Shape'
  <2>1. \A m \in DOMAIN Program : Args(m) \subseteq Args(m)'
    BY ArgsGrow DEF Type
  <2> QED BY <2>1, MethodsAssumption DEF Shape, CallShape
<1>3. Room'
  BY DEF Room, Pending
<1>4. Doing'
  <2>1. ASSUME NEW u \in Threads, DoingOf(u) PROVE DoingOf(u)'
    <3>1. Appending(u)'
      BY <2>1 DEF DoingOf, Appending, At, Pending
    <3> QED BY <2>1, <3>1, SameWork DEF DoingOf
  <2> QED BY <2>1 DEF Doing
<1>5. IndexMirrorsActive' /\ ResultsAreCommitted' /\ SearchIsSound'
  BY DEF IndexMirrorsActive, ResultsAreCommitted, SearchIsSound, Reported,
         Memory!OwnActive, Memory!ActiveOf, Memory!Ids
<1> QED BY <1>1, <1>2, <1>3, <1>4, <1>5

-----------------------------------------------------------------------------
(* The tables, one column replaced.                                        *)

\* Replacing the table of memories gives tables.
LEMMA WithMemories ==
    ASSUME NEW w \in Tables, NEW m \in Seq(Memory!Row)
    PROVE  LET v == [w EXCEPT !.memories = m]
           IN  v \in Tables /\ v.memories = m /\ v.fts = w.fts /\ v.turns = w.turns
BY DEF Tables

\* Replacing the index gives tables.
LEMMA WithFts ==
    ASSUME NEW w \in Tables, NEW f \in SUBSET ((1 .. MaxCalls) \X Texts)
    PROVE  LET v == [w EXCEPT !.fts = f]
           IN  v \in Tables /\ v.memories = w.memories /\ v.fts = f /\ v.turns = w.turns
BY DEF Tables

\* Replacing the turns gives tables.
LEMMA WithTurns ==
    ASSUME NEW w \in Tables,
           NEW f \in SUBSET [id : 1 .. MaxCalls, conv : Conversations, content : Contents]
    PROVE  LET v == [w EXCEPT !.turns = f]
           IN  v \in Tables /\ v.memories = w.memories /\ v.fts = w.fts /\ v.turns = f
BY DEF Tables

\* The parts of the tables.
LEMMA Fields ==
    ASSUME NEW w \in Tables
    PROVE  /\ w.memories \in Seq(Memory!Row)
           /\ Len(w.memories) \in Nat /\ DOMAIN w.memories = 1 .. Len(w.memories)
           /\ w.fts \in SUBSET ((1 .. MaxCalls) \X Texts)
           /\ w.turns \in SUBSET [id : 1 .. MaxCalls, conv : Conversations, content : Contents]
BY DEF Tables

\* A new row is a row, active and with no successor.
LEMMA NewRowType ==
    ASSUME NEW u \in Users, NEW x \in Texts
    PROVE  /\ Memory!NewRow(u, x) \in Memory!Row /\ View!NewRow(u, x) = Memory!NewRow(u, x)
           /\ Memory!NewRow(u, x).user = u /\ Memory!NewRow(u, x).text = x
           /\ Memory!NewRow(u, x).status = "active"
BY DEF Memory!NewRow, View!NewRow, Memory!NoRow, View!NoRow, Memory!Row, Memory!Status

\* A call in its block has room for a row.
LEMMA RoomFor ==
    ASSUME IInv, NEW t \in Threads, lock = t, call[t].todo # <<>>
    PROVE  /\ NewId \in 1 .. MaxCalls /\ Len(disk.memories) < MaxCalls
           /\ Cardinality(Pending) \in Nat \ {0}
<1>1. t \in Pending /\ IsFiniteSet(Pending)
  BY Inside DEF IInv, Room
<1>2. Cardinality(Pending) \in Nat \ {0}
  BY <1>1, FS_CardinalityType, FS_EmptySet
<1>3. Len(disk.memories) \in Nat /\ calls \in 0 .. MaxCalls /\ MaxCalls \in Nat
  BY Fields, StoreAssumption DEF IInv, Type
<1> QED BY <1>2, <1>3 DEF IInv, Room, NewId

-----------------------------------------------------------------------------
(* The statements.                                                         *)

\* INSERT of a memory: one row more, the new one of this call.
LEMMA InsertKeeps ==
    ASSUME IInv, NEW t \in Threads, Insert(t)
    PROVE  IInv'
<1> DEFINE m == call[t].method  a == call[t].arg  td == call[t].todo
           new == Memory!NewRow(a.user, a.text)
<1>1. Executing(t, "insert") /\ lock = t /\ td # <<>> /\ Head(td) = "insert"
  BY DEF Insert, Executing
<1>2. m \in DOMAIN Program /\ a \in Args(m) /\ Suffix(m, td)
  BY <1>1, Inside DEF IInv
<1>3. \/ m = "add_memory" /\ Then(td, "insert", "fts_insert")
      \/ m = "correct_memory" /\ Then(td, "insert", "supersede")
  BY <1>1, <1>2, Where, MethodNames, SMTT(20) DEF Then, AtEnd
<1>4. a.user \in Users /\ a.text \in Texts
  BY <1>2, <1>3 DEF Args
<1>5. work = disk /\ disk \in Tables
  BY <1>1, <1>3 DEF IInv, Type, Doing, DoingOf, Unchanged, Reading, At
<1>6. m = "correct_memory" => Memory!OwnActive(a.user, a.id)
  BY <1>1 DEF IInv, Doing, DoingOf, Correcting
<1>7. Append(disk.memories, new) \in Seq(Memory!Row)
  BY <1>4, <1>5, Fields, NewRowType, AppendProperties
<1>8. /\ work' \in Tables /\ work'.memories = Append(disk.memories, new)
      /\ work'.fts = disk.fts /\ work'.turns = disk.turns
  <2>1. work' = [disk EXCEPT !.memories = Append(disk.memories, new)]
    BY <1>4, <1>5, NewRowType DEF Insert
  <2> QED BY <1>5, <1>7, <2>1, WithMemories
<1>9. Proceed(t, {NewId}) /\ {NewId} \in SUBSET (1 .. MaxCalls)
  BY <1>1, <1>5, RoomFor DEF Insert, NewId
<1>10. /\ fts5' = fts5 /\ disk' = disk
       /\ call'[t].method = m /\ call'[t].arg = a
       /\ call'[t].todo = Tail(td) /\ call'[t].found = {NewId}
  BY <1>1, <1>9, Proceeded DEF IInv
<1>11. DoingOf(t)'
  <2>1. NewId' = NewId /\ (m = "correct_memory" => Memory!OwnActive(a.user, a.id)')
    BY <1>6, <1>10 DEF NewId, Memory!OwnActive, Memory!Ids
  <2>2. CASE m = "add_memory" /\ Then(td, "insert", "fts_insert")
    BY <1>8, <1>10, <2>1, <2>2 DEF Then, DoingOf, Unchanged, Reading, At, Writers, Adding, Correcting,
           Deleting, DeletingAll, Appending
  <2>3. CASE m = "correct_memory" /\ Then(td, "insert", "supersede")
    BY <1>8, <1>10, <2>1, <2>3 DEF Then, DoingOf, Unchanged, Reading, At, Writers, Adding, Correcting,
           Deleting, DeletingAll, Appending
  <2> QED BY <1>3, <2>2, <2>3
<1> QED BY <1>1, <1>8, <1>9, <1>11, ProceedKeeps

\* The lookup of correct_memory.
LEMMA FindKeeps ==
    ASSUME IInv, NEW t \in Threads, Find(t)
    PROVE  IInv'
<1> DEFINE m == call[t].method  a == call[t].arg  td == call[t].todo
<1>1. Executing(t, "find") /\ lock = t /\ td # <<>> /\ Head(td) = "find"
  BY DEF Find, Executing
<1>2. m \in DOMAIN Program /\ Suffix(m, td)
  BY <1>1, Inside DEF IInv
<1>3. m = "correct_memory" /\ Then(td, "find", "insert")
  BY <1>1, <1>2, Where, MethodNames, SMTT(20) DEF Then, AtEnd
<1>4. work = disk /\ disk \in Tables
  BY <1>1, <1>3 DEF IInv, Type, Doing, DoingOf, Unchanged, Reading, At
<1>5. CASE View!OwnActive(a.user, a.id)
  <2>1. Proceed(t, {}) /\ work' = work /\ {} \in SUBSET (1 .. MaxCalls)
    BY <1>5 DEF Find
  <2>2. /\ fts5' = fts5 /\ disk' = disk
        /\ call'[t].method = m /\ call'[t].arg = a /\ call'[t].todo = Tail(td)
    BY <1>1, <2>1, Proceeded DEF IInv
  <2>3. Memory!OwnActive(a.user, a.id)'
    BY <1>4, <1>5, <2>2 DEF View!OwnActive, View!Ids, Memory!OwnActive, Memory!Ids
  <2>4. DoingOf(t)'
    BY <1>3, <1>4, <2>1, <2>2, <2>3 DEF Then, DoingOf, Unchanged, Reading, At, Writers, Adding,
           Correcting, Deleting, DeletingAll, Appending
  <2> QED BY <1>1, <1>4, <2>1, <2>4, ProceedKeeps
<1>6. CASE ~ View!OwnActive(a.user, a.id)
  BY <1>1, <1>6, RaiseKeeps DEF Find
<1> QED BY <1>5, <1>6

\* A row after it is superseded.
Old(i) == [disk.memories[i] EXCEPT !.status = "superseded", !.superseded_by = NewId]

\* What marking a row of the table as superseded gives.
LEMMA SupersededRows ==
    ASSUME disk \in Tables, NEW i \in DOMAIN disk.memories
    PROVE  /\ Superseded(i) \in Seq(Memory!Row) /\ Len(Superseded(i)) = Len(disk.memories)
           /\ \A j \in 1 .. Len(disk.memories) : j # i => Superseded(i)[j] = disk.memories[j]
           /\ Superseded(i)[i] = Old(i)
           /\ Old(i) \in Memory!Row
           /\ Old(i).user = disk.memories[i].user /\ Old(i).text = disk.memories[i].text
           /\ Old(i).status = "superseded" /\ Old(i).superseded_by = NewId
<1>1. /\ disk.memories \in Seq(Memory!Row) /\ i \in 1 .. Len(disk.memories)
      /\ Len(disk.memories) \in Nat
  BY Fields
<1>2. disk.memories[i] \in Memory!Row /\ NewId \in Nat
  BY <1>1, ElementOfSeq DEF NewId
<1>3. /\ Old(i) \in Memory!Row
      /\ Old(i).user = disk.memories[i].user /\ Old(i).text = disk.memories[i].text
      /\ Old(i).status = "superseded" /\ Old(i).superseded_by = NewId
  BY <1>2 DEF Old, Memory!Row, Memory!Status
<1>4. Superseded(i) = [disk.memories EXCEPT ![i] = Old(i)]
  BY DEF Superseded, Old
<1>5. /\ Superseded(i) \in Seq(Memory!Row) /\ Len(Superseded(i)) = Len(disk.memories)
      /\ \A j \in 1 .. Len(disk.memories) :
            Superseded(i)[j] = IF j = i THEN Old(i) ELSE disk.memories[j]
  BY <1>1, <1>3, <1>4, ExceptSeq
<1> QED BY <1>1, <1>3, <1>5

\* Two columns of a row set by one UPDATE.
LEMMA TwoColumns ==
    ASSUME NEW w \in Tables, NEW i \in DOMAIN w.memories, NEW n
    PROVE  [w EXCEPT !.memories[i].status = "superseded", !.memories[i].superseded_by = n]
           = [w EXCEPT !.memories = [w.memories EXCEPT ![i] =
                 [w.memories[i] EXCEPT !.status = "superseded", !.superseded_by = n]]]
<1> DEFINE one == [w.memories[i] EXCEPT !.status = "superseded"]
           rows == [w.memories EXCEPT ![i] = one]
           w1 == [w EXCEPT !.memories = rows]
<1>1. w1.memories = rows
  BY DEF Tables
<1>2. rows[i] = one
  OBVIOUS
<1>3. [w1 EXCEPT !.memories[i].superseded_by = n]
      = [w1 EXCEPT !.memories = [w1.memories EXCEPT ![i] = [w1.memories[i] EXCEPT !.superseded_by = n]]]
  BY Zenon
<1>4. @ = [w1 EXCEPT !.memories = [rows EXCEPT ![i] = [one EXCEPT !.superseded_by = n]]]
  <2> HIDE DEF w1, rows, one
  <2> QED BY <1>1, <1>2
<1>5. @ = [w EXCEPT !.memories = [w.memories EXCEPT ![i] = [one EXCEPT !.superseded_by = n]]]
  <2> HIDE DEF one
  <2> QED OBVIOUS
<1>6. [one EXCEPT !.superseded_by = n]
      = [w.memories[i] EXCEPT !.status = "superseded", !.superseded_by = n]
  OBVIOUS
<1>7. [w EXCEPT !.memories[i].status = "superseded", !.memories[i].superseded_by = n]
      = [w1 EXCEPT !.memories[i].superseded_by = n]
  OBVIOUS
<1> HIDE DEF one, rows, w1
<1> QED BY <1>3, <1>4, <1>5, <1>6, <1>7

\* UPDATE of the corrected row: it points at the row just inserted.
LEMMA SupersedeKeeps ==
    ASSUME IInv, NEW t \in Threads, Supersede(t)
    PROVE  IInv'
<1> DEFINE m == call[t].method  a == call[t].arg  td == call[t].todo
           new == Memory!NewRow(a.user, a.text)
<1>1. Executing(t, "supersede") /\ lock = t /\ td # <<>> /\ Head(td) = "supersede"
  BY DEF Supersede, Executing
<1>2. m \in DOMAIN Program /\ a \in Args(m) /\ Suffix(m, td)
  BY <1>1, Inside DEF IInv
<1>3. m = "correct_memory" /\ Then(td, "supersede", "fts_delete")
  BY <1>1, <1>2, Where, MethodNames, SMTT(20) DEF Then, AtEnd
<1>4. a.user \in Users /\ a.text \in Texts
  BY <1>2, <1>3 DEF Args
<1>5. /\ Memory!OwnActive(a.user, a.id) /\ call[t].found = {NewId}
      /\ work.memories = Append(disk.memories, new)
      /\ work.fts = disk.fts /\ work.turns = disk.turns
      /\ disk \in Tables /\ work \in Tables
  BY <1>1, <1>3 DEF IInv, Type, Doing, DoingOf, Correcting
<1>6. a.id \in DOMAIN disk.memories
  BY <1>5 DEF Memory!OwnActive, Memory!Ids
<1>7. [work.memories EXCEPT ![a.id] = Old(a.id)] = Append(Superseded(a.id), new)
  <2> DEFINE before == disk.memories  i == a.id  after == Superseded(i)  all == work.memories
             old == Old(i)
  <2>1. /\ before \in Seq(Memory!Row) /\ new \in Memory!Row /\ i \in 1 .. Len(before)
        /\ Len(before) \in Nat
    BY <1>4, <1>5, <1>6, Fields, NewRowType
  <2>2. /\ after \in Seq(Memory!Row) /\ Len(after) = Len(before) /\ after[i] = old
        /\ old \in Memory!Row
        /\ \A j \in 1 .. Len(before) : j # i => after[j] = before[j]
    <3> HIDE DEF i
    <3>1. disk \in Tables /\ i \in DOMAIN disk.memories
      BY <1>5, <1>6 DEF i
    <3> QED BY <3>1, SupersededRows
  <2> HIDE DEF new
  <2>3. /\ all \in Seq(Memory!Row) /\ Len(all) = Len(before) + 1
        /\ \A j \in 1 .. Len(before) : all[j] = before[j]
        /\ all[Len(before) + 1] = new
    BY <1>5, <2>1, AppendProperties
  <2> HIDE DEF before, i, after, all, old
  <2>4. /\ Append(after, new) \in Seq(Memory!Row) /\ Len(Append(after, new)) = Len(before) + 1
        /\ \A j \in 1 .. Len(before) : Append(after, new)[j] = after[j]
        /\ Append(after, new)[Len(before) + 1] = new
    BY <2>1, <2>2, AppendProperties
  <2>5. i \in 1 .. Len(all)
    BY <2>1, <2>3
  <2> DEFINE one == [all EXCEPT ![i] = old]  two == Append(after, new)
  <2>6. /\ one \in Seq(Memory!Row) /\ Len(one) = Len(all)
        /\ \A j \in 1 .. Len(all) : one[j] = IF j = i THEN old ELSE all[j]
    BY <2>2, <2>3, <2>5, ExceptSeq
  <2> HIDE DEF one, two
  <2>7. \A j \in 1 .. Len(before) + 1 : one[j] = two[j]
    <3>1. one[Len(before) + 1] = two[Len(before) + 1]
      <4>1. Len(before) + 1 # i /\ Len(before) + 1 \in 1 .. Len(all)
        BY <2>1, <2>3
      <4> QED BY <2>3, <2>4, <2>6, <4>1 DEF two
    <3>2. ASSUME NEW j \in 1 .. Len(before) PROVE one[j] = two[j]
      <4>1. j \in 1 .. Len(all)
        BY <2>1, <2>3
      <4>2. one[j] = (IF j = i THEN old ELSE before[j])
        BY <2>3, <2>6, <4>1
      <4> QED BY <2>2, <2>4, <4>2 DEF two
    <3> QED BY <2>1, <3>1, <3>2
  <2>8. one = two
    <3>1. two \in Seq(Memory!Row) /\ Len(two) = Len(one) /\ Len(one) = Len(before) + 1
      BY <2>3, <2>4, <2>6 DEF two
    <3> QED BY <2>6, <2>7, <3>1, SeqEqual
  <2> QED BY <2>8 DEF before, i, after, all, old, one, two
<1>8. Append(Superseded(a.id), new) \in Seq(Memory!Row)
  <2>1. new \in Memory!Row
    BY <1>4, NewRowType
  <2>2. Superseded(a.id) \in Seq(Memory!Row)
    <3> DEFINE i == a.id
    <3> HIDE DEF i
    <3>1. disk \in Tables /\ i \in DOMAIN disk.memories
      BY <1>5, <1>6 DEF i
    <3>2. Superseded(i) \in Seq(Memory!Row)
      BY <3>1, SupersededRows
    <3> QED BY <3>2 DEF i
  <2> QED BY <2>1, <2>2, AppendProperties
<1>9. work' = [work EXCEPT !.memories = Append(Superseded(a.id), new)]
  <2>1. (CHOOSE i \in call[t].found : TRUE) = NewId
    BY <1>5
  <2>2. work' = [work EXCEPT !.memories = [work.memories EXCEPT ![a.id] = Old(a.id)]]
    <3>1. work' = [work EXCEPT !.memories[a.id].status = "superseded",
                               !.memories[a.id].superseded_by = NewId]
      BY <2>1 DEF Supersede
    <3>2. work \in Tables /\ a.id \in DOMAIN work.memories
      <4>1. /\ disk.memories \in Seq(Memory!Row) /\ new \in Memory!Row
            /\ a.id \in 1 .. Len(disk.memories) /\ Len(disk.memories) \in Nat
        BY <1>4, <1>5, <1>6, Fields, NewRowType
      <4>2. Len(work.memories) = Len(disk.memories) + 1
        BY <1>5, <4>1, AppendProperties
      <4> QED BY <1>5, <4>1, <4>2, Fields
    <3>3. work.memories[a.id] = disk.memories[a.id]
      <4>1. /\ disk.memories \in Seq(Memory!Row) /\ new \in Memory!Row
            /\ a.id \in 1 .. Len(disk.memories)
        BY <1>4, <1>5, <1>6, Fields, NewRowType
      <4> QED BY <1>5, <4>1, AppendProperties
    <3>4. [work.memories[a.id] EXCEPT !.status = "superseded", !.superseded_by = NewId] = Old(a.id)
      BY <3>3 DEF Old
    <3> DEFINE i == a.id
    <3> HIDE DEF i
    <3>5. [work EXCEPT !.memories[i].status = "superseded", !.memories[i].superseded_by = NewId]
          = [work EXCEPT !.memories = [work.memories EXCEPT ![i] =
                [work.memories[i] EXCEPT !.status = "superseded", !.superseded_by = NewId]]]
      <4>1. i \in DOMAIN work.memories
        BY <3>2 DEF i
      <4> QED BY <3>2, <4>1, TwoColumns, ZenonT(40)
    <3> QED BY <3>1, <3>4, <3>5 DEF i
  <2> QED BY <1>7, <2>2
<1>10. /\ work' \in Tables /\ work'.memories = Append(Superseded(a.id), new)
       /\ work'.fts = disk.fts /\ work'.turns = disk.turns
  BY <1>5, <1>8, <1>9, WithMemories
<1>11. Proceed(t, {NewId}) /\ {NewId} \in SUBSET (1 .. MaxCalls)
  BY <1>1, <1>5, RoomFor DEF Supersede
<1>12. /\ fts5' = fts5 /\ disk' = disk
       /\ call'[t].method = m /\ call'[t].arg = a
       /\ call'[t].todo = Tail(td) /\ call'[t].found = {NewId}
  BY <1>1, <1>11, Proceeded DEF IInv
<1>13. DoingOf(t)'
  <2>1. NewId' = NewId /\ Superseded(a.id)' = Superseded(a.id) /\ Memory!OwnActive(a.user, a.id)'
    BY <1>5, <1>12 DEF NewId, Superseded, Memory!OwnActive, Memory!Ids
  <2> QED BY <1>3, <1>10, <1>12, <2>1 DEF Then, DoingOf, Unchanged, Reading, At, Writers, Adding,
           Correcting, Deleting, DeletingAll, Appending
<1> QED BY <1>1, <1>10, <1>11, <1>13, ProceedKeeps

\* The index entry of the row the method has inserted.
LEMMA FtsInsertKeeps ==
    ASSUME IInv, NEW t \in Threads, FtsInsert(t)
    PROVE  IInv'
<1> DEFINE m == call[t].method  a == call[t].arg  td == call[t].todo
<1>1. Executing(t, "fts_insert") /\ lock = t /\ td # <<>> /\ Head(td) = "fts_insert"
  BY DEF FtsInsert, Executing
<1>2. m \in DOMAIN Program /\ a \in Args(m) /\ Suffix(m, td)
  BY <1>1, Inside DEF IInv
<1>3. m \in {"add_memory", "correct_memory"} /\ Then(td, "fts_insert", "commit")
  BY <1>1, <1>2, Where, MethodNames, SMTT(20) DEF Then, AtEnd
<1>4. a.text \in Texts
  BY <1>2, <1>3 DEF Args
<1>5. call[t].found = {NewId} /\ work \in Tables
  BY <1>1, <1>3 DEF IInv, Type, Doing, DoingOf, Adding, Correcting, At
<1>6. Entry(NewId, a.text) \subseteq (1 .. MaxCalls) \X Texts
  BY <1>1, <1>4, RoomFor DEF Entry
<1>7. work' = [work EXCEPT !.fts = work.fts \cup Entry(NewId, a.text)]
  <2>1. call[t].found \X {a.text} = {<<NewId, a.text>>}
    BY <1>5
  <2>2. (IF fts5 THEN work.fts \cup (call[t].found \X {a.text}) ELSE work.fts)
        = work.fts \cup Entry(NewId, a.text)
    BY <2>1 DEF Entry
  <2>3. work' = [work EXCEPT !.fts =
                   IF fts5 THEN work.fts \cup (call[t].found \X {a.text}) ELSE work.fts]
    BY DEF FtsInsert
  <2> QED BY <2>2, <2>3
<1>8. /\ work' \in Tables /\ work'.memories = work.memories /\ work'.turns = work.turns
      /\ work'.fts = work.fts \cup Entry(NewId, a.text)
  <2>1. work.fts \cup Entry(NewId, a.text) \in SUBSET ((1 .. MaxCalls) \X Texts)
    BY <1>5, <1>6, Fields
  <2> HIDE DEF a
  <2> QED BY <1>5, <1>7, <2>1, WithFts
<1>9. Proceed(t, {NewId}) /\ {NewId} \in SUBSET (1 .. MaxCalls)
  BY <1>1, <1>5, RoomFor DEF FtsInsert
<1>10. /\ fts5' = fts5 /\ disk' = disk
       /\ call'[t].method = m /\ call'[t].arg = a
       /\ call'[t].todo = Tail(td) /\ call'[t].found = {NewId}
  BY <1>1, <1>9, Proceeded DEF IInv
<1>11. DoingOf(t)'
  <2>1. /\ NewId' = NewId /\ Entry(NewId, a.text)' = Entry(NewId, a.text)
        /\ Memory!OwnActive(a.user, a.id)' = Memory!OwnActive(a.user, a.id)
        /\ Superseded(a.id)' = Superseded(a.id) /\ Without({a.id})' = Without({a.id})
    BY <1>10 DEF NewId, Entry, Superseded, Without, Memory!OwnActive, Memory!Ids
  <2>2. DoingOf(t)
    BY <1>1 DEF IInv, Doing
  <2>3. CASE m = "add_memory"
    BY <1>3, <1>8, <1>10, <2>1, <2>2, <2>3 DEF Then, DoingOf, Unchanged, Reading, At, Writers,
           Adding, Correcting, Deleting, DeletingAll, Appending
  <2>4. CASE m = "correct_memory"
    <3>1. /\ Memory!OwnActive(a.user, a.id)
          /\ work.turns = disk.turns /\ work.fts = Without({a.id})
          /\ work.memories = Append(Superseded(a.id), Memory!NewRow(a.user, a.text))
      BY <1>1, <2>2, <2>4 DEF DoingOf, Correcting
    <3>2. Correcting(t)'
      BY <1>3, <1>8, <1>10, <2>1, <3>1 DEF Then, Correcting
    <3> QED BY <1>3, <1>10, <2>4, <3>2 DEF Then, DoingOf, Unchanged, Reading, At, Writers,
               Adding, Deleting, DeletingAll, Appending
  <2> QED BY <1>3, <2>3, <2>4
<1> QED BY <1>1, <1>8, <1>9, <1>11, ProceedKeeps

\* What unindexing rows gives, in the terms of Doing.
LEMMA Unindexed ==
    ASSUME disk \in Tables, work \in Tables, work.fts = disk.fts, fts5 \in BOOLEAN,
           NEW ids, work' = IF fts5 THEN Unindex(ids) ELSE work
    PROVE  /\ work' \in Tables /\ work'.memories = work.memories /\ work'.turns = work.turns
           /\ work'.fts = Without(ids)
<1>1. CASE fts5
  <2> DEFINE left == {e \in work.fts : e[1] \notin ids}
  <2>1. left \in SUBSET ((1 .. MaxCalls) \X Texts)
    BY Fields
  <2>2. work' = [work EXCEPT !.fts = left] /\ left = Without(ids)
    BY <1>1 DEF Unindex, Without
  <2> HIDE DEF left
  <2>3. LET v == [work EXCEPT !.fts = left]
        IN  v \in Tables /\ v.memories = work.memories /\ v.fts = left /\ v.turns = work.turns
    BY <2>1, WithFts
  <2> QED BY <2>2, <2>3
<1>2. CASE ~ fts5
  BY <1>2 DEF Without
<1> QED BY <1>1, <1>2

\* The old version, or the deleted row, leaves the index.
LEMMA FtsDeleteKeeps ==
    ASSUME IInv, NEW t \in Threads, FtsDelete(t)
    PROVE  IInv'
<1> DEFINE m == call[t].method  a == call[t].arg  td == call[t].todo
<1>1. Executing(t, "fts_delete") /\ lock = t /\ td # <<>> /\ Head(td) = "fts_delete"
  BY DEF FtsDelete, Executing
<1>2. m \in DOMAIN Program /\ a \in Args(m) /\ Suffix(m, td)
  BY <1>1, Inside DEF IInv
<1>3. \/ m = "correct_memory" /\ Then(td, "fts_delete", "fts_insert")
      \/ m = "delete_memory" /\ Then(td, "fts_delete", "commit")
  BY <1>1, <1>2, Where, MethodNames, SMTT(20) DEF Then, AtEnd
<1>4. DoingOf(t) /\ disk \in Tables /\ work \in Tables /\ fts5 \in BOOLEAN
  BY <1>1 DEF IInv, Type, Doing
<1>5. work.fts = disk.fts
  BY <1>1, <1>3, <1>4 DEF DoingOf, Correcting, Deleting, At
<1>6. /\ work' \in Tables /\ work'.memories = work.memories /\ work'.turns = work.turns
      /\ work'.fts = Without({a.id})
  <2>1. work' = IF fts5 THEN Unindex({a.id}) ELSE work
    BY DEF FtsDelete
  <2> HIDE DEF a
  <2> QED BY <1>4, <1>5, <2>1, Unindexed
<1>7. Proceed(t, call[t].found) /\ call[t].found \in SUBSET (1 .. MaxCalls)
  BY <1>1, Inside DEF FtsDelete, IInv, CallRecord
<1>8. /\ fts5' = fts5 /\ disk' = disk
      /\ call'[t].method = m /\ call'[t].arg = a
      /\ call'[t].todo = Tail(td) /\ call'[t].found = call[t].found
  BY <1>1, <1>7, Proceeded DEF IInv
<1>9. DoingOf(t)'
  <2>1. /\ NewId' = NewId /\ Without({a.id})' = Without({a.id})
        /\ Memory!OwnActive(a.user, a.id)' = Memory!OwnActive(a.user, a.id)
        /\ Superseded(a.id)' = Superseded(a.id)
    BY <1>8 DEF NewId, Superseded, Without, Memory!OwnActive, Memory!Ids
  <2>2. CASE m = "correct_memory" /\ Then(td, "fts_delete", "fts_insert")
    BY <1>4, <1>6, <1>8, <2>1, <2>2, SMTT(20) DEF Then, DoingOf, Unchanged, Reading, At, Writers,
           Adding, Correcting, Deleting, DeletingAll, Appending
  <2>3. CASE m = "delete_memory" /\ Then(td, "fts_delete", "commit")
    BY <1>4, <1>6, <1>8, <2>1, <2>3, SMTT(20) DEF Then, DoingOf, Unchanged, Reading, At, Writers,
           Adding, Correcting, Deleting, DeletingAll, Appending
  <2> QED BY <1>3, <2>2, <2>3
<1> QED BY <1>1, <1>6, <1>7, <1>9, ProceedKeeps

\* What marking one row as deleted gives.
LEMMA DeletedRows ==
    ASSUME NEW w \in Tables, NEW i \in DOMAIN w.memories
    PROVE  /\ [w.memories EXCEPT ![i].status = "deleted"] \in Seq(Memory!Row)
           /\ Len([w.memories EXCEPT ![i].status = "deleted"]) = Len(w.memories)
           /\ \A j \in 1 .. Len(w.memories) :
                 [w.memories EXCEPT ![i].status = "deleted"][j]
                 = IF j = i THEN [w.memories[i] EXCEPT !.status = "deleted"] ELSE w.memories[j]
           /\ [w.memories[i] EXCEPT !.status = "deleted"] \in Memory!Row
           /\ [w.memories[i] EXCEPT !.status = "deleted"].status = "deleted"
<1> DEFINE old == [w.memories[i] EXCEPT !.status = "deleted"]
<1>1. /\ w.memories \in Seq(Memory!Row) /\ i \in 1 .. Len(w.memories)
      /\ Len(w.memories) \in Nat
  BY Fields
<1>2. w.memories[i] \in Memory!Row
  BY <1>1, ElementOfSeq
<1>3. old \in Memory!Row /\ old.status = "deleted"
  BY <1>2 DEF Memory!Row, Memory!Status
<1>4. [w.memories EXCEPT ![i].status = "deleted"] = [w.memories EXCEPT ![i] = old]
  OBVIOUS
<1> HIDE DEF old
<1>5. /\ [w.memories EXCEPT ![i] = old] \in Seq(Memory!Row)
      /\ Len([w.memories EXCEPT ![i] = old]) = Len(w.memories)
      /\ \A j \in 1 .. Len(w.memories) :
            [w.memories EXCEPT ![i] = old][j] = IF j = i THEN old ELSE w.memories[j]
  BY <1>1, <1>3, ExceptSeq
<1> QED BY <1>3, <1>4, <1>5 DEF old

\* delete_memory's update: it raises when it has touched no row.
LEMMA MarkDeletedKeeps ==
    ASSUME IInv, NEW t \in Threads, MarkDeleted(t)
    PROVE  IInv'
<1> DEFINE m == call[t].method  a == call[t].arg  td == call[t].todo
<1>1. Executing(t, "mark_deleted") /\ lock = t /\ td # <<>> /\ Head(td) = "mark_deleted"
  BY DEF MarkDeleted, Executing
<1>2. m \in DOMAIN Program /\ Suffix(m, td)
  BY <1>1, Inside DEF IInv
<1>3. m = "delete_memory" /\ Then(td, "mark_deleted", "fts_delete")
  BY <1>1, <1>2, Where, MethodNames, SMTT(20) DEF Then, AtEnd
<1>4. work = disk /\ disk \in Tables
  BY <1>1, <1>3 DEF IInv, Type, Doing, DoingOf, Unchanged, Reading, At
<1>5. CASE View!OwnActive(a.user, a.id)
  <2>1. Memory!OwnActive(a.user, a.id) /\ a.id \in DOMAIN disk.memories
    BY <1>4, <1>5 DEF View!OwnActive, View!Ids, Memory!OwnActive, Memory!Ids
  <2> DEFINE rows == [disk.memories EXCEPT ![a.id].status = "deleted"]
  <2>2. rows \in Seq(Memory!Row)
    BY <1>4, <2>1, DeletedRows
  <2>3. work' = [disk EXCEPT !.memories = rows]
    BY <1>4, <1>5 DEF MarkDeleted
  <2>4. /\ work' \in Tables /\ work'.memories = rows
        /\ work'.fts = disk.fts /\ work'.turns = disk.turns
    <3> HIDE DEF rows
    <3> QED BY <1>4, <2>2, <2>3, WithMemories
  <2>5. Proceed(t, {a.id}) /\ {a.id} \in SUBSET (1 .. MaxCalls)
    <3>1. /\ a.id \in 1 .. Len(disk.memories) /\ Len(disk.memories) < MaxCalls
          /\ Len(disk.memories) \in Nat /\ MaxCalls \in Nat
      BY <1>1, <1>4, <2>1, Fields, RoomFor, StoreAssumption
    <3> QED BY <1>5, <3>1 DEF MarkDeleted
  <2>6. /\ fts5' = fts5 /\ disk' = disk
        /\ call'[t].method = m /\ call'[t].arg = a /\ call'[t].todo = Tail(td)
    BY <1>1, <2>5, Proceeded DEF IInv
  <2>7. DoingOf(t)'
    <3>1. Memory!OwnActive(a.user, a.id)'
      BY <2>1, <2>6 DEF Memory!OwnActive, Memory!Ids
    <3> QED BY <1>3, <2>4, <2>6, <3>1 DEF Then, DoingOf, Unchanged, Reading, At, Writers,
           Adding, Correcting, Deleting, DeletingAll, Appending
  <2> QED BY <1>1, <2>4, <2>5, <2>7, ProceedKeeps
<1>6. CASE ~ View!OwnActive(a.user, a.id)
  BY <1>1, <1>6, RaiseKeeps DEF MarkDeleted
<1> QED BY <1>5, <1>6

\* The rows a call may name are row ids.
LEMMA IdsAreRowIds ==
    ASSUME IInv, NEW t \in Threads, lock = t, call[t].todo # <<>>, NEW u
    PROVE  /\ Memory!ActiveOf(u) \in SUBSET (1 .. MaxCalls)
           /\ IsFiniteSet(Memory!ActiveOf(u))
<1>1. /\ DOMAIN disk.memories = 1 .. Len(disk.memories) /\ Len(disk.memories) < MaxCalls
      /\ Len(disk.memories) \in Nat /\ MaxCalls \in Nat
  BY Fields, RoomFor, StoreAssumption DEF IInv, Type
<1>2. Memory!ActiveOf(u) \subseteq 1 .. Len(disk.memories)
  BY <1>1 DEF Memory!ActiveOf, Memory!Ids
<1>3. IsFiniteSet(1 .. Len(disk.memories))
  BY <1>1, FS_Interval
<1> QED BY <1>1, <1>2, <1>3, FS_Subset

\* SELECT of the user's active rows: those delete-all will retire.
LEMMA FindAllKeeps ==
    ASSUME IInv, NEW t \in Threads, FindAll(t)
    PROVE  IInv'
<1> DEFINE m == call[t].method  a == call[t].arg  td == call[t].todo
<1>1. Executing(t, "find_all") /\ lock = t /\ td # <<>> /\ Head(td) = "find_all"
  BY DEF FindAll, Executing
<1>2. m \in DOMAIN Program /\ Suffix(m, td)
  BY <1>1, Inside DEF IInv
<1>3. m = "delete_all_memories" /\ Then(td, "find_all", "mark_all_deleted")
  BY <1>1, <1>2, Where, MethodNames, SMTT(20) DEF Then, AtEnd
<1>4. work = disk /\ disk \in Tables
  BY <1>1, <1>3 DEF IInv, Type, Doing, DoingOf, Unchanged, Reading, At
<1>5. View!ActiveOf(a.user) = Memory!ActiveOf(a.user)
  BY <1>4 DEF View!ActiveOf, View!OwnActive, View!Ids, Memory!ActiveOf, Memory!OwnActive, Memory!Ids
<1>6. /\ Proceed(t, Memory!ActiveOf(a.user)) /\ work' = work
      /\ Memory!ActiveOf(a.user) \in SUBSET (1 .. MaxCalls)
  BY <1>1, <1>5, IdsAreRowIds DEF FindAll
<1>7. /\ fts5' = fts5 /\ disk' = disk
      /\ call'[t].method = m /\ call'[t].arg = a /\ call'[t].todo = Tail(td)
      /\ call'[t].found = Memory!ActiveOf(a.user)
  BY <1>1, <1>6, Proceeded DEF IInv
<1>8. DoingOf(t)'
  <2>1. Memory!ActiveOf(a.user)' = Memory!ActiveOf(a.user)
    BY <1>7 DEF Memory!ActiveOf, Memory!OwnActive, Memory!Ids
  <2> QED BY <1>3, <1>4, <1>6, <1>7, <2>1 DEF Then, DoingOf, Unchanged, Reading, At, Writers,
           Adding, Correcting, Deleting, DeletingAll, Appending
<1> QED BY <1>1, <1>4, <1>6, <1>8, ProceedKeeps

\* What marking all the rows of a user as deleted gives.
LEMMA AllDeletedRows ==
    ASSUME disk \in Tables, NEW u
    PROVE  /\ AllDeleted(u) \in Seq(Memory!Row)
           /\ Len(AllDeleted(u)) = Len(disk.memories)
           /\ DOMAIN AllDeleted(u) = DOMAIN disk.memories
           /\ \A i \in DOMAIN disk.memories :
                 AllDeleted(u)[i] = IF Memory!OwnActive(u, i)
                                    THEN [disk.memories[i] EXCEPT !.status = "deleted"]
                                    ELSE disk.memories[i]
<1>1. /\ disk.memories \in Seq(Memory!Row) /\ Len(disk.memories) \in Nat
      /\ DOMAIN disk.memories = 1 .. Len(disk.memories)
  BY Fields
<1>2. \A i \in DOMAIN disk.memories : disk.memories[i] \in Memory!Row
  BY <1>1, ElementOfSeq
<1>3. \A r \in Memory!Row : /\ [r EXCEPT !.status = r.status] = r
                            /\ [r EXCEPT !.status = "deleted"] \in Memory!Row
  BY DEF Memory!Row, Memory!Status
<1>4. \A i \in DOMAIN disk.memories :
         AllDeleted(u)[i] = IF Memory!OwnActive(u, i)
                            THEN [disk.memories[i] EXCEPT !.status = "deleted"]
                            ELSE disk.memories[i]
  BY <1>2, <1>3 DEF AllDeleted
<1>5. DOMAIN AllDeleted(u) = 1 .. Len(disk.memories)
  BY <1>1 DEF AllDeleted
<1>6. AllDeleted(u) \in [1 .. Len(disk.memories) -> Memory!Row]
  <2>1. \A i \in 1 .. Len(disk.memories) : AllDeleted(u)[i] \in Memory!Row
    BY <1>1, <1>2, <1>3, <1>4
  <2>2. AllDeleted(u) = [i \in 1 .. Len(disk.memories) |-> AllDeleted(u)[i]]
    BY <1>1 DEF AllDeleted
  <2> QED BY <2>1, <2>2
<1>7. AllDeleted(u) \in Seq(Memory!Row) /\ Len(AllDeleted(u)) = Len(disk.memories)
  <2> DEFINE d == AllDeleted(u)
  <2> HIDE DEF d
  <2>1. d \in [1 .. Len(disk.memories) -> Memory!Row]
    BY <1>6 DEF d
  <2>2. d \in Seq(Memory!Row) /\ Len(d) = Len(disk.memories)
    BY <1>1, <2>1, IsASeq, LenProperties
  <2> QED BY <2>2 DEF d
<1> QED BY <1>1, <1>4, <1>5, <1>7

\* UPDATE of those rows.
LEMMA MarkAllDeletedKeeps ==
    ASSUME IInv, NEW t \in Threads, MarkAllDeleted(t)
    PROVE  IInv'
<1> DEFINE m == call[t].method  a == call[t].arg  td == call[t].todo
<1>1. Executing(t, "mark_all_deleted") /\ lock = t /\ td # <<>> /\ Head(td) = "mark_all_deleted"
  BY DEF MarkAllDeleted, Executing
<1>2. m \in DOMAIN Program /\ Suffix(m, td)
  BY <1>1, Inside DEF IInv
<1>3. m = "delete_all_memories" /\ Then(td, "mark_all_deleted", "fts_delete_all")
  BY <1>1, <1>2, Where, MethodNames, SMTT(20) DEF Then, AtEnd
<1>4. /\ work = disk /\ disk \in Tables /\ call[t].found = Memory!ActiveOf(a.user)
  BY <1>1, <1>3 DEF IInv, Type, Doing, DoingOf, DeletingAll, Unchanged, Reading, At
<1>5. work' = [disk EXCEPT !.memories = AllDeleted(a.user)]
  <2> DEFINE rows == [i \in DOMAIN disk.memories |->
                        IF Memory!OwnActive(a.user, i)
                        THEN [disk.memories[i] EXCEPT !.status = "deleted"] ELSE disk.memories[i]]
  <2>1. work' = [disk EXCEPT !.memories = rows]
    BY <1>4 DEF MarkAllDeleted, View!OwnActive, View!Ids, Memory!OwnActive, Memory!Ids
  <2>2. rows = AllDeleted(a.user)
    <3>1. \A i \in DOMAIN disk.memories : rows[i] = AllDeleted(a.user)[i]
      BY <1>4, AllDeletedRows
    <3>2. AllDeleted(a.user) = [i \in DOMAIN disk.memories |-> AllDeleted(a.user)[i]]
      BY DEF AllDeleted
    <3> QED BY <3>1, <3>2
  <2> QED BY <2>1, <2>2
<1>6. /\ work' \in Tables /\ work'.memories = AllDeleted(a.user)
      /\ work'.fts = disk.fts /\ work'.turns = disk.turns
  BY <1>4, <1>5, AllDeletedRows, WithMemories
<1>7. /\ Proceed(t, Memory!ActiveOf(a.user))
      /\ Memory!ActiveOf(a.user) \in SUBSET (1 .. MaxCalls)
  BY <1>1, <1>4, IdsAreRowIds DEF MarkAllDeleted
<1>8. /\ fts5' = fts5 /\ disk' = disk
      /\ call'[t].method = m /\ call'[t].arg = a /\ call'[t].todo = Tail(td)
      /\ call'[t].found = Memory!ActiveOf(a.user)
  BY <1>1, <1>7, Proceeded DEF IInv
<1>9. DoingOf(t)'
  <2>1. /\ Memory!ActiveOf(a.user)' = Memory!ActiveOf(a.user)
        /\ AllDeleted(a.user)' = AllDeleted(a.user)
    BY <1>8 DEF AllDeleted, Memory!ActiveOf, Memory!OwnActive, Memory!Ids
  <2> QED BY <1>3, <1>6, <1>8, <2>1 DEF Then, DoingOf, Unchanged, Reading, At, Writers,
           Adding, Correcting, Deleting, DeletingAll, Appending
<1> QED BY <1>1, <1>6, <1>7, <1>9, ProceedKeeps

\* DELETE of their index entries.
LEMMA FtsDeleteAllKeeps ==
    ASSUME IInv, NEW t \in Threads, FtsDeleteAll(t)
    PROVE  IInv'
<1> DEFINE m == call[t].method  a == call[t].arg  td == call[t].todo
           ids == Memory!ActiveOf(a.user)
<1>1. Executing(t, "fts_delete_all") /\ lock = t /\ td # <<>> /\ Head(td) = "fts_delete_all"
  BY DEF FtsDeleteAll, Executing
<1>2. m \in DOMAIN Program /\ Suffix(m, td)
  BY <1>1, Inside DEF IInv
<1>3. m = "delete_all_memories" /\ Then(td, "fts_delete_all", "commit")
  BY <1>1, <1>2, Where, MethodNames, SMTT(20) DEF Then, AtEnd
<1>4. /\ disk \in Tables /\ work \in Tables /\ fts5 \in BOOLEAN
      /\ call[t].found = ids /\ work.memories = AllDeleted(a.user)
      /\ work.turns = disk.turns /\ work.fts = disk.fts
  BY <1>1, <1>3 DEF IInv, Type, Doing, DoingOf, DeletingAll
<1>5. /\ work' \in Tables /\ work'.memories = work.memories /\ work'.turns = work.turns
      /\ work'.fts = Without(ids)
  <2>1. work' = IF fts5 THEN Unindex(ids) ELSE work
    BY <1>4 DEF FtsDeleteAll
  <2> HIDE DEF ids
  <2> QED BY <1>4, <2>1, Unindexed
<1>6. Proceed(t, ids) /\ ids \in SUBSET (1 .. MaxCalls)
  BY <1>1, <1>4, IdsAreRowIds DEF FtsDeleteAll
<1>7. /\ fts5' = fts5 /\ disk' = disk
      /\ call'[t].method = m /\ call'[t].arg = a
      /\ call'[t].todo = Tail(td) /\ call'[t].found = ids
  BY <1>1, <1>6, Proceeded DEF IInv
<1>8. DoingOf(t)'
  <2>1. /\ Memory!ActiveOf(a.user)' = ids /\ AllDeleted(a.user)' = AllDeleted(a.user)
        /\ Without(ids)' = Without(ids)
    BY <1>7 DEF AllDeleted, Without, Memory!ActiveOf, Memory!OwnActive, Memory!Ids
  <2> QED BY <1>3, <1>4, <1>5, <1>7, <2>1 DEF Then, DoingOf, Unchanged, Reading, At, Writers,
           Adding, Correcting, Deleting, DeletingAll, Appending
<1> QED BY <1>1, <1>5, <1>6, <1>8, ProceedKeeps

\* BEGIN IMMEDIATE of the healthcheck changes nothing.
LEMMA BeginImmediateKeeps ==
    ASSUME IInv, NEW t \in Threads, BeginImmediate(t)
    PROVE  IInv'
<1> DEFINE m == call[t].method  td == call[t].todo
<1>1. Executing(t, "begin_immediate") /\ lock = t /\ td # <<>> /\ Head(td) = "begin_immediate"
  BY DEF BeginImmediate, Executing
<1>2. m \in DOMAIN Program /\ Suffix(m, td)
  BY <1>1, Inside DEF IInv
<1>3. m = "healthcheck" /\ Then(td, "begin_immediate", "rollback")
  BY <1>1, <1>2, Where, MethodNames, SMTT(20) DEF Then, AtEnd
<1>4. work = disk /\ disk \in Tables
  BY <1>1, <1>3 DEF IInv, Type, Doing, DoingOf, Unchanged, Writers
<1>5. Proceed(t, {}) /\ work' = work /\ {} \in SUBSET (1 .. MaxCalls)
  BY DEF BeginImmediate
<1>6. disk' = disk /\ call'[t].method = m
  BY <1>1, <1>5, Proceeded DEF IInv
<1>7. DoingOf(t)'
  BY <1>3, <1>4, <1>5, <1>6 DEF DoingOf, Unchanged, At, Writers, Adding, Correcting, Deleting,
     DeletingAll, Appending
<1> QED BY <1>1, <1>4, <1>5, <1>7, ProceedKeeps

-----------------------------------------------------------------------------
(* Row ids: the least, the greatest, the n largest.                        *)

\* A set of naturals has a least element: the smallest of its initial segments.
LEMMA LeastOf ==
    ASSUME NEW S \in SUBSET Nat, S # {}
    PROVE  \E x \in S : \A y \in S : x <= y
<1> DEFINE T == {0 .. x : x \in S}
<1>1. \A x \in Nat : IsFiniteSet(0 .. x)
  BY FS_Interval
<1>2. T \subseteq FiniteSubsetsOf(Nat) /\ T # {}
  <2>1. \A x \in S : 0 .. x \in FiniteSubsetsOf(Nat)
    BY <1>1 DEF FiniteSubsetsOf
  <2>2. T \subseteq FiniteSubsetsOf(Nat)
    BY <2>1
  <2>3. PICK x \in S : TRUE
    OBVIOUS
  <2>4. 0 .. x \in T
    BY <2>3
  <2> QED BY <2>2, <2>4
<1>3. PICK t \in T : \A u \in T : ~ (<<u, t>> \in StrictSubsetOrdering(Nat))
  <2> HIDE DEF T
  <2> QED BY <1>2, WFMin, FS_StrictSubsetOrderingWellFounded
<1>4. PICK x \in S : t = 0 .. x
  BY <1>3
<1>5. ASSUME NEW y \in S, y < x PROVE FALSE
  <2>1. 0 .. y \in T
    OBVIOUS
  <2>2. 0 .. y \subseteq 0 .. x /\ x \in 0 .. x /\ x \notin 0 .. y
    BY <1>5
  <2>3. 0 .. y \in SUBSET Nat /\ 0 .. x \in SUBSET Nat /\ 0 .. y # 0 .. x
    BY <2>2
  <2>4. <<0 .. y, 0 .. x>> \in StrictSubsetOrdering(Nat)
    BY <2>2, <2>3 DEF StrictSubsetOrdering
  <2> QED BY <1>3, <1>4, <2>1, <2>4
<1> QED BY <1>5

\* ... and a greatest one, if it is bounded.
LEMMA GreatestOf ==
    ASSUME NEW S \in SUBSET Nat, S # {}, NEW n \in Nat, \A x \in S : x <= n
    PROVE  \E x \in S : \A y \in S : y <= x
<1> DEFINE T == {n - x : x \in S}
<1>1. T \in SUBSET Nat /\ T # {}
  <2>1. PICK x \in S : TRUE
    OBVIOUS
  <2>2. n - x \in T
    BY <2>1
  <2>3. \A y \in S : n - y \in Nat
    OBVIOUS
  <2>4. T \subseteq Nat
    BY <2>3
  <2> QED BY <2>2, <2>4
<1>2. PICK d \in T : \A e \in T : d <= e
  BY <1>1, LeastOf
<1>3. PICK x \in S : d = n - x
  OBVIOUS
<1>4. \A y \in S : n - y \in T
  OBVIOUS
<1>5. \A y \in S : n - x <= n - y
  BY <1>2, <1>3, <1>4
<1> QED BY <1>5

\* LIMIT n returns at most n rows, and some if there are any.
LEMMA NewestFew ==
    ASSUME NEW S \in SUBSET Nat, IsFiniteSet(S), NEW n \in Nat
    PROVE  Cardinality(NewestIds(S, n)) <= n
<1> DEFINE N == NewestIds(S, n)
<1>1. N \subseteq S /\ IsFiniteSet(N) /\ N \in SUBSET Nat
  BY FS_Subset DEF NewestIds
<1>2. CASE N = {}
  BY <1>2, FS_EmptySet
<1>3. CASE N # {}
  <2>1. PICK m \in N : \A y \in N : m <= y
    BY <1>1, <1>3, LeastOf
  <2> DEFINE above == {j \in S : j > m}
  <2>2. Cardinality(above) < n /\ m \in Nat
    BY <1>1, <2>1 DEF NewestIds
  <2>3. N \ {m} \subseteq above
    BY <1>1, <2>1
  <2>4. IsFiniteSet(above) /\ above \subseteq S
    BY FS_Subset
  <2> HIDE DEF N, above
  <2>5. Cardinality(N \ {m}) <= Cardinality(above)
    BY <2>3, <2>4, FS_Subset
  <2>6. Cardinality(N \ {m}) = Cardinality(N) - 1 /\ Cardinality(N) \in Nat
    BY <1>1, <2>1, FS_RemoveElement, FS_CardinalityType
  <2>7. Cardinality(above) \in Nat
    BY <2>4, FS_CardinalityType
  <2> QED BY <2>2, <2>5, <2>6, <2>7 DEF N
<1> QED BY <1>2, <1>3

\* The newest of some ids are some.
LEMMA NewestSome ==
    ASSUME NEW S \in SUBSET Nat, S # {}, NEW b \in Nat, \A x \in S : x <= b,
           NEW n \in Nat \ {0}
    PROVE  NewestIds(S, n) # {}
<1>1. PICK x \in S : \A y \in S : y <= x
  BY GreatestOf
<1>2. {j \in S : j > x} = {}
  <2>1. \A j \in S : j \in Nat /\ x \in Nat /\ j <= x
    BY <1>1
  <2>2. \A j \in S : ~ (j > x)
    BY <2>1
  <2> QED BY <2>2
<1>3. Cardinality({j \in S : j > x}) = 0
  BY <1>2, FS_EmptySet
<1> QED BY <1>3 DEF NewestIds

\* One more than the largest turn id.
LEMMA TurnIds ==
    ASSUME work \in Tables, NEW b \in Nat, \A r \in work.turns : r.id <= b
    PROVE  NextTurnId \in 1 .. b + 1
<1> DEFINE S == {r.id : r \in work.turns} \cup {0}
<1>1. \A r \in work.turns : r.id \in Nat
  BY Fields
<1>2. S \in SUBSET Nat /\ 0 \in S /\ \A x \in S : x <= b
  BY <1>1
<1> HIDE DEF S
<1>3. \E x \in S : \A y \in S : y <= x
  BY <1>2, GreatestOf
<1>4. \E x \in S : \A y \in S : x >= y
  BY <1>2, <1>3
<1>5. Max(S) \in S
  BY <1>4 DEF Max
<1> QED BY <1>2, <1>5 DEF NextTurnId, S

-----------------------------------------------------------------------------
(* The statements, continued: session turns and the search.                *)

\* INSERT of a turn, with the next id.
LEMMA InsertTurnKeeps ==
    ASSUME IInv, NEW t \in Threads, InsertTurn(t)
    PROVE  IInv'
<1> DEFINE m == call[t].method  a == call[t].arg  td == call[t].todo
           new == [id |-> NextTurnId, conv |-> a.conv, content |-> a.content]
<1>1. Executing(t, "insert_turn") /\ lock = t /\ td # <<>> /\ Head(td) = "insert_turn"
  BY DEF InsertTurn, Executing
<1>2. m \in DOMAIN Program /\ a \in Args(m) /\ Suffix(m, td)
  BY <1>1, Inside DEF IInv
<1>3. m = "append_turn" /\ Then(td, "insert_turn", "prune")
  BY <1>1, <1>2, Where, MethodNames, SMTT(20) DEF Then, AtEnd
<1>4. a.conv \in Conversations /\ a.content \in Contents
  BY <1>2, <1>3 DEF Args
<1>5. work = disk /\ disk \in Tables /\ work \in Tables
  BY <1>1, <1>3 DEF IInv, Type, Doing, DoingOf, Unchanged, Reading, At
<1>6. /\ Cardinality(Pending) \in Nat \ {0} /\ calls \in Nat /\ calls <= MaxCalls /\ MaxCalls \in Nat
      /\ \A r \in disk.turns : r.id \in Nat /\ r.id + Cardinality(Pending) <= calls
  <2>1. \A r \in disk.turns : r.id \in Nat
    BY <1>5, Fields
  <2> QED BY <1>1, <2>1, RoomFor, StoreAssumption DEF IInv, Type, Room
<1>7. NextTurnId \in 1 .. MaxCalls /\ NextTurnId + Cardinality(Pending) <= calls + 1
  <2> DEFINE b == calls - Cardinality(Pending)
  <2>1. b \in Nat
    BY <1>1, <1>5, <1>6, Fields DEF IInv, Room
  <2>2. \A r \in work.turns : r.id <= b
    BY <1>5, <1>6
  <2>3. NextTurnId \in 1 .. b + 1
    BY <1>5, <2>1, <2>2, TurnIds
  <2> QED BY <1>6, <2>3
<1>8. /\ work' \in Tables /\ work'.memories = disk.memories /\ work'.fts = disk.fts
      /\ work'.turns = disk.turns \cup {new}
  <2>1. work' = [work EXCEPT !.turns = work.turns \cup {new}]
    BY DEF InsertTurn
  <2>2. work.turns \cup {new} \in SUBSET [id : 1 .. MaxCalls, conv : Conversations, content : Contents]
    BY <1>4, <1>5, <1>7, Fields
  <2> HIDE DEF new
  <2> QED BY <1>5, <2>1, <2>2, WithTurns
<1>9. Proceed(t, {}) /\ {} \in SUBSET (1 .. MaxCalls)
  BY DEF InsertTurn
<1>10. /\ fts5' = fts5 /\ disk' = disk /\ calls' = calls
       /\ \A u \in Threads : u # t => call'[u] = call[u]
       /\ call'[t].method = m /\ call'[t].arg = a /\ call'[t].result = "none"
       /\ call'[t].todo = Tail(td)
  BY <1>1, <1>9, Proceeded DEF IInv
<1>11. DoingOf(t)'
  <2>1. Pending' = Pending
    BY <1>1, <1>10, Inside DEF IInv, Pending
  <2>2. \A r \in work'.turns : r.id + Cardinality(Pending') <= calls' + 1
    BY <1>6, <1>7, <1>8, <1>10, <2>1
  <2> QED BY <1>3, <1>8, <1>10, <2>2 DEF Then, DoingOf, Unchanged, Reading, At, Writers,
           Adding, Correcting, Deleting, DeletingAll, Appending
<1> QED BY <1>1, <1>8, <1>9, <1>11, ProceedKeeps

\* DELETE of the turns beyond the newest of their conversation.
LEMMA PruneKeeps ==
    ASSUME IInv, NEW t \in Threads, Prune(t)
    PROVE  IInv'
<1> DEFINE m == call[t].method  a == call[t].arg  td == call[t].todo
<1>1. Executing(t, "prune") /\ lock = t /\ td # <<>> /\ Head(td) = "prune"
  BY DEF Prune, Executing
<1>2. m \in DOMAIN Program /\ Suffix(m, td)
  BY <1>1, Inside DEF IInv
<1>3. m = "append_turn" /\ Then(td, "prune", "commit")
  BY <1>1, <1>2, Where, MethodNames, SMTT(20) DEF Then, AtEnd
<1>4. /\ work \in Tables /\ work.memories = disk.memories /\ work.fts = disk.fts
      /\ \A r \in work.turns : r.id + Cardinality(Pending) <= calls + 1
  BY <1>1, <1>3 DEF IInv, Type, Doing, DoingOf, Appending, At
<1>5. /\ work' \in Tables /\ work'.memories = disk.memories /\ work'.fts = disk.fts
      /\ work'.turns \subseteq work.turns
  <2> DEFINE mine == Rows(work.turns, a.conv)
             left == work.turns \ (mine \ NewestRows(mine, KeepTurns))
  <2>1. work' = [work EXCEPT !.turns = left] /\ left \subseteq work.turns
    BY DEF Prune
  <2> HIDE DEF left
  <2>2. left \in SUBSET [id : 1 .. MaxCalls, conv : Conversations, content : Contents]
    BY <1>4, <2>1, Fields
  <2> QED BY <1>4, <2>1, <2>2, WithTurns
<1>6. Proceed(t, {}) /\ {} \in SUBSET (1 .. MaxCalls)
  BY DEF Prune
<1>7. /\ fts5' = fts5 /\ disk' = disk /\ calls' = calls
      /\ \A u \in Threads : u # t => call'[u] = call[u]
      /\ call'[t].method = m /\ call'[t].arg = a /\ call'[t].result = "none"
      /\ call'[t].todo = Tail(td)
  BY <1>1, <1>6, Proceeded DEF IInv
<1>8. DoingOf(t)'
  <2>1. Pending' = Pending
    BY <1>1, <1>7, Inside DEF IInv, Pending
  <2>2. \A r \in work'.turns : r.id + Cardinality(Pending') <= calls' + 1
    BY <1>4, <1>5, <1>7, <2>1
  <2> QED BY <1>3, <1>5, <1>7, <2>2 DEF Then, DoingOf, Unchanged, Reading, At, Writers,
           Adding, Correcting, Deleting, DeletingAll, Appending
<1> QED BY <1>1, <1>5, <1>6, <1>8, ProceedKeeps

\* A search answers from the committed rows.
LEMMA SearchEnds ==
    ASSUME IInv, NEW t \in Threads, lock = t, call[t].todo # <<>>,
           call[t].method = "search_memories",
           NEW found \in SUBSET (1 .. MaxCalls), Finish(t, found, "ok"),
           UNCHANGED <<disk, work>>,
           found \subseteq Memory!ActiveOf(call[t].arg.user),
           Cardinality(found) <= SearchLimit,
           found = {} => Memory!ActiveOf(call[t].arg.user) = {}
    PROVE  IInv'
<1>1. work = disk /\ disk \in Tables
  BY DEF IInv, Type, Doing, DoingOf, Unchanged, Writers
<1>2. disk' \in Tables /\ work' = disk' /\ disk' = disk /\ fts5' = fts5
  BY <1>1 DEF Finish, Tables
<1>3. Len(disk'.memories) <= Len(disk.memories) + 1
  BY <1>1, <1>2, Fields
<1>4. \A r \in disk'.turns : r.id + Cardinality(Pending) <= calls + 1
  <2>1. /\ \A r \in disk.turns : r.id \in Nat
        /\ Cardinality(Pending) \in Nat /\ calls \in Nat
    BY <1>1, Fields, RoomFor DEF IInv, Type
  <2> QED BY <1>2, <2>1 DEF IInv, Room
<1>5. IndexMirrorsActive'
  BY <1>2 DEF IInv, IndexMirrorsActive, Memory!Ids
<1>6. Sound(t)'
  <2>1. call'[t].found = found /\ call'[t].arg = call[t].arg
    <3>1. call[t] \in CallRecord /\ call \in [Threads -> CallRecord]
      BY Inside DEF IInv, Type
    <3> QED BY <3>1 DEF Finish, CallRecord
  <2>2. \A u : Memory!ActiveOf(u)' = Memory!ActiveOf(u)
    BY <1>2 DEF Memory!ActiveOf, Memory!OwnActive, Memory!Ids
  <2> QED BY <2>1, <2>2 DEF Sound
<1> QED BY <1>2, <1>3, <1>4, <1>5, <1>6, FinishKeeps DEF Writers

\* The view of a search is the committed table.
LEMMA SearchSees ==
    ASSUME IInv, NEW t \in Threads, lock = t, call[t].todo # <<>>,
           call[t].method = "search_memories", NEW u
    PROVE  /\ View!ActiveOf(u) = Memory!ActiveOf(u)
           /\ Memory!ActiveOf(u) \in SUBSET (1 .. MaxCalls)
           /\ \A S \in SUBSET Memory!ActiveOf(u) :
                 /\ S \in SUBSET (1 .. MaxCalls) /\ IsFiniteSet(S) /\ S \in SUBSET Nat
                 /\ Cardinality(S) \in Nat
                 /\ Cardinality(NewestIds(S, SearchLimit)) <= SearchLimit
                 /\ S # {} => NewestIds(S, SearchLimit) # {}
                 /\ NewestIds(S, SearchLimit) \subseteq S
<1>1. work = disk
  BY DEF IInv, Doing, DoingOf, Unchanged, Writers
<1>2. View!ActiveOf(u) = Memory!ActiveOf(u)
  BY <1>1 DEF View!ActiveOf, View!OwnActive, View!Ids, Memory!ActiveOf, Memory!OwnActive, Memory!Ids
<1>3. Memory!ActiveOf(u) \in SUBSET (1 .. MaxCalls) /\ IsFiniteSet(Memory!ActiveOf(u))
  BY IdsAreRowIds
<1>4. ASSUME NEW S \in SUBSET Memory!ActiveOf(u)
      PROVE  /\ S \in SUBSET (1 .. MaxCalls) /\ IsFiniteSet(S) /\ S \in SUBSET Nat
             /\ Cardinality(S) \in Nat
             /\ Cardinality(NewestIds(S, SearchLimit)) <= SearchLimit
             /\ S # {} => NewestIds(S, SearchLimit) # {}
             /\ NewestIds(S, SearchLimit) \subseteq S
  <2>1. S \in SUBSET (1 .. MaxCalls) /\ IsFiniteSet(S) /\ S \in SUBSET Nat /\ MaxCalls \in Nat
    BY <1>3, FS_Subset, StoreAssumption
  <2>2. \A x \in S : x <= MaxCalls
    BY <2>1
  <2>3. SearchLimit \in Nat \ {0} /\ SearchLimit \in Nat
    BY StoreAssumption
  <2>4. Cardinality(NewestIds(S, SearchLimit)) <= SearchLimit
    BY <2>1, <2>3, NewestFew
  <2>5. S # {} => NewestIds(S, SearchLimit) # {}
    BY <2>1, <2>2, <2>3, NewestSome
  <2>6. NewestIds(S, SearchLimit) \subseteq S
    BY DEF NewestIds
  <2> QED BY <2>1, <2>4, <2>5, <2>6, FS_CardinalityType
<1> QED BY <1>2, <1>3, <1>4

\* The fallback of the search: the newest active rows of the user.
LEMMA MostRecentKeeps ==
    ASSUME IInv, NEW t \in Threads, MostRecent(t)
    PROVE  IInv'
<1> DEFINE td == call[t].todo  mine == Memory!ActiveOf(call[t].arg.user)
           found == NewestIds(mine, SearchLimit)
<1>1. lock = t /\ td # <<>> /\ Head(td) = "most_recent"
  BY DEF MostRecent, Executing
<1>2. call[t].method = "search_memories"
  <2>1. call[t].method \in DOMAIN Program /\ Suffix(call[t].method, td)
    BY <1>1, Inside DEF IInv
  <2> QED BY <1>1, <2>1, Where, MethodNames DEF Then, AtEnd
<1>3. /\ View!ActiveOf(call[t].arg.user) = mine /\ mine \in SUBSET (1 .. MaxCalls)
      /\ Cardinality(found) <= SearchLimit /\ found \subseteq mine
      /\ mine # {} => found # {}
  BY <1>1, <1>2, SearchSees
<1>4. Finish(t, found, "ok") /\ UNCHANGED <<disk, work>>
  BY <1>3 DEF MostRecent
<1> HIDE DEF mine, found
<1>5. found \in SUBSET (1 .. MaxCalls)
  BY <1>3
<1> QED BY <1>1, <1>2, <1>3, <1>4, <1>5, SearchEnds DEF mine

\* The search itself: some of the user's active rows that match.
LEMMA MatchKeeps ==
    ASSUME IInv, NEW t \in Threads, Match(t)
    PROVE  IInv'
<1> DEFINE td == call[t].todo  mine == Memory!ActiveOf(call[t].arg.user)
           hits == Hits(call[t].arg.user, call[t].arg.query)
<1>1. Executing(t, "match") /\ lock = t /\ td # <<>> /\ Head(td) = "match"
  BY DEF Match, Executing
<1>2. call[t].method = "search_memories" /\ Then(td, "match", "most_recent")
  <2>1. call[t].method \in DOMAIN Program /\ Suffix(call[t].method, td)
    BY <1>1, Inside DEF IInv
  <2> QED BY <1>1, <2>1, Where, MethodNames DEF Then, AtEnd
<1>3. work = disk /\ disk \in Tables
  BY <1>1, <1>2 DEF IInv, Type, Doing, DoingOf, Unchanged, Writers
<1>4. hits \in SUBSET mine
  BY <1>1, <1>2, SearchSees DEF Hits
<1>5. CASE hits = {}
  <2>1. Proceed(t, {}) /\ work' = work /\ {} \in SUBSET (1 .. MaxCalls)
    BY <1>5 DEF Match
  <2>2. disk' = disk /\ call'[t].method = "search_memories"
    BY <1>1, <1>2, <2>1, Proceeded DEF IInv
  <2>3. DoingOf(t)'
    BY <1>3, <2>1, <2>2 DEF DoingOf, Unchanged, At, Writers, Adding, Correcting, Deleting,
       DeletingAll, Appending
  <2> QED BY <1>1, <1>3, <2>1, <2>3, ProceedKeeps
<1>6. CASE hits # {}
  <2>1. PICK ids \in Limited(hits) : Finish(t, ids, "ok") /\ UNCHANGED <<disk, work>>
    BY <1>6 DEF Match
  <2> HIDE DEF hits, mine
  <2>2. /\ hits \in SUBSET (1 .. MaxCalls) /\ IsFiniteSet(hits)
        /\ Cardinality(NewestIds(hits, SearchLimit)) <= SearchLimit
        /\ NewestIds(hits, SearchLimit) # {} /\ NewestIds(hits, SearchLimit) \subseteq hits
    BY <1>1, <1>2, <1>4, <1>6, SearchSees DEF mine
  <2>3. ids \subseteq hits /\ Cardinality(ids) <= SearchLimit /\ ids # {}
    <3>1. CASE Cardinality(hits) <= SearchLimit
      BY <1>6, <2>1, <3>1 DEF Limited
    <3>2. CASE ~ (Cardinality(hits) <= SearchLimit) /\ fts5
      <4>1. ids \in SUBSET hits /\ Cardinality(ids) = SearchLimit
        BY <2>1, <3>2 DEF Limited, kSubset
      <4> QED BY <4>1, StoreAssumption, FS_EmptySet
    <3>3. CASE ~ (Cardinality(hits) <= SearchLimit) /\ ~ fts5
      BY <2>1, <2>2, <3>3 DEF Limited
    <3> QED BY <3>1, <3>2, <3>3
  <2>4. ids \in SUBSET (1 .. MaxCalls) /\ ids \subseteq mine
    BY <1>4, <2>2, <2>3
  <2> QED BY <1>1, <1>2, <2>1, <2>3, <2>4, SearchEnds DEF mine
<1> QED BY <1>5, <1>6

-----------------------------------------------------------------------------
(* The commit.                                                             *)

\* The entries of other rows.
Outside(entries, ids) == {e \in entries : e[1] \notin ids}

\* The index a table should have.
Indexed(rows) == {<<i, rows[i].text>> : i \in {j \in DOMAIN rows : rows[j].status = "active"}}

\* The index of a table with one more active row has one more entry.
LEMMA IndexOfAppend ==
    ASSUME NEW rows \in Seq(Memory!Row), NEW new \in Memory!Row, new.status = "active"
    PROVE  Indexed(Append(rows, new)) = Indexed(rows) \cup {<<Len(rows) + 1, new.text>>}
<1> DEFINE n == Len(rows)  more == Append(rows, new)
<1>1. /\ n \in Nat /\ DOMAIN rows = 1 .. n /\ DOMAIN more = 1 .. n + 1
      /\ \A i \in 1 .. n : more[i] = rows[i]
      /\ more[n + 1] = new
  BY AppendProperties
<1> HIDE DEF n, more
<1>2. 1 .. n + 1 = (1 .. n) \cup {n + 1} /\ n + 1 \notin 1 .. n
  BY <1>1
<1>3. {j \in DOMAIN more : more[j].status = "active"}
      = {j \in DOMAIN rows : rows[j].status = "active"} \cup {n + 1}
  BY <1>1, <1>2
<1>4. Indexed(more) = Indexed(rows) \cup {<<n + 1, new.text>>}
  <2>1. ASSUME NEW e \in Indexed(more) PROVE e \in Indexed(rows) \cup {<<n + 1, new.text>>}
    BY <1>1, <1>2, <1>3, <2>1 DEF Indexed
  <2>2. ASSUME NEW e \in Indexed(rows) PROVE e \in Indexed(more)
    BY <1>1, <1>2, <1>3, <2>2 DEF Indexed
  <2>3. <<n + 1, new.text>> \in Indexed(more)
    BY <1>1, <1>3 DEF Indexed
  <2> QED BY <2>1, <2>2, <2>3
<1> QED BY <1>4 DEF n, more

\* The index of a table of which some rows are retired lacks their entries.
LEMMA IndexOfFewer ==
    ASSUME NEW rows, NEW fewer, NEW ids, DOMAIN fewer = DOMAIN rows,
           \A i \in DOMAIN rows :
              IF i \in ids THEN fewer[i].status # "active" ELSE fewer[i] = rows[i]
    PROVE  Indexed(fewer) = Outside(Indexed(rows), ids)
<1>1. ASSUME NEW e \in Indexed(fewer) PROVE e \in Indexed(rows) /\ e[1] \notin ids
  <2>1. PICK i \in DOMAIN rows : fewer[i].status = "active" /\ e = <<i, fewer[i].text>>
    BY <1>1 DEF Indexed
  <2>2. i \notin ids /\ fewer[i] = rows[i]
    BY <2>1
  <2> QED BY <2>1, <2>2 DEF Indexed
<1>2. ASSUME NEW e \in Indexed(rows), e[1] \notin ids PROVE e \in Indexed(fewer)
  <2>1. PICK i \in DOMAIN rows : rows[i].status = "active" /\ e = <<i, rows[i].text>>
    BY <1>2 DEF Indexed
  <2>2. i \notin ids /\ fewer[i] = rows[i]
    BY <1>2, <2>1
  <2> QED BY <2>1, <2>2 DEF Indexed
<1> QED BY <1>1, <1>2 DEF Outside

\* That the index mirrors the active rows, in one equation.
LEMMA Mirrors ==
    IndexMirrorsActive <=> disk.fts = IF fts5 THEN Indexed(disk.memories) ELSE {}
BY DEF IndexMirrorsActive, Indexed, Memory!Ids

\* What a writing method has done when it is about to commit.
LEMMA CommitAdd ==
    ASSUME IInv, NEW t \in Threads, Commit(t), call[t].method = "add_memory"
    PROVE  /\ Len(work.memories) <= Len(disk.memories) + 1 /\ work.turns = disk.turns
           /\ work.fts = IF fts5 THEN Indexed(work.memories) ELSE {}
           /\ Memory!AddMemory(call[t].arg.user, call[t].arg.text)
           /\ call[t].arg.user \in Users /\ call[t].arg.text \in Texts
           /\ call[t].found = {NewId}
           /\ NewId \in DOMAIN work.memories
           /\ work.memories[NewId] = Memory!NewRow(call[t].arg.user, call[t].arg.text)
<1> DEFINE a == call[t].arg  new == Memory!NewRow(a.user, a.text)
<1>1. lock = t /\ call[t].todo # <<>> /\ Head(call[t].todo) = "commit" /\ disk' = work
  BY DEF Commit, Executing
<1>2. a.user \in Users /\ a.text \in Texts
  BY <1>1, Inside DEF IInv, Args
<1>3. /\ call[t].found = {NewId} /\ work.memories = Append(disk.memories, new)
      /\ work.turns = disk.turns /\ work.fts = disk.fts \cup Entry(NewId, a.text)
  BY <1>1 DEF IInv, Doing, DoingOf, Adding, At
<1>4. disk.memories \in Seq(Memory!Row) /\ new \in Memory!Row /\ new.status = "active" /\ new.text = a.text
  BY <1>2, NewRowType, Fields DEF IInv, Type
<1>5. Len(work.memories) = Len(disk.memories) + 1 /\ Len(disk.memories) \in Nat
      /\ work.memories[NewId] = new /\ NewId \in DOMAIN work.memories
  BY <1>3, <1>4, AppendProperties DEF NewId
<1>6. Indexed(work.memories) = Indexed(disk.memories) \cup {<<NewId, a.text>>}
  <2> HIDE DEF new
  <2> QED BY <1>3, <1>4, IndexOfAppend DEF NewId
<1>7. work.fts = IF fts5 THEN Indexed(work.memories) ELSE {}
  BY <1>3, <1>6, Mirrors DEF IInv, Entry
<1>8. Memory!AddMemory(a.user, a.text)
  BY <1>1, <1>3, RoomFor DEF Memory!AddMemory
<1> QED BY <1>2, <1>3, <1>5, <1>7, <1>8

\* A correction about to commit is the contract's step.
LEMMA CommitCorrect ==
    ASSUME IInv, NEW t \in Threads, Commit(t), call[t].method = "correct_memory"
    PROVE  /\ Len(work.memories) <= Len(disk.memories) + 1 /\ work.turns = disk.turns
           /\ work.fts = IF fts5 THEN Indexed(work.memories) ELSE {}
           /\ Memory!CorrectMemory(call[t].arg.user, call[t].arg.id, call[t].arg.text)
           /\ call[t].arg.user \in Users /\ call[t].arg.text \in Texts
           /\ call[t].arg.id \in Memory!Ids
           /\ call[t].found = {NewId}
           /\ NewId \in DOMAIN work.memories
           /\ work.memories[NewId] = Memory!NewRow(call[t].arg.user, call[t].arg.text)
           /\ work.memories[call[t].arg.id].superseded_by = NewId
<1> DEFINE a == call[t].arg  new == Memory!NewRow(a.user, a.text)  after == Superseded(a.id)
<1>1. lock = t /\ call[t].todo # <<>> /\ Head(call[t].todo) = "commit" /\ disk' = work
  BY DEF Commit, Executing
<1>2. a.user \in Users /\ a.text \in Texts
  BY <1>1, Inside DEF IInv, Args
<1>3. /\ Memory!OwnActive(a.user, a.id) /\ call[t].found = {NewId}
      /\ work.memories = Append(after, new)
      /\ work.turns = disk.turns /\ work.fts = Without({a.id}) \cup Entry(NewId, a.text)
  BY <1>1 DEF IInv, Doing, DoingOf, Correcting
<1>0. disk \in Tables /\ a.id \in DOMAIN disk.memories
  BY <1>3 DEF IInv, Type, Memory!OwnActive, Memory!Ids
<1>4. /\ disk.memories \in Seq(Memory!Row) /\ Len(disk.memories) \in Nat
      /\ new \in Memory!Row /\ new.status = "active" /\ new.text = a.text
      /\ DOMAIN disk.memories = 1 .. Len(disk.memories) /\ a.id \in Memory!Ids
  BY <1>0, <1>2, NewRowType, Fields DEF Memory!Ids
<1>5. /\ after \in Seq(Memory!Row) /\ Len(after) = Len(disk.memories)
      /\ \A j \in 1 .. Len(disk.memories) : j # a.id => after[j] = disk.memories[j]
      /\ after[a.id].status = "superseded" /\ after[a.id].superseded_by = NewId
  <2> DEFINE i == a.id
  <2> HIDE DEF i
  <2>1. i \in DOMAIN disk.memories
    BY <1>0 DEF i
  <2>2. /\ Superseded(i) \in Seq(Memory!Row) /\ Len(Superseded(i)) = Len(disk.memories)
        /\ \A j \in 1 .. Len(disk.memories) : j # i => Superseded(i)[j] = disk.memories[j]
        /\ Superseded(i)[i].status = "superseded" /\ Superseded(i)[i].superseded_by = NewId
    BY <1>0, <2>1, SupersededRows
  <2> QED BY <2>2 DEF i
<1> HIDE DEF new, after
<1>6. /\ Len(work.memories) = Len(disk.memories) + 1
      /\ work.memories[NewId] = new /\ NewId \in DOMAIN work.memories
      /\ \A j \in 1 .. Len(disk.memories) : work.memories[j] = after[j]
  BY <1>3, <1>4, <1>5, AppendProperties DEF NewId
<1>7. work.memories[a.id].superseded_by = NewId
  BY <1>0, <1>4, <1>5, <1>6
<1>8. Indexed(after) = Outside(Indexed(disk.memories), {a.id})
  <2>1. DOMAIN after = DOMAIN disk.memories
    BY <1>4, <1>5
  <2>2. \A i \in DOMAIN disk.memories :
           IF i \in {a.id} THEN after[i].status # "active" ELSE after[i] = disk.memories[i]
    BY <1>0, <1>4, <1>5
  <2> HIDE DEF a
  <2> QED BY <2>1, <2>2, IndexOfFewer
<1>9. Indexed(work.memories) = Indexed(after) \cup {<<NewId, a.text>>}
  BY <1>3, <1>4, <1>5, IndexOfAppend DEF NewId
<1>10. work.fts = IF fts5 THEN Indexed(work.memories) ELSE {}
  BY <1>3, <1>8, <1>9, Mirrors DEF IInv, Entry, Without, Outside
<1>11. Memory!CorrectMemory(a.user, a.id, a.text)
  BY <1>1, <1>3, RoomFor DEF Memory!CorrectMemory, Superseded, NewId, new, after
<1>12. Len(work.memories) <= Len(disk.memories) + 1
  BY <1>4, <1>6
<1>13. work.memories[NewId] = Memory!NewRow(a.user, a.text)
  BY <1>6 DEF new
<1> QED BY <1>2, <1>3, <1>4, <1>6, <1>7, <1>10, <1>11, <1>12, <1>13

\* So is a deletion.
LEMMA CommitDelete ==
    ASSUME IInv, NEW t \in Threads, Commit(t), call[t].method = "delete_memory"
    PROVE  /\ Len(work.memories) <= Len(disk.memories) + 1 /\ work.turns = disk.turns
           /\ work.fts = IF fts5 THEN Indexed(work.memories) ELSE {}
           /\ Memory!DeleteMemory(call[t].arg.user, call[t].arg.id)
           /\ call[t].arg.user \in Users /\ call[t].arg.id \in Memory!Ids
           /\ work.memories[call[t].arg.id].status = "deleted"
<1> DEFINE a == call[t].arg  rows == [disk.memories EXCEPT ![a.id].status = "deleted"]
<1>1. lock = t /\ call[t].todo # <<>> /\ Head(call[t].todo) = "commit" /\ disk' = work
  BY DEF Commit, Executing
<1>2. a.user \in Users
  BY <1>1, Inside DEF IInv, Args
<1>3. /\ Memory!OwnActive(a.user, a.id) /\ work.memories = rows
      /\ work.turns = disk.turns /\ work.fts = Without({a.id})
  BY <1>1 DEF IInv, Doing, DoingOf, Deleting, At
<1>4. /\ disk \in Tables /\ disk.memories \in Seq(Memory!Row) /\ Len(disk.memories) \in Nat
      /\ a.id \in DOMAIN disk.memories /\ a.id \in Memory!Ids
      /\ DOMAIN disk.memories = 1 .. Len(disk.memories)
  BY <1>3, Fields DEF IInv, Type, Memory!OwnActive, Memory!Ids
<1>5. /\ rows \in Seq(Memory!Row) /\ Len(rows) = Len(disk.memories)
      /\ \A j \in 1 .. Len(disk.memories) : j # a.id => rows[j] = disk.memories[j]
      /\ rows[a.id].status = "deleted"
  <2>1. /\ rows \in Seq(Memory!Row) /\ Len(rows) = Len(disk.memories)
        /\ \A j \in 1 .. Len(disk.memories) :
              rows[j] = IF j = a.id THEN [disk.memories[a.id] EXCEPT !.status = "deleted"]
                        ELSE disk.memories[j]
        /\ [disk.memories[a.id] EXCEPT !.status = "deleted"].status = "deleted"
    BY <1>4, DeletedRows
  <2> HIDE DEF rows
  <2> QED BY <1>4, <2>1
<1>6. Memory!DeleteMemory(a.user, a.id)
  BY <1>1, <1>3 DEF Memory!DeleteMemory
<1> HIDE DEF rows
<1>7. Indexed(rows) = Outside(Indexed(disk.memories), {a.id})
  <2>1. DOMAIN rows = DOMAIN disk.memories
    BY <1>4, <1>5
  <2>2. \A i \in DOMAIN disk.memories :
           IF i \in {a.id} THEN rows[i].status # "active" ELSE rows[i] = disk.memories[i]
    BY <1>4, <1>5
  <2> HIDE DEF a
  <2> QED BY <2>1, <2>2, IndexOfFewer
<1>8. work.fts = IF fts5 THEN Indexed(work.memories) ELSE {}
  BY <1>3, <1>7, Mirrors DEF IInv, Without, Outside
<1> QED BY <1>2, <1>3, <1>4, <1>5, <1>6, <1>8

\* So is a delete-all.
LEMMA CommitDeleteAll ==
    ASSUME IInv, NEW t \in Threads, Commit(t), call[t].method = "delete_all_memories"
    PROVE  /\ Len(work.memories) <= Len(disk.memories) + 1 /\ work.turns = disk.turns
           /\ work.fts = IF fts5 THEN Indexed(work.memories) ELSE {}
           /\ Memory!DeleteAllMemories(call[t].arg.user)
           /\ call[t].arg.user \in Users
           /\ \A i \in DOMAIN work.memories :
                 ~ (work.memories[i].user = call[t].arg.user /\ work.memories[i].status = "active")
<1> DEFINE a == call[t].arg  rows == AllDeleted(a.user)
<1>1. lock = t /\ call[t].todo # <<>> /\ Head(call[t].todo) = "commit" /\ disk' = work
  BY DEF Commit, Executing
<1>2. a.user \in Users
  BY <1>1, Inside DEF IInv, Args
<1>3. /\ work.memories = rows /\ work.turns = disk.turns
      /\ work.fts = Without(Memory!ActiveOf(a.user))
  BY <1>1 DEF IInv, Doing, DoingOf, DeletingAll
<1>4. /\ disk \in Tables /\ disk.memories \in Seq(Memory!Row) /\ Len(disk.memories) \in Nat
      /\ DOMAIN disk.memories = 1 .. Len(disk.memories)
  BY Fields DEF IInv, Type
<1>5. /\ rows \in Seq(Memory!Row) /\ Len(rows) = Len(disk.memories)
      /\ DOMAIN rows = DOMAIN disk.memories
      /\ \A i \in DOMAIN disk.memories :
            rows[i] = IF Memory!OwnActive(a.user, i)
                      THEN [disk.memories[i] EXCEPT !.status = "deleted"] ELSE disk.memories[i]
  BY <1>4, AllDeletedRows
<1>6. Memory!DeleteAllMemories(a.user)
  BY <1>1, <1>3 DEF Memory!DeleteAllMemories, AllDeleted, Memory!Ids
<1> HIDE DEF rows
<1>7. \A i \in DOMAIN disk.memories : disk.memories[i] \in Memory!Row
  BY <1>4, ElementOfSeq
<1>8. \A r \in Memory!Row : /\ [r EXCEPT !.status = "deleted"].status = "deleted"
                            /\ [r EXCEPT !.status = "deleted"].user = r.user
  BY DEF Memory!Row
<1>9. \A i \in DOMAIN disk.memories :
         IF i \in Memory!ActiveOf(a.user) THEN rows[i].status # "active" ELSE rows[i] = disk.memories[i]
  BY <1>5, <1>7, <1>8 DEF Memory!ActiveOf, Memory!Ids
<1>10. Indexed(rows) = Outside(Indexed(disk.memories), Memory!ActiveOf(a.user))
  <2> HIDE DEF a
  <2> QED BY <1>5, <1>9, IndexOfFewer
<1>11. work.fts = IF fts5 THEN Indexed(work.memories) ELSE {}
  BY <1>3, <1>10, Mirrors DEF IInv, Without, Outside
<1>12. \A i \in DOMAIN rows : ~ (rows[i].user = a.user /\ rows[i].status = "active")
  <2> TAKE i \in DOMAIN rows
  <2>1. CASE Memory!OwnActive(a.user, i)
    BY <1>5, <1>7, <1>8, <2>1
  <2>2. CASE ~ Memory!OwnActive(a.user, i)
    BY <1>5, <2>2 DEF Memory!OwnActive, Memory!Ids
  <2> QED BY <2>1, <2>2
<1> QED BY <1>2, <1>3, <1>4, <1>5, <1>6, <1>11, <1>12

\* Appending a turn leaves the memories alone.
LEMMA CommitAppend ==
    ASSUME IInv, NEW t \in Threads, Commit(t), call[t].method = "append_turn"
    PROVE  /\ work.memories = disk.memories /\ work.fts = disk.fts
           /\ \A r \in work.turns : r.id + Cardinality(Pending) <= calls + 1
BY DEF IInv, Doing, DoingOf, Appending, At, Commit, Executing

\* Only writing methods commit.
LEMMA CommitMethods ==
    ASSUME IInv, NEW t \in Threads, Commit(t)
    PROVE  call[t].method \in Writers
<1>1. lock = t /\ call[t].todo # <<>> /\ Head(call[t].todo) = "commit"
  BY DEF Commit, Executing
<1>2. call[t].method \in DOMAIN Program /\ Suffix(call[t].method, call[t].todo)
  BY <1>1, Inside DEF IInv
<1> QED BY <1>1, <1>2, Where, MethodNames DEF Then, AtEnd, Writers

\* A commit: the disk holds what the connection saw.
LEMMA CommitKeeps ==
    ASSUME IInv, NEW t \in Threads, Commit(t)
    PROVE  IInv'
<1> DEFINE m == call[t].method  a == call[t].arg
<1>1. /\ lock = t /\ call[t].todo # <<>> /\ disk' = work /\ work' = work
      /\ Finish(t, call[t].found, "ok") /\ fts5' = fts5
  BY DEF Commit, Executing, Finish
<1>2. /\ disk \in Tables /\ work \in Tables /\ disk' \in Tables
      /\ call[t] \in CallRecord /\ call[t].found \in SUBSET (1 .. MaxCalls)
  <2>1. call[t] \in CallRecord /\ disk \in Tables /\ work \in Tables
    BY <1>1, Inside DEF IInv, Type
  <2>2. call[t].found \in SUBSET (1 .. MaxCalls)
    BY <2>1 DEF CallRecord
  <2> QED BY <1>1, <2>1, <2>2 DEF Tables
<1>3. m \in Writers
  BY CommitMethods
<1>4. /\ Len(work.memories) <= Len(disk.memories) + 1
      /\ work.fts = IF fts5 THEN Indexed(work.memories) ELSE {}
      /\ \A r \in work.turns : r.id + Cardinality(Pending) <= calls + 1
  <2>1. /\ Cardinality(Pending) \in Nat /\ calls \in Nat /\ Len(disk.memories) \in Nat
        /\ \A r \in disk.turns : r.id \in Nat
    BY <1>1, <1>2, Fields, RoomFor DEF IInv, Type
  <2>2. \A r \in disk.turns : r.id + Cardinality(Pending) <= calls + 1
    BY <2>1 DEF IInv, Room
  <2>3. CASE m = "append_turn"
    <3>1. /\ work.memories = disk.memories /\ work.fts = disk.fts
          /\ \A r \in work.turns : r.id + Cardinality(Pending) <= calls + 1
      BY <2>3, CommitAppend
    <3> QED BY <2>1, <3>1, Mirrors DEF IInv
  <2> QED BY <1>3, <2>2, <2>3, CommitAdd, CommitCorrect, CommitDelete, CommitDeleteAll DEF Writers
<1>5. IndexMirrorsActive'
  <2>1. disk'.fts = IF fts5' THEN Indexed(disk'.memories) ELSE {}
    BY <1>1, <1>4
  <2> QED BY <2>1 DEF IndexMirrorsActive, Indexed, Memory!Ids
<1>6. call'[t].method = m /\ call'[t].arg = a /\ call'[t].found = call[t].found
  <2>1. call \in [Threads -> CallRecord]
    BY DEF IInv, Type
  <2> QED BY <1>1, <1>2, <2>1 DEF Finish, CallRecord
<1>7. Reported(t)'
  <2>1. CASE m = "add_memory"
    <3>1. Memory!NewRow(a.user, a.text).user = a.user /\ Memory!NewRow(a.user, a.text).text = a.text
      BY <2>1, CommitAdd, NewRowType
    <3> QED BY <1>1, <1>6, <2>1, <3>1, CommitAdd DEF Reported, Memory!Ids
  <2>2. CASE m = "correct_memory"
    <3>1. Memory!NewRow(a.user, a.text).user = a.user /\ Memory!NewRow(a.user, a.text).text = a.text
      BY <2>2, CommitCorrect, NewRowType
    <3> QED BY <1>1, <1>6, <2>2, <3>1, CommitCorrect DEF Reported, Memory!Ids
  <2>3. CASE m = "delete_memory"
    BY <1>1, <1>6, <2>3, CommitDelete DEF Reported
  <2>4. CASE m = "delete_all_memories"
    BY <1>1, <1>6, <2>4, CommitDeleteAll DEF Reported, Memory!ActiveOf, Memory!OwnActive, Memory!Ids
  <2>5. CASE m = "append_turn"
    BY <1>6, <2>5 DEF Reported
  <2> QED BY <1>3, <2>1, <2>2, <2>3, <2>4, <2>5 DEF Writers
<1>8. m # "search_memories"
  BY <1>3 DEF Writers
<1> QED BY <1>1, <1>2, <1>4, <1>5, <1>7, <1>8, FinishKeeps

-----------------------------------------------------------------------------
(* The theorems.                                                           *)

\* Every statement of every method.
LEMMA StatementKeeps ==
    ASSUME IInv, NEW t \in Threads, Statement(t)
    PROVE  IInv'
BY InsertKeeps, FtsInsertKeeps, FindKeeps, SupersedeKeeps, FtsDeleteKeeps, MarkDeletedKeeps,
   FindAllKeeps, MarkAllDeletedKeeps, FtsDeleteAllKeeps, InsertTurnKeeps, PruneKeeps, MatchKeeps,
   MostRecentKeeps, BeginImmediateKeeps, RollbackKeeps, CommitKeeps DEF Statement

(***************************************************************************)
(* The inductive invariant.  Every step of memory_store.py keeps it: a     *)
(* call, the lock taken and given back, each SQL statement, a statement    *)
(* that fails, a crash.                                                    *)
(***************************************************************************)
THEOREM Inductive == Spec => []IInv
<1>1. Init => IInv
  BY InitIInv
<1>2. IInv /\ [Next]_vars => IInv'
  <2> SUFFICES ASSUME IInv, [Next]_vars PROVE IInv'
    OBVIOUS
  <2>1. ASSUME NEW t \in Threads, Call(t) PROVE IInv'
    BY <2>1, CallKeeps
  <2>2. ASSUME NEW t \in Threads, Acquire(t) PROVE IInv'
    BY <2>2, AcquireKeeps
  <2>3. ASSUME NEW t \in Threads, Statement(t) PROVE IInv'
    BY <2>3, StatementKeeps
  <2>4. ASSUME NEW t \in Threads, StatementFails(t) PROVE IInv'
    BY <2>4, FailKeeps
  <2>5. ASSUME NEW t \in Threads, Release(t) PROVE IInv'
    BY <2>5, ReleaseKeeps
  <2>6. CASE Crash
    BY <2>6, CrashKeeps
  <2>7. CASE UNCHANGED vars
    BY <2>7, StutterKeeps
  <2> QED BY <2>1, <2>2, <2>3, <2>4, <2>5, <2>6, <2>7 DEF Next
<1> QED BY <1>1, <1>2, PTL DEF Spec

(***************************************************************************)
(* The tables keep their schema, row ids and turn ids stay within the      *)
(* calls ever made, and a call is always at a statement of its method.     *)
(***************************************************************************)
THEOREM TypeCorrect == Spec => []TypeOK
<1>1. IInv => TypeOK
  <2> SUFFICES ASSUME IInv PROVE TypeOK
    OBVIOUS
  <2>1. \A t \in Threads : call[t].found \subseteq 1 .. MaxCalls
    BY DEF IInv, Type, CallRecord
  <2>2. ASSUME NEW t \in Threads, call[t].method # "none"
        PROVE  /\ call[t].method \in Methods /\ call[t].arg \in Args(call[t].method)
               /\ Suffix(call[t].method, call[t].todo)
    BY <2>2 DEF IInv, Shape, CallShape
  <2> QED BY <2>1, <2>2 DEF IInv, Type, TypeOK, Suffix
<1> QED BY <1>1, Inductive, PTL

(***************************************************************************)
(* One lock around every method and `with self.conn` around every writing  *)
(* one are enough to share a connection: no thread ever starts on, commits *)
(* or rolls back what another thread has left uncommitted.                 *)
(***************************************************************************)
THEOREM NoDirtyConnection == Spec => []Isolated
<1>1. IInv => Isolated
  <2> SUFFICES ASSUME IInv, work # disk
               PROVE  \E t \in Threads : lock = t /\ call[t].todo # <<>> /\ call[t].method \in Writers
    BY DEF Isolated
  <2>1. lock # Free /\ lock \in Threads
    BY DEF IInv, Type, Doing
  <2>2. ~ Unchanged(lock)
    BY <2>1 DEF IInv, Doing, DoingOf
  <2> QED BY <2>1, <2>2 DEF Unchanged
<1> QED BY <1>1, Inductive, PTL

(***************************************************************************)
(* Whatever is committed, by whichever methods, in whichever order, and    *)
(* whatever failed or crashed in between, the FTS index has exactly the    *)
(* active memories under their own text (and nothing without FTS5).        *)
(***************************************************************************)
THEOREM IndexAlwaysMirrors == Spec => []IndexMirrorsActive
<1>1. IInv => IndexMirrorsActive
  BY DEF IInv
<1> QED BY <1>1, Inductive, PTL

(***************************************************************************)
(* What a writing method returns is true of the committed database.        *)
(***************************************************************************)
THEOREM ResultsAreTrue == Spec => []ResultsAreCommitted
<1>1. IInv => ResultsAreCommitted
  BY DEF IInv
<1> QED BY <1>1, Inductive, PTL

(***************************************************************************)
(* search_memories answers from the user's own active, committed memories, *)
(* within its limit, and with nothing only when there is none.             *)
(***************************************************************************)
THEOREM SearchesAreSound == Spec => []SearchIsSound
<1>1. IInv => SearchIsSound
  BY DEF IInv
<1> QED BY <1>1, Inductive, PTL

(***************************************************************************)
(* memory_store.py implements the contract of the memories: a commit is    *)
(* one of its four steps, with the arguments of the call, and every other  *)
(* statement, failure, rollback and crash is a stutter.                    *)
(***************************************************************************)
LEMMA CommitRefines ==
    ASSUME IInv, NEW t \in Threads, Commit(t)
    PROVE  Memory!Next \/ disk'.memories = disk.memories
<1>1. call[t].method \in Writers
  BY CommitMethods
<1>2. CASE call[t].method = "add_memory"
  BY <1>2, CommitAdd DEF Memory!Next
<1>3. CASE call[t].method = "correct_memory"
  BY <1>3, CommitCorrect DEF Memory!Next
<1>4. CASE call[t].method = "delete_memory"
  BY <1>4, CommitDelete DEF Memory!Next
<1>5. CASE call[t].method = "delete_all_memories"
  BY <1>5, CommitDeleteAll DEF Memory!Next
<1>6. CASE call[t].method = "append_turn"
  BY <1>6, CommitAppend DEF Commit
<1> QED BY <1>1, <1>2, <1>3, <1>4, <1>5, <1>6 DEF Writers

\* No statement but a commit changes the disk.
LEMMA OthersStutter ==
    ASSUME NEW t \in Threads, Statement(t), ~ Commit(t)
    PROVE  disk' = disk
<1>1. ASSUME Insert(t) \/ FtsInsert(t) \/ Supersede(t) \/ FtsDelete(t) \/ FindAll(t)
             \/ MarkAllDeleted(t) \/ FtsDeleteAll(t) \/ InsertTurn(t) \/ Prune(t) \/ BeginImmediate(t)
      PROVE  disk' = disk
  <2>1. ASSUME NEW found, Proceed(t, found) PROVE disk' = disk
    BY <2>1 DEF Proceed
  <2> QED BY <1>1, <2>1 DEF Insert, FtsInsert, Supersede, FtsDelete, FindAll, MarkAllDeleted,
             FtsDeleteAll, InsertTurn, Prune, BeginImmediate
<1>2. ASSUME NEW e, Raise(t, e) PROVE disk' = disk
  BY <1>2 DEF Raise
<1>3. ASSUME NEW found, Proceed(t, found) PROVE disk' = disk
  BY <1>3 DEF Proceed
<1>4. CASE Find(t) \/ MarkDeleted(t) \/ Rollback(t)
  BY <1>2, <1>3, <1>4 DEF Find, MarkDeleted, Rollback
<1>5. CASE Match(t)
  BY <1>3, <1>5 DEF Match
<1>6. CASE MostRecent(t)
  BY <1>6 DEF MostRecent
<1> QED BY <1>1, <1>4, <1>5, <1>6 DEF Statement

\* Every step commits one method's rows, or commits nothing to the table.
LEMMA StepCommits ==
    IInv /\ [Next]_vars => [Memory!Next]_(disk.memories)
<1> SUFFICES ASSUME IInv, [Next]_vars PROVE Memory!Next \/ disk'.memories = disk.memories
  OBVIOUS
<1>1. ASSUME NEW t \in Threads, Statement(t)
      PROVE  Memory!Next \/ disk'.memories = disk.memories
  BY <1>1, CommitRefines, OthersStutter
<1>2. ASSUME NEW t \in Threads, Call(t) \/ Acquire(t) \/ StatementFails(t) \/ Release(t)
      PROVE  disk' = disk
  <2>1. ASSUME StatementFails(t) PROVE disk' = disk
    BY <2>1 DEF StatementFails, Raise
  <2>2. ASSUME Call(t) PROVE disk' = disk
    BY <2>2 DEF Call
  <2>3. ASSUME Acquire(t) \/ Release(t) PROVE disk' = disk
    BY <2>3 DEF Acquire, Release
  <2> QED BY <1>2, <2>1, <2>2, <2>3
<1>3. ASSUME Crash \/ UNCHANGED vars
      PROVE  disk' = disk
  BY <1>3 DEF Crash, vars
<1> QED BY <1>1, <1>2, <1>3 DEF Next

\* The store implements the contract of the table: what is committed takes its
\* steps, one for a whole method, or stays (every
\* writing method is one `with self._lock, self.conn`).
THEOREM StoreImplementsMemory == Spec => ImplementsMemory
<1>1. Init => Memory!Init
  BY DEF Init, Empty, Memory!Init
<1> QED BY <1>1, StepCommits, Inductive, PTL DEF Spec, ImplementsMemory, Memory!Spec

-----------------------------------------------------------------------------
(* The places of the rows of a conversation.                               *)

\* Finitely many rows with ids of their own; each place of their order is taken.
Ranked(rows) ==
    /\ IsFiniteSet(rows)
    /\ \A q, r \in rows : q.id \in Nat /\ (q.id = r.id => q = r)
    /\ \A i \in 1 .. Cardinality(rows) : \E r \in rows : Cardinality(Older(rows, r)) = i - 1

\* The older of two rows has fewer rows before it.
LEMMA RankLess ==
    ASSUME NEW rows, Ranked(rows), NEW q \in rows, NEW r \in rows, q.id < r.id
    PROVE  Cardinality(Older(rows, q)) < Cardinality(Older(rows, r))
<1> DEFINE A == Older(rows, q)  B == Older(rows, r)
<1>1. IsFiniteSet(A) /\ IsFiniteSet(B)
  BY FS_Subset DEF Older, Ranked
<1>2. A \cup {q} \subseteq B /\ q \notin A
  BY DEF Older, Ranked
<1> HIDE DEF A, B
<1>3. Cardinality(A \cup {q}) = Cardinality(A) + 1 /\ Cardinality(A \cup {q}) <= Cardinality(B)
  BY <1>1, <1>2, FS_AddElement, FS_Subset
<1>4. Cardinality(A) \in Nat /\ Cardinality(B) \in Nat
  BY <1>1, FS_CardinalityType
<1> QED BY <1>3, <1>4 DEF A, B

\* So no two rows have the same place.
LEMMA RankUnique ==
    ASSUME NEW rows, Ranked(rows), NEW q \in rows, NEW r \in rows,
           Cardinality(Older(rows, q)) = Cardinality(Older(rows, r))
    PROVE  q = r
<1>1. q.id \in Nat /\ r.id \in Nat /\ (q.id = r.id => q = r)
  BY DEF Ranked
<1>2. Cardinality(Older(rows, q)) \in Nat /\ Cardinality(Older(rows, r)) \in Nat
  BY FS_Subset, FS_CardinalityType DEF Older, Ranked
<1> QED BY <1>1, <1>2, RankLess

\* The content at a row's place is the row's.
LEMMA AtItsPlace ==
    ASSUME NEW rows, Ranked(rows), NEW i \in 1 .. Cardinality(rows), NEW r \in rows,
           Cardinality(Older(rows, r)) = i - 1
    PROVE  InOrder(rows)[i] = r.content
<1> DEFINE x == CHOOSE q \in rows : Cardinality(Older(rows, q)) = i - 1
<1>1. x \in rows /\ Cardinality(Older(rows, x)) = i - 1
  OBVIOUS
<1> HIDE DEF x
<1>2. x = r
  BY <1>1, RankUnique
<1> QED BY <1>2 DEF InOrder, x

\* The newest row goes to the end.
LEMMA AppendRow ==
    ASSUME NEW rows, Ranked(rows), NEW new, new.id \in Nat, \A r \in rows : r.id < new.id
    PROVE  /\ Ranked(rows \cup {new})
           /\ Cardinality(rows \cup {new}) = Cardinality(rows) + 1
           /\ InOrder(rows \cup {new}) = Append(InOrder(rows), new.content)
           /\ Cardinality(Older(rows \cup {new}, new)) = Cardinality(rows)
<1> DEFINE more == rows \cup {new}  n == Cardinality(rows)
<1>1. n \in Nat /\ IsFiniteSet(rows) /\ \A r \in rows : r.id \in Nat
  BY FS_CardinalityType DEF Ranked
<1>2. new \notin rows
  BY <1>1
<1>3. IsFiniteSet(more) /\ Cardinality(more) = n + 1
  BY <1>1, <1>2, FS_AddElement
<1>4. Older(more, new) = rows
  BY <1>1 DEF Older
<1>5. ASSUME NEW r \in rows PROVE Older(more, r) = Older(rows, r)
  <2>1. ~ (new.id < r.id)
    BY <1>1
  <2> QED BY <2>1 DEF Older
<1>6. Ranked(more)
  <2>1. \A q, r \in more : q.id \in Nat /\ (q.id = r.id => q = r)
    <3>1. ASSUME NEW q \in rows PROVE q.id \in Nat /\ q.id # new.id
      BY <1>1
    <3> QED BY <3>1 DEF Ranked
  <2>2. ASSUME NEW i \in 1 .. n + 1 PROVE \E r \in more : Cardinality(Older(more, r)) = i - 1
    <3>1. CASE i = n + 1
      BY <1>1, <1>4, <3>1
    <3>2. CASE i # n + 1
      <4>1. i \in 1 .. n
        BY <1>1, <3>2
      <4>2. PICK r \in rows : Cardinality(Older(rows, r)) = i - 1
        BY <4>1 DEF Ranked
      <4>3. Cardinality(Older(more, r)) = i - 1
        BY <1>5, <4>2
      <4> QED BY <4>3
    <3> QED BY <3>1, <3>2
  <2> QED BY <1>3, <2>1, <2>2 DEF Ranked
<1> HIDE DEF more
<1>7. ASSUME NEW i \in 1 .. n PROVE InOrder(more)[i] = InOrder(rows)[i]
  <2>1. PICK r \in rows : Cardinality(Older(rows, r)) = i - 1
    BY DEF Ranked
  <2>2. r \in more /\ i \in 1 .. n + 1 /\ Cardinality(Older(more, r)) = i - 1
    BY <1>1, <1>5, <2>1 DEF more
  <2>3. InOrder(more)[i] = r.content
    BY <1>3, <1>6, <2>2, AtItsPlace
  <2>4. InOrder(rows)[i] = r.content
    BY <2>1, AtItsPlace
  <2> QED BY <2>3, <2>4
<1>8. InOrder(more)[n + 1] = new.content
  <2>1. new \in more /\ n + 1 \in 1 .. n + 1 /\ Cardinality(Older(more, new)) = (n + 1) - 1
    BY <1>1, <1>4 DEF more
  <2> QED BY <1>3, <1>6, <2>1, AtItsPlace
<1>9. InOrder(more) = [i \in 1 .. n + 1 |-> InOrder(more)[i]]
  BY <1>3 DEF InOrder
<1>10. InOrder(rows) = [i \in 1 .. n |-> InOrder(rows)[i]]
  BY DEF InOrder
<1> DEFINE s == InOrder(rows)
<1>11. DOMAIN s = 1 .. n /\ Len(s) = n
  <2>1. DOMAIN s = 1 .. n
    BY <1>10
  <2> QED BY <1>1, <2>1
<1>12. Append(s, new.content) = [i \in 1 .. n + 1 |-> IF i <= n THEN s[i] ELSE new.content]
  <2> HIDE DEF s
  <2> QED BY <1>1, <1>11 DEF Append
<1>13. InOrder(more) = [i \in 1 .. n + 1 |-> IF i <= n THEN s[i] ELSE new.content]
  <2>1. ASSUME NEW i \in 1 .. n + 1
        PROVE  InOrder(more)[i] = IF i <= n THEN s[i] ELSE new.content
    <3>1. CASE i <= n
      BY <1>1, <1>7, <3>1
    <3>2. CASE ~ (i <= n)
      <4>1. i = n + 1
        BY <1>1, <3>2
      <4> QED BY <1>8, <3>2, <4>1
    <3> QED BY <3>1, <3>2
  <2> HIDE DEF s
  <2> QED BY <1>9, <2>1
<1> QED BY <1>3, <1>4, <1>6, <1>12, <1>13 DEF more

\* Without the oldest row every other moves one place up.
LEMMA DropOldest ==
    ASSUME NEW rows, Ranked(rows), NEW first \in rows, Cardinality(Older(rows, first)) = 0
    PROVE  /\ Ranked(rows \ {first})
           /\ Cardinality(rows \ {first}) = Cardinality(rows) - 1
           /\ InOrder(rows \ {first}) =
                 [i \in 1 .. Cardinality(rows) - 1 |-> InOrder(rows)[i + 1]]
<1> DEFINE rest == rows \ {first}  n == Cardinality(rows)
<1>1. n \in Nat \ {0} /\ IsFiniteSet(rows) /\ IsFiniteSet(rest)
  BY FS_CardinalityType, FS_EmptySet, FS_Subset DEF Ranked
<1>2. Cardinality(rest) = n - 1
  BY <1>1, FS_RemoveElement
<1>3. ASSUME NEW r \in rest
      PROVE  /\ Cardinality(Older(rows, r)) = Cardinality(Older(rest, r)) + 1
             /\ Cardinality(Older(rest, r)) \in Nat
  <2>1. first.id < r.id
    <3>1. Older(rows, first) = {}
      <4>1. IsFiniteSet(Older(rows, first))
        BY FS_Subset DEF Older, Ranked
      <4> QED BY <4>1, FS_EmptySet
    <3>2. ~ (r.id < first.id)
      BY <3>1 DEF Older
    <3> QED BY <3>2 DEF Ranked
  <2>2. Older(rows, r) = Older(rest, r) \cup {first} /\ first \notin Older(rest, r)
    BY <2>1 DEF Older
  <2>3. IsFiniteSet(Older(rest, r))
    BY <1>1, FS_Subset DEF Older
  <2> DEFINE before == Older(rest, r)
  <2> HIDE DEF before
  <2>4. Cardinality(before \cup {first}) = Cardinality(before) + 1 /\ Cardinality(before) \in Nat
    BY <2>2, <2>3, FS_AddElement, FS_CardinalityType DEF before
  <2> QED BY <2>2, <2>4 DEF before
<1>4. ASSUME NEW i \in 1 .. n - 1
      PROVE  \E r \in rest : /\ Cardinality(Older(rest, r)) = i - 1
                             /\ Cardinality(Older(rows, r)) = (i + 1) - 1
  <2>1. i + 1 \in 1 .. n
    BY <1>1
  <2>2. PICK r \in rows : Cardinality(Older(rows, r)) = (i + 1) - 1
    BY <2>1 DEF Ranked
  <2>3. r # first
    BY <2>2
  <2>4. r \in rest
    BY <2>3
  <2>5. Cardinality(Older(rest, r)) = i - 1
    <3>1. Cardinality(Older(rest, r)) + 1 = (i + 1) - 1 /\ Cardinality(Older(rest, r)) \in Nat
      BY <1>3, <2>2, <2>4
    <3>2. \A c \in Nat : c + 1 = (i + 1) - 1 => c = i - 1
      BY <1>1
    <3> QED BY <3>1, <3>2
  <2> QED BY <2>2, <2>4, <2>5
<1>5. Ranked(rest)
  <2>1. \A q, r \in rest : q.id \in Nat /\ (q.id = r.id => q = r)
    BY DEF Ranked
  <2> HIDE DEF rest
  <2> QED BY <1>1, <1>2, <1>4, <2>1 DEF Ranked
<1>6. ASSUME NEW i \in 1 .. n - 1 PROVE InOrder(rest)[i] = InOrder(rows)[i + 1]
  <2>1. PICK r \in rest : /\ Cardinality(Older(rest, r)) = i - 1
                          /\ Cardinality(Older(rows, r)) = (i + 1) - 1
    BY <1>4
  <2>2. r \in rows /\ i + 1 \in 1 .. n
    BY <1>1
  <2>3. InOrder(rows)[i + 1] = r.content
    BY <2>1, <2>2, AtItsPlace
  <2> HIDE DEF rest
  <2>4. InOrder(rest)[i] = r.content
    BY <1>2, <1>5, <2>1, AtItsPlace
  <2> QED BY <2>3, <2>4
<1> HIDE DEF rest
<1>7. InOrder(rest) = [i \in 1 .. n - 1 |-> InOrder(rest)[i]]
  BY <1>2 DEF InOrder
<1> QED BY <1>2, <1>5, <1>6, <1>7 DEF rest

\* LIMIT n keeps everything while there are no more than n rows.
LEMMA NewestAll ==
    ASSUME NEW rows, Ranked(rows), NEW n \in Nat, Cardinality(rows) <= n
    PROVE  NewestRows(rows, n) = rows
<1>1. ASSUME NEW r \in rows PROVE Cardinality({q \in rows : q.id > r.id}) < n
  <2> DEFINE newer == {q \in rows : q.id > r.id}
  <2>1. newer \subseteq rows \ {r}
    BY DEF Ranked
  <2>2. /\ IsFiniteSet(rows \ {r}) /\ Cardinality(rows \ {r}) = Cardinality(rows) - 1
        /\ Cardinality(rows) \in Nat
    BY FS_RemoveElement, FS_CardinalityType DEF Ranked
  <2> HIDE DEF newer
  <2>3. Cardinality(newer) <= Cardinality(rows \ {r}) /\ Cardinality(newer) \in Nat
    BY <2>1, <2>2, FS_Subset, FS_CardinalityType
  <2> QED BY <2>2, <2>3 DEF newer
<1> QED BY <1>1 DEF NewestRows

\* ... and drops the oldest row when there is one too many.
LEMMA NewestButOne ==
    ASSUME NEW rows, Ranked(rows), NEW n \in Nat, Cardinality(rows) = n + 1,
           NEW first \in rows, Cardinality(Older(rows, first)) = 0
    PROVE  NewestRows(rows, n) = rows \ {first}
<1> DEFINE newer(r) == {q \in rows : q.id > r.id}
<1>0. IsFiniteSet(rows) /\ \A q, r \in rows : q.id \in Nat /\ (q.id = r.id => q = r)
  BY DEF Ranked
<1>1. newer(first) = rows \ {first}
  <2>1. IsFiniteSet(Older(rows, first))
    BY <1>0, FS_Subset DEF Older
  <2>2. Older(rows, first) = {}
    BY <2>1, FS_EmptySet
  <2>3. ASSUME NEW q \in rows, q # first PROVE q.id > first.id
    <3>1. ~ (q.id < first.id)
      BY <2>2 DEF Older
    <3> QED BY <1>0, <2>3, <3>1
  <2>4. ~ (first.id > first.id)
    BY <1>0
  <2> QED BY <2>3, <2>4
<1>2. IsFiniteSet(rows \ {first}) /\ Cardinality(rows \ {first}) = n
  <2>1. IsFiniteSet(rows \ {first}) /\ Cardinality(rows \ {first}) = Cardinality(rows) - 1
    BY <1>0, FS_RemoveElement
  <2>2. (n + 1) - 1 = n
    OBVIOUS
  <2> QED BY <2>1, <2>2
<1>3. ASSUME NEW r \in rows, r # first PROVE Cardinality(newer(r)) < n
  <2>1. newer(r) \subseteq (rows \ {first}) \ {r}
    BY <1>0, <1>1
  <2>2. IsFiniteSet((rows \ {first}) \ {r}) /\ Cardinality((rows \ {first}) \ {r}) = n - 1
    BY <1>2, <1>3, FS_RemoveElement
  <2> HIDE DEF newer
  <2>3. Cardinality(newer(r)) <= n - 1 /\ Cardinality(newer(r)) \in Nat
    BY <2>1, <2>2, FS_Subset, FS_CardinalityType
  <2> QED BY <2>3
<1>4. ~ (Cardinality(newer(first)) < n)
  BY <1>1, <1>2
<1>5. NewestRows(rows, n) = {r \in rows : Cardinality(newer(r)) < n}
  BY DEF NewestRows
<1> HIDE DEF newer
<1> QED BY <1>3, <1>4, <1>5

\* A part of a sequence, place by place.
LEMMA SubSeqIs ==
    ASSUME NEW s, NEW m \in Int, NEW n \in Int, m <= n
    PROVE  SubSeq(s, m, n) = [i \in 1 .. n - m + 1 |-> s[m + i - 1]]
<1> DEFINE S == {s[i] : i \in m .. n}  p == SubSeq(s, m, n)
<1>1. \A i \in m .. n : s[i] \in S
  OBVIOUS
<1> HIDE DEF S
<1>2. /\ p \in Seq(S) /\ Len(p) = n - m + 1
      /\ \A i \in 1 .. n - m + 1 : p[i] = s[m + i - 1]
  BY <1>1, SubSeqProperties
<1> HIDE DEF p
<1>3. p \in [1 .. n - m + 1 -> S]
  BY <1>2, LenProperties
<1> QED BY <1>2, <1>3 DEF p

\* A turn appended and the conversation pruned: the contract's AppendTurn.
LEMMA PrunedWindow ==
    ASSUME NEW rows, Ranked(rows), Cardinality(rows) <= KeepTurns,
           NEW new, new.id \in Nat, \A r \in rows : r.id < new.id
    PROVE  LET kept == NewestRows(rows \cup {new}, KeepTurns)
           IN  /\ Ranked(kept)
               /\ Cardinality(kept) <= KeepTurns
               /\ InOrder(kept) = Conversation!Newest(Append(InOrder(rows), new.content), KeepTurns)
<1> DEFINE more == rows \cup {new}  n == Cardinality(rows)  s == Append(InOrder(rows), new.content)
           kept == NewestRows(more, KeepTurns)
<1>0. Ranked(more) /\ Cardinality(more) = n + 1 /\ InOrder(more) = s
  BY AppendRow
<1>1. /\ Ranked(more) /\ Cardinality(more) = n + 1 /\ InOrder(more) = s
      /\ n \in Nat /\ KeepTurns \in Nat \ {0}
  <2>1. IsFiniteSet(rows)
    BY DEF Ranked
  <2> QED BY <1>0, <2>1, StoreAssumption, FS_CardinalityType
<1> HIDE DEF more
<1>2. InOrder(more) = [i \in 1 .. n + 1 |-> InOrder(more)[i]]
  BY <1>1 DEF InOrder
<1>3. Len(s) = n + 1 /\ s = [i \in 1 .. n + 1 |-> s[i]]
  <2>1. s = [i \in 1 .. n + 1 |-> s[i]]
    BY <1>1, <1>2
  <2> HIDE DEF s
  <2>2. DOMAIN s = 1 .. n + 1
    BY <2>1
  <2> QED BY <1>1, <2>1, <2>2
<1> HIDE DEF s
<1>4. CASE n < KeepTurns
  <2>1. kept = more
    BY <1>1, <1>4, NewestAll
  <2>2. Conversation!Newest(s, KeepTurns) = SubSeq(s, 1, n + 1)
    BY <1>1, <1>3, <1>4 DEF Conversation!Newest
  <2>3. SubSeq(s, 1, n + 1) = s
    <3>1. SubSeq(s, 1, n + 1) = [i \in 1 .. (n + 1) - 1 + 1 |-> s[1 + i - 1]]
      BY <1>1, SubSeqIs
    <3>2. (n + 1) - 1 + 1 = n + 1 /\ \A i \in 1 .. n + 1 : 1 + i - 1 = i
      BY <1>1
    <3> QED BY <1>3, <3>1, <3>2
  <2>4. Ranked(kept) /\ Cardinality(kept) <= KeepTurns /\ InOrder(kept) = s
    BY <1>1, <1>4, <2>1
  <2> QED BY <2>2, <2>3, <2>4 DEF more, s
<1>5. CASE n = KeepTurns
  <2>1. PICK first \in more : Cardinality(Older(more, first)) = 1 - 1
    <3>1. 1 \in 1 .. Cardinality(more)
      BY <1>1
    <3> QED BY <1>1, <3>1 DEF Ranked
  <2>2. /\ kept = more \ {first} /\ Ranked(kept) /\ Cardinality(kept) = n
        /\ InOrder(kept) = [i \in 1 .. n |-> s[i + 1]]
    <3>1. Cardinality(Older(more, first)) = 0 /\ (n + 1) - 1 = n
      BY <1>1, <2>1
    <3>2. kept = more \ {first}
      BY <1>1, <1>5, <3>1, NewestButOne
    <3> QED BY <1>1, <3>1, <3>2, DropOldest
  <2>3. Conversation!Newest(s, KeepTurns) = SubSeq(s, 2, n + 1)
    <3>1. n + 1 > n /\ (n + 1) - n + 1 = 2
      BY <1>1
    <3> QED BY <1>3, <1>5, <3>1 DEF Conversation!Newest
  <2>4. SubSeq(s, 2, n + 1) = [i \in 1 .. n |-> s[i + 1]]
    <3>1. SubSeq(s, 2, n + 1) = [i \in 1 .. (n + 1) - 2 + 1 |-> s[2 + i - 1]]
      BY <1>1, <1>5, SubSeqIs
    <3>2. (n + 1) - 2 + 1 = n /\ \A i \in 1 .. n : 2 + i - 1 = i + 1
      BY <1>1
    <3> QED BY <3>1, <3>2
  <2>5. Cardinality(kept) <= KeepTurns
    BY <1>1, <1>5, <2>2
  <2> QED BY <2>2, <2>3, <2>4, <2>5 DEF more, s
<1> QED BY <1>1, <1>4, <1>5

-----------------------------------------------------------------------------
(* The windows of the conversations.                                       *)

Windows == \A k \in Conversations :
    Ranked(Rows(disk.turns, k)) /\ Cardinality(Rows(disk.turns, k)) <= KeepTurns

\* The turn that append_turn inserts, under an id of its own, greater than all.
NewTurn(t, id) == [id |-> id, conv |-> call[t].arg.conv, content |-> call[t].arg.content]

PrunedFor(turns, k) == turns \ (Rows(turns, k) \ NewestRows(Rows(turns, k), KeepTurns))

\* What append_turn has changed: a turn inserted, its conversation pruned.
Turning(t) ==
    /\ At(t, "append_turn", "prune") =>
          \E id \in Nat : /\ \A r \in disk.turns : r.id < id
                          /\ work.turns = disk.turns \cup {NewTurn(t, id)}
    /\ At(t, "append_turn", "commit") =>
          \E id \in Nat : /\ \A r \in disk.turns : r.id < id
                          /\ work.turns = PrunedFor(disk.turns \cup {NewTurn(t, id)},
                                                    call[t].arg.conv)

TInv == IInv /\ Windows /\ \A t \in Threads : lock = t => Turning(t)

\* The next id is greater than the id of every row.
LEMMA NextTurnIdIsNew ==
    ASSUME IInv, NEW t \in Threads, lock = t, call[t].todo # <<>>, work = disk
    PROVE  NextTurnId \in Nat /\ \A r \in disk.turns : r.id < NextTurnId
<1> DEFINE S == {r.id : r \in work.turns} \cup {0}
<1>1. work \in Tables /\ disk \in Tables /\ calls \in Nat
  BY StoreAssumption DEF IInv, Type
<1>2. Cardinality(Pending) \in Nat
  BY RoomFor
<1>3. \A r \in work.turns : r.id \in Nat /\ r.id <= calls
  <2>1. \A r \in disk.turns : r.id \in Nat
    BY <1>1, Fields
  <2> QED BY <1>1, <1>2, <2>1 DEF IInv, Room
<1>4. S \in SUBSET Nat /\ 0 \in S /\ \A x \in S : x <= calls
  BY <1>1, <1>3
<1>5. \A r \in work.turns : r.id \in S
  OBVIOUS
<1> HIDE DEF S
<1>6. \E x \in S : \A y \in S : x >= y
  <2>1. \E x \in S : \A y \in S : y <= x
    BY <1>1, <1>4, GreatestOf
  <2> QED BY <1>4, <2>1
<1>7. Max(S) \in S /\ \A y \in S : Max(S) >= y
  BY <1>6 DEF Max
<1>8. NextTurnId = Max(S) + 1
  BY DEF NextTurnId, S
<1>9. Max(S) \in Nat /\ \A r \in disk.turns : r.id \in Nat /\ Max(S) >= r.id
  BY <1>3, <1>4, <1>5, <1>7
<1> QED BY <1>8, <1>9

\* After INSERT.
LEMMA InsertTurnTurns ==
    ASSUME TInv, NEW t \in Threads, InsertTurn(t)
    PROVE  Turning(t)'
<1> DEFINE td == call[t].todo
<1>1. Executing(t, "insert_turn") /\ lock = t /\ td # <<>> /\ Head(td) = "insert_turn"
  BY DEF InsertTurn, Executing
<1>2. call[t].method \in DOMAIN Program /\ Suffix(call[t].method, td)
  BY <1>1, Inside DEF TInv, IInv
<1>3. call[t].method = "append_turn" /\ Then(td, "insert_turn", "prune")
  BY <1>1, <1>2, Where, MethodNames, SMTT(20) DEF Then, AtEnd
<1>4. work = disk /\ disk \in Tables /\ work \in Tables
  BY <1>1, <1>3 DEF TInv, IInv, Type, Doing, DoingOf, Unchanged, Reading, At
<1>5. NextTurnId \in Nat /\ \A r \in disk.turns : r.id < NextTurnId
  BY <1>1, <1>4, NextTurnIdIsNew DEF TInv
<1>6. Proceed(t, {}) /\ {} \in SUBSET (1 .. MaxCalls)
  BY DEF InsertTurn
<1>7. disk' = disk /\ call'[t].arg = call[t].arg /\ call'[t].todo = Tail(td)
  BY <1>1, <1>6, Proceeded DEF TInv, IInv
<1>8. work'.turns = disk.turns \cup {NewTurn(t, NextTurnId)}
  <2>1. work' = [work EXCEPT !.turns = work.turns \cup {NewTurn(t, NextTurnId)}]
    BY DEF InsertTurn, NewTurn
  <2> QED BY <1>4, <2>1 DEF Tables
<1>9. \A id : [id |-> id, conv |-> call'[t].arg.conv, content |-> call'[t].arg.content]
              = NewTurn(t, id)
  BY <1>7 DEF NewTurn
<1>10. \E id \in Nat : /\ \A r \in disk'.turns : r.id < id
                       /\ work'.turns = disk'.turns \cup
                             {[id |-> id, conv |-> call'[t].arg.conv,
                               content |-> call'[t].arg.content]}
  BY <1>5, <1>7, <1>8, <1>9
<1>11. ~ At(t, "append_turn", "commit")'
  BY <1>3, <1>7 DEF At, Then
<1> QED BY <1>10, <1>11 DEF Turning, NewTurn

\* After DELETE.
LEMMA PruneTurns ==
    ASSUME TInv, NEW t \in Threads, Prune(t)
    PROVE  Turning(t)'
<1> DEFINE td == call[t].todo  k == call[t].arg.conv
<1>1. Executing(t, "prune") /\ lock = t /\ td # <<>> /\ Head(td) = "prune"
  BY DEF Prune, Executing
<1>2. call[t].method \in DOMAIN Program /\ Suffix(call[t].method, td)
  BY <1>1, Inside DEF TInv, IInv
<1>3. call[t].method = "append_turn" /\ Then(td, "prune", "commit")
  BY <1>1, <1>2, Where, MethodNames, SMTT(20) DEF Then, AtEnd
<1>4. PICK id \in Nat : /\ \A r \in disk.turns : r.id < id
                        /\ work.turns = disk.turns \cup {NewTurn(t, id)}
  BY <1>1, <1>3 DEF TInv, Turning, At
<1>5. Proceed(t, {}) /\ {} \in SUBSET (1 .. MaxCalls)
  BY DEF Prune
<1>6. disk' = disk /\ call'[t].arg = call[t].arg /\ call'[t].todo = Tail(td)
  BY <1>1, <1>5, Proceeded DEF TInv, IInv
<1>7. work'.turns = PrunedFor(disk.turns \cup {NewTurn(t, id)}, k)
  <2>1. work \in Tables
    BY DEF TInv, IInv, Type
  <2>2. work' = [work EXCEPT !.turns = PrunedFor(work.turns, k)]
    BY DEF Prune, PrunedFor
  <2> QED BY <1>4, <2>1, <2>2 DEF Tables
<1>8. [id |-> id, conv |-> call'[t].arg.conv, content |-> call'[t].arg.content] = NewTurn(t, id)
  BY <1>6 DEF NewTurn
<1>9. \E i \in Nat : /\ \A r \in disk'.turns : r.id < i
                     /\ work'.turns = PrunedFor(disk'.turns \cup
                           {[id |-> i, conv |-> call'[t].arg.conv,
                             content |-> call'[t].arg.content]}, call'[t].arg.conv)
  BY <1>4, <1>6, <1>7, <1>8
<1>10. ~ At(t, "append_turn", "prune")'
  BY <1>3, <1>6 DEF At, Then
<1> QED BY <1>9, <1>10 DEF Turning, NewTurn

\* A statement of append_turn is its INSERT, its DELETE or its COMMIT.
LEMMA AppendingStatement ==
    ASSUME IInv, NEW t \in Threads, NEW s, Executing(t, s), call[t].method = "append_turn"
    PROVE  s \in {"insert_turn", "prune", "commit"}
<1>1. lock = t /\ call[t].todo # <<>> /\ Head(call[t].todo) = s
  BY DEF Executing
<1>2. call[t].method \in DOMAIN Program /\ Suffix(call[t].method, call[t].todo)
  BY <1>1, Inside DEF IInv
<1> QED BY <1>1, <1>2, Where DEF Then, AtEnd

\* No other statement, and no failure, is followed by a statement of append_turn.
LEMMA OtherTurns ==
    ASSUME IInv, NEW t \in Threads, Statement(t) \/ StatementFails(t),
           ~ InsertTurn(t), ~ Prune(t)
    PROVE  Turning(t)'
<1>1. ASSUME NEW found, Proceed(t, found), NEW s, Executing(t, s),
             s \notin {"insert_turn", "prune", "commit"}
      PROVE  Turning(t)'
  <2>1. call[t].method # "append_turn"
    BY <1>1, AppendingStatement
  <2>2. call'[t].method = call[t].method
    BY <1>1 DEF Proceed, IInv, Type, CallRecord
  <2> QED BY <2>1, <2>2 DEF Turning, At
<1>2. ASSUME NEW found, NEW result, Finish(t, found, result)
      PROVE  Turning(t)'
  <2>1. call'[t].todo = <<>>
    BY <1>2 DEF Finish, IInv, Type, CallRecord
  <2> QED BY <2>1 DEF Turning, At
<1>3. ASSUME NEW e, Raise(t, e) PROVE Turning(t)'
  BY <1>2, <1>3 DEF Raise
<1>4. CASE StatementFails(t)
  BY <1>2, <1>3, <1>4 DEF StatementFails
<1>5. CASE Insert(t) \/ FtsInsert(t) \/ Supersede(t) \/ FtsDelete(t) \/ FindAll(t)
  BY <1>1, <1>5 DEF Insert, FtsInsert, Supersede, FtsDelete, FindAll
<1>6. CASE MarkAllDeleted(t) \/ FtsDeleteAll(t) \/ BeginImmediate(t)
  BY <1>1, <1>6 DEF MarkAllDeleted, FtsDeleteAll, BeginImmediate
<1>7. CASE Find(t)
  BY <1>1, <1>3, <1>7 DEF Find
<1>8. CASE MarkDeleted(t)
  BY <1>1, <1>3, <1>8 DEF MarkDeleted
<1>9. CASE Rollback(t)
  BY <1>3, <1>9 DEF Rollback
<1>10. CASE Match(t)
  BY <1>1, <1>2, <1>10 DEF Match
<1>11. CASE MostRecent(t)
  BY <1>2, <1>11 DEF MostRecent
<1>12. CASE Commit(t)
  BY <1>2, <1>12 DEF Commit
<1> QED BY <1>4, <1>5, <1>6, <1>7, <1>8, <1>9, <1>10, <1>11, <1>12 DEF Statement

\* The rows of a conversation after append_turn: one window moves, the others stay.
LEMMA RowsAfter ==
    ASSUME NEW turns, NEW new, NEW k
    PROVE  Rows(PrunedFor(turns \cup {new}, new.conv), k) =
              IF k = new.conv THEN NewestRows(Rows(turns, k) \cup {new}, KeepTurns)
              ELSE Rows(turns, k)
<1> DEFINE more == turns \cup {new}  mine == Rows(more, new.conv)
<1>1. CASE k = new.conv
  <2>1. mine = Rows(turns, k) \cup {new}
    BY <1>1 DEF Rows
  <2>2. NewestRows(mine, KeepTurns) \subseteq mine
    BY DEF NewestRows
  <2>3. Rows(PrunedFor(more, new.conv), k) = NewestRows(mine, KeepTurns)
    BY <1>1, <2>2 DEF PrunedFor, Rows
  <2> QED BY <1>1, <2>1, <2>3
<1>2. CASE k # new.conv
  <2>1. \A r \in mine : r.conv # k
    BY <1>2 DEF Rows
  <2>2. Rows(PrunedFor(more, new.conv), k) = Rows(more, k)
    BY <2>1 DEF PrunedFor, Rows
  <2>3. Rows(more, k) = Rows(turns, k)
    BY <1>2 DEF Rows
  <2> QED BY <1>2, <2>2, <2>3
<1> QED BY <1>1, <1>2

\* A commit: append_turn's is the contract's step, the others leave every window.
LEMMA CommitTurns ==
    ASSUME TInv, NEW t \in Threads, Commit(t)
    PROVE  /\ Windows'
           /\ \/ /\ call[t].arg.conv \in Conversations /\ call[t].arg.content \in Contents
                 /\ \A k \in Conversations :
                       InOrder(Rows(disk.turns, k))' =
                          IF k = call[t].arg.conv
                          THEN Conversation!Newest(Append(Window(k), call[t].arg.content), KeepTurns)
                          ELSE Window(k)
              \/ disk'.turns = disk.turns
<1>1. IInv /\ Windows /\ disk' = work /\ lock = t /\ call[t].todo # <<>>
      /\ Head(call[t].todo) = "commit"
  BY DEF TInv, Commit, Executing
<1>2. call[t].method \in Writers
  BY <1>1, CommitMethods
<1>3. CASE call[t].method # "append_turn"
  <2>1. disk'.turns = disk.turns
    BY <1>1, <1>2, <1>3, CommitAdd, CommitCorrect, CommitDelete, CommitDeleteAll DEF Writers
  <2> QED BY <1>1, <2>1 DEF Windows
<1>4. CASE call[t].method = "append_turn"
  <2> DEFINE a == call[t].arg
  <2>1. a.conv \in Conversations /\ a.content \in Contents
    <3>1. a \in Args("append_turn")
      BY <1>1, <1>4, Inside DEF IInv
    <3> QED BY <3>1 DEF Args
  <2>2. PICK id \in Nat : /\ \A r \in disk.turns : r.id < id
                          /\ work.turns = PrunedFor(disk.turns \cup {NewTurn(t, id)}, a.conv)
    BY <1>1, <1>4 DEF TInv, Turning, At
  <2> DEFINE new == NewTurn(t, id)
  <2>3. new.id = id /\ new.conv = a.conv /\ new.content = a.content
    BY DEF NewTurn
  <2> HIDE DEF new
  <2>4. disk'.turns = PrunedFor(disk.turns \cup {new}, new.conv)
    BY <1>1, <2>2, <2>3 DEF new
  <2>5. ASSUME NEW k \in Conversations
        PROVE  Rows(disk'.turns, k) = IF k = a.conv
               THEN NewestRows(Rows(disk.turns, k) \cup {new}, KeepTurns) ELSE Rows(disk.turns, k)
    <3>1. Rows(PrunedFor(disk.turns \cup {new}, new.conv), k) =
             IF k = new.conv THEN NewestRows(Rows(disk.turns, k) \cup {new}, KeepTurns)
             ELSE Rows(disk.turns, k)
      BY RowsAfter
    <3> QED BY <2>3, <2>4, <3>1
  <2>6. ASSUME NEW k \in Conversations, k = a.conv
        PROVE  /\ Ranked(Rows(disk'.turns, k)) /\ Cardinality(Rows(disk'.turns, k)) <= KeepTurns
               /\ InOrder(Rows(disk'.turns, k)) =
                     Conversation!Newest(Append(Window(k), a.content), KeepTurns)
    <3>1. Ranked(Rows(disk.turns, k)) /\ Cardinality(Rows(disk.turns, k)) <= KeepTurns
      BY <1>1 DEF Windows
    <3>2. new.id \in Nat /\ \A r \in Rows(disk.turns, k) : r.id < new.id
      BY <2>2, <2>3 DEF Rows
    <3> DEFINE rows == Rows(disk.turns, k)
    <3>3. Rows(disk'.turns, k) = NewestRows(rows \cup {new}, KeepTurns)
      BY <2>5, <2>6
    <3>4. Window(k) = InOrder(rows)
      BY DEF Window
    <3> HIDE DEF rows
    <3> QED BY <2>3, <3>1, <3>2, <3>3, <3>4, PrunedWindow DEF rows
  <2>7. ASSUME NEW k \in Conversations, k # a.conv
        PROVE  /\ Ranked(Rows(disk'.turns, k)) /\ Cardinality(Rows(disk'.turns, k)) <= KeepTurns
               /\ InOrder(Rows(disk'.turns, k)) = Window(k)
    BY <1>1, <2>5, <2>7 DEF Windows, Window
  <2>8. \A k \in Conversations :
           /\ Ranked(Rows(disk'.turns, k)) /\ Cardinality(Rows(disk'.turns, k)) <= KeepTurns
           /\ InOrder(Rows(disk'.turns, k)) =
                 IF k = a.conv THEN Conversation!Newest(Append(Window(k), a.content), KeepTurns)
                 ELSE Window(k)
    BY <2>6, <2>7
  <2> QED BY <2>1, <2>8 DEF Windows
<1> QED BY <1>3, <1>4

\* Every step keeps the windows and what append_turn knows of its own.
LEMMA TurnsInductive ==
    ASSUME TInv, IInv', [Next]_vars
    PROVE  TInv'
<1>1. ASSUME disk' = disk PROVE Windows'
  BY <1>1 DEF TInv, Windows
<1>2. ASSUME NEW t \in Threads, Statement(t) \/ StatementFails(t)
      PROVE  lock' = t /\ Turning(t)' /\ Windows'
  <2>1. lock = t /\ lock' = t
    <3>1. ASSUME NEW found, Proceed(t, found) PROVE lock' = lock
      BY <3>1 DEF Proceed
    <3>2. ASSUME NEW found, NEW e, Finish(t, found, e) PROVE lock' = lock
      BY <3>2 DEF Finish
    <3>3. ASSUME NEW e, Raise(t, e) PROVE lock' = lock
      BY <3>2, <3>3 DEF Raise
    <3>4. ASSUME StatementFails(t) PROVE lock = t /\ lock' = lock
      BY <3>2, <3>3, <3>4 DEF StatementFails
    <3>5. ASSUME Insert(t) \/ FtsInsert(t) \/ Supersede(t) \/ FtsDelete(t) \/ FindAll(t)
                 \/ MarkAllDeleted(t) \/ FtsDeleteAll(t) \/ InsertTurn(t) \/ Prune(t)
                 \/ BeginImmediate(t)
          PROVE  lock = t /\ lock' = lock
      BY <3>1, <3>5 DEF Insert, FtsInsert, Supersede, FtsDelete, FindAll, MarkAllDeleted,
         FtsDeleteAll, InsertTurn, Prune, BeginImmediate, Executing
    <3>6. ASSUME Find(t) \/ MarkDeleted(t) \/ Rollback(t) PROVE lock = t /\ lock' = lock
      BY <3>1, <3>3, <3>6 DEF Find, MarkDeleted, Rollback, Executing
    <3>7. ASSUME Match(t) \/ MostRecent(t) \/ Commit(t) PROVE lock = t /\ lock' = lock
      BY <3>1, <3>2, <3>7 DEF Match, MostRecent, Commit, Executing
    <3> QED BY <1>2, <3>4, <3>5, <3>6, <3>7 DEF Statement
  <2>2. Turning(t)'
    BY <1>2, InsertTurnTurns, PruneTurns, OtherTurns DEF TInv
  <2>3. Windows'
    <3>1. StatementFails(t) => disk' = disk
      BY DEF StatementFails, Raise
    <3> QED BY <1>1, <1>2, <3>1, CommitTurns, OthersStutter
  <2> QED BY <2>1, <2>2, <2>3
<1>3. ASSUME disk' = disk, work' = work, lock' = lock,
             lock \in Threads => call'[lock] = call[lock]
      PROVE  TInv'
  <2>1. ASSUME NEW t \in Threads, lock' = t PROVE Turning(t)'
    <3>1. lock = t /\ Turning(t)
      BY <1>3, <2>1 DEF TInv
    <3>2. call'[t] = call[t]
      BY <1>3, <3>1
    <3> QED BY <1>3, <3>1, <3>2 DEF Turning, At, NewTurn
  <2> QED BY <1>1, <1>3, <2>1 DEF TInv
<1>4. ASSUME NEW t \in Threads, Call(t) PROVE TInv'
  <2>1. lock # t
    <3>1. call[t].method = "none"
      BY <1>4 DEF Call, Idle
    <3> QED BY <3>1 DEF TInv, IInv, Shape, CallShape
  <2>2. disk' = disk /\ work' = work /\ lock' = lock
    BY <1>4 DEF Call
  <2>3. lock \in Threads => call'[lock] = call[lock]
    BY <1>4, <2>1 DEF Call, TInv, IInv, Type
  <2> QED BY <1>3, <2>2, <2>3
<1>5. ASSUME NEW t \in Threads, Acquire(t) PROVE TInv'
  <2>1. lock = Free /\ lock' = t /\ call' = call /\ disk' = disk
    BY <1>5 DEF Acquire
  <2>2. ~ At(t, "append_turn", "prune") /\ ~ At(t, "append_turn", "commit")
    <3>1. lock # t
      BY <2>1, StoreAssumption
    <3>2. call[t].method = "append_turn" => call[t].todo = Program["append_turn"]
      BY <3>1 DEF TInv, IInv, Shape, CallShape
    <3>3. Head(Program["append_turn"]) = "insert_turn"
      BY Listing
    <3> QED BY <3>2, <3>3 DEF At
  <2>3. Turning(t)'
    BY <2>1, <2>2 DEF Turning, At
  <2> QED BY <1>1, <2>1, <2>3 DEF TInv
<1>6. ASSUME disk' = disk, lock' = Free PROVE TInv'
  BY <1>1, <1>6, StoreAssumption DEF TInv
<1>7. ASSUME NEW t \in Threads, Release(t) PROVE TInv'
  BY <1>6, <1>7 DEF Release
<1>8. CASE Crash
  BY <1>6, <1>8 DEF Crash
<1>9. CASE UNCHANGED vars
  BY <1>3, <1>9 DEF vars
<1>10. ASSUME NEW t \in Threads, Statement(t) \/ StatementFails(t) PROVE TInv'
  BY <1>2, <1>10 DEF TInv
<1> QED BY <1>4, <1>5, <1>7, <1>8, <1>9, <1>10 DEF Next

(***************************************************************************)
(* memory_store.py implements the rolling window of the contract: a        *)
(* committed append_turn puts its turn at the end of its own conversation, *)
(* drops what no longer fits, and no other step changes any conversation.  *)
(***************************************************************************)
THEOREM StoreImplementsTurns == Spec => ImplementsTurns
<1>1. Init => TInv
  <2> SUFFICES ASSUME Init PROVE TInv
    OBVIOUS
  <2>1. IInv /\ lock = Free
    BY InitIInv DEF Init
  <2>2. \A k \in Conversations : Rows(disk.turns, k) = {}
    BY DEF Init, Empty, Rows
  <2>3. Windows
    <3>1. Ranked({}) /\ Cardinality({}) <= KeepTurns
      BY FS_EmptySet, StoreAssumption DEF Ranked
    <3> QED BY <2>2, <3>1 DEF Windows
  <2> QED BY <2>1, <2>3, StoreAssumption DEF TInv
<1>2. Init => Conversation!Init
  <2> SUFFICES ASSUME Init, NEW k \in Conversations PROVE Window(k) = <<>>
    BY DEF Conversation!Init
  <2>1. Rows(disk.turns, k) = {}
    BY DEF Init, Empty, Rows
  <2>2. InOrder({}) = <<>>
    BY FS_EmptySet DEF InOrder
  <2> QED BY <2>1, <2>2 DEF Window
<1>3. TInv /\ IInv' /\ [Next]_vars => TInv'
  BY TurnsInductive
<1>4. TInv /\ [Next]_vars => [Conversation!Next]_([k \in Conversations |-> Window(k)])
  <2> SUFFICES ASSUME TInv, [Next]_vars
               PROVE  \/ Conversation!Next
                      \/ [k \in Conversations |-> Window(k)]' = [k \in Conversations |-> Window(k)]
    OBVIOUS
  <2> DEFINE w == [k \in Conversations |-> Window(k)]
  <2>1. ASSUME disk'.turns = disk.turns PROVE w' = w
    BY <2>1 DEF Window
  <2>2. ASSUME NEW t \in Threads, Commit(t) PROVE Conversation!Next \/ w' = w
    <3>1. CASE disk'.turns = disk.turns
      BY <2>1, <3>1
    <3>2. CASE disk'.turns # disk.turns
      <4> DEFINE k == call[t].arg.conv  c == call[t].arg.content
      <4>1. /\ k \in Conversations /\ c \in Contents
            /\ \A j \in Conversations : Window(j)' =
                  IF j = k THEN Conversation!Newest(Append(Window(k), c), KeepTurns)
                  ELSE Window(j)
        BY <2>2, <3>2, CommitTurns DEF Window
      <4>2. w' = [j \in Conversations |-> Window(j)']
        OBVIOUS
      <4>3. w' = [w EXCEPT ![k] = Conversation!Newest(Append(w[k], c), KeepTurns)]
        BY <4>1, <4>2
      <4>4. Conversation!AppendTurn(k, c)
        BY <4>3 DEF Conversation!AppendTurn
      <4> QED BY <4>1, <4>4 DEF Conversation!Next
    <3> QED BY <3>1, <3>2
  <2>3. ASSUME NEW t \in Threads, Call(t) \/ Acquire(t) \/ StatementFails(t) \/ Release(t)
        PROVE  disk' = disk
    <3>1. ASSUME StatementFails(t) PROVE disk' = disk
      BY <3>1 DEF StatementFails, Raise
    <3> QED BY <2>3, <3>1 DEF Call, Acquire, Release
  <2>4. CASE Crash \/ UNCHANGED vars
    BY <2>1, <2>4 DEF Crash, vars
  <2>5. ASSUME NEW t \in Threads, Statement(t) PROVE Conversation!Next \/ w' = w
    BY <2>1, <2>2, <2>5, OthersStutter
  <2> QED BY <2>1, <2>3, <2>4, <2>5 DEF Next
<1> QED BY <1>1, <1>2, <1>3, <1>4, Inductive, PTL DEF Spec, ImplementsTurns, Conversation!Spec

-----------------------------------------------------------------------------
(* What the contract promises holds of what is committed.                  *)

Promised == INSTANCE MagMemoryProofs WITH memories <- disk.memories, MaxMemories <- MaxCalls

\* The contract the store implements is the one proved about in MagMemoryProofs.
LEMMA PromisedTable ==
    /\ Memory!TypeOK <=> Promised!TypeOK
    /\ Memory!SupersedeChain <=> Promised!SupersedeChain
    /\ Memory!AuditTrailStep <=> Promised!AuditTrailStep
    /\ Memory!OneOwnerStep <=> Promised!OneOwnerStep
    /\ Memory!Ids = Promised!Ids
    /\ \A u, t : Memory!NewRow(u, t) = Promised!NewRow(u, t)
BY DEF Memory!TypeOK, Promised!TypeOK, Memory!Row, Promised!Row, Memory!Status,
       Promised!Status, Memory!SupersedeChain, Promised!SupersedeChain,
       Memory!AuditTrailStep, Promised!AuditTrailStep, Memory!OneOwnerStep,
       Promised!OneOwnerStep, Memory!Ids, Promised!Ids, Memory!NoRow, Promised!NoRow,
       Memory!NewRow, Promised!NewRow

\* So are its methods.
LEMMA PromisedSteps ==
    /\ \A u, t : Memory!AddMemory(u, t) <=> Promised!AddMemory(u, t)
    /\ \A u, i, t : Memory!CorrectMemory(u, i, t) <=> Promised!CorrectMemory(u, i, t)
    /\ \A u, i : Memory!DeleteMemory(u, i) <=> Promised!DeleteMemory(u, i)
    /\ \A u : Memory!DeleteAllMemories(u) <=> Promised!DeleteAllMemories(u)
BY PromisedTable
   DEF Memory!AddMemory, Promised!AddMemory, Memory!CorrectMemory, Promised!CorrectMemory,
       Memory!DeleteMemory, Promised!DeleteMemory, Memory!DeleteAllMemories,
       Promised!DeleteAllMemories, Memory!OwnActive, Promised!OwnActive, Memory!Ids,
       Promised!Ids

\* A step of the store is a step of that contract, or leaves the table alone.
LEMMA StepPromised ==
    ASSUME IInv, [Next]_vars
    PROVE  [Promised!Next]_(disk.memories)
<1>1. [Memory!Next]_(disk.memories)
  BY StepCommits
<1>2. CASE Memory!Next
  BY <1>2, PromisedTable, PromisedSteps DEF Memory!Next, Promised!Next
<1> QED BY <1>1, <1>2

(***************************************************************************)
(* The database file keeps what the README of the MAG showcase promises of *)
(* it, whatever threads, failed statements and crashes there are: chains   *)
(* of corrections never merge, no committed row is removed, rewritten or   *)
(* revived, and no method touches the rows of two users.                   *)
(***************************************************************************)
THEOREM FileKeepsPromises ==
    Spec => []Memory!SupersedeChain /\ Memory!AuditTrail /\ Memory!OneOwner
<1>1. Init => Promised!IInv
  <2>1. Init => Promised!Init
    BY DEF Init, Empty, Promised!Init
  <2> QED BY <2>1, StoreAssumption, Promised!InitIInv
<1>2. IInv /\ Promised!IInv /\ [Next]_vars => Promised!IInv'
  BY StepPromised, StoreAssumption, Promised!StepIInv
<1>3. IInv /\ Promised!IInv /\ [Next]_vars => [Memory!AuditTrailStep]_(disk.memories)
  <2> SUFFICES ASSUME IInv, Promised!IInv, [Next]_vars
               PROVE  [Memory!AuditTrailStep]_(disk.memories)
    OBVIOUS
  <2>1. [Promised!AuditTrailStep]_(disk.memories)
    BY StepPromised, StoreAssumption, Promised!StepAuditTrail DEF Promised!IInv
  <2> QED BY <2>1, PromisedTable
<1>4. IInv /\ Promised!IInv /\ [Next]_vars => [Memory!OneOwnerStep]_(disk.memories)
  <2> SUFFICES ASSUME IInv, Promised!IInv, [Next]_vars
               PROVE  [Memory!OneOwnerStep]_(disk.memories)
    OBVIOUS
  <2>1. [Promised!OneOwnerStep]_(disk.memories)
    BY StepPromised, StoreAssumption, Promised!StepOneOwner DEF Promised!IInv
  <2> QED BY <2>1, PromisedTable
<1>5. Promised!IInv => Memory!SupersedeChain
  BY PromisedTable DEF Promised!IInv
<1> QED BY <1>1, <1>2, <1>3, <1>4, <1>5, Inductive, PTL DEF Spec, Memory!AuditTrail,
           Memory!OneOwner
=============================================================================
