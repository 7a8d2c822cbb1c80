-------------------------- MODULE MagServiceProofs --------------------------
(***************************************************************************)
(* Proofs about MagService, for every set of users, sessions and texts,    *)
(* every answer of the search and every bound.                             *)
(*                                                                         *)
(* The table changes by the contract of MagMemory only, so its chains and  *)
(* its audit trail (MagMemoryProofs, instantiated as Rows) hold here too.  *)
(* What relates the requests to the table is Told: the rows a request has  *)
(* found, retired or seen are still what it was told they are, however     *)
(* many requests ran in between.  What relates them to the windows is Said *)
(* (every turn kept was said by a request that is past saying it) and      *)
(* Paired (an answer leaves the window after its question).                *)
(***************************************************************************)
EXTENDS MagService, SequenceTheorems, FiniteSetTheorems, TLAPS

Rows == INSTANCE MagMemoryProofs WITH MaxMemories <- MaxRequests

Request == [ask : Asks \cup {None}, pc : Steps, found : SUBSET Nat, heard : Seq(Turn),
            outcome : {"none", "ok", "refused", "not_found", "model_error", "store_error"},
            mark : SUBSET Nat]

Type ==
    /\ Memory!TypeOK
    /\ turns \in [Users \X Sessions -> Seq(Turn)]
    /\ \A k \in Users \X Sessions : Len(turns[k]) <= KeepTurns
    /\ req \in [Reqs -> Request]

\* What the step of a request says of the request alone.
LocalOf(q) ==
    /\ Len(q.heard) <= TurnLimit
    /\ q.pc = "new" => q.found = {} /\ q.mark = {}
    /\ q.pc # "new" => q.ask \in Asks
    /\ q.pc \in {"new", "store", "remember", "search", "recall", "model"} => q.outcome = "none"
    /\ q.pc \in {"save_question", "save_answer"} =>
          q.ask.op \in {"chat", "remember"} /\ q.outcome \in {"ok", "refused"}

Local == \A r \in Reqs : LocalOf(req[r])

\* No version of row i is active, nor will one ever be: the rows that follow
\* it, by superseded_by, have all left status 'active'.
Gone(i) ==
    \E C \in SUBSET Memory!Ids :
        /\ i \in C
        /\ \A j \in C :
              /\ memories[j].status # "active"
              /\ memories[j].superseded_by # Memory!NoRow => memories[j].superseded_by \in C

IsFor(r, op) == req[r].pc # "new" /\ req[r].ask.op = op

\* The rows a request knows are what it was told they are.
ToldTo(r) ==
    /\ req[r].found \cup req[r].mark \subseteq Memory!Ids
    /\ IsFor(r, "chat") =>
          /\ \A i \in req[r].mark : memories[i].status # "active"
          /\ \A i \in req[r].found : memories[i].user = User(r) /\ i \notin req[r].mark
    /\ IsFor(r, "delete_all") =>
          /\ \A i \in req[r].mark : memories[i].user = User(r)
          /\ req[r].outcome = "ok" => \A i \in req[r].mark : Gone(i)
    /\ \A i \in Retired(r) : memories[i].status # "active"

Told == \A r \in Reqs : ToldTo(r)

\* The turns in the prompt of a chat were said by others in its conversation.
Heard ==
    \A r \in Reqs : IsFor(r, "chat") => \A p \in 1 .. Len(req[r].heard) :
        LET s == req[r].heard[p].by IN req[s].pc # "new" /\ Conv(s) = Conv(r) /\ s # r

\* A request that is past saying its part of an exchange.
HasSaid(q, role) ==
    /\ q.ask.op \in {"chat", "remember"}
    /\ IF role = "user" THEN q.pc \in {"save_answer", "done", "lost"}
                             /\ q.outcome \in {"ok", "refused", "store_error"}
                        ELSE q.pc = "done" /\ q.outcome \in {"ok", "refused"}

\* What a window holds was said in its conversation, once.
SaidIn(k) ==
    /\ \A p \in 1 .. Len(turns[k]) :
          LET t == turns[k][p] IN HasSaid(req[t.by], t.role) /\ Conv(t.by) = k
    /\ \A p, q \in 1 .. Len(turns[k]) : turns[k][p] = turns[k][q] => p = q

Said == \A k \in Users \X Sessions : SaidIn(k)

Where(r, role) == {p \in 1 .. Len(turns[Conv(r)]) : turns[Conv(r)][p] = Say(r, role)}

\* An answer stands after its question; only a full window has lost one.
PairedOf(r) ==
    LET Full == Len(turns[Conv(r)]) = KeepTurns
        U    == Where(r, "user")
        A    == Where(r, "assistant") IN
    /\ \A a \in A : \A q \in U : q < a
    /\ A # {} /\ U = {} => Full
    /\ req[r].pc = "save_answer" /\ U = {} => Full
    /\ HasSaid(req[r], "assistant") /\ A = {} => Full /\ U = {}

Paired == \A r \in Reqs : req[r].pc # "new" /\ req[r].ask.op \in {"chat", "remember"} => PairedOf(r)

IInv == /\ Type /\ Memory!SupersedeChain /\ NoSecretMemory
        /\ Local /\ Told /\ RetiredOnce /\ Heard /\ Said /\ Paired

-----------------------------------------------------------------------------
(* What clients ask.                                                       *)

\* The fields of what a client asks, by operation.
LEMMA AskFields ==
    ASSUME NEW a \in Asks
    PROVE  /\ a.user \in Users
           /\ a.op \in {"chat", "remember", "add_memory", "correct_memory", "delete_memory",
                        "delete_all"}
           /\ a.op \in {"chat", "remember"} => a.session \in Sessions
           /\ a.op \notin {"chat", "remember"} => a.session = None
           /\ a.op \in {"chat", "remember", "add_memory", "correct_memory"} => a.text \in Texts
BY DEF Asks

\* The request record and its two ways to change.
LEMMA RequestFields ==
    ASSUME NEW q \in Request
    PROVE  /\ q.ask \in Asks \cup {None} /\ q.pc \in Steps /\ q.found \subseteq Nat
           /\ q.heard \in Seq(Turn) /\ Len(q.heard) \in Nat /\ q.mark \subseteq Nat
           /\ \A p \in 1 .. Len(q.heard) : q.heard[p] \in Turn
BY DEF Request

\* A request goes to another step: nothing else of it, and no other one, changes.
LEMMA Moved ==
    ASSUME Type, NEW r \in Reqs, NEW pc \in Steps, Goto(r, pc)
    PROVE  /\ req' \in [Reqs -> Request]
           /\ \A s \in Reqs \ {r} : req'[s] = req[s]
           /\ req'[r].pc = pc /\ req'[r].ask = req[r].ask /\ req'[r].found = req[r].found
           /\ req'[r].mark = req[r].mark /\ req'[r].heard = req[r].heard
           /\ req'[r].outcome = req[r].outcome
BY DEF Type, Goto, Request

\* A request notes what it found and its outcome: no other one changes.
LEMMA Finished ==
    ASSUME Type, NEW r \in Reqs, NEW pc \in Steps, NEW found \in SUBSET Nat,
           NEW outcome \in {"none", "ok", "refused", "not_found", "model_error", "store_error"},
           Finish(r, pc, found, outcome)
    PROVE  /\ req' \in [Reqs -> Request]
           /\ \A s \in Reqs \ {r} : req'[s] = req[s]
           /\ req'[r].pc = pc /\ req'[r].ask = req[r].ask /\ req'[r].found = found
           /\ req'[r].mark = req[r].mark /\ req'[r].heard = req[r].heard
           /\ req'[r].outcome = outcome
<1> DEFINE q == [req[r] EXCEPT !.pc = pc, !.found = found, !.outcome = outcome]
<1>1. q \in Request
  BY DEF Type, Request
<1>2. req' = [req EXCEPT ![r] = q] /\ req \in [Reqs -> Request]
  BY DEF Finish, Type
<1>3. /\ q.pc = pc /\ q.ask = req[r].ask /\ q.found = found /\ q.mark = req[r].mark
      /\ q.heard = req[r].heard /\ q.outcome = outcome
  BY <1>2 DEF Request
<1> HIDE DEF q
<1> QED BY <1>1, <1>2, <1>3

-----------------------------------------------------------------------------
(* The table: every step on it is one of the contract.                     *)

\* The two instances of the contract are one.
LEMMA Contract ==
    /\ Memory!TypeOK <=> Rows!TypeOK
    /\ Memory!SupersedeChain <=> Rows!SupersedeChain
    /\ Memory!AuditTrailStep <=> Rows!AuditTrailStep
    /\ Memory!Row = Rows!Row /\ Memory!Ids = Rows!Ids
    /\ \A u, t : Memory!NewRow(u, t) = Rows!NewRow(u, t)
BY DEF Memory!TypeOK, Rows!TypeOK, Memory!Row, Rows!Row, Memory!Status, Rows!Status,
       Memory!SupersedeChain, Rows!SupersedeChain, Memory!AuditTrailStep,
       Rows!AuditTrailStep, Memory!Ids, Rows!Ids, Memory!NoRow, Rows!NoRow,
       Memory!NewRow, Rows!NewRow

\* So are the methods of the two instances.
LEMMA ContractSteps ==
    /\ \A u, t : Memory!AddMemory(u, t) <=> Rows!AddMemory(u, t)
    /\ \A u, i, t : Memory!CorrectMemory(u, i, t) <=> Rows!CorrectMemory(u, i, t)
    /\ \A u, i : Memory!DeleteMemory(u, i) <=> Rows!DeleteMemory(u, i)
    /\ \A u : Memory!DeleteAllMemories(u) <=> Rows!DeleteAllMemories(u)
BY Contract
   DEF Memory!AddMemory, Rows!AddMemory, Memory!CorrectMemory, Rows!CorrectMemory,
       Memory!DeleteMemory, Rows!DeleteMemory, Memory!DeleteAllMemories,
       Rows!DeleteAllMemories, Memory!OwnActive, Rows!OwnActive, Memory!Ids, Rows!Ids

\* What a step does to the table, and what it may never do.
Evolves ==
    /\ Memory!TypeOK' /\ Memory!SupersedeChain' /\ NoSecretMemory'
    /\ Memory!AuditTrailStep

Table == Memory!TypeOK /\ Memory!SupersedeChain /\ NoSecretMemory

\* A step that leaves the table alone keeps everything about it.
LEMMA Rested == ASSUME Table, UNCHANGED memories PROVE Evolves
BY DEF Table, Evolves, Memory!TypeOK, Memory!SupersedeChain, NoSecretMemory,
       Memory!AuditTrailStep, Memory!Ids

\* Whatever method it is, the contract keeps its invariant and the audit trail.
LEMMA Stepped ==
    ASSUME Table, Memory!Next
    PROVE  Memory!TypeOK' /\ Memory!SupersedeChain' /\ Memory!AuditTrailStep
<1>1. Rows!Next
  BY ContractSteps, Contract DEF Memory!Next, Rows!Next
<1>2. Rows!IInv
  BY Contract DEF Table, Rows!IInv
<1>3. Rows!IInv'
  BY <1>1, <1>2, ServiceAssumption, Rows!StepIInv
<1>4. Rows!AuditTrailStep
  <2>1. UNCHANGED memories => Rows!AuditTrailStep
    BY DEF Rows!AuditTrailStep, Rows!Ids
  <2> QED BY <1>1, <1>2, <2>1, ServiceAssumption, Rows!StepAuditTrail DEF Rows!IInv
<1>5. Memory!TypeOK' /\ Memory!SupersedeChain'
  BY <1>3 DEF Rows!IInv, Memory!TypeOK, Rows!TypeOK, Memory!Row, Rows!Row, Memory!Status,
     Rows!Status, Memory!SupersedeChain, Rows!SupersedeChain, Memory!Ids, Rows!Ids,
     Memory!NoRow, Rows!NoRow
<1> QED BY <1>4, <1>5, Contract

\* The rows of the table are numbered from 1.
LEMMA RowNumbers ==
    ASSUME Table
    PROVE  /\ Memory!Ids = 1 .. Len(memories) /\ Len(memories) \in Nat
           /\ \A i \in Memory!Ids : memories[i] \in Memory!Row
BY DEF Table, Memory!TypeOK, Memory!Ids

\* A new row is no secret and has the next id.
LEMMA Added ==
    ASSUME Table, NEW u \in Users, NEW t \in Texts \ Secrets, Memory!AddMemory(u, t)
    PROVE  Evolves /\ Len(memories) + 1 \in Memory!Ids'
<1>1. Memory!Next
  BY DEF Memory!Next
<1>2. Rows!TypeOK /\ Rows!AddMemory(u, t)
  BY Contract, ContractSteps DEF Table
<1>3. /\ Memory!Ids' = 1 .. Len(memories) + 1 /\ Memory!Ids = 1 .. Len(memories)
      /\ \A i \in Memory!Ids : memories'[i] = memories[i]
      /\ memories'[Len(memories) + 1] = Memory!NewRow(u, t)
  BY <1>2, ServiceAssumption, Rows!AddRows DEF Memory!Ids, Rows!Ids, Memory!NewRow, Rows!NewRow, Memory!NoRow, Rows!NoRow
<1>4. NoSecretMemory'
  BY <1>3, RowNumbers DEF NoSecretMemory, Table, Memory!NewRow
<1> QED BY <1>1, <1>3, <1>4, Stepped, RowNumbers DEF Evolves

\* A correction retires one row for a new one, which is no secret.
LEMMA Corrected ==
    ASSUME Table, NEW u \in Users, NEW t \in Texts \ Secrets, NEW i,
           Memory!CorrectMemory(u, i, t)
    PROVE  /\ Evolves /\ i \in Memory!Ids /\ i \in Memory!Ids'
           /\ memories[i].status = "active" /\ memories'[i].status # "active"
<1>0. i \in Memory!Ids
  BY DEF Memory!CorrectMemory, Memory!OwnActive
<1>1. Memory!Next
  BY <1>0 DEF Memory!Next
<1>2. Rows!TypeOK /\ Rows!CorrectMemory(u, i, t) /\ i \in Rows!Ids
  BY <1>0, Contract, ContractSteps DEF Table
<1>3. /\ Memory!Ids' = 1 .. Len(memories) + 1 /\ Memory!Ids = 1 .. Len(memories)
      /\ \A j \in Memory!Ids : j # i => memories'[j] = memories[j]
      /\ memories[i].status = "active" /\ memories'[i].status = "superseded"
      /\ memories'[i].text = memories[i].text
      /\ memories'[Len(memories) + 1] = Memory!NewRow(u, t)
  BY <1>2, ServiceAssumption, Rows!CorrectRows DEF Memory!Ids, Rows!Ids, Memory!NewRow, Rows!NewRow, Memory!NoRow, Rows!NoRow
<1>4. NoSecretMemory'
  BY <1>3, RowNumbers DEF NoSecretMemory, Table, Memory!NewRow
<1> QED BY <1>0, <1>1, <1>3, <1>4, Stepped, RowNumbers DEF Evolves

\* A deletion retires one row and brings no text.
LEMMA Deleted ==
    ASSUME Table, NEW u \in Users, NEW i, Memory!DeleteMemory(u, i)
    PROVE  /\ Evolves /\ i \in Memory!Ids /\ i \in Memory!Ids'
           /\ memories[i].status = "active" /\ memories'[i].status # "active"
<1>0. i \in Memory!Ids /\ memories[i].status = "active"
  BY DEF Memory!DeleteMemory, Memory!OwnActive
<1>1. Memory!Next
  BY <1>0 DEF Memory!Next
<1>2. Rows!TypeOK /\ Rows!DeleteMemory(u, i) /\ i \in Rows!Ids
  BY <1>0, Contract, ContractSteps DEF Table
<1>3. Rows!Retire(u)
  BY <1>2, ServiceAssumption, Rows!DeleteRows
<1>4. /\ Memory!Ids' = Memory!Ids
      /\ \A j \in Memory!Ids : memories'[j].text = memories[j].text
  BY <1>3 DEF Rows!Retire, Memory!Ids, Rows!Ids
<1>5. NoSecretMemory'
  BY <1>4 DEF NoSecretMemory, Table
<1>6. memories'[i].status # "active"
  BY <1>0, RowNumbers DEF Memory!DeleteMemory, Memory!Row, Memory!Ids
<1> QED BY <1>0, <1>1, <1>4, <1>5, <1>6, Stepped DEF Evolves

\* delete-all leaves no active row of the user and brings no text.
LEMMA AllDeleted ==
    ASSUME Table, NEW u \in Users, Memory!DeleteAllMemories(u)
    PROVE  /\ Evolves /\ Memory!Ids' = Memory!Ids
           /\ \A i \in Memory!Ids : memories[i].user = u => memories'[i].status # "active"
<1>1. Memory!Next
  BY DEF Memory!Next
<1>2. Rows!TypeOK /\ Rows!DeleteAllMemories(u)
  BY Contract, ContractSteps DEF Table
<1>3. Rows!Retire(u)
  BY <1>2, ServiceAssumption, Rows!DeleteAllRows
<1>4. /\ Memory!Ids' = Memory!Ids
      /\ \A j \in Memory!Ids : memories'[j].text = memories[j].text
  BY <1>3 DEF Rows!Retire, Memory!Ids, Rows!Ids
<1>5. NoSecretMemory'
  BY <1>4 DEF NoSecretMemory, Table
<1>6. ASSUME NEW i \in Memory!Ids, memories[i].user = u PROVE memories'[i].status # "active"
  <2>1. memories'[i] = [memories[i] EXCEPT !.status =
                            IF Memory!OwnActive(u, i) THEN "deleted" ELSE @]
    BY DEF Memory!DeleteAllMemories
  <2>2. memories[i] \in Memory!Row
    BY RowNumbers
  <2> QED BY <1>6, <2>1, <2>2 DEF Memory!OwnActive, Memory!Row
<1> QED BY <1>1, <1>4, <1>5, <1>6, Stepped DEF Evolves

\* A row whose every version is inactive stays so.
LEMMA GoneForGood ==
    ASSUME Evolves, NEW i, Gone(i)
    PROVE  Gone(i)'
<1>1. PICK C \in SUBSET Memory!Ids :
        /\ i \in C
        /\ \A j \in C :
              /\ memories[j].status # "active"
              /\ memories[j].superseded_by # Memory!NoRow => memories[j].superseded_by \in C
  BY DEF Gone
<1>2. C \in SUBSET Memory!Ids' /\ \A j \in C : memories'[j] = memories[j]
  BY <1>1 DEF Evolves, Memory!AuditTrailStep, Memory!Ids
<1>3. \A j \in C : /\ memories'[j].status # "active"
                   /\ memories'[j].superseded_by # Memory!NoRow => memories'[j].superseded_by \in C
  BY <1>1, <1>2
<1> QED BY <1>1, <1>2, <1>3 DEF Gone, Memory!NoRow

\* When every row of a user is inactive, so is every version of each.
LEMMA AllGone ==
    ASSUME Evolves, NEW u, NEW i \in Memory!Ids', memories'[i].user = u,
           \A j \in Memory!Ids' : memories'[j].user = u => memories'[j].status # "active"
    PROVE  Gone(i)'
<1> DEFINE C == {j \in Memory!Ids' : memories'[j].user = u}
<1>1. i \in C /\ C \in SUBSET Memory!Ids'
  OBVIOUS
<1>2. ASSUME NEW j \in C
      PROVE  /\ memories'[j].status # "active"
             /\ memories'[j].superseded_by # Memory!NoRow => memories'[j].superseded_by \in C
  BY DEF Evolves, Memory!SupersedeChain, Memory!NoRow
<1> HIDE DEF C
<1> QED BY <1>1, <1>2 DEF Gone, Memory!NoRow

-----------------------------------------------------------------------------
(* What a step keeps, conjunct by conjunct.                                *)

\* What was asked of a request, and what was noted then, never changes.
Moves ==
    \A s \in Reqs : req[s].pc # "new" =>
        req'[s].pc # "new" /\ req'[s].ask = req[s].ask /\ req'[s].mark = req[s].mark

\* A request that has found nothing new: it is where it was, or further with
\* the same rows, and reports no success that it did not report before.
Keeps(s) ==
    /\ req[s].pc = "new" <=> req'[s].pc = "new"
    /\ req'[s].ask = req[s].ask /\ req'[s].mark = req[s].mark /\ req'[s].found = req[s].found
    /\ \/ req'[s].outcome # "ok" \/ req[s].outcome = "ok"
       \/ req[s].pc # "new" /\ req[s].ask.op \in {"chat", "remember"}

\* A row that was there is of the same user, and inactive for good.
LEMMA RowsKept ==
    ASSUME Evolves, NEW i \in Memory!Ids
    PROVE  /\ i \in Memory!Ids' /\ memories'[i].user = memories[i].user
           /\ memories[i].status # "active" => memories'[i].status # "active"
BY DEF Evolves, Memory!AuditTrailStep, Memory!Ids

\* What a request was told of stays true while the table evolves, and it never
\* retires more than it has.
LEMMA ToldKeeps ==
    ASSUME IInv, Evolves, NEW s \in Reqs, Keeps(s), req'[s].pc # "new" \/ req[s].outcome = "none"
    PROVE  /\ ToldTo(s)'
           /\ Retired(s)' \subseteq Retired(s)
<1>1. ToldTo(s)
  BY DEF IInv, Told
<1>2. (req[s].found \cup req[s].mark \subseteq Memory!Ids)'
  BY <1>1, RowsKept DEF ToldTo, Keeps
<1>3. Retired(s)' \subseteq Retired(s)
  <2>1. req'[s].outcome = "ok" /\ req'[s].ask.op \in {"correct_memory", "delete_memory", "delete_all"}
        => req[s].outcome = "ok"
    BY DEF Keeps
  <2> QED BY <2>1 DEF Keeps, Retired
<1>4. \A i \in Retired(s)' : memories'[i].status # "active"
  <2>1. Retired(s) \subseteq Memory!Ids
    BY <1>1 DEF ToldTo, Retired
  <2> QED BY <1>1, <1>3, <2>1, RowsKept DEF ToldTo
<1>5. IsFor(s, "chat")' =>
          /\ \A i \in req'[s].mark : memories'[i].status # "active"
          /\ \A i \in req'[s].found : memories'[i].user = User(s)' /\ i \notin req'[s].mark
  BY <1>1, RowsKept DEF ToldTo, IsFor, Keeps, User
<1>6. IsFor(s, "delete_all")' =>
          /\ \A i \in req'[s].mark : memories'[i].user = User(s)'
          /\ req'[s].outcome = "ok" => \A i \in req'[s].mark : Gone(i)'
  BY <1>1, RowsKept, GoneForGood DEF ToldTo, IsFor, Keeps, User
<1> QED BY <1>2, <1>3, <1>4, <1>5, <1>6 DEF ToldTo

\* One request takes a step that finds something, every other stands still.
LEMMA OneTold ==
    ASSUME IInv, Evolves, NEW r \in Reqs, \A s \in Reqs \ {r} : req'[s] = req[s],
           ToldTo(r)',
           \A i \in Retired(r)' :
              i \in Retired(r) \/ (i \in Memory!Ids /\ memories[i].status = "active")
    PROVE  Told' /\ RetiredOnce'
<1>1. ASSUME NEW s \in Reqs \ {r} PROVE ToldTo(s)' /\ Retired(s)' \subseteq Retired(s)
  <2>1. req[s].pc = "new" => req[s].outcome = "none"
    BY DEF IInv, Local, LocalOf
  <2>2. Keeps(s)
    BY DEF Keeps
  <2> QED BY <2>1, <2>2, ToldKeeps
<1>2. Told'
  BY <1>1 DEF Told
<1>3. \A s \in Reqs : \A i \in Retired(s) : memories[i].status # "active"
  BY DEF IInv, Told, ToldTo
<1>4. \A s \in Reqs \ {r} : Retired(r)' \cap Retired(s)' = {}
  BY <1>1, <1>3 DEF IInv, RetiredOnce
<1>5. \A s, q \in Reqs \ {r} : s # q => Retired(s)' \cap Retired(q)' = {}
  BY <1>1 DEF IInv, RetiredOnce
<1> QED BY <1>2, <1>4, <1>5 DEF RetiredOnce

\* Nothing new is heard.
LEMMA HeardKeeps ==
    ASSUME IInv, Moves,
           \A s \in Reqs : IsFor(s, "chat")' =>
              \/ req'[s].heard = <<>>
              \/ req'[s].heard = req[s].heard /\ IsFor(s, "chat")
    PROVE  Heard'
<1>1. ASSUME NEW s \in Reqs, IsFor(s, "chat")', NEW p \in 1 .. Len(req'[s].heard)
      PROVE  \E b \in Reqs : /\ b = req'[s].heard[p].by
                             /\ req'[b].pc # "new" /\ Conv(b)' = Conv(s)' /\ b # s
  <2>1. req'[s].heard = req[s].heard /\ IsFor(s, "chat")
    <3>1. Len(<<>>) = 0
      OBVIOUS
    <3> QED BY <1>1, <3>1
  <2>2. req[s].heard[p].by \in Reqs
    <3>1. req[s] \in Request
      BY DEF IInv, Type
    <3>2. req[s].heard[p] \in Turn
      BY <1>1, <2>1, <3>1, RequestFields
    <3> QED BY <3>2 DEF Turn
  <2>3. PICK b \in Reqs : b = req[s].heard[p].by
    BY <2>2
  <2>4. req[b].pc # "new" /\ Conv(b) = Conv(s) /\ b # s
    BY <1>1, <2>1, <2>3 DEF IInv, Heard
  <2>5. req'[b].pc # "new" /\ req'[b].ask = req[b].ask /\ req'[s].ask = req[s].ask
    BY <2>1, <2>4 DEF Moves, IsFor
  <2>6. Conv(b)' = Conv(s)'
    BY <2>4, <2>5 DEF Conv
  <2> QED BY <2>1, <2>3, <2>4, <2>5, <2>6
<1> QED BY <1>1 DEF Heard, Conv

\* A request whose turns are in its window is past saying them.
LEMMA WhereSaid ==
    ASSUME IInv, NEW r \in Reqs, req[r].pc # "new", req[r].ask.op \in {"chat", "remember"}
    PROVE  /\ Conv(r) \in Users \X Sessions
           /\ \A role \in {"user", "assistant"} : Where(r, role) # {} => HasSaid(req[r], role)
<1>1. req[r].ask \in Asks
  BY DEF IInv, Local, LocalOf
<1>2. Conv(r) \in Users \X Sessions
  BY <1>1, AskFields DEF Conv
<1>3. ASSUME NEW role \in {"user", "assistant"}, NEW p \in Where(r, role) PROVE HasSaid(req[r], role)
  <2>1. p \in 1 .. Len(turns[Conv(r)]) /\ turns[Conv(r)][p] = Say(r, role)
    BY <1>3 DEF Where
  <2>2. Say(r, role).by = r /\ Say(r, role).role = role
    BY DEF Say
  <2> QED BY <1>2, <2>1, <2>2 DEF IInv, Said, SaidIn
<1> QED BY <1>2, <1>3

\* No turn is recorded, and no request passes the point where it says one.
Silent ==
    \A s \in Reqs :
        /\ \A role \in {"user", "assistant"} : HasSaid(req[s], role) => HasSaid(req'[s], role)
        /\ HasSaid(req'[s], "assistant") => HasSaid(req[s], "assistant")
        /\ req'[s].pc = "save_answer" => req[s].pc = "save_answer"

\* A request past saying something is not new.
LEMMA SaidNotNew ==
    ASSUME NEW q, NEW role, HasSaid(q, role)
    PROVE  q.pc # "new"
BY DEF HasSaid

\* Windows stay right while nothing is said.
LEMMA WindowsKeep ==
    ASSUME IInv, Local', UNCHANGED turns, Moves, Silent
    PROVE  Said' /\ Paired'
<1>1. ASSUME NEW k \in Users \X Sessions PROVE SaidIn(k)'
  <2>1. ASSUME NEW p \in 1 .. Len(turns[k])
        PROVE  LET t == turns[k][p] IN HasSaid(req'[t.by], t.role) /\ Conv(t.by)' = k
    <3>1. PICK t \in Turn : t = turns[k][p]
      BY DEF IInv, Type
    <3>2. PICK b \in Reqs : b = t.by
      BY DEF Turn
    <3>3. t.role \in {"user", "assistant"} /\ HasSaid(req[b], t.role) /\ Conv(b) = k
      BY <3>1, <3>2 DEF IInv, Said, SaidIn, Turn
    <3>4. HasSaid(req'[b], t.role)
      BY <3>3 DEF Silent
    <3>5. req'[b].ask = req[b].ask
      BY <3>3, SaidNotNew DEF Moves
    <3>6. Conv(b)' = k
      BY <3>3, <3>5 DEF Conv
    <3> QED BY <3>1, <3>2, <3>4, <3>6 DEF Conv
  <2> QED BY <2>1 DEF IInv, Said, SaidIn, Conv
<1>2. ASSUME NEW s \in Reqs, req'[s].pc # "new", req'[s].ask.op \in {"chat", "remember"}
      PROVE  PairedOf(s)'
  <2>1. CASE req[s].pc # "new"
    <3>1. Conv(s)' = Conv(s) /\ req[s].ask.op \in {"chat", "remember"}
      BY <1>2, <2>1 DEF Moves, Conv
    <3>2. PairedOf(s)
      BY <2>1, <3>1 DEF IInv, Paired
    <3>3. Where(s, "user")' = Where(s, "user") /\ Where(s, "assistant")' = Where(s, "assistant")
      BY <3>1 DEF Where, Say
    <3>4. turns'[Conv(s)'] = turns[Conv(s)]
      BY <3>1
    <3> QED BY <3>2, <3>3, <3>4 DEF PairedOf, Silent
  <2>2. CASE req[s].pc = "new"
    <3>1. ~ HasSaid(req[s], "user") /\ ~ HasSaid(req[s], "assistant")
      BY <2>2 DEF HasSaid
    <3>2. ASSUME NEW role \in {"user", "assistant"} PROVE Where(s, role)' = {}
      <4> SUFFICES ASSUME NEW p \in Where(s, role)' PROVE FALSE
        OBVIOUS
      <4>1. p \in 1 .. Len(turns[Conv(s)']) /\ turns[Conv(s)'][p] = Say(s, role)
        BY DEF Where, Say
      <4>2. Conv(s)' \in Users \X Sessions
        <5>1. req'[s].ask \in Asks
          BY <1>2 DEF Local, LocalOf
        <5> QED BY <1>2, <5>1, AskFields DEF Conv
      <4>3. Say(s, role).by = s /\ Say(s, role).role = role
        BY DEF Say
      <4>4. HasSaid(req[s], role)
        BY <4>1, <4>2, <4>3 DEF IInv, Said, SaidIn
      <4> QED BY <3>1, <4>4
    <3>3. req'[s].pc # "save_answer" /\ ~ HasSaid(req'[s], "assistant")
      BY <2>2, <3>1 DEF Silent
    <3> QED BY <3>2, <3>3 DEF PairedOf
  <2> QED BY <2>1, <2>2
<1> QED BY <1>1, <1>2 DEF Said, Paired

-----------------------------------------------------------------------------
(* The steps that record no turn.                                          *)

\* A step of request r that records no turn keeps the invariant when it does
\* what is right for r.
LEMMA StepKeeps ==
    ASSUME IInv, Evolves, UNCHANGED turns, NEW r \in Reqs,
           req' \in [Reqs -> Request], \A s \in Reqs \ {r} : req'[s] = req[s],
           req[r].pc # "new", req'[r].pc \notin {"new", "save_answer"},
           req'[r].ask = req[r].ask, req'[r].mark = req[r].mark,
           LocalOf(req'[r]), ToldTo(r)',
           \A i \in Retired(r)' :
              i \in Retired(r) \/ (i \in Memory!Ids /\ memories[i].status = "active"),
           req'[r].heard = req[r].heard \/ Heard',
           HasSaid(req[r], "user") => HasSaid(req'[r], "user"),
           ~ HasSaid(req[r], "assistant"), ~ HasSaid(req'[r], "assistant")
    PROVE  IInv'
<1>1. Type' /\ Memory!SupersedeChain' /\ NoSecretMemory'
  BY DEF IInv, Type, Evolves
<1>2. Moves
  BY DEF Moves
<1>3. Local'
  BY DEF IInv, Local
<1>4. Told' /\ RetiredOnce'
  BY OneTold
<1>5. Heard'
  <2>1. IsFor(r, "chat")' => IsFor(r, "chat")
    BY DEF IsFor
  <2>2. ASSUME NEW s \in Reqs \ {r}
        PROVE IsFor(s, "chat")' => req'[s].heard = req[s].heard /\ IsFor(s, "chat")
    BY DEF IsFor
  <2> QED BY <1>2, <2>1, <2>2, HeardKeeps
<1>6. Silent
  BY DEF Silent
<1>7. Said' /\ Paired'
  BY <1>2, <1>3, <1>6, WindowsKeep
<1> QED BY <1>1, <1>3, <1>4, <1>5, <1>7 DEF IInv

\* A request that has not reached its end has said nothing before its last steps.
LEMMA NotYetSaid ==
    ASSUME NEW q, q.pc \in {"store", "remember", "search", "recall", "model", "save_question"}
    PROVE  ~ HasSaid(q, "user") /\ ~ HasSaid(q, "assistant")
BY DEF HasSaid

\* The table of a state of the invariant.
LEMMA HasTable == ASSUME IInv PROVE Table /\ Type /\ Local
BY DEF IInv, Table, Type

\* The fields of a request at work.
LEMMA AtWork ==
    ASSUME IInv, NEW r \in Reqs, req[r].pc # "new"
    PROVE  /\ req[r].ask \in Asks /\ User(r) \in Users
           /\ Len(req[r].heard) <= TurnLimit /\ LocalOf(req[r]) /\ ToldTo(r)
           /\ req[r] \in Request
BY AskFields DEF IInv, Local, LocalOf, User, Told, Type

\* A request of the routes of the memories that ends with its result.
LEMMA StoreEnds ==
    ASSUME IInv, Evolves, UNCHANGED turns, NEW r \in Reqs, NEW found \in SUBSET Nat,
           NEW outcome \in {"ok", "refused", "not_found"},
           req[r].pc = "store", req[r].ask.op \notin {"chat", "remember"},
           Finish(r, "done", found, outcome),
           found \subseteq Memory!Ids',
           outcome = "ok" /\ req[r].ask.op # "add_memory" =>
              \A i \in found : /\ i \in Memory!Ids /\ memories[i].status = "active"
                               /\ memories'[i].status # "active",
           outcome = "ok" /\ req[r].ask.op = "delete_all" =>
              \A i \in req[r].mark : Gone(i)'
    PROVE  IInv'
<1>1. /\ req' \in [Reqs -> Request]
      /\ \A s \in Reqs \ {r} : req'[s] = req[s]
      /\ req'[r].pc = "done" /\ req'[r].ask = req[r].ask /\ req'[r].found = found
      /\ req'[r].mark = req[r].mark /\ req'[r].heard = req[r].heard
      /\ req'[r].outcome = outcome
  BY Finished, HasTable DEF Steps, Ended
<1>2. LocalOf(req'[r])
  BY <1>1, AtWork DEF LocalOf
<1>3. ToldTo(r)
  BY AtWork
<1>4. Retired(r)' \subseteq found /\ (Retired(r)' # {} => outcome = "ok" /\ req[r].ask.op # "add_memory")
  BY <1>1 DEF Retired
<1>5. (req[r].found \cup req[r].mark \subseteq Memory!Ids)'
  BY <1>1, <1>3, RowsKept DEF ToldTo
<1>6. IsFor(r, "delete_all")' =>
          /\ \A i \in req'[r].mark : memories'[i].user = User(r)'
          /\ req'[r].outcome = "ok" => \A i \in req'[r].mark : Gone(i)'
  BY <1>1, <1>3, RowsKept DEF ToldTo, IsFor, User
<1>7. ToldTo(r)'
  BY <1>1, <1>4, <1>5, <1>6 DEF ToldTo, IsFor
<1>8. ~ HasSaid(req[r], "user") /\ ~ HasSaid(req[r], "assistant") /\ ~ HasSaid(req'[r], "assistant")
  BY <1>1 DEF HasSaid
<1>9. \A i \in Retired(r)' : i \in Memory!Ids /\ memories[i].status = "active"
  BY <1>4
<1> QED BY <1>1, <1>2, <1>7, <1>8, <1>9, StepKeeps

\* A create: the text has passed the guard.
LEMMA CreateMemoryKeeps ==
    ASSUME IInv, NEW r \in Reqs, CreateMemory(r)
    PROVE  IInv'
<1>1. /\ req[r].pc = "store" /\ req[r].ask.op = "add_memory" /\ UNCHANGED turns
  BY DEF CreateMemory, At
<1>2. req[r].ask.text \in Texts /\ User(r) \in Users
  BY <1>1, AtWork, AskFields
<1>3. CASE req[r].ask.text \in Secrets
  <2>1. UNCHANGED memories /\ Finish(r, "done", {}, "refused")
    BY <1>3 DEF CreateMemory
  <2> QED BY <1>1, <2>1, HasTable, Rested, StoreEnds
<1>4. CASE req[r].ask.text \notin Secrets
  <2>1. /\ Memory!AddMemory(User(r), req[r].ask.text)
        /\ Finish(r, "done", {Len(memories) + 1}, "ok")
    BY <1>4 DEF CreateMemory
  <2>2. Evolves /\ Len(memories) + 1 \in Memory!Ids' /\ Len(memories) + 1 \in Nat
    BY <1>2, <1>4, <2>1, HasTable, Added, RowNumbers
  <2> QED BY <1>1, <2>1, <2>2, StoreEnds
<1> QED BY <1>3, <1>4

\* A correction: it retires the row it names, once.
LEMMA CorrectMemoryKeeps ==
    ASSUME IInv, NEW r \in Reqs, CorrectMemory(r)
    PROVE  IInv'
<1>1. /\ req[r].pc = "store" /\ req[r].ask.op = "correct_memory" /\ UNCHANGED turns
  BY DEF CorrectMemory, At
<1>2. req[r].ask.text \in Texts /\ User(r) \in Users
  BY <1>1, AtWork, AskFields
<1>3. CASE \E o \in {"refused", "not_found"} : Finish(r, "done", {}, o) /\ UNCHANGED memories
  BY <1>1, <1>3, HasTable, Rested, StoreEnds
<1>4. CASE /\ req[r].ask.text \notin Secrets
           /\ Memory!CorrectMemory(User(r), req[r].ask.id, req[r].ask.text)
           /\ Finish(r, "done", {req[r].ask.id}, "ok")
  <2> DEFINE i == req[r].ask.id
  <2>1. /\ Evolves /\ i \in Memory!Ids /\ i \in Memory!Ids' /\ i \in Nat
        /\ memories[i].status = "active" /\ memories'[i].status # "active"
    <3>1. \A n \in Memory!Ids : n \in Nat
      BY HasTable, RowNumbers
    <3> HIDE DEF i
    <3> QED BY <1>2, <1>4, <3>1, HasTable, Corrected DEF i
  <2>2. Finish(r, "done", {i}, "ok")
    BY <1>4
  <2> HIDE DEF i
  <2> QED BY <1>1, <2>1, <2>2, StoreEnds
<1> QED BY <1>3, <1>4 DEF CorrectMemory

\* A deletion: it retires the row it names, once.
LEMMA DeleteMemoryKeeps ==
    ASSUME IInv, NEW r \in Reqs, DeleteMemory(r)
    PROVE  IInv'
<1>1. /\ req[r].pc = "store" /\ req[r].ask.op = "delete_memory" /\ UNCHANGED turns
  BY DEF DeleteMemory, At
<1>2. User(r) \in Users
  BY <1>1, AtWork
<1>3. CASE Finish(r, "done", {}, "not_found") /\ UNCHANGED memories
  BY <1>1, <1>3, HasTable, Rested, StoreEnds
<1>4. CASE /\ Memory!DeleteMemory(User(r), req[r].ask.id)
           /\ Finish(r, "done", {req[r].ask.id}, "ok")
  <2> DEFINE i == req[r].ask.id
  <2>1. /\ Evolves /\ i \in Memory!Ids /\ i \in Memory!Ids' /\ i \in Nat
        /\ memories[i].status = "active" /\ memories'[i].status # "active"
    <3>1. \A n \in Memory!Ids : n \in Nat
      BY HasTable, RowNumbers
    <3> HIDE DEF i
    <3> QED BY <1>2, <1>4, <3>1, HasTable, Deleted DEF i
  <2>2. Finish(r, "done", {i}, "ok")
    BY <1>4
  <2> HIDE DEF i
  <2> QED BY <1>1, <2>1, <2>2, StoreEnds
<1> QED BY <1>3, <1>4 DEF DeleteMemory

\* delete-all: what was active when it began, with every later version, is retired.
LEMMA DeleteAllKeeps ==
    ASSUME IInv, NEW r \in Reqs, DeleteAll(r)
    PROVE  IInv'
<1>1. /\ req[r].pc = "store" /\ req[r].ask.op = "delete_all" /\ UNCHANGED turns
      /\ Memory!DeleteAllMemories(User(r))
      /\ Finish(r, "done", Memory!ActiveOf(User(r)), "ok")
  BY DEF DeleteAll, At
<1>2. User(r) \in Users
  BY <1>1, AtWork
<1>3. /\ Evolves /\ Memory!Ids' = Memory!Ids
      /\ \A i \in Memory!Ids : memories[i].user = User(r) => memories'[i].status # "active"
  BY <1>1, <1>2, HasTable, AllDeleted
<1>4. \A i \in Memory!Ids : memories'[i].user = memories[i].user
  BY <1>3, RowsKept
<1>5. ASSUME NEW i \in req[r].mark PROVE Gone(i)'
  <2>1. i \in Memory!Ids /\ memories[i].user = User(r)
    BY <1>1, AtWork DEF ToldTo, IsFor
  <2> QED BY <1>3, <1>4, <2>1, AllGone
<1>6. Memory!ActiveOf(User(r)) \in SUBSET Nat
  BY HasTable, RowNumbers DEF Memory!ActiveOf
<1>7. \A i \in Memory!ActiveOf(User(r)) :
         i \in Memory!Ids /\ memories[i].status = "active" /\ memories[i].user = User(r)
  BY DEF Memory!ActiveOf, Memory!OwnActive
<1> QED BY <1>1, <1>3, <1>5, <1>6, <1>7, StoreEnds

\* `remember:` adds its text if the guard lets it.
LEMMA RememberKeeps ==
    ASSUME IInv, NEW r \in Reqs, Remember(r)
    PROVE  IInv'
<1>1. req[r].pc = "remember" /\ req[r].ask.op = "remember" /\ UNCHANGED turns
  BY DEF Remember, At
<1>2. req[r].ask.text \in Texts /\ User(r) \in Users
  BY <1>1, AtWork, AskFields
<1>3. PICK found \in SUBSET Nat, o \in {"ok", "refused"} :
         Evolves /\ Finish(r, "save_question", found, o) /\ found \subseteq Memory!Ids'
  <2>1. CASE req[r].ask.text \in Secrets \cup {Blank}
    <3>1. UNCHANGED memories /\ Finish(r, "save_question", {}, "refused")
      BY <2>1 DEF Remember
    <3> QED BY <3>1, HasTable, Rested
  <2>2. CASE req[r].ask.text \notin Secrets \cup {Blank}
    <3>1. /\ Memory!AddMemory(User(r), req[r].ask.text)
          /\ Finish(r, "save_question", {Len(memories) + 1}, "ok")
      BY <2>2 DEF Remember
    <3>2. Evolves /\ Len(memories) + 1 \in Memory!Ids' /\ Len(memories) + 1 \in Nat
      BY <1>2, <2>2, <3>1, HasTable, Added, RowNumbers
    <3> QED BY <3>1, <3>2
  <2> QED BY <2>1, <2>2
<1>4. /\ req' \in [Reqs -> Request]
      /\ \A s \in Reqs \ {r} : req'[s] = req[s]
      /\ req'[r].pc = "save_question" /\ req'[r].ask = req[r].ask /\ req'[r].found = found
      /\ req'[r].mark = req[r].mark /\ req'[r].heard = req[r].heard /\ req'[r].outcome = o
  <2>1. "save_question" \in Steps /\ Finish(r, "save_question", found, o) /\ Type
    BY <1>3, HasTable DEF Steps
  <2>2. o \in {"none", "ok", "refused", "not_found", "model_error", "store_error"}
    OBVIOUS
  <2> QED BY <2>1, <2>2, Finished
<1>5. LocalOf(req'[r])
  BY <1>1, <1>4, AtWork DEF LocalOf
<1>6. Retired(r)' = {}
  BY <1>1, <1>4 DEF Retired
<1>7. (req[r].found \cup req[r].mark \subseteq Memory!Ids)'
  BY <1>1, <1>3, <1>4, AtWork, RowsKept DEF ToldTo
<1>8. ToldTo(r)'
  BY <1>1, <1>4, <1>6, <1>7 DEF ToldTo, IsFor
<1>9. ~ HasSaid(req[r], "user") /\ ~ HasSaid(req[r], "assistant") /\ ~ HasSaid(req'[r], "assistant")
  BY <1>1, <1>4 DEF HasSaid
<1> QED BY <1>1, <1>3, <1>4, <1>5, <1>6, <1>8, <1>9, StepKeeps

\* A search returns active memories of the user it is for.
LEMMA SearchFinds ==
    ASSUME NEW u, NEW question, NEW ids \in SearchResults(u, question)
    PROVE  \A i \in ids : i \in Memory!Ids /\ memories[i].user = u /\ memories[i].status = "active"
<1>1. ids \subseteq Memory!ActiveOf(u)
  BY DEF SearchResults, NewestIds, kSubset
<1> QED BY <1>1 DEF Memory!ActiveOf, Memory!OwnActive

\* A chat searches: what it finds is its user's and active.
LEMMA SearchKeeps ==
    ASSUME IInv, NEW r \in Reqs, Search(r)
    PROVE  IInv'
<1>1. req[r].pc = "search" /\ req[r].ask.op = "chat" /\ UNCHANGED <<memories, turns>>
  BY DEF Search, At
<1>2. PICK ids \in SearchResults(User(r), req[r].ask.text) : Finish(r, "recall", ids, "none")
  BY DEF Search
<1>3. \A i \in ids : i \in Memory!Ids /\ memories[i].user = User(r) /\ memories[i].status = "active"
  BY SearchFinds
<1>4. ids \in SUBSET Nat /\ Evolves
  BY <1>1, <1>3, HasTable, Rested, RowNumbers
<1>5. /\ req' \in [Reqs -> Request]
      /\ \A s \in Reqs \ {r} : req'[s] = req[s]
      /\ req'[r].pc = "recall" /\ req'[r].ask = req[r].ask /\ req'[r].found = ids
      /\ req'[r].mark = req[r].mark /\ req'[r].heard = req[r].heard /\ req'[r].outcome = "none"
  BY <1>2, <1>4, Finished, HasTable DEF Steps
<1>6. LocalOf(req'[r])
  BY <1>1, <1>5, AtWork DEF LocalOf
<1>7. Retired(r)' = {}
  BY <1>1, <1>5 DEF Retired
<1>8. ToldTo(r)'
  <2>1. \A i \in req[r].mark : i \in Memory!Ids /\ memories[i].status # "active"
    BY <1>1, AtWork DEF ToldTo, IsFor
  <2>2. Memory!Ids' = Memory!Ids
    BY <1>1 DEF Memory!Ids
  <2> QED BY <1>1, <1>3, <1>5, <1>7, <2>1, <2>2 DEF ToldTo, IsFor, User
<1>9. ~ HasSaid(req[r], "user") /\ ~ HasSaid(req[r], "assistant") /\ ~ HasSaid(req'[r], "assistant")
  BY <1>1, <1>5 DEF HasSaid
<1> QED BY <1>1, <1>4, <1>5, <1>6, <1>7, <1>8, <1>9, StepKeeps

\* The newest n turns of a window are turns of the window.
LEMMA NewestTurns ==
    ASSUME NEW w \in Seq(Turn), NEW n \in Nat
    PROVE  /\ Dialogue!Newest(w, n) \in Seq(Turn)
           /\ Len(Dialogue!Newest(w, n)) <= n
           /\ \A p \in 1 .. Len(Dialogue!Newest(w, n)) :
                 \E o \in 1 .. Len(w) : Dialogue!Newest(w, n)[p] = w[o]
<1> DEFINE first == IF Len(w) > n THEN Len(w) - n + 1 ELSE 1
           v     == SubSeq(w, first, Len(w))
<1>1. first \in 1 .. Len(w) + 1 /\ Len(w) \in Nat /\ Len(w) - first + 1 <= n
  OBVIOUS
<1> HIDE DEF first
<1>2. /\ v \in Seq(Turn) /\ Len(v) = Len(w) - first + 1
      /\ \A p \in 1 .. Len(v) : v[p] = w[first + p - 1]
  BY <1>1, SubSeqProperties
<1>3. Dialogue!Newest(w, n) = v
  BY DEF Dialogue!Newest, first
<1> HIDE DEF v
<1>4. \A p \in 1 .. Len(v) : first + p - 1 \in 1 .. Len(w)
  BY <1>1, <1>2
<1> QED BY <1>1, <1>2, <1>3, <1>4

\* A chat reads its session window: what it hears was said there.
LEMMA RecallKeeps ==
    ASSUME IInv, NEW r \in Reqs, Recall(r)
    PROVE  IInv'
<1> DEFINE h == Dialogue!RecentTurns(Conv(r), TurnLimit)
<1>1. req[r].pc = "recall" /\ req[r].ask.op = "chat" /\ UNCHANGED <<memories, turns>>
  BY DEF Recall, At
<1>2. Conv(r) \in Users \X Sessions
  BY <1>1, WhereSaid
<1>3. /\ h \in Seq(Turn) /\ Len(h) <= TurnLimit
      /\ \A p \in 1 .. Len(h) : \E o \in 1 .. Len(turns[Conv(r)]) : h[p] = turns[Conv(r)][o]
  <2>1. turns[Conv(r)] \in Seq(Turn)
    BY <1>2, HasTable DEF Type
  <2>2. h = Dialogue!Newest(turns[Conv(r)], TurnLimit)
    BY DEF Dialogue!RecentTurns
  <2> DEFINE w == turns[Conv(r)]
  <2> HIDE DEF h, w
  <2>3. w \in Seq(Turn) /\ h = Dialogue!Newest(w, TurnLimit) /\ TurnLimit \in Nat
    BY <2>1, <2>2, ServiceAssumption DEF w
  <2>4. /\ Dialogue!Newest(w, TurnLimit) \in Seq(Turn)
        /\ Len(Dialogue!Newest(w, TurnLimit)) <= TurnLimit
        /\ \A p \in 1 .. Len(Dialogue!Newest(w, TurnLimit)) :
              \E o \in 1 .. Len(w) : Dialogue!Newest(w, TurnLimit)[p] = w[o]
    BY <2>3, NewestTurns, Zenon
  <2> QED BY <2>3, <2>4 DEF w
<1>4. req' = [req EXCEPT ![r].pc = "model", ![r].heard = h]
  BY DEF Recall
<1> HIDE DEF h
<1>5. /\ req' \in [Reqs -> Request]
      /\ \A s \in Reqs \ {r} : req'[s] = req[s]
      /\ req'[r].pc = "model" /\ req'[r].ask = req[r].ask /\ req'[r].found = req[r].found
      /\ req'[r].mark = req[r].mark /\ req'[r].heard = h /\ req'[r].outcome = req[r].outcome
  <2> DEFINE q == [req[r] EXCEPT !.pc = "model", !.heard = h]
  <2>1. /\ q \in Request /\ q.pc = "model" /\ q.ask = req[r].ask /\ q.found = req[r].found
        /\ q.mark = req[r].mark /\ q.heard = h /\ q.outcome = req[r].outcome
    <3>1. req[r] \in Request
      BY DEF IInv, Type
    <3>2. h \in Seq(Turn)
      BY <1>3
    <3> QED BY <3>1, <3>2 DEF Request, Steps
  <2>2. req' = [req EXCEPT ![r] = q] /\ req \in [Reqs -> Request]
    BY <1>4 DEF IInv, Type
  <2> HIDE DEF q
  <2> QED BY <2>1, <2>2
<1>6. LocalOf(req'[r])
  BY <1>1, <1>3, <1>5, AtWork DEF LocalOf
<1>7. Evolves
  BY <1>1, HasTable, Rested
<1>8. ToldTo(r)' /\ Retired(r)' \subseteq Retired(r)
  <2>1. Keeps(r)
    BY <1>1, <1>5 DEF Keeps
  <2> QED BY <1>5, <1>7, <2>1, ToldKeeps
<1>9. Heard'
  <2>1. ASSUME NEW s \in Reqs \ {r}, IsFor(s, "chat")', NEW p \in 1 .. Len(req'[s].heard)
        PROVE  \E b \in Reqs : /\ b = req'[s].heard[p].by
                               /\ req'[b].pc # "new" /\ Conv(b)' = Conv(s)' /\ b # s
    <3>1. req'[s].heard = req[s].heard /\ IsFor(s, "chat") /\ Conv(s)' = Conv(s)
      BY <1>5, <2>1 DEF IsFor, Conv
    <3>2. req[s].heard[p] \in Turn
      BY <2>1, <3>1, HasTable, RequestFields DEF Type
    <3>3. PICK b \in Reqs : b = req[s].heard[p].by
      BY <3>2 DEF Turn
    <3>4. req[b].pc # "new" /\ Conv(b) = Conv(s) /\ b # s
      BY <2>1, <3>1, <3>3 DEF IInv, Heard
    <3>5. req'[b].pc # "new" /\ req'[b].ask = req[b].ask
      BY <1>5, <3>4
    <3> QED BY <3>1, <3>3, <3>4, <3>5 DEF Conv
  <2>2. ASSUME NEW p \in 1 .. Len(req'[r].heard)
        PROVE  \E b \in Reqs : /\ b = req'[r].heard[p].by
                               /\ req'[b].pc # "new" /\ Conv(b)' = Conv(r)' /\ b # r
    <3>1. PICK o \in 1 .. Len(turns[Conv(r)]) : h[p] = turns[Conv(r)][o]
      BY <1>3, <1>5, <2>2
    <3>2. turns[Conv(r)][o] \in Turn
      BY <1>2, <3>1, HasTable DEF Type
    <3>3. PICK b \in Reqs : b = turns[Conv(r)][o].by
      BY <3>2 DEF Turn
    <3>4. HasSaid(req[b], turns[Conv(r)][o].role) /\ Conv(b) = Conv(r)
      BY <1>2, <3>1, <3>3 DEF IInv, Said, SaidIn
    <3>5. b # r /\ req[b].pc # "new"
      BY <1>1, <3>4 DEF HasSaid
    <3>6. Conv(b)' = Conv(b) /\ Conv(r)' = Conv(r) /\ req'[b].pc # "new"
      BY <1>5, <3>5 DEF Conv
    <3>7. b = req'[r].heard[p].by
      BY <1>5, <3>1, <3>3
    <3>8. Conv(b)' = Conv(r)'
      BY <3>4, <3>6
    <3> QED BY <3>5, <3>6, <3>7, <3>8
  <2>3. ASSUME NEW s \in Reqs, IsFor(s, "chat")', NEW p \in 1 .. Len(req'[s].heard)
        PROVE  \E b \in Reqs : /\ b = req'[s].heard[p].by
                               /\ req'[b].pc # "new" /\ Conv(b)' = Conv(s)' /\ b # s
    <3>1. CASE s = r
      BY <2>2, <2>3, <3>1
    <3>2. CASE s # r
      BY <2>1, <2>3, <3>2
    <3> QED BY <3>1, <3>2
  <2> QED BY <2>3 DEF Heard, Conv
<1>10. ~ HasSaid(req[r], "user") /\ ~ HasSaid(req[r], "assistant") /\ ~ HasSaid(req'[r], "assistant")
  BY <1>1, <1>5 DEF HasSaid
<1> QED BY <1>1, <1>5, <1>6, <1>7, <1>8, <1>9, <1>10, StepKeeps

\* A step that ends a request, or takes it to its last steps, with what it has.
LEMMA GoesOn ==
    ASSUME IInv, NEW r \in Reqs, UNCHANGED <<memories, turns>>,
           NEW pc \in Steps, NEW o \in {"ok", "model_error", "store_error"},
           Finish(r, pc, req[r].found, o),
           \/ pc = "save_question" /\ o = "ok" /\ req[r].pc = "model" /\ req[r].ask.op = "chat"
           \/ pc = "done" /\ o = "model_error" /\ req[r].pc = "model"
           \/ /\ pc = "done" /\ o = "store_error"
              /\ req[r].pc \in {"store", "remember", "search", "recall", "save_question",
                                "save_answer"}
    PROVE  IInv'
<1>1. /\ req' \in [Reqs -> Request]
      /\ \A s \in Reqs \ {r} : req'[s] = req[s]
      /\ req'[r].pc = pc /\ req'[r].ask = req[r].ask /\ req'[r].found = req[r].found
      /\ req'[r].mark = req[r].mark /\ req'[r].heard = req[r].heard /\ req'[r].outcome = o
  <2>1. req[r].found \in SUBSET Nat
    BY HasTable, RequestFields DEF Type
  <2> QED BY <2>1, Finished, HasTable
<1>2. Evolves /\ req[r].pc # "new"
  BY HasTable, Rested
<1>3. LocalOf(req'[r])
  BY <1>1, <1>2, AtWork DEF LocalOf
<1>4. ToldTo(r)' /\ Retired(r)' \subseteq Retired(r)
  <2>1. Keeps(r)
    BY <1>1 DEF Keeps
  <2> QED BY <1>1, <1>2, <2>1, ToldKeeps
<1>5. /\ HasSaid(req[r], "user") => HasSaid(req'[r], "user")
      /\ ~ HasSaid(req[r], "assistant") /\ ~ HasSaid(req'[r], "assistant")
  BY <1>1 DEF HasSaid
<1>6. pc \notin {"new", "save_answer"}
  OBVIOUS
<1> QED BY <1>1, <1>2, <1>3, <1>4, <1>5, <1>6, StepKeeps

\* The model or the store answers or fails: only the request moves on.
LEMMA ModelKeeps ==
    ASSUME IInv, NEW r \in Reqs, ModelAnswers(r) \/ ModelFails(r) \/ StoreFails(r)
    PROVE  IInv'
<1>1. CASE ModelAnswers(r)
  BY <1>1, GoesOn DEF ModelAnswers, At, Steps
<1>2. CASE ModelFails(r)
  BY <1>2, GoesOn DEF ModelFails, At, Steps, Ended
<1>3. CASE StoreFails(r)
  BY <1>3, GoesOn DEF StoreFails, Steps, Ended
<1> QED BY <1>1, <1>2, <1>3

-----------------------------------------------------------------------------
(* The steps that record a turn.                                           *)

\* The new turn is the last of the window; the others move by at most one place.
Shifts(w, v, c, d) ==
    /\ d \in {0, 1}
    /\ v \in Seq(Turn) /\ Len(v) = Len(w) + 1 - d /\ Len(v) <= KeepTurns
    /\ d = 1 <=> Len(w) = KeepTurns
    /\ v[Len(v)] = c
    /\ \A p \in 1 .. Len(v) - 1 : p + d \in 1 .. Len(w) /\ v[p] = w[p + d]

\* A window of KeepTurns moves by nothing or one when a turn is appended.
LEMMA TurnAppended ==
    ASSUME NEW w \in Seq(Turn), Len(w) <= KeepTurns, NEW c \in Turn
    PROVE  \E d \in {0, 1} : Shifts(w, Dialogue!Newest(Append(w, c), KeepTurns), c, d)
<1> DEFINE x     == Append(w, c)
           first == IF Len(x) > KeepTurns THEN Len(x) - KeepTurns + 1 ELSE 1
           v     == SubSeq(x, first, Len(x))
<1>1. /\ x \in Seq(Turn) /\ Len(x) = Len(w) + 1 /\ x[Len(x)] = c /\ Len(w) \in Nat
      /\ \A p \in 1 .. Len(w) : x[p] = w[p]
  OBVIOUS
<1>2. KeepTurns \in Nat \ {0}
  BY ServiceAssumption
<1> HIDE DEF x
<1>3. /\ first \in {1, 2}
      /\ first = 2 <=> Len(w) = KeepTurns
      /\ first <= Len(x) /\ Len(x) - first + 1 <= KeepTurns
  BY <1>1, <1>2
<1> HIDE DEF first
<1>4. /\ v \in Seq(Turn) /\ Len(v) = Len(x) - first + 1
      /\ \A p \in 1 .. Len(v) : v[p] = x[first + p - 1]
  BY <1>1, <1>3, SubSeqProperties
<1>5. Dialogue!Newest(x, KeepTurns) = v
  BY DEF Dialogue!Newest, first
<1> HIDE DEF v
<1> DEFINE d == first - 1
<1>6. d \in {0, 1} /\ Len(v) = Len(w) + 1 - d /\ (d = 1 <=> Len(w) = KeepTurns) /\ Len(v) <= KeepTurns
  BY <1>1, <1>3, <1>4
<1>7. v[Len(v)] = c
  BY <1>1, <1>3, <1>4
<1>8. ASSUME NEW p \in 1 .. Len(v) - 1 PROVE p + d \in 1 .. Len(w) /\ v[p] = w[p + d]
  <2>1. p \in 1 .. Len(v) /\ p + d \in 1 .. Len(w) /\ first + p - 1 = p + d
    BY <1>1, <1>3, <1>4
  <2>2. v[p] = x[p + d]
    BY <1>4, <2>1
  <2> QED BY <1>1, <2>1, <2>2
<1> HIDE DEF d
<1>9. Shifts(w, v, c, d)
  BY <1>4, <1>6, <1>7, <1>8 DEF Shifts
<1> QED BY <1>5, <1>6, <1>9 DEF x

\* Request r says its part of the exchange, once, and stands after it.
Says(r, role) ==
    /\ req[r].ask.op \in {"chat", "remember"} /\ req[r].outcome \in {"ok", "refused"}
    /\ Dialogue!AppendTurn(Conv(r), Say(r, role))
    /\ UNCHANGED memories
    /\ IF role = "user" THEN req[r].pc = "save_question" /\ Goto(r, "save_answer")
                        ELSE req[r].pc = "save_answer" /\ Goto(r, "done")

\* What a window becomes, and who has said what then.
Spoken(r, role, k, d) ==
    /\ k = Conv(r) /\ Shifts(turns[k], turns'[k], Say(r, role), d)
    /\ \A l \in Users \X Sessions : l # k => turns'[l] = turns[l]
    /\ \A s \in Reqs \ {r} : req'[s] = req[s]
    /\ req[r].pc # "new" /\ req'[r].ask = req[r].ask
    /\ HasSaid(req'[r], role) /\ ~ HasSaid(req[r], role)
    /\ \A x \in {"user", "assistant"} : HasSaid(req[r], x) => HasSaid(req'[r], x)
    /\ role = "user" => ~ HasSaid(req[r], "assistant") /\ ~ HasSaid(req'[r], "assistant")
    /\ role = "assistant" => req[r].pc = "save_answer" /\ req'[r].pc # "save_answer"

\* A new turn was said by the request that saves it; the older ones were said before.
LEMMA SaidKeeps ==
    ASSUME IInv, NEW r \in Reqs, NEW role \in {"user", "assistant"},
           NEW k \in Users \X Sessions, NEW d \in {0, 1}, Spoken(r, role, k, d)
    PROVE  Said'
<1>0. /\ turns[k] \in Seq(Turn) /\ Len(turns[k]) \in Nat
      /\ Conv(r) = k /\ Say(r, role).by = r /\ Say(r, role).role = role
  BY DEF IInv, Type, Say, Spoken
<1>1. ASSUME NEW l \in Users \X Sessions, NEW p \in 1 .. Len(turns[l])
      PROVE  \E t \in Turn, b \in Reqs :
                /\ t = turns[l][p] /\ b = t.by
                /\ HasSaid(req[b], t.role) /\ HasSaid(req'[b], t.role) /\ Conv(b)' = l
  <2>1. PICK t \in Turn : t = turns[l][p]
    BY DEF IInv, Type
  <2>2. PICK b \in Reqs : b = t.by
    BY DEF Turn
  <2>3. t.role \in {"user", "assistant"} /\ HasSaid(req[b], t.role) /\ Conv(b) = l
    BY <2>1, <2>2 DEF IInv, Said, SaidIn, Turn
  <2>4. HasSaid(req'[b], t.role) /\ req'[b].ask = req[b].ask
    BY <2>3 DEF Spoken
  <2> QED BY <2>1, <2>2, <2>3, <2>4 DEF Conv
<1>2. ASSUME NEW l \in Users \X Sessions, l # k PROVE SaidIn(l)'
  <2>1. turns'[l] = turns[l]
    BY <1>2 DEF Spoken
  <2> QED BY <1>1, <2>1 DEF SaidIn, IInv, Said, Conv
<1>3. SaidIn(k)'
  <2>1. /\ turns'[k] \in Seq(Turn) /\ Len(turns'[k]) = Len(turns[k]) + 1 - d
        /\ turns'[k][Len(turns'[k])] = Say(r, role) /\ Len(turns'[k]) \in Nat
        /\ \A p \in 1 .. Len(turns'[k]) - 1 :
              p + d \in 1 .. Len(turns[k]) /\ turns'[k][p] = turns[k][p + d]
    BY DEF Spoken, Shifts
  <2> DEFINE v == turns'[k]
             m == Len(v)
  <2> HIDE DEF v, m
  <2>0. /\ m \in Nat /\ v[m] = Say(r, role)
        /\ \A p \in 1 .. m - 1 : p + d \in 1 .. Len(turns[k]) /\ v[p] = turns[k][p + d]
        /\ \A p \in 1 .. m : p # m => p \in 1 .. m - 1
    <3>1. m \in Nat /\ v[m] = Say(r, role)
      BY <2>1 DEF v, m
    <3>2. \A p \in 1 .. m - 1 : p + d \in 1 .. Len(turns[k]) /\ v[p] = turns[k][p + d]
      BY <2>1 DEF v, m
    <3>3. \A p \in 1 .. m : p # m => p \in 1 .. m - 1
      BY <3>1
    <3> QED BY <3>1, <3>2, <3>3
  <2>2. HasSaid(req'[r], role) /\ Conv(r)' = k
    BY <1>0 DEF Spoken, Conv
  <2>3. ASSUME NEW p \in 1 .. m
        PROVE  \E b \in Reqs : b = v[p].by /\ HasSaid(req'[b], v[p].role) /\ Conv(b)' = k
    <3>1. CASE p = m
      BY <1>0, <2>0, <2>2, <3>1
    <3>2. CASE p # m
      <4>1. p + d \in 1 .. Len(turns[k]) /\ v[p] = turns[k][p + d]
        BY <2>0, <3>2
      <4>2. PICK t \in Turn, b \in Reqs :
               t = turns[k][p + d] /\ b = t.by /\ HasSaid(req'[b], t.role) /\ Conv(b)' = k
        BY <1>1, <4>1
      <4>3. b = v[p].by /\ HasSaid(req'[b], v[p].role)
        BY <4>1, <4>2
      <4> QED BY <4>2, <4>3
    <3> QED BY <3>1, <3>2
  <2>4. ASSUME NEW p \in 1 .. m, NEW q \in 1 .. m, v[p] = v[q], p < q
        PROVE  FALSE
    <3>1. p + d \in 1 .. Len(turns[k]) /\ v[p] = turns[k][p + d]
      <4>1. p # m
        BY <2>0, <2>4
      <4> QED BY <2>0, <4>1
    <3>2. CASE q = m
      <4>1. turns[k][p + d] = Say(r, role)
        BY <2>0, <2>4, <3>1, <3>2
      <4>2. HasSaid(req[r], role)
        BY <1>0, <1>1, <3>1, <4>1
      <4> QED BY <4>2 DEF Spoken
    <3>3. CASE q # m
      <4>1. q + d \in 1 .. Len(turns[k]) /\ v[q] = turns[k][q + d]
        BY <2>0, <3>3
      <4>2. p + d = q + d
        BY <2>4, <3>1, <4>1 DEF IInv, Said, SaidIn
      <4> QED BY <2>4, <4>2
    <3> QED BY <3>2, <3>3
  <2>5. m \in Nat /\ \A p, q \in 1 .. m : v[p] = v[q] => p = q
    <3>1. m \in Nat
      BY <2>0
    <3>2. ASSUME NEW p \in 1 .. m, NEW q \in 1 .. m, v[p] = v[q]
          PROVE  p = q
      <4>1. ~ (p < q) /\ ~ (q < p)
        BY <2>4, <3>2
      <4> QED BY <3>1, <4>1
    <3> QED BY <3>1, <3>2
  <2>6. /\ \A p \in 1 .. m : LET t == v[p] IN
              /\ HasSaid(req'[t.by], t.role)
              /\ <<req'[t.by].ask.user, req'[t.by].ask.session>> = k
        /\ \A p, q \in 1 .. m : v[p] = v[q] => p = q
    BY <2>3, <2>5 DEF Conv
  <2> QED BY <2>6 DEF SaidIn, Conv, v, m
<1> QED BY <1>2, <1>3 DEF Said

\* A question stays before its answer, and one of them is missing only where the
\* window was full and pruned it.
LEMMA PairedKeeps ==
    ASSUME IInv, NEW r \in Reqs, NEW role \in {"user", "assistant"},
           NEW k \in Users \X Sessions, NEW d \in {0, 1}, Spoken(r, role, k, d)
    PROVE  Paired'
<1> SUFFICES ASSUME NEW s \in Reqs, req'[s].pc # "new", req'[s].ask.op \in {"chat", "remember"}
             PROVE  PairedOf(s)'
  BY DEF Paired
<1>1. req[s].pc # "new" /\ req[s].ask = req'[s].ask /\ Conv(s)' = Conv(s)
  BY DEF Spoken, Conv
<1>2. PairedOf(s) /\ Conv(s) \in Users \X Sessions
  BY <1>1, WhereSaid DEF IInv, Paired
<1>3. s # r => req'[s] = req[s]
  BY DEF Spoken
<1>4. CASE Conv(s) # k
  <2>1. s # r /\ turns'[Conv(s)'] = turns[Conv(s)]
    BY <1>1, <1>2, <1>4 DEF Spoken
  <2>2. Where(s, "user")' = Where(s, "user") /\ Where(s, "assistant")' = Where(s, "assistant")
    BY <1>1, <2>1 DEF Where, Say
  <2> QED BY <1>2, <1>3, <2>1, <2>2 DEF PairedOf
<1>5. CASE Conv(s) = k
  <2> DEFINE U == Where(s, "user")
             A == Where(s, "assistant")
             U1 == Where(s, "user")'
             A1 == Where(s, "assistant")'
             n == Len(turns[k])
             m == Len(turns'[k])
  <2>1. /\ n \in Nat /\ m \in Nat /\ m = n + 1 - d /\ m <= KeepTurns /\ (d = 1 <=> n = KeepTurns)
        /\ turns'[k][m] = Say(r, role)
        /\ \A p \in 1 .. m - 1 : p + d \in 1 .. n /\ turns'[k][p] = turns[k][p + d]
    BY DEF Spoken, Shifts, IInv, Type
  <2>2. \A x \in {"user", "assistant"} :
           /\ Where(s, x) = {p \in 1 .. n : turns[k][p] = Say(s, x)}
           /\ Where(s, x)' = {p \in 1 .. m : turns'[k][p] = Say(s, x)}
    BY <1>1, <1>5 DEF Where, Say
  <2>3. \A x \in {"user", "assistant"} : Say(s, x) = Say(r, role) <=> s = r /\ x = role
    BY DEF Say
  <2>4. KeepTurns \in Nat
    BY ServiceAssumption
  <2> HIDE DEF n, m
  <2>5. ASSUME NEW x \in {"user", "assistant"}
        PROVE  /\ \A p \in Where(s, x)' : /\ p \in 1 .. m
                                          /\ \/ p = m /\ s = r /\ x = role
                                             \/ p < m /\ p + d \in Where(s, x)
               /\ \A p \in Where(s, x) : p \in 1 .. n /\ (p > d => p - d \in Where(s, x)')
               /\ s = r /\ x = role => m \in Where(s, x)'
    <3>1. ASSUME NEW p \in Where(s, x)'
          PROVE  p \in 1 .. m /\ ((p = m /\ s = r /\ x = role) \/ (p < m /\ p + d \in Where(s, x)))
      BY <2>1, <2>2, <2>3, <3>1
    <3>2. ASSUME NEW p \in Where(s, x) PROVE p \in 1 .. n /\ (p > d => p - d \in Where(s, x)')
      <4>1. p \in 1 .. n /\ turns[k][p] = Say(s, x)
        BY <2>2
      <4>2. ASSUME p > d PROVE p - d \in 1 .. m - 1 /\ p - d + d = p
        BY <2>1, <4>1, <4>2
      <4> QED BY <2>1, <2>2, <4>1, <4>2
    <3>3. s = r /\ x = role => m \in Where(s, x)'
      <4>1. m \in 1 .. m
        BY <2>1, ServiceAssumption
      <4> QED BY <2>1, <2>2, <4>1
    <3> QED BY <3>1, <3>2, <3>3
  <2>6. /\ \A a \in A : \A q \in U : q < a
        /\ A # {} /\ U = {} => n = KeepTurns
        /\ req[s].pc = "save_answer" /\ U = {} => n = KeepTurns
        /\ HasSaid(req[s], "assistant") /\ A = {} => n = KeepTurns /\ U = {}
    BY <1>2, <1>5 DEF PairedOf, n
  <2>7. n = KeepTurns => m = KeepTurns
    BY <2>1, <2>4
  <2>8. s = r /\ role = "user" => A = {} /\ A1 = {}
    <3>1. s = r /\ role = "user" => A = {}
      BY <1>1, WhereSaid DEF Spoken
    <3> QED BY <2>5, <3>1
  <2> HIDE DEF U, A, U1, A1
  <2>9. \A a \in A1 : \A q \in U1 : q < a
    <3> SUFFICES ASSUME NEW a \in A1, NEW q \in U1 PROVE q < a
      OBVIOUS
    <3>1. a \in 1 .. m /\ ((a = m /\ s = r /\ role = "assistant") \/ (a < m /\ a + d \in A))
      BY <2>5 DEF A1, A
    <3>2. q \in 1 .. m /\ ((q = m /\ s = r /\ role = "user") \/ (q < m /\ q + d \in U))
      BY <2>5 DEF U1, U
    <3>3. ~ (s = r /\ role = "user")
      BY <2>8
    <3> QED BY <2>6, <3>1, <3>2, <3>3
  <2>10. U # {} /\ U1 = {} => n = KeepTurns
    <3>1. \A q \in U : q \in 1 .. n /\ (q > d => q - d \in U1)
      BY <2>5 DEF U, U1
    <3> QED BY <2>1, <3>1
  <2>11. A1 # {} /\ U1 = {} => m = KeepTurns
    <3> SUFFICES ASSUME A1 # {}, U1 = {}, U = {} PROVE n = KeepTurns
      BY <2>7, <2>10
    <3>1. CASE A # {}
      BY <2>6, <3>1
    <3>2. CASE A = {}
      <4>1. s = r /\ role = "assistant"
        BY <2>5, <3>2 DEF A, A1
      <4>2. req[s].pc = "save_answer"
        BY <4>1 DEF Spoken
      <4> QED BY <2>6, <4>2
    <3> QED BY <3>1, <3>2
  <2>12. req'[s].pc = "save_answer" /\ U1 = {} => m = KeepTurns
    <3>1. CASE s = r /\ role = "user"
      BY <2>5, <3>1 DEF U1
    <3>2. CASE s = r /\ role = "assistant"
      BY <3>2 DEF Spoken
    <3>3. CASE s # r
      BY <1>3, <2>6, <2>7, <2>10, <3>3
    <3> QED BY <3>1, <3>2, <3>3
  <2>13. HasSaid(req'[s], "assistant") /\ A1 = {} => m = KeepTurns /\ U1 = {}
    <3> SUFFICES ASSUME HasSaid(req'[s], "assistant"), A1 = {} PROVE m = KeepTurns /\ U1 = {}
      OBVIOUS
    <3>1. s # r
      <4>1. CASE s = r /\ role = "user"
        BY <4>1 DEF Spoken
      <4>2. CASE s = r /\ role = "assistant"
        BY <2>5, <4>2 DEF A1
      <4> QED BY <4>1, <4>2
    <3>2. \A q \in U1 : q \in 1 .. m /\ q + d \in U
      BY <2>5, <3>1 DEF U, U1
    <3>3. CASE A = {}
      BY <1>3, <2>6, <2>7, <3>1, <3>2, <3>3
    <3>4. ASSUME NEW a \in A PROVE m = KeepTurns /\ U1 = {}
      <4>1. a \in 1 .. n /\ a <= d
        BY <2>5 DEF A, A1
      <4>2. d = 1 /\ a = 1 /\ n = KeepTurns
        BY <2>1, <4>1
      <4> QED BY <2>6, <2>7, <3>2, <4>2
    <3> QED BY <3>3, <3>4
  <2>14. turns'[Conv(s)'] = turns'[k]
    BY <1>1, <1>5
  <2> QED BY <2>9, <2>11, <2>12, <2>13, <2>14 DEF PairedOf, U1, A1, m
<1> QED BY <1>4, <1>5

\* A request that saves a turn keeps the invariant.
LEMMA SaysKeeps ==
    ASSUME IInv, NEW r \in Reqs, NEW role \in {"user", "assistant"}, Says(r, role)
    PROVE  IInv'
<1> DEFINE pc == IF role = "user" THEN "save_answer" ELSE "done"
<1>1. req[r].pc \in {"save_question", "save_answer"} /\ req[r].pc # "new"
  BY DEF Says
<1>2. PICK k \in Users \X Sessions : k = Conv(r)
  BY <1>1, WhereSaid DEF Says
<1>3. pc \in Steps /\ Goto(r, pc)
  BY DEF Says, Steps, Ended
<1> HIDE DEF pc
<1>4. /\ req' \in [Reqs -> Request]
      /\ \A s \in Reqs \ {r} : req'[s] = req[s]
      /\ req'[r].pc = pc /\ req'[r].ask = req[r].ask /\ req'[r].found = req[r].found
      /\ req'[r].mark = req[r].mark /\ req'[r].heard = req[r].heard
      /\ req'[r].outcome = req[r].outcome
  BY <1>3, Moved, HasTable
<1>5. Evolves /\ Type
  BY HasTable, Rested DEF Says
<1>6. PICK d \in {0, 1} : Shifts(turns[k], turns'[k], Say(r, role), d)
  <2>1. Say(r, role) \in Turn
    BY DEF Say, Turn
  <2>2. turns[k] \in Seq(Turn) /\ Len(turns[k]) <= KeepTurns
    BY <1>5 DEF Type
  <2>3. turns'[k] = Dialogue!Newest(Append(turns[k], Say(r, role)), KeepTurns)
    BY <1>2, <1>5 DEF Says, Dialogue!AppendTurn, Type
  <2> DEFINE w == turns[k]
             c == Say(r, role)
  <2>4. w \in Seq(Turn) /\ Len(w) <= KeepTurns /\ c \in Turn
    BY <2>1, <2>2
  <2> HIDE DEF w, c
  <2>5. \E d \in {0, 1} : Shifts(w, Dialogue!Newest(Append(w, c), KeepTurns), c, d)
    BY <2>4, TurnAppended
  <2> QED BY <2>3, <2>5 DEF w, c
<1>7. Spoken(r, role, k, d)
  <2>1. \A l \in Users \X Sessions : l # k => turns'[l] = turns[l]
    BY <1>2, <1>5 DEF Says, Dialogue!AppendTurn, Type
  <2>2. CASE role = "user"
    BY <1>2, <1>4, <1>6, <2>1, <2>2 DEF Spoken, Says, HasSaid, pc
  <2>3. CASE role = "assistant"
    BY <1>2, <1>4, <1>6, <2>1, <2>3 DEF Spoken, Says, HasSaid, pc
  <2> QED BY <2>2, <2>3
<1>8. Type' /\ Memory!SupersedeChain' /\ NoSecretMemory'
  <2>1. turns' \in [Users \X Sessions -> Seq(Turn)] /\ \A l \in Users \X Sessions : Len(turns'[l]) <= KeepTurns
    <3>1. DOMAIN turns' = Users \X Sessions /\ turns' = [l \in Users \X Sessions |-> turns'[l]]
      BY <1>2, <1>5 DEF Says, Dialogue!AppendTurn, Type
    <3>2. \A l \in Users \X Sessions : turns'[l] \in Seq(Turn) /\ Len(turns'[l]) <= KeepTurns
      BY <1>5, <1>6, <1>7 DEF Spoken, Shifts, Type
    <3> QED BY <3>1, <3>2
  <2> QED BY <1>4, <1>5, <2>1 DEF Type, Evolves
<1>9. Local'
  <2>1. LocalOf(req'[r])
    BY <1>1, <1>4, AtWork DEF LocalOf, Says, pc
  <2> QED BY <1>4, <2>1 DEF IInv, Local
<1>10. Told' /\ RetiredOnce'
  <2>1. pc # "new"
    BY DEF pc
  <2>2. Keeps(r)
    BY <1>1, <1>4, <2>1 DEF Keeps
  <2>3. ToldTo(r)' /\ Retired(r)' \subseteq Retired(r)
    BY <1>4, <1>5, <2>1, <2>2, ToldKeeps
  <2> QED BY <1>4, <1>5, <2>3, OneTold
<1>11. Heard'
  <2>1. Moves
    BY <1>4 DEF Moves, pc
  <2>2. \A s \in Reqs : IsFor(s, "chat")' => req'[s].heard = req[s].heard /\ IsFor(s, "chat")
    BY <1>1, <1>4 DEF IsFor
  <2> QED BY <2>1, <2>2, HeardKeeps
<1>12. Said' /\ Paired'
  BY <1>7, SaidKeeps, PairedKeeps
<1> QED BY <1>8, <1>9, <1>10, <1>11, <1>12 DEF IInv

\* Saving the question and saving the answer are such steps, or failures of them.
LEMMA SaveKeeps ==
    ASSUME IInv, NEW r \in Reqs, SaveQuestion(r) \/ SaveAnswer(r)
    PROVE  IInv'
<1>1. req[r].pc \in {"save_question", "save_answer"}
  BY DEF SaveQuestion, SaveAnswer
<1>2. req[r].ask.op \in {"chat", "remember"} /\ req[r].outcome \in {"ok", "refused"}
  BY <1>1, AtWork DEF LocalOf
<1>3. Says(r, "user") \/ Says(r, "assistant")
  BY <1>2 DEF Says, SaveQuestion, SaveAnswer
<1> QED BY <1>3, SaysKeeps

-----------------------------------------------------------------------------
(* A request arrives; the process dies; nothing happens.                   *)

\* What is noted when a request arrives.
MarkOf(a) ==
    CASE a.op = "chat"       -> {i \in Memory!Ids : memories[i].status # "active"}
      [] a.op = "delete_all" -> Memory!ActiveOf(a.user)
      [] OTHER               -> {}

\* A request arrives with its marks: the rows active by then.
LEMMA ArriveKeeps ==
    ASSUME IInv, NEW r \in Reqs, Arrive(r)
    PROVE  IInv'
<1>1. req[r].pc = "new" /\ UNCHANGED <<memories, turns>>
  BY DEF Arrive
<1>2. PICK a \in Asks : req' = [req EXCEPT ![r] =
             [NotMade EXCEPT !.ask = a, !.pc = FirstStep[a.op], !.mark = MarkOf(a)]]
  BY DEF Arrive, MarkOf
<1> DEFINE q == [NotMade EXCEPT !.ask = a, !.pc = FirstStep[a.op], !.mark = MarkOf(a)]
           pc == FirstStep[a.op]
<1>3. pc \in {"search", "remember", "store"}
  BY AskFields DEF FirstStep
<1>4. /\ MarkOf(a) \subseteq Memory!Ids
      /\ a.op = "chat" => \A i \in MarkOf(a) : memories[i].status # "active"
      /\ a.op = "delete_all" => \A i \in MarkOf(a) : memories[i].user = a.user
  <2>1. Memory!ActiveOf(a.user) \subseteq Memory!Ids
    BY DEF Memory!ActiveOf
  <2>2. \A i \in Memory!ActiveOf(a.user) : memories[i].user = a.user
    BY DEF Memory!ActiveOf, Memory!OwnActive
  <2>3. CASE a.op = "chat"
    BY <2>3 DEF MarkOf
  <2>4. CASE a.op = "delete_all"
    BY <2>1, <2>2, <2>4 DEF MarkOf
  <2>5. CASE a.op \notin {"chat", "delete_all"}
    BY <2>5 DEF MarkOf
  <2> QED BY <2>3, <2>4, <2>5
<1>5. MarkOf(a) \subseteq Nat
  BY <1>4, HasTable, RowNumbers
<1> HIDE DEF pc
<1>6. /\ q.ask = a /\ q.pc = pc /\ q.mark = MarkOf(a) /\ q.found = {} /\ q.heard = <<>>
      /\ q.outcome = "none" /\ q = [ask |-> a, pc |-> pc, found |-> {}, heard |-> <<>>,
                                    outcome |-> "none", mark |-> MarkOf(a)]
  <2> DEFINE m == MarkOf(a)
  <2> HIDE DEF m
  <2>1. q = [NotMade EXCEPT !.ask = a, !.pc = pc, !.mark = m]
    BY DEF pc, m
  <2> HIDE DEF q
  <2>2. q = [ask |-> a, pc |-> pc, found |-> {}, heard |-> <<>>, outcome |-> "none", mark |-> m]
    BY <2>1 DEF NotMade
  <2> QED BY <2>2 DEF m
<1>7. q \in Request
  <2>1. <<>> \in Seq(Turn) /\ pc \in Steps
    BY <1>3 DEF Steps
  <2> HIDE DEF q
  <2> QED BY <1>5, <1>6, <2>1 DEF Request
<1> HIDE DEF q
<1>8. req' \in [Reqs -> Request] /\ req'[r] = q /\ \A s \in Reqs \ {r} : req'[s] = req[s]
  BY <1>2, <1>7, HasTable DEF Type, q
<1>9. Evolves /\ Memory!Ids' = Memory!Ids
  BY <1>1, HasTable, Rested DEF Memory!Ids
<1>10. Type' /\ Memory!SupersedeChain' /\ NoSecretMemory'
  BY <1>1, <1>8, <1>9 DEF IInv, Type, Evolves
<1>11. Local'
  <2>1. LocalOf(q)
    <3>1. Len(q.heard) <= TurnLimit
      BY <1>6, ServiceAssumption
    <3> QED BY <1>3, <1>6, <3>1 DEF LocalOf
  <2> QED BY <1>8, <2>1 DEF IInv, Local
<1>12. Told' /\ RetiredOnce'
  <2>1. Retired(r)' = {}
    BY <1>6, <1>8 DEF Retired
  <2>2. ToldTo(r)'
    BY <1>1, <1>4, <1>6, <1>8, <1>9, <2>1 DEF ToldTo, IsFor, User
  <2> QED BY <1>8, <1>9, <2>1, <2>2, OneTold
<1>13. Moves
  BY <1>1, <1>8 DEF Moves
<1>14. Heard'
  <2>1. \A s \in Reqs \ {r} : IsFor(s, "chat")' => req'[s].heard = req[s].heard /\ IsFor(s, "chat")
    BY <1>8 DEF IsFor
  <2>2. req'[r].heard = <<>>
    BY <1>6, <1>8
  <2> QED BY <1>13, <2>1, <2>2, HeardKeeps
<1>15. Silent
  BY <1>1, <1>3, <1>6, <1>8 DEF Silent, HasSaid
<1>16. Said' /\ Paired'
  BY <1>1, <1>11, <1>13, <1>15, WindowsKeep
<1> QED BY <1>10, <1>11, <1>12, <1>14, <1>16 DEF IInv

\* A crash loses every request under way, and nothing else.
LEMMA CrashKeeps ==
    ASSUME IInv, Crash
    PROVE  IInv'
<1>1. UNCHANGED <<memories, turns>> /\ Evolves /\ Type
  BY HasTable, Rested DEF Crash
<1>2. \A s \in Reqs : req'[s] = IF Serving(s) THEN [req[s] EXCEPT !.pc = "lost"] ELSE req[s]
  BY DEF Crash
<1>3. \A s \in Reqs : req[s] \in Request
  BY <1>1 DEF Type
<1>4. ASSUME NEW s \in Reqs
      PROVE  /\ req'[s] \in Request
             /\ req'[s].pc = (IF Serving(s) THEN "lost" ELSE req[s].pc)
             /\ req'[s].ask = req[s].ask /\ req'[s].mark = req[s].mark
             /\ req'[s].found = req[s].found /\ req'[s].heard = req[s].heard
             /\ req'[s].outcome = req[s].outcome
  <2>1. CASE Serving(s)
    <3>1. req'[s] = [req[s] EXCEPT !.pc = "lost"] /\ "lost" \in Steps
      BY <1>2, <2>1 DEF Steps, Ended
    <3> QED BY <1>3, <2>1, <3>1 DEF Request
  <2>2. CASE ~ Serving(s)
    BY <1>2, <1>3, <2>2
  <2> QED BY <2>1, <2>2
<1>5. req' \in [Reqs -> Request]
  <2>1. req' = [s \in Reqs |-> req'[s]]
    BY DEF Crash
  <2> QED BY <1>4, <2>1
<1>6. \A s \in Reqs : /\ Serving(s) => req[s].pc # "new"
                      /\ req[s].pc = "save_answer" => Serving(s)
                      /\ req[s].pc = "done" => ~ Serving(s)
  BY DEF Serving, Ended
<1>7. Type' /\ Memory!SupersedeChain' /\ NoSecretMemory'
  BY <1>1, <1>5 DEF IInv, Type, Evolves
<1>8. Local'
  BY <1>4, <1>6 DEF IInv, Local, LocalOf
<1>9. Told' /\ RetiredOnce'
  <2>1. ASSUME NEW s \in Reqs PROVE ToldTo(s)' /\ Retired(s)' \subseteq Retired(s)
    <3>1. Keeps(s)
      BY <1>4, <1>6 DEF Keeps
    <3>2. req[s].pc = "new" => req[s].outcome = "none"
      BY DEF IInv, Local, LocalOf
    <3> QED BY <1>1, <1>4, <3>1, <3>2, ToldKeeps
  <2> QED BY <2>1 DEF IInv, Told, RetiredOnce
<1>10. Moves
  BY <1>4 DEF Moves
<1>11. Heard'
  <2>1. \A s \in Reqs : IsFor(s, "chat")' => req'[s].heard = req[s].heard /\ IsFor(s, "chat")
    BY <1>4, <1>6 DEF IsFor
  <2> QED BY <1>10, <2>1, HeardKeeps
<1>12. Silent
  BY <1>4, <1>6 DEF Silent, HasSaid
<1>13. Said' /\ Paired'
  BY <1>1, <1>8, <1>10, <1>12, WindowsKeep
<1> QED BY <1>7, <1>8, <1>9, <1>11, <1>13 DEF IInv

\* No row, no turn and no request yet.
LEMMA InitIInv == Init => IInv
<1> SUFFICES ASSUME Init PROVE IInv
  OBVIOUS
<1>1. memories = <<>> /\ Memory!Ids = {} /\ Memory!TypeOK
  BY DEF Init, Memory!Init, Memory!Ids, Memory!TypeOK
<1>2. turns = [k \in Users \X Sessions |-> <<>>] /\ \A k \in Users \X Sessions : Len(turns[k]) = 0
  BY DEF Init, Dialogue!Init
<1>3. \A r \in Reqs : /\ req[r] = NotMade
                      /\ req[r].pc = "new" /\ req[r].found = {} /\ req[r].mark = {}
                      /\ req[r].outcome = "none" /\ Len(req[r].heard) = 0
  BY DEF Init, NotMade
<1>4. Type
  <2>1. NotMade \in Request
    <3>1. <<>> \in Seq(Turn)
      OBVIOUS
    <3> QED BY <3>1 DEF NotMade, Request, Steps
  <2>2. req \in [Reqs -> Request]
    BY <2>1 DEF Init
  <2>3. turns \in [Users \X Sessions -> Seq(Turn)]
    <3>1. <<>> \in Seq(Turn)
      OBVIOUS
    <3> QED BY <1>2, <3>1
  <2> QED BY <1>1, <1>2, <2>2, <2>3, ServiceAssumption DEF Type
<1>5. Memory!SupersedeChain /\ NoSecretMemory
  BY <1>1 DEF Memory!SupersedeChain, NoSecretMemory
<1>6. Local
  BY <1>3, ServiceAssumption DEF Local, LocalOf
<1>7. Told /\ RetiredOnce
  BY <1>3 DEF Told, ToldTo, IsFor, Retired, RetiredOnce
<1>8. Heard /\ Paired
  BY <1>3 DEF Heard, IsFor, Paired
<1>9. Said
  BY <1>2 DEF Said, SaidIn
<1> QED BY <1>4, <1>5, <1>6, <1>7, <1>8, <1>9 DEF IInv

-----------------------------------------------------------------------------
(* The theorems.                                                           *)

\* Every step of every handler, the arrivals and the crash.
LEMMA StepIInv == IInv /\ [Next]_vars => IInv'
<1> SUFFICES ASSUME IInv, [Next]_vars PROVE IInv'
  OBVIOUS
<1>1. ASSUME NEW r \in Reqs, Arrive(r) PROVE IInv'
  BY <1>1, ArriveKeeps
<1>2. ASSUME NEW r \in Reqs, Serve(r) PROVE IInv'
  <2>1. CASE CreateMemory(r) \/ CorrectMemory(r) \/ DeleteMemory(r) \/ DeleteAll(r)
    BY <2>1, CreateMemoryKeeps, CorrectMemoryKeeps, DeleteMemoryKeeps, DeleteAllKeeps
  <2>2. CASE Remember(r) \/ Search(r) \/ Recall(r)
    BY <2>2, RememberKeeps, SearchKeeps, RecallKeeps
  <2>3. CASE ModelAnswers(r) \/ ModelFails(r) \/ StoreFails(r)
    BY <2>3, ModelKeeps
  <2>4. CASE SaveQuestion(r) \/ SaveAnswer(r)
    BY <2>4, SaveKeeps
  <2> QED BY <1>2, <2>1, <2>2, <2>3, <2>4 DEF Serve
<1>3. CASE Crash
  BY <1>3, CrashKeeps
<1>4. CASE UNCHANGED vars
  <2>1. /\ memories' = memories /\ turns' = turns /\ req' = req
    BY <1>4 DEF vars
  <2>3. Evolves
    BY <2>1, HasTable, Rested
  <2>2. Type' /\ Memory!SupersedeChain' /\ NoSecretMemory' /\ Local' /\ Heard' /\ Said' /\ Paired'
    <3>1. Type' /\ Memory!SupersedeChain' /\ NoSecretMemory' /\ Local'
      BY <2>1, <2>3 DEF IInv, Type, Evolves, Local
    <3>2. Moves /\ Silent
      BY <2>1 DEF Moves, Silent
    <3>3. \A s \in Reqs : IsFor(s, "chat")' => req'[s].heard = req[s].heard /\ IsFor(s, "chat")
      BY <2>1 DEF IsFor
    <3> QED BY <2>1, <3>1, <3>2, <3>3, HeardKeeps, WindowsKeep
  <2>4. ASSUME NEW s \in Reqs PROVE ToldTo(s)' /\ Retired(s)' \subseteq Retired(s)
    <3>1. Keeps(s)
      BY <2>1 DEF Keeps
    <3>2. req[s].pc = "new" => req[s].outcome = "none"
      BY DEF IInv, Local, LocalOf
    <3> QED BY <2>1, <2>3, <3>1, <3>2, ToldKeeps
  <2> QED BY <2>2, <2>4 DEF IInv, Told, RetiredOnce
<1> QED BY <1>1, <1>2, <1>3, <1>4 DEF Next

\* Every handler of app.py and every step of chat, in any order, with model and
\* store failures and crashes of the process.
THEOREM Inductive == Spec => []IInv
BY InitIInv, StepIInv, PTL DEF Spec

(***************************************************************************)
(* The shape of the tables and of the requests: a window never exceeds     *)
(* keep_turns, a prompt never holds more than turn_limit turns, and every  *)
(* id a request holds is the id of a row.                                  *)
(***************************************************************************)
THEOREM TypeCorrect == Spec => []TypeOK
<1>1. IInv => TypeOK
  <2> SUFFICES ASSUME IInv PROVE TypeOK
    OBVIOUS
  <2>1. ASSUME NEW r \in Reqs
        PROVE  /\ req[r].pc \in Steps
               /\ req[r].pc # "new" => req[r].ask \in Asks
               /\ req[r].found \cup req[r].mark \subseteq Memory!Ids
               /\ req[r].heard \in Seq(Turn) /\ Len(req[r].heard) <= TurnLimit
    BY HasTable, RequestFields DEF IInv, Type, Local, LocalOf, Told, ToldTo
  <2>2. memories \in Seq(Memory!Row)
    BY DEF IInv, Type, Memory!TypeOK
  <2> QED BY <2>1, <2>2 DEF IInv, Type, TypeOK
<1> QED BY <1>1, Inductive, PTL

\* No way into the table lets a secret-like text through the guard.
THEOREM SecretsStayOut == Spec => []NoSecretMemory
<1>1. IInv => NoSecretMemory
  BY DEF IInv
<1> QED BY <1>1, Inductive, PTL

(***************************************************************************)
(* Of all the corrections and deletions racing for a row, one succeeds.    *)
(***************************************************************************)
THEOREM NothingRetiredTwice == Spec => []RetiredOnce
<1>1. IInv => RetiredOnce
  BY DEF IInv
<1> QED BY <1>1, Inductive, PTL

(***************************************************************************)
(* A prompt holds the user's own memories, none inactive when its handler  *)
(* started, and turns of its own conversation, none of them its own.       *)
(***************************************************************************)
THEOREM PromptsAreOwnAndFresh == Spec => []PromptIsOwnAndFresh
<1>1. IInv => PromptIsOwnAndFresh
  <2> SUFFICES ASSUME IInv, NEW r \in Reqs, req[r].pc # "new", req[r].ask.op = "chat"
               PROVE  /\ \A i \in req[r].found : memories[i].user = User(r) /\ i \notin req[r].mark
                      /\ \A t \in ToSet(req[r].heard) : Conv(t.by) = Conv(r) /\ t.by # r
    BY DEF PromptIsOwnAndFresh
  <2>1. \A i \in req[r].found : memories[i].user = User(r) /\ i \notin req[r].mark
    BY DEF IInv, Told, ToldTo, IsFor
  <2>2. ASSUME NEW t \in ToSet(req[r].heard) PROVE Conv(t.by) = Conv(r) /\ t.by # r
    <3>1. req[r].heard \in Seq(Turn)
      BY HasTable, RequestFields DEF Type
    <3>2. PICK p \in 1 .. Len(req[r].heard) : t = req[r].heard[p]
      BY <3>1 DEF ToSet
    <3> QED BY <3>2 DEF IInv, Heard, IsFor
  <2> QED BY <2>1, <2>2
<1> QED BY <1>1, Inductive, PTL

\* Following superseded_by from a row ends: Latest is what it is defined to be.
LEMMA LatestRow ==
    ASSUME IInv
    PROVE  \A i \in Memory!Ids :
              Latest[i] = IF memories[i].superseded_by = Memory!NoRow THEN i
                          ELSE Latest[memories[i].superseded_by]
<1> DEFINE n == Len(memories)
           After(f, i) == IF memories[i].superseded_by = Memory!NoRow THEN i
                          ELSE f[memories[i].superseded_by]
           Solves(f, k) == f = [i \in k .. n |-> After(f, i)]
           T == {k \in 1 .. n + 1 : ~ \E f : Solves(f, k)}
<1>1. Memory!Ids = 1 .. n /\ n \in Nat
  BY HasTable, RowNumbers
<1>2. \A i \in 1 .. n : memories[i].superseded_by # Memory!NoRow =>
                           memories[i].superseded_by \in i + 1 .. n
  BY <1>1 DEF IInv, Memory!SupersedeChain
<1> HIDE DEF n
<1>3. T = {}
  <2> SUFFICES ASSUME T # {} PROVE FALSE
    OBVIOUS
  <2>1. T \in SUBSET Nat /\ \A k \in T : k <= n + 1
    BY <1>1
  <2>2. PICK k \in T : \A l \in T : l <= k
    <3> DEFINE top == n + 1
    <3>1. top \in Nat /\ \A k \in T : k <= top
      BY <1>1, <2>1
    <3> HIDE DEF T, top
    <3> QED BY <2>1, <3>1, ServiceAssumption, Rows!GreatestOf
  <2>3. CASE k = n + 1
    <3>1. Solves([i \in {} |-> 0], n + 1)
      <4>1. n + 1 .. n = {}
        BY <1>1
      <4> QED BY <4>1
    <3> QED BY <2>3, <3>1
  <2>4. CASE k # n + 1
    <3>0. k \in 1 .. n + 1
      OBVIOUS
    <3>1. k \in 1 .. n /\ k + 1 \in 1 .. n + 1 /\ k + 1 \notin T
      <4> HIDE DEF T
      <4> QED BY <1>1, <2>2, <2>4, <3>0
    <3>2. PICK f : Solves(f, k + 1)
      BY <3>1
    <3> DEFINE g == [i \in k .. n |-> IF i = k THEN After(f, k) ELSE f[i]]
    <3>3. ASSUME NEW i \in k + 1 .. n
          PROVE  f[i] = After(f, i) /\ g[i] = f[i] /\ i \in k .. n
      <4>1. i \in k .. n /\ i # k
        BY <1>1, <3>1
      <4>2. f[i] = After(f, i)
        <5> DEFINE e(j) == After(f, j)
        <5>1. f = [j \in k + 1 .. n |-> e(j)]
          BY <3>2
        <5> HIDE DEF e
        <5>2. f[i] = e(i)
          BY <5>1
        <5> QED BY <5>2 DEF e
      <4>3. g[i] = f[i]
        BY <4>1
      <4> QED BY <4>1, <4>2, <4>3
    <3>4. ASSUME NEW i \in k .. n PROVE g[i] = After(g, i)
      <4>1. i \in 1 .. n
        BY <1>1, <3>1
      <4>2. memories[i].superseded_by # Memory!NoRow => memories[i].superseded_by \in k + 1 .. n
        BY <1>1, <1>2, <3>1, <4>1
      <4>3. After(g, i) = After(f, i)
        BY <3>3, <4>2
      <4>4. g[i] = After(f, i)
        <5>1. CASE i = k
          BY <1>1, <3>1, <5>1
        <5>2. CASE i # k
          <6>1. i \in k + 1 .. n
            BY <1>1, <3>1, <5>2
          <6> QED BY <3>3, <6>1
        <5> QED BY <5>1, <5>2
      <4> QED BY <4>3, <4>4
    <3>5. Solves(g, k)
      <4>1. g = [i \in k .. n |-> g[i]]
        OBVIOUS
      <4> HIDE DEF g
      <4> QED BY <3>4, <4>1
    <3> QED BY <2>2, <3>5
  <2> QED BY <2>3, <2>4
<1>4. \E f : Solves(f, 1)
  BY <1>1, <1>3
<1>5. Latest = CHOOSE f : f = [i \in Memory!Ids |-> IF memories[i].superseded_by = Memory!NoRow THEN i
                                                    ELSE f[memories[i].superseded_by]]
  BY DEF Latest
<1>6. Latest = [i \in Memory!Ids |-> IF memories[i].superseded_by = Memory!NoRow THEN i
                                      ELSE Latest[memories[i].superseded_by]]
  BY <1>1, <1>4, <1>5
<1> HIDE DEF Latest
<1> QED BY <1>6

(***************************************************************************)
(* After DELETE /memories has succeeded, no version of what the user had   *)
(* is active, whatever corrections ran in between.                         *)
(***************************************************************************)
THEOREM EveryVersionForgotten == Spec => []ForgetsEveryVersion
<1>1. IInv => ForgetsEveryVersion
  <2> SUFFICES ASSUME IInv, NEW r \in Reqs, req[r].outcome = "ok", req[r].ask.op = "delete_all",
                      NEW i \in req[r].mark
               PROVE  memories[Latest[i]].status # "active"
    BY DEF ForgetsEveryVersion
  <2>1. IsFor(r, "delete_all")
    BY DEF IInv, Local, LocalOf, IsFor
  <2>2. PICK C \in SUBSET Memory!Ids :
           /\ i \in C
           /\ \A j \in C :
                 /\ memories[j].status # "active"
                 /\ memories[j].superseded_by # Memory!NoRow => memories[j].superseded_by \in C
    BY <2>1 DEF IInv, Told, ToldTo, Gone
  <2> DEFINE D == {j \in C : Latest[j] \notin C}
  <2>3. D = {}
    <3> SUFFICES ASSUME D # {} PROVE FALSE
      OBVIOUS
    <3>1. D \in SUBSET Nat /\ Len(memories) \in Nat /\ \A j \in D : j <= Len(memories)
      BY HasTable, RowNumbers
    <3>2. PICK j \in D : \A k \in D : k <= j
      <4> HIDE DEF D
      <4> QED BY <3>1, ServiceAssumption, Rows!GreatestOf
    <3>3. j \in Memory!Ids /\ j \in Nat
      BY <3>1
    <3>4. CASE memories[j].superseded_by = Memory!NoRow
      BY <3>3, <3>4, LatestRow
    <3>5. CASE memories[j].superseded_by # Memory!NoRow
      <4>1. memories[j].superseded_by > j /\ memories[j].superseded_by \in C
        BY <2>2, <3>3, <3>5 DEF IInv, Memory!SupersedeChain
      <4>2. memories[j].superseded_by \in Nat
        BY <4>1, HasTable, RowNumbers
      <4>3. Latest[memories[j].superseded_by] \in C
        BY <3>2, <3>3, <4>1, <4>2
      <4> QED BY <3>3, <3>5, <4>3, LatestRow
    <3> QED BY <3>4, <3>5
  <2> QED BY <2>2, <2>3
<1> QED BY <1>1, Inductive, PTL

(***************************************************************************)
(* Exchanges are whole: an answer never without its question, nor before   *)
(* it, but in a full window; a question without its answer only while its  *)
(* request is at work, lost, or failed at the store; nothing of a chat     *)
(* whose model call failed.                                                *)
(***************************************************************************)
THEOREM EveryExchangeIsWhole == Spec => []ExchangesAreWhole
<1>1. IInv => ExchangesAreWhole
  <2> SUFFICES ASSUME IInv, NEW r \in Reqs
               PROVE  /\ \A a \in Places(r, "assistant") :
                            IF Places(r, "user") = {}
                            THEN Len(turns[Conv(r)]) = KeepTurns
                            ELSE \A q \in Places(r, "user") : q < a
                      /\ Places(r, "user") # {} /\ Places(r, "assistant") = {} =>
                            req[r].pc \in {"save_answer", "lost"} \/ req[r].outcome = "store_error"
                      /\ /\ req[r].pc = "done"
                         /\ req[r].ask.op \in {"chat", "remember"}
                         /\ req[r].outcome \in {"ok", "refused"}
                         /\ Places(r, "assistant") = {}
                         => Len(turns[Conv(r)]) = KeepTurns
                      /\ req[r].outcome = "model_error" =>
                            Places(r, "user") \cup Places(r, "assistant") = {}
    BY DEF ExchangesAreWhole
  <2>1. CASE req[r].pc = "new" \/ req[r].ask.op \notin {"chat", "remember"}
    <3>1. req[r].pc # "new" => req[r].ask.session = None
      BY <2>1, AtWork, AskFields
    <3>2. Places(r, "user") = {} /\ Places(r, "assistant") = {}
      BY <3>1 DEF Places
    <3> QED BY <2>1, <3>2
  <2>2. CASE req[r].pc # "new" /\ req[r].ask.op \in {"chat", "remember"}
    <3>1. req[r].ask.session # None /\ Conv(r) \in Users \X Sessions
      BY <2>2, AtWork, AskFields, ServiceAssumption, WhereSaid
    <3>2. DOMAIN turns[Conv(r)] = 1 .. Len(turns[Conv(r)])
      BY <3>1, HasTable DEF Type
    <3>3. \A role \in {"user", "assistant"} : Places(r, role) = Where(r, role)
      BY <2>2, <3>1, <3>2 DEF Places, Where
    <3>4. PairedOf(r)
      BY <2>2 DEF IInv, Paired
    <3>5. \A role \in {"user", "assistant"} : Where(r, role) # {} => HasSaid(req[r], role)
      BY <2>2, WhereSaid
    <3> HIDE DEF Where
    <3> QED BY <2>2, <3>3, <3>4, <3>5 DEF PairedOf, HasSaid
  <2> QED BY <2>1, <2>2
<1> QED BY <1>1, Inductive, PTL

-----------------------------------------------------------------------------
(* The service against the contracts of the store.                         *)

\* A step changes the table as MemoryStore's contract allows, or not at all,
\* and the windows likewise.
LEMMA StepRefines ==
    ASSUME IInv, [Next]_vars
    PROVE  [Memory!Next]_memories /\ [Dialogue!Next]_turns
<1>1. ASSUME NEW r \in Reqs, req[r].pc # "new", req[r].ask.op \in {"add_memory", "correct_memory", "remember"}
      PROVE  User(r) \in Users /\ req[r].ask.text \in Texts
  BY <1>1, AtWork, AskFields
<1>2. ASSUME NEW r \in Reqs, CreateMemory(r) \/ Remember(r)
      PROVE  [Memory!Next]_memories /\ UNCHANGED turns
  <2>1. User(r) \in Users /\ req[r].ask.text \in Texts
    BY <1>1, <1>2 DEF CreateMemory, Remember, At
  <2> QED BY <1>2, <2>1 DEF CreateMemory, Remember, Memory!Next
<1>3. ASSUME NEW r \in Reqs, CorrectMemory(r)
      PROVE  [Memory!Next]_memories /\ UNCHANGED turns
  <2>1. User(r) \in Users /\ req[r].ask.text \in Texts
    BY <1>1, <1>3 DEF CorrectMemory, At
  <2>2. Memory!CorrectMemory(User(r), req[r].ask.id, req[r].ask.text) => req[r].ask.id \in Memory!Ids
    BY DEF Memory!CorrectMemory, Memory!OwnActive
  <2> QED BY <1>3, <2>1, <2>2 DEF CorrectMemory, Memory!Next
<1>4. ASSUME NEW r \in Reqs, DeleteMemory(r) \/ DeleteAll(r)
      PROVE  [Memory!Next]_memories /\ UNCHANGED turns
  <2>1. User(r) \in Users
    BY <1>4, AtWork DEF DeleteMemory, DeleteAll, At
  <2>2. Memory!DeleteMemory(User(r), req[r].ask.id) => req[r].ask.id \in Memory!Ids
    BY DEF Memory!DeleteMemory, Memory!OwnActive
  <2> QED BY <1>4, <2>1, <2>2 DEF DeleteMemory, DeleteAll, Memory!Next
<1>5. ASSUME NEW r \in Reqs, SaveQuestion(r) \/ SaveAnswer(r)
      PROVE  UNCHANGED memories /\ [Dialogue!Next]_turns
  <2>1. req[r].pc # "new" /\ req[r].ask.op \in {"chat", "remember"}
    BY <1>5, AtWork DEF SaveQuestion, SaveAnswer, LocalOf
  <2>2. Conv(r) \in Users \X Sessions
    BY <2>1, WhereSaid
  <2>3. Say(r, "user") \in Turn /\ Say(r, "assistant") \in Turn
    BY DEF Say, Turn
  <2> QED BY <1>5, <2>2, <2>3 DEF SaveQuestion, SaveAnswer, Dialogue!Next
<1>6. ASSUME NEW r \in Reqs, Arrive(r) \/ Search(r) \/ Recall(r) \/ ModelAnswers(r) \/ ModelFails(r)
                             \/ StoreFails(r) \/ Crash
      PROVE  UNCHANGED <<memories, turns>>
  BY <1>6 DEF Arrive, Search, Recall, ModelAnswers, ModelFails, StoreFails, Crash
<1>7. Crash => UNCHANGED <<memories, turns>>
  BY DEF Crash
<1>8. UNCHANGED vars => UNCHANGED <<memories, turns>>
  BY DEF vars
<1> QED BY <1>2, <1>3, <1>4, <1>5, <1>6, <1>7, <1>8 DEF Next, Serve

(***************************************************************************)
(* The handlers use the store by its contract: whatever requests run, the  *)
(* tables behave as MagMemory and MagTurns say.  With MagStoreTxnProofs,   *)
(* where the store implements both statement by statement, the service     *)
(* runs on what the code of MemoryStore does.                              *)
(***************************************************************************)
THEOREM ServiceKeepsContracts == Spec => Memory!Spec /\ Dialogue!Spec
<1>1. Init => Memory!Init /\ Dialogue!Init
  BY DEF Init
<1>2. IInv /\ [Next]_vars => [Memory!Next]_memories
  BY StepRefines
<1>3. IInv /\ [Next]_vars => [Dialogue!Next]_turns
  BY StepRefines
<1> QED BY <1>1, <1>2, <1>3, Inductive, PTL DEF Spec, Memory!Spec, Dialogue!Spec
=============================================================================
