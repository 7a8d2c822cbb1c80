-------------------------- MODULE TagPipelineProofs --------------------------
(***************************************************************************)
(* Proofs about TagPipeline, for every set of statements and every value   *)
(* of the row cap, the attempts and the opcode budget.                     *)
(*                                                                         *)
(* What the properties say of the end of a call needs what is true in the  *)
(* loop: so far every attempt was rejected, each cost one model call, the  *)
(* feedback is the last one's, and nothing has been accepted (Trying);     *)
(* while the answer is generated, the accepted statement is the last       *)
(* attempt (Accepted).  For the budget, the handler's count is the one     *)
(* EXPLAIN left (Ticking).                                                 *)
(***************************************************************************)
EXTENDS TagPipeline, SequenceTheorems, TLAPS

InLoop == pc \in {"connect", "synthesis", "explain", "execute"}

Trying ==
    InLoop =>
        /\ result = "none" /\ sql = NoSql /\ rows = 0
        /\ Len(attempts) < MaxAttempts
        /\ \A i \in 1 .. Len(attempts) : attempts[i].outcome = "rejected"
        /\ feedback = IF Len(attempts) = 0 THEN NoSql ELSE attempts[Len(attempts)].sql
        /\ calls = IF pc \in {"explain", "execute"} THEN Len(attempts) + 1
                                                    ELSE Len(attempts)
        /\ pc \in {"explain", "execute"} => candidate \in Statements
        /\ pc = "execute" => Acceptable(candidate)

Accepted ==
    pc = "answer" => result = "none" /\ calls = Len(attempts)

\* Before the connection is opened there is none, and no model call.
Unopened == pc = "connect" => conn = "none" /\ calls = 0

Whole(cost) == (cost \div ProgressStep) * ProgressStep

Ticking ==
    /\ pc = "explain" => ticks = 0
    /\ pc = "execute" => ticks = Whole(candidate.explain_cost)

IInv == /\ TypeOK /\ Unopened /\ Trying /\ Accepted /\ Ticking
        /\ AnswersAreGrounded /\ FailsClosed /\ ToldOfTheLastError
        /\ ConnectionReleased /\ BudgetIsKept

-----------------------------------------------------------------------------
(* The operators.                                                          *)

\* What Append does to the trace.
LEMMA Appended ==
    ASSUME attempts \in Seq(Attempt), NEW a \in Attempt, attempts' = Append(attempts, a)
    PROVE  /\ attempts' \in Seq(Attempt)
           /\ Len(attempts) \in Nat
           /\ Len(attempts') = Len(attempts) + 1
           /\ \A i \in 1 .. Len(attempts) : attempts'[i] = attempts[i]
           /\ attempts'[Len(attempts) + 1] = a
OBVIOUS

\* The fields of a statement.
LEMMA StatementFields ==
    ASSUME NEW s \in Statements
    PROVE  /\ s.explain_cost \in Nat /\ s.cost \in Nat /\ s.rows \in Nat
           /\ s # NoSql /\ s # OutOfScope
BY PipelineAssumption DEF Statement

\* The handler counts whole steps of the opcodes executed.
LEMMA WholeSteps ==
    ASSUME NEW cost \in Nat
    PROVE  /\ Whole(cost) \in Nat
           /\ Whole(cost) <= cost
           /\ cost <= Whole(cost) + ProgressStep - 1
<1>1. ProgressStep \in Nat /\ ProgressStep > 0
  BY PipelineAssumption
<1>2. QED BY <1>1 DEF Whole

\* After is a count the handler can have reached, when it is within the budget.
LEMMA AfterCounts ==
    ASSUME ticks \in 0 .. OpcodeBudget, NEW cost \in Nat, After(cost) <= OpcodeBudget
    PROVE  After(cost) \in 0 .. OpcodeBudget
<1>1. After(cost) = ticks + Whole(cost)
  BY DEF After, Whole
<1>2. QED BY <1>1, WholeSteps, PipelineAssumption

\* An attempt that was told the current feedback keeps the chain of feedback.
LEMMA ToldKeeps ==
    ASSUME ToldOfTheLastError, attempts \in Seq(Attempt), NEW a \in Attempt,
           attempts' = Append(attempts, a), a.told = feedback,
           feedback = IF Len(attempts) = 0 THEN NoSql ELSE attempts[Len(attempts)].sql
    PROVE  ToldOfTheLastError'
<1>1. SUFFICES ASSUME NEW i \in 1 .. Len(attempts')
               PROVE  attempts'[i].told = IF i = 1 THEN NoSql ELSE attempts'[i - 1].sql
  BY DEF ToldOfTheLastError
<1>2. CASE i \in 1 .. Len(attempts)
  <2>1. attempts'[i] = attempts[i] /\ (i # 1 => attempts'[i - 1] = attempts[i - 1])
    BY <1>2, Appended
  <2>2. attempts[i].told = IF i = 1 THEN NoSql ELSE attempts[i - 1].sql
    BY <1>2 DEF ToldOfTheLastError
  <2>3. QED BY <2>1, <2>2
<1>3. CASE i = Len(attempts) + 1
  <2>1. attempts'[i] = a /\ (i # 1 => attempts'[i - 1] = attempts[Len(attempts)])
    BY <1>3, Appended
  <2>2. QED BY <1>3, <2>1, Appended
<1>4. QED BY <1>1, <1>2, <1>3, Appended

\* The claim of BudgetIsKept about one attempt.
Budgeted(a) ==
    LET total == a.sql.explain_cost + a.sql.cost
    IN  /\ a.outcome = "ok" => total <= OpcodeBudget + 2 * (ProgressStep - 1)
        /\ a.outcome = "rejected" /\ Acceptable(a.sql) /\ a.sql.runs /\ a.sql.rows <= RowCap
               => total > OpcodeBudget

\* An attempt within the claim keeps BudgetIsKept.
LEMMA BudgetKeeps ==
    ASSUME BudgetIsKept, attempts \in Seq(Attempt), NEW a \in Attempt,
           attempts' = Append(attempts, a), Budgeted(a)
    PROVE  BudgetIsKept'
<1>1. \A i \in 1 .. Len(attempts) : Budgeted(attempts[i])
  BY DEF BudgetIsKept, Budgeted
<1>2. \A i \in 1 .. Len(attempts') : Budgeted(attempts'[i])
  <2>1. TAKE i \in 1 .. Len(attempts')
  <2>2. CASE i \in 1 .. Len(attempts)
    <3>1. attempts'[i] = attempts[i]
      BY <2>2, Appended
    <3>2. QED BY <1>1, <2>2, <3>1
  <2>3. CASE i = Len(attempts) + 1
    <3>1. attempts'[i] = a
      BY <2>3, Appended
    <3>2. QED BY <3>1
  <2>4. QED BY <2>1, <2>2, <2>3, Appended
<1>3. QED BY <1>2 DEF BudgetIsKept, Budgeted

\* What the loop knows, for the two stages that examine a candidate.
LEMMA Examining ==
    ASSUME IInv, pc \in {"explain", "execute"}
    PROVE  /\ result = "none" /\ sql = NoSql /\ rows = 0
           /\ Len(attempts) \in Nat /\ Len(attempts) < MaxAttempts
           /\ \A i \in 1 .. Len(attempts) : attempts[i].outcome = "rejected"
           /\ feedback = IF Len(attempts) = 0 THEN NoSql ELSE attempts[Len(attempts)].sql
           /\ calls = Len(attempts) + 1
           /\ candidate \in Statements
           /\ conn = "open"
           /\ attempts \in Seq(Attempt)
<1>1. attempts \in Seq(Attempt)
  BY DEF IInv, TypeOK
<1>2. Len(attempts) \in Nat
  BY <1>1
<1>3. QED BY <1>1, <1>2 DEF IInv, Trying, InLoop, ConnectionReleased

\* A rejection for a reason, in EXPLAIN or in the execution, keeps the invariant.
LEMMA RejectKeeps ==
    ASSUME IInv, pc \in {"explain", "execute"}, Reject, UNCHANGED ticks,
           Acceptable(candidate) /\ candidate.runs /\ candidate.rows <= RowCap
               => candidate.explain_cost + candidate.cost > OpcodeBudget
    PROVE  IInv'
<1>1. /\ result = "none" /\ sql = NoSql /\ rows = 0
      /\ Len(attempts) \in Nat /\ Len(attempts) < MaxAttempts
      /\ \A i \in 1 .. Len(attempts) : attempts[i].outcome = "rejected"
      /\ feedback = IF Len(attempts) = 0 THEN NoSql ELSE attempts[Len(attempts)].sql
      /\ calls = Len(attempts) + 1
      /\ candidate \in Statements
      /\ conn = "open"
      /\ attempts \in Seq(Attempt)
      /\ MaxAttempts \in Nat
  BY Examining, PipelineAssumption
<1> DEFINE a == [sql |-> candidate, outcome |-> "rejected", told |-> feedback]
<1>2. a \in Attempt /\ attempts' = Append(attempts, a)
  BY <1>1 DEF Reject, Record, Attempt, IInv, TypeOK
<1>3. /\ attempts' \in Seq(Attempt)
      /\ Len(attempts') = Len(attempts) + 1
      /\ \A i \in 1 .. Len(attempts) : attempts'[i] = attempts[i]
      /\ attempts'[Len(attempts) + 1] = a
  <2> HIDE DEF a
  <2> QED BY <1>1, <1>2, Appended
<1>4. /\ feedback' = candidate
      /\ UNCHANGED <<candidate, sql, rows, calls, ticks>>
      /\ \/ /\ Len(attempts) + 1 < MaxAttempts
            /\ pc' = "synthesis" /\ UNCHANGED <<conn, result>>
         \/ /\ ~ (Len(attempts) + 1 < MaxAttempts)
            /\ pc' = "done" /\ conn' = "closed" /\ result' = "error"
  BY DEF Reject, Leave
<1>5. \A i \in 1 .. Len(attempts') : attempts'[i].outcome = "rejected"
  BY <1>1, <1>3
<1>6. TypeOK'
  BY <1>1, <1>3, <1>4 DEF IInv, TypeOK
<1>7. Trying' /\ Ticking'
  BY <1>1, <1>3, <1>4, <1>5 DEF Trying, InLoop, Ticking
<1>8. Unopened' /\ Accepted' /\ AnswersAreGrounded' /\ ConnectionReleased'
  BY <1>1, <1>4 DEF Unopened, Accepted, AnswersAreGrounded, ConnectionReleased
<1>9. FailsClosed'
  BY <1>1, <1>3, <1>4, <1>5 DEF FailsClosed
<1>10. ToldOfTheLastError'
  <2>1. a.told = feedback
    OBVIOUS
  <2> HIDE DEF a
  <2>2. QED BY <1>1, <1>2, <2>1, ToldKeeps DEF IInv
<1>11. BudgetIsKept'
  <2>1. Budgeted(a)
    BY DEF Budgeted
  <2> HIDE DEF a
  <2>2. QED BY <1>1, <1>2, <2>1, BudgetKeeps DEF IInv
<1>12. QED BY <1>6, <1>7, <1>8, <1>9, <1>10, <1>11 DEF IInv

-----------------------------------------------------------------------------
(* The invariant is inductive.                                             *)

\* A question not yet looked at.
LEMMA InitIInv == Init => IInv
<1> SUFFICES ASSUME Init PROVE IInv
  OBVIOUS
<1>1. TypeOK
  BY PipelineAssumption DEF Init, TypeOK
<1>2. Unopened /\ Trying /\ Accepted /\ Ticking /\ ConnectionReleased
  BY PipelineAssumption DEF Init, Unopened, Trying, InLoop, Accepted, Ticking, ConnectionReleased
<1>3. AnswersAreGrounded /\ FailsClosed /\ ToldOfTheLastError /\ BudgetIsKept
  BY DEF Init, AnswersAreGrounded, FailsClosed, ToldOfTheLastError, BudgetIsKept
<1>4. QED BY <1>1, <1>2, <1>3 DEF IInv

\* Opening the connection, or failing to.
LEMMA ConnectKeeps == IInv /\ Connect => IInv'
<1> SUFFICES ASSUME IInv, Connect PROVE IInv'
  OBVIOUS
<1>1. /\ UNCHANGED <<candidate, ticks, feedback, attempts, sql, rows, calls>>
      /\ pc = "connect" /\ pc' \in {"synthesis", "done"} /\ conn' \in {conn, "open", "dropped"}
      /\ pc' = "synthesis" => conn' = "open" /\ result' = result
      /\ pc' = "done" => conn' \in {conn, "dropped"} /\ result' = "raised"
  BY DEF Connect
<1>2. TypeOK'
  BY <1>1 DEF IInv, TypeOK
<1>3. Trying' /\ Accepted' /\ Ticking' /\ Unopened'
  BY <1>1 DEF IInv, Unopened, Trying, InLoop, Accepted, Ticking
<1>4. ConnectionReleased'
  BY <1>1 DEF IInv, ConnectionReleased, Unopened
<1>5. AnswersAreGrounded' /\ FailsClosed'
  BY <1>1 DEF IInv, Trying, InLoop, AnswersAreGrounded, FailsClosed
<1>6. ToldOfTheLastError' /\ BudgetIsKept'
  BY <1>1 DEF IInv, ToldOfTheLastError, BudgetIsKept
<1>7. QED BY <1>2, <1>3, <1>4, <1>5, <1>6 DEF IInv

\* The model writes a statement, gives the sentinel, or the call raises.
LEMMA SynthesizeKeeps == IInv /\ Synthesize => IInv'
<1> SUFFICES ASSUME IInv, Synthesize PROVE IInv'
  OBVIOUS
<1>1. /\ pc = "synthesis" /\ result = "none" /\ sql = NoSql /\ rows = 0
      /\ attempts \in Seq(Attempt) /\ Len(attempts) < MaxAttempts
      /\ \A i \in 1 .. Len(attempts) : attempts[i].outcome = "rejected"
      /\ feedback = IF Len(attempts) = 0 THEN NoSql ELSE attempts[Len(attempts)].sql
      /\ calls = Len(attempts) /\ conn = "open"
      /\ MaxAttempts \in Nat /\ OpcodeBudget \in Nat
  BY PipelineAssumption DEF IInv, Synthesize, TypeOK, Trying, InLoop, ConnectionReleased
<1>2. Len(attempts) \in Nat
  BY <1>1
<1>3. calls' = Len(attempts) + 1 /\ ticks' = 0 /\ UNCHANGED <<feedback, sql, rows>>
  BY <1>1 DEF Synthesize
<1>4. CASE candidate' \in Statements /\ pc' = "explain" /\ UNCHANGED <<conn, result, attempts>>
  <2>1. TypeOK'
    BY <1>1, <1>2, <1>3, <1>4 DEF IInv, TypeOK
  <2>2. Unopened' /\ Trying' /\ Accepted' /\ Ticking' /\ ConnectionReleased'
    BY <1>1, <1>2, <1>3, <1>4 DEF Unopened, Trying, InLoop, Accepted, Ticking, ConnectionReleased
  <2>3. AnswersAreGrounded' /\ FailsClosed'
    BY <1>1, <1>4 DEF AnswersAreGrounded, FailsClosed
  <2>4. ToldOfTheLastError' /\ BudgetIsKept'
    BY <1>4 DEF IInv, ToldOfTheLastError, BudgetIsKept
  <2>5. QED BY <2>1, <2>2, <2>3, <2>4 DEF IInv
<1>5. CASE /\ candidate' = OutOfScope
           /\ attempts' = Append(attempts, [sql |-> NoSql, outcome |-> "out_of_scope",
                                            told |-> feedback])
           /\ Leave("done", "out_of_scope")
  <2> DEFINE a == [sql |-> NoSql, outcome |-> "out_of_scope", told |-> feedback]
  <2>1. a \in Attempt /\ attempts' = Append(attempts, a) /\ a.told = feedback /\ Budgeted(a)
    BY <1>5 DEF IInv, TypeOK, Attempt, Budgeted
  <2> HIDE DEF a
  <2>2. attempts' \in Seq(Attempt)
    BY <1>1, <2>1, Appended
  <2>3. pc' = "done" /\ conn' = "closed" /\ result' = "out_of_scope"
    BY <1>5 DEF Leave
  <2>4. TypeOK'
    BY <1>1, <1>2, <1>3, <1>5, <2>2, <2>3 DEF IInv, TypeOK
  <2>5. /\ Unopened' /\ Trying' /\ Accepted' /\ Ticking' /\ ConnectionReleased'
        /\ AnswersAreGrounded' /\ FailsClosed'
    BY <2>3 DEF Unopened, Trying, InLoop, Accepted, Ticking, ConnectionReleased,
                AnswersAreGrounded, FailsClosed
  <2>6. ToldOfTheLastError' /\ BudgetIsKept'
    BY <1>1, <2>1, ToldKeeps, BudgetKeeps DEF IInv
  <2>7. QED BY <2>4, <2>5, <2>6 DEF IInv
<1>6. CASE Leave("done", "raised") /\ UNCHANGED <<candidate, attempts>>
  <2>1. pc' = "done" /\ conn' = "closed" /\ result' = "raised" /\ UNCHANGED <<candidate, attempts>>
    BY <1>6 DEF Leave
  <2>2. TypeOK'
    BY <1>1, <1>2, <1>3, <2>1 DEF IInv, TypeOK
  <2>3. /\ Unopened' /\ Trying' /\ Accepted' /\ Ticking' /\ ConnectionReleased'
        /\ AnswersAreGrounded' /\ FailsClosed'
    BY <2>1 DEF Unopened, Trying, InLoop, Accepted, Ticking, ConnectionReleased,
                AnswersAreGrounded, FailsClosed
  <2>4. ToldOfTheLastError' /\ BudgetIsKept'
    BY <2>1 DEF IInv, ToldOfTheLastError, BudgetIsKept
  <2>5. QED BY <2>2, <2>3, <2>4 DEF IInv
<1>7. QED BY <1>4, <1>5, <1>6 DEF Synthesize

\* Validation and EXPLAIN: on to the execution, or a rejection.
LEMMA ExplainKeeps == IInv /\ Explain => IInv'
<1> SUFFICES ASSUME IInv, Explain PROVE IInv'
  OBVIOUS
<1>1. pc = "explain" /\ ticks = 0 /\ candidate \in Statements /\ ticks \in 0 .. OpcodeBudget
  BY Examining DEF Explain, IInv, Ticking, TypeOK
<1> DEFINE e == candidate.explain_cost
<1>2. e \in Nat /\ candidate.cost \in Nat
  BY <1>1, StatementFields
<1> HIDE DEF e
<1>3. Whole(e) \in Nat /\ Whole(e) <= e /\ After(e) = Whole(e)
  <2>1. After(e) = ticks + Whole(e)
    BY DEF After, Whole
  <2>2. QED BY <1>1, <1>2, <2>1, WholeSteps
<1>4. CASE Acceptable(candidate) /\ After(e) <= OpcodeBudget
  <2>1. /\ ticks' = After(e) /\ pc' = "execute"
        /\ UNCHANGED <<conn, candidate, feedback, attempts, sql, rows, calls, result>>
    BY <1>4 DEF Explain, e
  <2>2. TypeOK'
    BY <1>1, <1>2, <1>4, <2>1, AfterCounts DEF IInv, TypeOK
  <2>3. Unopened' /\ Trying' /\ Accepted' /\ ConnectionReleased'
    <3>1. Acceptable(candidate)'
      BY <1>4, <2>1
    <3>2. QED BY <1>1, <2>1, <3>1 DEF IInv, Unopened, Trying, InLoop, Accepted, ConnectionReleased
  <2>4. Ticking'
    BY <1>3, <2>1 DEF Ticking, e
  <2>5. AnswersAreGrounded' /\ FailsClosed'
    BY <1>1, <2>1, Examining DEF AnswersAreGrounded, FailsClosed
  <2>6. ToldOfTheLastError' /\ BudgetIsKept'
    BY <2>1 DEF IInv, ToldOfTheLastError, BudgetIsKept
  <2>7. QED BY <2>2, <2>3, <2>4, <2>5, <2>6 DEF IInv
<1>5. CASE ~ (Acceptable(candidate) /\ After(e) <= OpcodeBudget)
  <2>1. Reject /\ UNCHANGED ticks
    BY <1>5 DEF Explain, e
  <2>2. Acceptable(candidate) => e + candidate.cost > OpcodeBudget
    BY <1>2, <1>3, <1>5, PipelineAssumption
  <2>3. QED BY <1>1, <2>1, <2>2, RejectKeeps DEF e
<1>6. QED BY <1>4, <1>5

\* The execution: accepted rows, or a rejection.
LEMMA ExecuteKeeps == IInv /\ Execute => IInv'
<1> SUFFICES ASSUME IInv, Execute PROVE IInv'
  OBVIOUS
<1>1. /\ pc = "execute" /\ candidate \in Statements
      /\ Acceptable(candidate) /\ ticks = Whole(candidate.explain_cost)
  BY Examining DEF Execute, IInv, Ticking, Trying, InLoop
<1>2. /\ candidate.explain_cost \in Nat /\ candidate.cost \in Nat /\ candidate.rows \in Nat
      /\ candidate # NoSql
  BY <1>1, StatementFields
<1> DEFINE e == candidate.explain_cost
           c == candidate.cost
<1>3. /\ Whole(e) \in Nat /\ Whole(e) <= e /\ e <= Whole(e) + ProgressStep - 1
      /\ Whole(c) \in Nat /\ Whole(c) <= c /\ c <= Whole(c) + ProgressStep - 1
  BY <1>2, WholeSteps
<1>4. After(c) = Whole(e) + Whole(c)
  BY <1>1 DEF After, Whole
<1>5. UNCHANGED ticks
  BY DEF Execute
<1>6. CASE candidate.runs /\ After(c) <= OpcodeBudget /\ candidate.rows <= RowCap
  <2> DEFINE a == [sql |-> candidate, outcome |-> "ok", told |-> feedback]
  <2>1. /\ attempts' = Append(attempts, a)
        /\ sql' = candidate /\ rows' = candidate.rows
        /\ pc' = "answer" /\ conn' = "closed" /\ result' = "none"
        /\ UNCHANGED <<candidate, feedback, calls>>
    BY <1>6 DEF Execute, Record, Leave
  <2>2. a \in Attempt /\ a.told = feedback /\ a.outcome = "ok" /\ a.sql = candidate
    BY <1>1 DEF IInv, TypeOK, Attempt
  <2>3. Budgeted(a)
    <3>1. e + c <= OpcodeBudget + 2 * (ProgressStep - 1)
      <4> HIDE DEF e, c
      <4> QED BY <1>2, <1>3, <1>4, <1>6, PipelineAssumption DEF e, c
    <3>2. QED BY <3>1 DEF Budgeted
  <2> HIDE DEF a, e, c
  <2>4. /\ Len(attempts) \in Nat /\ Len(attempts) < MaxAttempts
        /\ attempts \in Seq(Attempt) /\ calls = Len(attempts) + 1
        /\ \A i \in 1 .. Len(attempts) : attempts[i].outcome = "rejected"
        /\ feedback = IF Len(attempts) = 0 THEN NoSql ELSE attempts[Len(attempts)].sql
    BY <1>1, Examining
  <2>5. /\ attempts' \in Seq(Attempt)
        /\ Len(attempts') = Len(attempts) + 1
        /\ \A i \in 1 .. Len(attempts) : attempts'[i] = attempts[i]
        /\ attempts'[Len(attempts) + 1] = a
    BY <2>1, <2>2, <2>4, Appended
  <2>6. TypeOK'
    BY <1>1, <1>2, <1>5, <1>6, <2>1, <2>4, <2>5, PipelineAssumption DEF IInv, TypeOK
  <2>7. Unopened' /\ Trying' /\ Ticking' /\ FailsClosed' /\ ConnectionReleased'
    BY <2>1 DEF Unopened, Trying, InLoop, Ticking, FailsClosed, ConnectionReleased
  <2>8. Accepted'
    BY <2>1, <2>4, <2>5 DEF Accepted
  <2>9. AnswersAreGrounded'
    <3>1. sql' \in Statements /\ Acceptable(sql') /\ rows' = sql'.rows
      BY <1>1, <2>1
    <3>2. Len(attempts') \in 1 .. MaxAttempts
      BY <2>4, <2>5, PipelineAssumption
    <3>3. attempts'[Len(attempts')].sql = sql'
      BY <2>1, <2>2, <2>5
    <3>4. \A i \in 1 .. Len(attempts') :
             attempts'[i].outcome = IF i = Len(attempts') THEN "ok" ELSE "rejected"
      BY <2>2, <2>4, <2>5
    <3>5. QED BY <3>1, <3>2, <3>3, <3>4 DEF AnswersAreGrounded
  <2>10. ToldOfTheLastError' /\ BudgetIsKept'
    BY <2>1, <2>2, <2>3, <2>4, ToldKeeps, BudgetKeeps DEF IInv
  <2>11. QED BY <2>6, <2>7, <2>8, <2>9, <2>10 DEF IInv
<1>7. CASE ~ (candidate.runs /\ After(c) <= OpcodeBudget /\ candidate.rows <= RowCap)
  <2>1. Reject
    BY <1>7 DEF Execute
  <2>2. candidate.runs /\ candidate.rows <= RowCap => e + c > OpcodeBudget
    <3> HIDE DEF e, c
    <3> QED BY <1>2, <1>3, <1>4, <1>7, PipelineAssumption DEF e, c
  <2>3. QED BY <1>1, <1>5, <2>1, <2>2, RejectKeeps
<1>8. QED BY <1>6, <1>7

\* An exception that is no rejection: nothing accepted, the connection closed.
LEMMA GuardRaisesKeeps == IInv /\ GuardRaises => IInv'
<1> SUFFICES ASSUME IInv, GuardRaises PROVE IInv'
  OBVIOUS
<1>1. /\ pc' = "done" /\ conn' = "closed" /\ result' = "raised"
      /\ UNCHANGED <<candidate, ticks, feedback, attempts, sql, rows, calls>>
  BY DEF GuardRaises, Leave
<1>2. TypeOK'
  BY <1>1 DEF IInv, TypeOK
<1>3. /\ Unopened' /\ Trying' /\ Accepted' /\ Ticking' /\ ConnectionReleased'
      /\ AnswersAreGrounded' /\ FailsClosed'
  BY <1>1 DEF Unopened, Trying, InLoop, Accepted, Ticking, ConnectionReleased,
              AnswersAreGrounded, FailsClosed
<1>4. ToldOfTheLastError' /\ BudgetIsKept'
  BY <1>1 DEF IInv, ToldOfTheLastError, BudgetIsKept
<1>5. QED BY <1>2, <1>3, <1>4 DEF IInv

\* The answer, an exception of the gateway, or rows that are not JSON.
LEMMA AnswerKeeps == IInv /\ Answer => IInv'
<1> SUFFICES ASSUME IInv, Answer PROVE IInv'
  OBVIOUS
<1>1. /\ pc = "answer" /\ pc' = "done" /\ result' \in {"answered", "raised"}
      /\ calls' \in {calls, calls + 1}
      /\ UNCHANGED <<conn, candidate, ticks, feedback, attempts, sql, rows>>
  BY DEF Answer
<1>2. calls = Len(attempts) /\ Len(attempts) \in 1 .. MaxAttempts /\ MaxAttempts \in Nat
  BY <1>1, PipelineAssumption DEF IInv, Accepted, AnswersAreGrounded
<1>3. TypeOK'
  BY <1>1, <1>2 DEF IInv, TypeOK
<1>4. Unopened' /\ Trying' /\ Accepted' /\ Ticking' /\ FailsClosed'
  BY <1>1 DEF Unopened, Trying, InLoop, Accepted, Ticking, FailsClosed
<1>5. ConnectionReleased'
  <2>1. conn # "open" /\ conn # "dropped"
    BY <1>1, <1>2 DEF IInv, ConnectionReleased
  <2> QED BY <1>1, <2>1 DEF ConnectionReleased
<1>6. ToldOfTheLastError' /\ BudgetIsKept'
  BY <1>1 DEF IInv, ToldOfTheLastError, BudgetIsKept
<1>7. AnswersAreGrounded'
  BY <1>1 DEF IInv, AnswersAreGrounded
<1>8. QED BY <1>3, <1>4, <1>5, <1>6, <1>7 DEF IInv

\* Every step of the pipeline.
LEMMA StepIInv == IInv /\ [Next]_vars => IInv'
<1> SUFFICES ASSUME IInv, [Next]_vars PROVE IInv'
  OBVIOUS
<1>1. CASE Next
  BY <1>1, ConnectKeeps, SynthesizeKeeps, ExplainKeeps, ExecuteKeeps, GuardRaisesKeeps,
     AnswerKeeps DEF Next
<1>2. CASE UNCHANGED vars
  BY <1>2 DEF vars, IInv, TypeOK, Unopened, Trying, InLoop, Accepted, Ticking, AnswersAreGrounded,
              FailsClosed, ToldOfTheLastError, ConnectionReleased, BudgetIsKept
<1>3. QED BY <1>1, <1>2

\* The invariant the theorems follow from.
LEMMA AlwaysIInv == Spec => []IInv
BY InitIInv, StepIInv, PTL DEF Spec

-----------------------------------------------------------------------------
\* Every reachable state of a call is well formed, the count of the progress
\* handler within the budget (sql_guard.py:172-181).
THEOREM TypeCorrect == Spec => []TypeOK
<1>1. IInv => TypeOK
  BY DEF IInv
<1>2. QED BY AlwaysIInv, <1>1, PTL

\* The rows the answer is generated from are the whole result of the last
\* statement, one the guard accepted, after rejections only
\* (pipeline.py:226-257).
THEOREM GroundedAnswers == Spec => []AnswersAreGrounded
<1>1. IInv => AnswersAreGrounded
  BY DEF IInv
<1>2. QED BY AlwaysIInv, <1>1, PTL

\* An error is returned only after every attempt was made and rejected, with
\* one model call each and no evidence (pipeline.py:234-246).
THEOREM GivesUpCleanly == Spec => []FailsClosed
<1>1. IInv => FailsClosed
  BY DEF IInv
<1>2. QED BY AlwaysIInv, <1>1, PTL

\* Each attempt is told the error of the one just before it, the first none
\* (pipeline.py:180-185, 221).
THEOREM FeedbackIsFresh == Spec => []ToldOfTheLastError
<1>1. IInv => ToldOfTheLastError
  BY DEF IInv
<1>2. QED BY AlwaysIInv, <1>1, PTL

\* The connection is open exactly while statements are examined, and closed
\* however that ends, an unexpected exception included; none is dropped once the
\* model has been asked (pipeline.py:231-232, sql_guard.py:86-89).
THEOREM ConnectionIsReleased == Spec => []ConnectionReleased
<1>1. IInv => ConnectionReleased
  BY DEF IInv
<1>2. QED BY AlwaysIInv, <1>1, PTL

\* An accepted statement overran the shared budget by less than two handler
\* steps, and one without another defect is refused only when it costs more
\* than the budget, for every step and budget (sql_guard.py:172-181).
THEOREM BudgetHolds == Spec => []BudgetIsKept
<1>1. IInv => BudgetIsKept
  BY DEF IInv
<1>2. QED BY AlwaysIInv, <1>1, PTL
=============================================================================
