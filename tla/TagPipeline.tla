----------------------------- MODULE TagPipeline -----------------------------
(***************************************************************************)
(* One question through the TAG pipeline: TagPipeline.answer               *)
(* (showcases/tag/pipeline.py) with the guard of                           *)
(* showcases/tag/sql_guard.py.  The model writes a statement, the guard    *)
(* validates and runs it, a rejection is fed back for one more attempt,    *)
(* and accepted rows go into a second model call.  Calls share nothing but *)
(* their configuration and a read-only file, so one call is modelled.      *)
(*                                                                         *)
(* The model gateway is external: it replies anything, or its call raises. *)
(* A statement is told apart by what the guard can tell: whether it starts *)
(* with SELECT or WITH, is one statement within the length limit, is       *)
(* prepared without a syntax error or an authorizer denial, what EXPLAIN   *)
(* and running it cost in virtual machine opcodes, whether it runs without *)
(* an error, the rows it has, and whether they can be written as JSON.     *)
(***************************************************************************)
EXTENDS Integers, Sequences

CONSTANTS
    Statements,     \* the statements the model may write
    OutOfScope,     \* the sentinel reply
    RowCap,         \* TagConfig.row_cap
    MaxAttempts,    \* TagConfig.max_sql_attempts
    OpcodeBudget,   \* opcodes a statement may use
    ProgressStep,   \* opcodes between two calls of the progress handler
    NoSql           \* no statement

Statement == [select : BOOLEAN, single : BOOLEAN, permitted : BOOLEAN,
              explain_cost : Nat, cost : Nat, runs : BOOLEAN,
              rows : Nat, json : BOOLEAN]

ASSUME PipelineAssumption ==
    /\ Statements \subseteq Statement
    /\ OutOfScope \notin Statements /\ NoSql \notin Statements
    /\ RowCap \in Nat
    /\ MaxAttempts \in Nat \ {0}
    /\ OpcodeBudget \in Nat
    /\ ProgressStep \in Nat \ {0}

VARIABLES
    pc,         \* the stage the call is in
    conn,       \* whether its connection is open
    candidate,  \* the statement under examination
    ticks,      \* what the progress handler has counted for it
    feedback,   \* the rejected statement whose error is in the next prompt
    attempts,   \* trace: each attempt with its statement and outcome
    sql, rows,  \* the accepted statement and how many rows it returned
    calls,      \* model calls made
    result      \* what answer() returned or raised

vars == <<pc, conn, candidate, ticks, feedback, attempts, sql, rows, calls, result>>

Init ==
    /\ pc = "connect"
    /\ conn = "none"
    /\ candidate = NoSql
    /\ ticks = 0
    /\ feedback = NoSql
    /\ attempts = <<>>
    /\ sql = NoSql
    /\ rows = 0
    /\ calls = 0
    /\ result = "none"

\* connect_readonly raises when the file cannot be opened.  When its PRAGMA
\* fails the connection is dropped: open, with nothing but the garbage collector
\* to close it, as the try block has not been entered.
Connect ==
    /\ pc = "connect"
    /\ \/ pc' = "synthesis" /\ conn' = "open" /\ UNCHANGED result
       \/ pc' = "done" /\ result' = "raised" /\ conn' \in {conn, "dropped"}
    /\ UNCHANGED <<candidate, ticks, feedback, attempts, sql, rows, calls>>

\* Faulty variant: the connection is closed on the normal way out only.
LeaveWithoutFinally(stage, outcome) ==
    /\ pc' = stage
    /\ conn' = IF outcome = "none" THEN "closed" ELSE conn
    /\ result' = outcome

\* The call leaves the try block: `finally` closes the connection.
Leave(stage, outcome) ==
    /\ pc' = stage
    /\ conn' = "closed"
    /\ result' = outcome

Record(outcome) ==
    attempts' = Append(attempts, [sql |-> candidate, outcome |-> outcome,
                                  told |-> feedback])

\* Query synthesis: the reply is a statement, the sentinel, or an exception.
Synthesize ==
    /\ pc = "synthesis"
    /\ calls' = calls + 1
    /\ ticks' = 0
    /\ \/ /\ \E s \in Statements : candidate' = s
          /\ pc' = "explain"
          /\ UNCHANGED <<conn, result, attempts>>
       \/ /\ candidate' = OutOfScope
          /\ attempts' = Append(attempts, [sql |-> NoSql, outcome |-> "out_of_scope",
                                           told |-> feedback])
          /\ Leave("done", "out_of_scope")
       \/ /\ Leave("done", "raised")
          /\ UNCHANGED <<candidate, attempts>>
    /\ UNCHANGED <<feedback, sql, rows>>

\* Faulty variant: the error of the first attempt is kept for all the others.
RejectKeepsFirstFeedback ==
    /\ Record("rejected")
    /\ feedback' = IF feedback = NoSql THEN candidate ELSE feedback
    /\ IF Len(attempts) + 1 < MaxAttempts
       THEN pc' = "synthesis" /\ UNCHANGED <<conn, result>>
       ELSE Leave("done", "error")
    /\ UNCHANGED <<candidate, sql, rows, calls>>

\* Faulty variant: one attempt more than configured.
RejectOneMore ==
    /\ Record("rejected")
    /\ feedback' = candidate
    /\ IF Len(attempts) < MaxAttempts
       THEN pc' = "synthesis" /\ UNCHANGED <<conn, result>>
       ELSE Leave("done", "error")
    /\ UNCHANGED <<candidate, sql, rows, calls>>

\* The guard raises: feed the error back, or give up after the last attempt.
Reject ==
    /\ Record("rejected")
    /\ feedback' = candidate
    /\ IF Len(attempts) + 1 < MaxAttempts
       THEN pc' = "synthesis" /\ UNCHANGED <<conn, result>>
       ELSE Leave("done", "error")
    /\ UNCHANGED <<candidate, sql, rows, calls>>

\* Faulty variant: the handler counts its calls, not the opcodes between them.
AfterCountingCalls(cost) == ticks + cost \div ProgressStep

\* The handler adds a step each time it is called and interrupts beyond the budget.
After(cost) == ticks + (cost \div ProgressStep) * ProgressStep

\* First keyword, length, one statement, authorizer: all before anything runs.
Acceptable(s) == s.select /\ s.single /\ s.permitted

Explain ==
    /\ pc = "explain"
    /\ IF Acceptable(candidate) /\ After(candidate.explain_cost) <= OpcodeBudget
       THEN /\ ticks' = After(candidate.explain_cost)
            /\ pc' = "execute"
            /\ UNCHANGED <<conn, candidate, feedback, attempts, sql, rows, calls, result>>
       ELSE Reject /\ UNCHANGED ticks

\* Faulty variant: an overfull result is cut to the cap.
ExecuteTruncating ==
    /\ pc = "execute"
    /\ IF candidate.runs /\ After(candidate.cost) <= OpcodeBudget
       THEN /\ Record("ok")
            /\ sql' = candidate
            /\ rows' = IF candidate.rows <= RowCap THEN candidate.rows ELSE RowCap
            /\ Leave("answer", "none")
            /\ UNCHANGED <<candidate, feedback, calls>>
       ELSE Reject
    /\ UNCHANGED ticks

\* One more row than the cap is fetched, to tell a full result from a cut one.
Execute ==
    /\ pc = "execute"
    /\ IF candidate.runs /\ After(candidate.cost) <= OpcodeBudget
          /\ candidate.rows <= RowCap
       THEN /\ Record("ok")
            /\ sql' = candidate
            /\ rows' = candidate.rows
            /\ Leave("answer", "none")
            /\ UNCHANGED <<candidate, feedback, calls>>
       ELSE Reject
    /\ UNCHANGED ticks

\* The guard raises something that is no sqlite3.Error (sqlite3.Warning, an
\* encoding error): neither it nor the pipeline maps that to a rejection, and it
\* leaves through `finally`, without a record of the attempt.
GuardRaises ==
    /\ pc \in {"explain", "execute"}
    /\ Leave("done", "raised")
    /\ UNCHANGED <<candidate, ticks, feedback, attempts, sql, rows, calls>>

\* Grounded generation over the accepted rows; a value JSON cannot write raises.
Answer ==
    /\ pc = "answer"
    /\ pc' = "done"
    /\ \/ candidate.json /\ calls' = calls + 1 /\ result' \in {"answered", "raised"}
       \/ ~candidate.json /\ result' = "raised" /\ UNCHANGED calls
    /\ UNCHANGED <<conn, candidate, ticks, feedback, attempts, sql, rows>>

Next == Connect \/ Synthesize \/ Explain \/ Execute \/ GuardRaises \/ Answer

Spec == Init /\ [][Next]_vars

-----------------------------------------------------------------------------
Attempt == [sql : Statements \cup {NoSql}, outcome : {"ok", "rejected", "out_of_scope"},
            told : Statements \cup {NoSql}]

\* The shape of the state of one call.
TypeOK ==
    /\ pc \in {"connect", "synthesis", "explain", "execute", "answer", "done"}
    /\ conn \in {"none", "open", "closed", "dropped"}
    /\ candidate \in Statements \cup {OutOfScope, NoSql}
    /\ ticks \in 0 .. OpcodeBudget
    /\ feedback \in Statements \cup {NoSql}
    /\ attempts \in Seq(Attempt)
    /\ sql \in Statements \cup {NoSql}
    /\ rows \in 0 .. RowCap
    /\ calls \in 0 .. MaxAttempts + 1
    /\ result \in {"none", "raised", "out_of_scope", "error", "answered"}

\* What reaches the answer model is the whole result of a statement the guard
\* accepted, the last one written, after rejections only
\* (pipeline.py:226-257, sql_guard.py:158-199).
AnswersAreGrounded ==
    pc = "answer" \/ result = "answered" =>
        /\ sql \in Statements /\ Acceptable(sql)
        /\ rows = sql.rows
        /\ Len(attempts) \in 1 .. MaxAttempts
        /\ attempts[Len(attempts)].sql = sql
        /\ \A i \in 1 .. Len(attempts) :
               attempts[i].outcome = IF i = Len(attempts) THEN "ok" ELSE "rejected"

\* An error answer means every attempt was used and rejected, nothing is
\* offered as evidence, and no answer was asked of the model (pipeline.py:234-246).
FailsClosed ==
    result = "error" =>
        /\ Len(attempts) = MaxAttempts /\ calls = MaxAttempts
        /\ \A i \in 1 .. Len(attempts) : attempts[i].outcome = "rejected"
        /\ sql = NoSql /\ rows = 0

\* Each attempt is told the error of the attempt just before it, the first of
\* none (pipeline.py:180-185, 221).
ToldOfTheLastError ==
    \A i \in 1 .. Len(attempts) :
        attempts[i].told = IF i = 1 THEN NoSql ELSE attempts[i - 1].sql

\* However the SQL stages end, the connection is closed before the answer is
\* generated or the caller hears of it (pipeline.py:231-232); the only one ever
\* dropped is one whose PRAGMA failed, before the model was asked anything.
ConnectionReleased ==
    /\ pc \in {"answer", "done"} => conn # "open"
    /\ conn = "dropped" => calls = 0
    /\ pc \in {"synthesis", "explain", "execute"} => conn = "open"

\* EXPLAIN and the statement share one budget, overrun by less than two
\* handler steps; a statement without another defect is refused only when it
\* really costs more than the budget (sql_guard.py:172-181).
BudgetIsKept ==
    \A i \in 1 .. Len(attempts) :
        LET s == attempts[i].sql
            total == s.explain_cost + s.cost
        IN  /\ attempts[i].outcome = "ok" => total <= OpcodeBudget + 2 * (ProgressStep - 1)
            /\ attempts[i].outcome = "rejected" /\ Acceptable(s) /\ s.runs /\ s.rows <= RowCap
                   => total > OpcodeBudget

=============================================================================
