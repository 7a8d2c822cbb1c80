----------------------------- MODULE TagDatabase -----------------------------
(***************************************************************************)
(* How a TAG process gets its database: ensure_database                    *)
(* (showcases/tag/db.py), which the lifespan of showcases/tag/app.py calls *)
(* first and TagPipeline.__init__ a second time.  The file is the volume's *)
(* (an emptyDir: it outlives the container) or the checkout's, so a        *)
(* restarted process, and one started beside another, finds what was left. *)
(* executescript runs in autocommit: every statement of schema.sql and     *)
(* seed.sql is on disk as soon as it has run.                              *)
(***************************************************************************)
EXTENDS Integers, FiniteSets

CONSTANTS
    Processes,  \* processes that may share the file
    Tables,     \* CREATE TABLE IF NOT EXISTS statements in schema.sql
    Rows,       \* INSERT statements in seed.sql
    MaxStarts   \* bound: starts of all processes together

ASSUME DatabaseAssumption ==
    /\ IsFiniteSet(Processes)
    /\ Tables \in Nat \ {0}
    /\ Rows \in Nat \ {0}
    /\ MaxStarts \in Nat

VARIABLES
    file,    \* whether the path exists
    tables,  \* how many tables it has
    copies,  \* how many times each row of the seed is in it
    pc,      \* what each process is doing
    step,    \* the statements of the current script it has run
    starts,  \* processes started so far
    began,   \* history: how many found no file, and began to make it
    ended    \* history: how many of those ran both scripts to the end

vars == <<file, tables, copies, pc, step, starts, began, ended>>

Statements == [schema |-> Tables, seed |-> Rows]

Init ==
    /\ file = FALSE
    /\ tables = 0
    /\ copies = [r \in 1 .. Rows |-> 0]
    /\ pc = [p \in Processes |-> "off"]
    /\ step = [p \in Processes |-> 0]
    /\ starts = 0
    /\ began = 0
    /\ ended = 0

Goto(p, stage) == pc' = [pc EXCEPT ![p] = stage]

Start(p) ==
    /\ pc[p] = "off"
    /\ starts < MaxStarts
    /\ starts' = starts + 1
    /\ Goto(p, "look")
    /\ UNCHANGED <<file, tables, copies, step, began, ended>>

\* Faulty variant: the scripts run whether or not there is a file.
LookAway(p) ==
    /\ pc[p] = "look"
    /\ Goto(p, "open") /\ began' = began + 1
    /\ UNCHANGED <<file, tables, copies, step, starts, ended>>

\* path.exists(): a file is taken for a database, whatever is in it.
Look(p) ==
    /\ pc[p] = "look"
    /\ IF file THEN Goto(p, "look_again") /\ UNCHANGED began
       ELSE Goto(p, "open") /\ began' = began + 1
    /\ UNCHANGED <<file, tables, copies, step, starts, ended>>

\* The second call, from TagPipeline.__init__: the file is there by now.
LookAgain(p) ==
    /\ pc[p] = "look_again"
    /\ Goto(p, "serving")
    /\ UNCHANGED <<file, tables, copies, step, starts, began, ended>>

\* Faulty variant: the seed script goes first.
OpenForSeed(p) ==
    /\ pc[p] = "open"
    /\ file' = TRUE
    /\ Goto(p, "seed")
    /\ step' = [step EXCEPT ![p] = 0]
    /\ UNCHANGED <<tables, copies, starts, began, ended>>

\* sqlite3.connect creates an empty file.
Open(p) ==
    /\ pc[p] = "open"
    /\ file' = TRUE
    /\ Goto(p, "schema")
    /\ step' = [step EXCEPT ![p] = 0]
    /\ UNCHANGED <<tables, copies, starts, began, ended>>

\* Each statement commits by itself; at the end of the script, the next one.
Advance(p, script, next) ==
    IF step[p] + 1 = Statements[script]
    THEN Goto(p, next) /\ step' = [step EXCEPT ![p] = 0]
    ELSE UNCHANGED pc /\ step' = [step EXCEPT ![p] = @ + 1]

\* CREATE TABLE IF NOT EXISTS: nothing when another process has made it.
CreateTable(p) ==
    /\ pc[p] = "schema"
    /\ tables' = IF tables > step[p] THEN tables ELSE step[p] + 1
    /\ Advance(p, "schema", "seed")
    /\ UNCHANGED <<file, copies, starts, began, ended>>

\* Faulty variant: a busy database runs the statement again after it took effect.
InsertRowTwice(p) ==
    /\ pc[p] = "seed"
    /\ \E n \in {1, 2} : copies' = [copies EXCEPT ![step[p] + 1] = @ + n]
    /\ Advance(p, "seed", "look_again")
    /\ ended' = IF step[p] + 1 = Rows THEN ended + 1 ELSE ended
    /\ UNCHANGED <<file, tables, starts, began>>

InsertRow(p) ==
    /\ pc[p] = "seed"
    /\ copies' = [copies EXCEPT ![step[p] + 1] = @ + 1]
    /\ Advance(p, "seed", "look_again")
    /\ ended' = IF step[p] + 1 = Rows THEN ended + 1 ELSE ended
    /\ UNCHANGED <<file, tables, starts, began>>

\* A script that cannot be read, a full disk or a locked database: finally
\* closes the connection, start-up fails and the process exits.  A crash and
\* a stop while serving end the process too.  The file stays.
Exit(p) ==
    /\ pc[p] # "off"
    /\ Goto(p, "off")
    /\ step' = [step EXCEPT ![p] = 0]
    /\ UNCHANGED <<file, tables, copies, starts, began, ended>>

Run(p) == Look(p) \/ LookAgain(p) \/ Open(p) \/ CreateTable(p) \/ InsertRow(p)

Next == \E p \in Processes : Start(p) \/ Run(p) \/ Exit(p)

Spec == Init /\ [][Next]_vars

-----------------------------------------------------------------------------
\* The shape of the state.
TypeOK ==
    /\ file \in BOOLEAN
    /\ tables \in 0 .. Tables
    /\ copies \in [1 .. Rows -> 0 .. MaxStarts]
    /\ pc \in [Processes -> {"off", "look", "open", "schema", "seed", "look_again", "serving"}]
    /\ \A p \in Processes :
           step[p] \in 0 .. (IF pc[p] \in DOMAIN Statements THEN Statements[pc[p]] - 1 ELSE 0)
    /\ starts \in 0 .. MaxStarts
    /\ began \in 0 .. starts
    /\ ended \in 0 .. began

\* What a single unfinished seeding leaves is a beginning of the seed: no row
\* without all those before it, and none before the tables (db.py:26-27).
SeededInOrder ==
    /\ \A r \in 2 .. Rows : copies[r] <= copies[r - 1]
    /\ copies[1] > 0 => tables = Tables

\* The database the two scripts make.
Derived == file /\ tables = Tables /\ \A r \in 1 .. Rows : copies[r] = 1

\* A start that was the only one to find no file and ran both scripts to the end
\* has made that database, in full and once, however many others started, looked,
\* failed or stopped while it was at it, and whatever they do from then on.
MadeOnce == began = 1 /\ ended = 1 => Derived

Settled == \A p \in Processes : pc[p] \notin {"open", "schema", "seed"}

\* Once the database is complete and nobody is making it, no start ever
\* changes it: ensure_database "is a no-op afterwards" (db.py:4-5).
StaysDerivedStep == Derived /\ Settled => Derived' /\ Settled'
StaysDerived == [][StaysDerivedStep]_vars

\* What db.py:3-5 says: the database a process serves from is the one derived
\* from schema.sql and seed.sql, made on the first use: whole, and with each row
\* once.  An interrupted first use breaks it, and so do two that overlap.
ServesDerived == \A p \in Processes : pc[p] = "serving" => Derived
=============================================================================
