-------------------------- MODULE TagDatabaseProofs --------------------------
(***************************************************************************)
(* Proofs about TagDatabase, for every finite set of processes and every   *)
(* number of tables, rows and starts.                                      *)
(*                                                                         *)
(* The invariants count how often each row of the seed is in the file.  A  *)
(* count cannot be kept without counting the processes that are on their   *)
(* way: those that began and have the row still to insert, those that have *)
(* inserted it and are not at the end, those between one row and the next. *)
(***************************************************************************)
EXTENDS TagDatabase, FiniteSetTheorems, TLAPS

Stages == {"off", "look", "open", "schema", "seed", "look_again", "serving"}

Type ==
    /\ file \in BOOLEAN
    /\ tables \in 0 .. Tables
    /\ copies \in [1 .. Rows -> Nat]
    /\ pc \in [Processes -> Stages]
    /\ step \in [Processes -> Nat]
    /\ starts \in 0 .. MaxStarts
    /\ began \in Nat
    /\ ended \in Nat

Looking == {p \in Processes : pc[p] = "look"}

\* The processes that began and have row r still to insert.
ToInsert(r) == {p \in Processes : \/ pc[p] \in {"open", "schema"}
                                  \/ pc[p] = "seed" /\ step[p] < r}

\* The processes in the seed script that have inserted row r.
Inserted(r) == {p \in Processes : pc[p] = "seed" /\ step[p] >= r}

\* The processes whose next row is r.
Before(r) == {p \in Processes : pc[p] = "seed" /\ step[p] = r - 1}

\* No more make the database than have been started.
StartsCounted == began + Cardinality(Looking) <= starts

RowsCounted == \A r \in 1 .. Rows :
    /\ copies[r] + Cardinality(ToInsert(r)) <= began
    /\ ended + Cardinality(Inserted(r)) <= copies[r]

InOrder == \A r \in 2 .. Rows : copies[r] + Cardinality(Before(r)) <= copies[r - 1]

\* Where in its script a process is.
Place(p) ==
    /\ pc[p] = "schema" => step[p] < Tables /\ step[p] <= tables
    /\ pc[p] = "seed" => step[p] < Rows /\ tables = Tables
    /\ pc[p] \in {"schema", "seed"} => file
    /\ pc[p] \notin {"schema", "seed"} => step[p] = 0

Places == \A p \in Processes : Place(p)

SeedLast == copies[1] > 0 => file /\ tables = Tables

IInv == Type /\ StartsCounted /\ RowsCounted /\ InOrder /\ Places /\ SeedLast

-----------------------------------------------------------------------------
\* The size of a set of processes B follows from that of A and from p.
Follows(p, A, B) ==
    /\ Cardinality(A) \in Nat /\ Cardinality(B) \in Nat
    /\ p \in A /\ p \notin B => Cardinality(B) = Cardinality(A) - 1
    /\ p \notin A /\ p \in B => Cardinality(B) = Cardinality(A) + 1
    /\ (p \in A <=> p \in B) => Cardinality(B) = Cardinality(A)

\* ... when they differ in p at most.
LEMMA OneMoves ==
    ASSUME NEW A \in SUBSET Processes, NEW B \in SUBSET Processes, NEW p \in Processes,
           \A q \in Processes : q # p => (q \in A <=> q \in B)
    PROVE  Follows(p, A, B)
<1>1. IsFiniteSet(A) /\ IsFiniteSet(B)
  BY FS_Subset, DatabaseAssumption
<1>2. Cardinality(A) \in Nat /\ Cardinality(B) \in Nat
  BY <1>1, FS_CardinalityType
<1>3. CASE p \in A /\ p \notin B
  <2>1. B = A \ {p}
    BY <1>3
  <2> QED BY <1>1, <1>2, <1>3, <2>1, FS_RemoveElement DEF Follows
<1>4. CASE p \notin A /\ p \in B
  <2>1. B = A \cup {p}
    BY <1>4
  <2> QED BY <1>1, <1>2, <1>4, <2>1, FS_AddElement DEF Follows
<1>5. CASE p \in A <=> p \in B
  <2>1. A = B
    BY <1>5
  <2> QED BY <1>2, <1>5, <2>1 DEF Follows
<1> QED BY <1>3, <1>4, <1>5

\* A step of p moves p, and nobody else, between the counted sets.
LEMMA Counts ==
    ASSUME NEW p \in Processes,
           \A q \in Processes : q # p => pc'[q] = pc[q] /\ step'[q] = step[q]
    PROVE  /\ Follows(p, Looking, Looking')
           /\ \A r \in 1 .. Rows : /\ Follows(p, ToInsert(r), ToInsert(r)')
                                   /\ Follows(p, Inserted(r), Inserted(r)')
                                   /\ Follows(p, Before(r), Before(r)')
<1>1. Follows(p, Looking, Looking')
  <2>1. /\ Looking \in SUBSET Processes /\ Looking' \in SUBSET Processes
        /\ \A q \in Processes : q # p => (q \in Looking <=> q \in Looking')
    BY DEF Looking
  <2> QED BY <2>1, OneMoves
<1>2. ASSUME NEW r \in 1 .. Rows PROVE Follows(p, ToInsert(r), ToInsert(r)')
  <2>1. /\ ToInsert(r) \in SUBSET Processes /\ ToInsert(r)' \in SUBSET Processes
        /\ \A q \in Processes : q # p => (q \in ToInsert(r) <=> q \in ToInsert(r)')
    BY DEF ToInsert
  <2> QED BY <2>1, OneMoves
<1>3. ASSUME NEW r \in 1 .. Rows PROVE Follows(p, Inserted(r), Inserted(r)')
  <2>1. /\ Inserted(r) \in SUBSET Processes /\ Inserted(r)' \in SUBSET Processes
        /\ \A q \in Processes : q # p => (q \in Inserted(r) <=> q \in Inserted(r)')
    BY DEF Inserted
  <2> QED BY <2>1, OneMoves
<1>4. ASSUME NEW r \in 1 .. Rows PROVE Follows(p, Before(r), Before(r)')
  <2>1. /\ Before(r) \in SUBSET Processes /\ Before(r)' \in SUBSET Processes
        /\ \A q \in Processes : q # p => (q \in Before(r) <=> q \in Before(r)')
    BY DEF Before
  <2> QED BY <2>1, OneMoves
<1> QED BY <1>1, <1>2, <1>3, <1>4

\* The processes that do not move keep their places while no table is lost.
LEMMA OthersStay ==
    ASSUME Type, Places, tables' \in 0 .. Tables, tables <= tables', file => file', NEW p \in Processes,
           \A q \in Processes : q # p => pc'[q] = pc[q] /\ step'[q] = step[q],
           Place(p)'
    PROVE  Places'
<1>1. ASSUME NEW q \in Processes, q # p PROVE Place(q)'
  <2>1. Place(q) /\ step[q] \in Nat /\ tables \in Nat /\ Tables \in Nat
    BY DatabaseAssumption DEF Places, Type
  <2> QED BY <1>1, <2>1 DEF Place
<1> QED BY <1>1 DEF Places

\* A step of p that inserts nothing and neither begins nor ends.
LEMMA NothingInserted ==
    ASSUME IInv, NEW p \in Processes,
           pc' \in [Processes -> Stages], step' \in [Processes -> Nat],
           \A q \in Processes : q # p => pc'[q] = pc[q] /\ step'[q] = step[q],
           UNCHANGED <<copies, began, ended>>, file' \in BOOLEAN, file => file',
           tables' \in 0 .. Tables, tables <= tables',
           starts' \in 0 .. MaxStarts, starts <= starts',
           pc'[p] = "look" => starts + 1 <= starts',
           \A r \in 1 .. Rows : p \in ToInsert(r)' => p \in ToInsert(r),
           \A r \in 1 .. Rows : p \notin Inserted(r)' /\ p \notin Before(r + 1)',
           Place(p)'
    PROVE  IInv'
<1> USE DEF IInv
<1>1. /\ Follows(p, Looking, Looking')
      /\ \A r \in 1 .. Rows : /\ Follows(p, ToInsert(r), ToInsert(r)')
                              /\ Follows(p, Inserted(r), Inserted(r)')
                              /\ Follows(p, Before(r), Before(r)')
  BY Counts
<1>2. Type'
  BY DEF Type
<1>3. StartsCounted'
  <2>1. starts \in Nat /\ starts' \in Nat /\ began \in Nat
    BY DEF Type
  <2>2. pc'[p] = "look" <=> p \in Looking'
    BY DEF Looking
  <2> QED BY <1>1, <2>1, <2>2 DEF StartsCounted, Follows
<1>4. RowsCounted'
  <2> SUFFICES ASSUME NEW r \in 1 .. Rows
               PROVE  /\ copies'[r] + Cardinality(ToInsert(r)') <= began'
                      /\ ended' + Cardinality(Inserted(r)') <= copies'[r]
    BY DEF RowsCounted
  <2>1. /\ copies[r] \in Nat /\ began \in Nat /\ ended \in Nat
        /\ copies[r] + Cardinality(ToInsert(r)) <= began
        /\ ended + Cardinality(Inserted(r)) <= copies[r]
    BY DEF Type, RowsCounted
  <2>2. Cardinality(ToInsert(r)') <= Cardinality(ToInsert(r)) /\ Cardinality(ToInsert(r)') \in Nat
        /\ Cardinality(ToInsert(r)) \in Nat
    BY <1>1 DEF Follows
  <2>3. Cardinality(Inserted(r)') <= Cardinality(Inserted(r)) /\ Cardinality(Inserted(r)') \in Nat
        /\ Cardinality(Inserted(r)) \in Nat
    BY <1>1 DEF Follows
  <2> QED BY <2>1, <2>2, <2>3
<1>5. InOrder'
  <2> SUFFICES ASSUME NEW r \in 2 .. Rows
               PROVE  copies'[r] + Cardinality(Before(r)') <= copies'[r - 1]
    BY DEF InOrder
  <2>1. /\ r \in 1 .. Rows /\ r - 1 \in 1 .. Rows /\ r - 1 + 1 = r
    BY DatabaseAssumption
  <2>2. copies[r] \in Nat /\ copies[r - 1] \in Nat /\ copies[r] + Cardinality(Before(r)) <= copies[r - 1]
    BY <2>1 DEF Type, InOrder
  <2>3. p \notin Before(r)'
    BY <2>1
  <2>4. Cardinality(Before(r)') <= Cardinality(Before(r)) /\ Cardinality(Before(r)') \in Nat
        /\ Cardinality(Before(r)) \in Nat
    BY <1>1, <2>1, <2>3 DEF Follows
  <2> QED BY <2>2, <2>4
<1>6. Places'
  BY OthersStay
<1>7. SeedLast'
  BY DatabaseAssumption DEF SeedLast, Type
<1> QED BY <1>2, <1>3, <1>4, <1>5, <1>6, <1>7

\* pc and step after a step of p alone.
LEMMA Moves ==
    ASSUME Type, NEW p \in Processes, NEW stage \in Stages, Goto(p, stage)
    PROVE  /\ pc' \in [Processes -> Stages] /\ pc'[p] = stage
           /\ \A q \in Processes : q # p => pc'[q] = pc[q]
BY DEF Goto, Type

\* One process takes its step; no other one moves.
LEMMA Resets ==
    ASSUME Type, NEW p \in Processes, NEW n \in Nat, step' = [step EXCEPT ![p] = n]
    PROVE  /\ step' \in [Processes -> Nat] /\ step'[p] = n
           /\ \A q \in Processes : q # p => step'[q] = step[q]
BY DEF Type

\* A process starts.
LEMMA StartKeeps ==
    ASSUME IInv, NEW p \in Processes, Start(p)
    PROVE  IInv'
<1>1. /\ pc[p] = "off" /\ starts < MaxStarts /\ starts' = starts + 1 /\ Goto(p, "look")
      /\ UNCHANGED <<file, tables, copies, step, began, ended>>
  BY DEF Start
<1>2. /\ pc' \in [Processes -> Stages] /\ pc'[p] = "look" /\ step[p] = 0
      /\ \A q \in Processes : q # p => pc'[q] = pc[q]
  BY <1>1, Moves DEF IInv, Places, Place, Stages
<1>3. starts' \in 0 .. MaxStarts /\ starts <= starts' /\ starts + 1 <= starts'
  BY <1>1, DatabaseAssumption DEF IInv, Type
<1>4. \A r \in 1 .. Rows : p \notin ToInsert(r)' /\ p \notin Inserted(r)' /\ p \notin Before(r + 1)'
  BY <1>2 DEF ToInsert, Inserted, Before
<1>5. Place(p)'
  BY <1>1, <1>2 DEF Place
<1>6. step' \in [Processes -> Nat] /\ file' \in BOOLEAN /\ (file => file') /\ tables' \in 0 .. Tables /\ tables <= tables'
  BY <1>1 DEF IInv, Type
<1> QED BY <1>1, <1>2, <1>3, <1>4, <1>5, <1>6, NothingInserted

\* The counts of a process that begins: it has every row to insert.
LEMMA BeginKeeps ==
    ASSUME IInv, NEW p \in Processes, Look(p), ~ file
    PROVE  IInv'
<1> USE DEF IInv
<1>1. /\ pc[p] = "look" /\ Goto(p, "open") /\ began' = began + 1
      /\ UNCHANGED <<file, tables, copies, step, starts, ended>>
  BY DEF Look
<1>2. /\ pc' \in [Processes -> Stages] /\ pc'[p] = "open" /\ step[p] = 0
      /\ \A q \in Processes : q # p => pc'[q] = pc[q]
  BY <1>1, Moves DEF Places, Place, Stages
<1>3. /\ Follows(p, Looking, Looking')
      /\ \A r \in 1 .. Rows : /\ Follows(p, ToInsert(r), ToInsert(r)')
                              /\ Follows(p, Inserted(r), Inserted(r)')
                              /\ Follows(p, Before(r), Before(r)')
  BY <1>1, <1>2, Counts
<1>4. Type'
  BY <1>1, <1>2 DEF Type
<1>5. StartsCounted'
  <2>1. p \in Looking /\ p \notin Looking'
    BY <1>1, <1>2 DEF Looking
  <2>2. began \in Nat /\ starts \in Nat
    BY DEF Type
  <2> QED BY <1>1, <1>3, <2>1, <2>2 DEF StartsCounted, Follows
<1>6. RowsCounted'
  <2> SUFFICES ASSUME NEW r \in 1 .. Rows
               PROVE  /\ copies'[r] + Cardinality(ToInsert(r)') <= began'
                      /\ ended' + Cardinality(Inserted(r)') <= copies'[r]
    BY DEF RowsCounted
  <2>1. /\ copies[r] \in Nat /\ began \in Nat /\ ended \in Nat
        /\ copies[r] + Cardinality(ToInsert(r)) <= began
        /\ ended + Cardinality(Inserted(r)) <= copies[r]
    BY DEF Type, RowsCounted
  <2>2. p \notin Inserted(r) /\ p \notin Inserted(r)'
    BY <1>1, <1>2 DEF Inserted
  <2>3. Cardinality(ToInsert(r)') <= Cardinality(ToInsert(r)) + 1
        /\ Cardinality(ToInsert(r)') \in Nat /\ Cardinality(ToInsert(r)) \in Nat
    BY <1>3 DEF Follows
  <2>4. Cardinality(Inserted(r)') = Cardinality(Inserted(r))
    BY <1>3, <2>2 DEF Follows
  <2> QED BY <1>1, <2>1, <2>3, <2>4
<1>7. InOrder'
  <2> SUFFICES ASSUME NEW r \in 2 .. Rows
               PROVE  copies'[r] + Cardinality(Before(r)') <= copies'[r - 1]
    BY DEF InOrder
  <2>1. r \in 1 .. Rows /\ copies[r] + Cardinality(Before(r)) <= copies[r - 1]
    BY DatabaseAssumption DEF InOrder
  <2>2. p \notin Before(r) /\ p \notin Before(r)'
    BY <1>1, <1>2 DEF Before
  <2> QED BY <1>1, <1>3, <2>1, <2>2 DEF Follows
<1>8. Places'
  <2>1. Place(p)'
    BY <1>1, <1>2 DEF Place
  <2>2. tables' \in 0 .. Tables /\ tables <= tables' /\ \A q \in Processes : q # p => step'[q] = step[q]
    BY <1>1 DEF Type
  <2> QED BY <1>2, <2>1, <2>2, OthersStay
<1>9. SeedLast'
  BY <1>1 DEF SeedLast
<1> QED BY <1>4, <1>5, <1>6, <1>7, <1>8, <1>9

\* A process looks for the file: it is derived already, or to be made.
LEMMA LookKeeps ==
    ASSUME IInv, NEW p \in Processes, Look(p)
    PROVE  IInv'
<1>1. CASE ~ file
  BY <1>1, BeginKeeps
<1>2. CASE file
  <2>1. /\ pc[p] = "look" /\ Goto(p, "look_again")
        /\ UNCHANGED <<file, tables, copies, step, starts, began, ended>>
    BY <1>2 DEF Look
  <2>2. /\ pc' \in [Processes -> Stages] /\ pc'[p] = "look_again" /\ step[p] = 0
        /\ \A q \in Processes : q # p => pc'[q] = pc[q]
    BY <2>1, Moves DEF IInv, Places, Place, Stages
  <2>3. \A r \in 1 .. Rows : p \notin ToInsert(r)' /\ p \notin Inserted(r)' /\ p \notin Before(r + 1)'
    BY <2>2 DEF ToInsert, Inserted, Before
  <2>4. Place(p)'
    BY <2>1, <2>2 DEF Place
  <2>5. /\ step' \in [Processes -> Nat] /\ file' \in BOOLEAN /\ (file => file') /\ tables' \in 0 .. Tables
        /\ tables <= tables' /\ starts' \in 0 .. MaxStarts /\ starts <= starts'
    BY <2>1 DEF IInv, Type
  <2> QED BY <2>1, <2>2, <2>3, <2>4, <2>5, NothingInserted
<1> QED BY <1>1, <1>2

\* The second look of a start finds the file.
LEMMA LookAgainKeeps ==
    ASSUME IInv, NEW p \in Processes, LookAgain(p)
    PROVE  IInv'
<1>1. /\ pc[p] = "look_again" /\ Goto(p, "serving")
      /\ UNCHANGED <<file, tables, copies, step, starts, began, ended>>
  BY DEF LookAgain
<1>2. /\ pc' \in [Processes -> Stages] /\ pc'[p] = "serving" /\ step[p] = 0
      /\ \A q \in Processes : q # p => pc'[q] = pc[q]
  BY <1>1, Moves DEF IInv, Places, Place, Stages
<1>3. \A r \in 1 .. Rows : p \notin ToInsert(r)' /\ p \notin Inserted(r)' /\ p \notin Before(r + 1)'
  BY <1>2 DEF ToInsert, Inserted, Before
<1>4. Place(p)'
  BY <1>1, <1>2 DEF Place
<1>5. /\ step' \in [Processes -> Nat] /\ file' \in BOOLEAN /\ (file => file') /\ tables' \in 0 .. Tables
      /\ tables <= tables' /\ starts' \in 0 .. MaxStarts /\ starts <= starts'
  BY <1>1 DEF IInv, Type
<1> QED BY <1>1, <1>2, <1>3, <1>4, <1>5, NothingInserted

\* sqlite3.connect creates the file, empty.
LEMMA OpenKeeps ==
    ASSUME IInv, NEW p \in Processes, Open(p)
    PROVE  IInv'
<1>1. /\ pc[p] = "open" /\ file' = TRUE /\ Goto(p, "schema") /\ step' = [step EXCEPT ![p] = 0]
      /\ UNCHANGED <<tables, copies, starts, began, ended>>
  BY DEF Open
<1>2. /\ pc' \in [Processes -> Stages] /\ pc'[p] = "schema"
      /\ \A q \in Processes : q # p => pc'[q] = pc[q]
  BY <1>1, Moves DEF IInv, Stages
<1>3. /\ step' \in [Processes -> Nat] /\ step'[p] = 0
      /\ \A q \in Processes : q # p => step'[q] = step[q]
  BY <1>1, Resets DEF IInv
<1>4. /\ \A r \in 1 .. Rows : p \notin Inserted(r)' /\ p \notin Before(r + 1)'
      /\ \A r \in 1 .. Rows : p \in ToInsert(r)
  BY <1>1, <1>2 DEF ToInsert, Inserted, Before
<1>5. /\ tables' \in 0 .. Tables
      /\ tables <= tables' /\ starts' \in 0 .. MaxStarts /\ starts <= starts'
  BY <1>1 DEF IInv, Type
<1>6. Place(p)'
  BY <1>1, <1>2, <1>3, <1>5, DatabaseAssumption DEF Place
<1> QED BY <1>1, <1>2, <1>3, <1>4, <1>5, <1>6, NothingInserted

\* One statement of schema.sql.
LEMMA CreateTableKeeps ==
    ASSUME IInv, NEW p \in Processes, CreateTable(p)
    PROVE  IInv'
<1>1. /\ pc[p] = "schema" /\ tables' = IF tables > step[p] THEN tables ELSE step[p] + 1
      /\ Advance(p, "schema", "seed") /\ UNCHANGED <<file, copies, starts, began, ended>>
      /\ Statements["schema"] = Tables
  BY DEF CreateTable, Statements
<1>2. /\ step[p] \in Nat /\ step[p] < Tables /\ tables \in Nat /\ tables <= Tables
      /\ Tables \in Nat \ {0} /\ Rows \in Nat \ {0}
  BY <1>1, DatabaseAssumption DEF IInv, Type, Places, Place
<1>3. tables' \in 0 .. Tables /\ tables <= tables' /\ step[p] + 1 <= tables'
  BY <1>1, <1>2
<1>4. /\ pc' \in [Processes -> Stages] /\ step' \in [Processes -> Nat]
      /\ \A q \in Processes : q # p => pc'[q] = pc[q] /\ step'[q] = step[q]
      /\ \/ pc'[p] = "seed" /\ step'[p] = 0 /\ step[p] + 1 = Tables
         \/ pc'[p] = "schema" /\ step'[p] = step[p] + 1 /\ step[p] + 1 # Tables
  <2>1. CASE step[p] + 1 = Tables
    <3>1. Goto(p, "seed") /\ step' = [step EXCEPT ![p] = 0]
      BY <1>1, <2>1 DEF Advance
    <3> QED BY <2>1, <3>1, Moves, Resets DEF IInv, Stages
  <2>2. CASE step[p] + 1 # Tables
    <3>1. pc' = pc /\ step' = [step EXCEPT ![p] = step[p] + 1] /\ step[p] + 1 \in Nat
      BY <1>1, <1>2, <2>2 DEF Advance
    <3> QED BY <1>1, <2>2, <3>1, Resets DEF IInv, Type
  <2> QED BY <2>1, <2>2
<1>5. /\ \A r \in 1 .. Rows : p \notin Inserted(r)' /\ p \notin Before(r + 1)'
      /\ \A r \in 1 .. Rows : p \in ToInsert(r)
  BY <1>1, <1>2, <1>4 DEF ToInsert, Inserted, Before
<1>6. Place(p)'
  <2>1. file'
    BY <1>1 DEF IInv, Places, Place
  <2> QED BY <1>2, <1>3, <1>4, <2>1 DEF Place
<1>7. file' \in BOOLEAN /\ (file => file') /\ starts' \in 0 .. MaxStarts /\ starts <= starts'
  BY <1>1 DEF IInv, Type
<1> QED BY <1>1, <1>3, <1>4, <1>5, <1>6, <1>7, NothingInserted

\* A process ends anywhere; the file stays as it is.
LEMMA ExitKeeps ==
    ASSUME IInv, NEW p \in Processes, Exit(p)
    PROVE  IInv'
<1>1. /\ Goto(p, "off") /\ step' = [step EXCEPT ![p] = 0]
      /\ UNCHANGED <<file, tables, copies, starts, began, ended>>
  BY DEF Exit
<1>2. /\ pc' \in [Processes -> Stages] /\ pc'[p] = "off"
      /\ \A q \in Processes : q # p => pc'[q] = pc[q]
  BY <1>1, Moves DEF IInv, Stages
<1>3. /\ step' \in [Processes -> Nat] /\ step'[p] = 0
      /\ \A q \in Processes : q # p => step'[q] = step[q]
  BY <1>1, Resets DEF IInv
<1>4. \A r \in 1 .. Rows : p \notin ToInsert(r)' /\ p \notin Inserted(r)' /\ p \notin Before(r + 1)'
  BY <1>2 DEF ToInsert, Inserted, Before
<1>5. Place(p)'
  BY <1>2, <1>3 DEF Place
<1>6. /\ file' \in BOOLEAN /\ (file => file') /\ tables' \in 0 .. Tables
      /\ tables <= tables' /\ starts' \in 0 .. MaxStarts /\ starts <= starts'
  BY <1>1 DEF IInv, Type
<1> QED BY <1>1, <1>2, <1>3, <1>4, <1>5, <1>6, NothingInserted

\* The insert moves the process over one row in every count.
LEMMA InsertRowKeeps ==
    ASSUME IInv, NEW p \in Processes, InsertRow(p)
    PROVE  IInv'
<1> USE DEF IInv
<1> DEFINE s == step[p] + 1
<1>1. /\ pc[p] = "seed" /\ copies' = [copies EXCEPT ![s] = @ + 1]
      /\ Advance(p, "seed", "look_again")
      /\ ended' = IF s = Rows THEN ended + 1 ELSE ended
      /\ UNCHANGED <<file, tables, starts, began>> /\ Statements["seed"] = Rows
  BY DEF InsertRow, Statements
<1>2. /\ step[p] \in Nat /\ step[p] < Rows /\ Rows \in Nat \ {0} /\ s \in 1 .. Rows
      /\ file /\ tables = Tables
  BY <1>1, DatabaseAssumption DEF Type, Places, Place
<1>3. /\ copies' \in [1 .. Rows -> Nat] /\ copies'[s] = copies[s] + 1
      /\ \A r \in 1 .. Rows : copies[r] \in Nat /\ (r # s => copies'[r] = copies[r])
  BY <1>1, <1>2 DEF Type
<1>4. /\ pc' \in [Processes -> Stages] /\ step' \in [Processes -> Nat]
      /\ \A q \in Processes : q # p => pc'[q] = pc[q] /\ step'[q] = step[q]
      /\ \/ pc'[p] = "look_again" /\ step'[p] = 0 /\ s = Rows
         \/ pc'[p] = "seed" /\ step'[p] = s /\ s # Rows
  <2>1. CASE s = Rows
    <3>1. Goto(p, "look_again") /\ step' = [step EXCEPT ![p] = 0]
      BY <1>1, <2>1 DEF Advance
    <3> QED BY <2>1, <3>1, Moves, Resets DEF Stages
  <2>2. CASE s # Rows
    <3>1. pc' = pc /\ step' = [step EXCEPT ![p] = s] /\ s \in Nat
      BY <1>1, <1>2, <2>2 DEF Advance
    <3> QED BY <1>1, <2>2, <3>1, Resets DEF Type
  <2> QED BY <2>1, <2>2
<1> HIDE DEF s
<1>5. /\ Follows(p, Looking, Looking')
      /\ \A r \in 1 .. Rows : /\ Follows(p, ToInsert(r), ToInsert(r)')
                              /\ Follows(p, Inserted(r), Inserted(r)')
                              /\ Follows(p, Before(r), Before(r)')
  BY <1>4, Counts
<1>6. Type'
  BY <1>1, <1>3, <1>4 DEF Type
<1>7. StartsCounted'
  <2>1. p \notin Looking /\ p \notin Looking'
    BY <1>1, <1>4 DEF Looking
  <2> QED BY <1>1, <1>5, <2>1 DEF StartsCounted, Follows
<1>8. RowsCounted'
  <2> SUFFICES ASSUME NEW r \in 1 .. Rows
               PROVE  /\ copies'[r] + Cardinality(ToInsert(r)') <= began'
                      /\ ended' + Cardinality(Inserted(r)') <= copies'[r]
    BY DEF RowsCounted
  <2>1. /\ copies[r] \in Nat /\ began \in Nat /\ ended \in Nat /\ began' = began
        /\ copies[r] + Cardinality(ToInsert(r)) <= began
        /\ ended + Cardinality(Inserted(r)) <= copies[r]
        /\ Cardinality(ToInsert(r)) \in Nat /\ Cardinality(ToInsert(r)') \in Nat
        /\ Cardinality(Inserted(r)) \in Nat /\ Cardinality(Inserted(r)') \in Nat
    BY <1>1, <1>5 DEF Type, RowsCounted, Follows
  <2>2. p \in ToInsert(r) <=> r >= s
    BY <1>1, <1>2 DEF ToInsert, s
  <2>3. p \in ToInsert(r)' <=> r > s
    BY <1>2, <1>4 DEF ToInsert, s
  <2>4. p \in Inserted(r) <=> r < s
    BY <1>1, <1>2 DEF Inserted, s
  <2>5. p \in Inserted(r)' <=> r <= s /\ s # Rows
    BY <1>2, <1>4 DEF Inserted, s
  <2>6. s \in Nat /\ r \in Nat /\ Rows \in Nat
    BY <1>2
  <2>7. CASE r = s
    <3>1. Cardinality(ToInsert(r)') = Cardinality(ToInsert(r)) - 1
      BY <1>5, <2>2, <2>3, <2>6, <2>7 DEF Follows
    <3>2. CASE s = Rows
      <4>1. Cardinality(Inserted(r)') = Cardinality(Inserted(r)) /\ ended' = ended + 1
        BY <1>1, <1>5, <2>4, <2>5, <2>6, <2>7, <3>2 DEF Follows
      <4> QED BY <1>3, <2>1, <2>7, <3>1, <4>1
    <3>3. CASE s # Rows
      <4>1. Cardinality(Inserted(r)') = Cardinality(Inserted(r)) + 1 /\ ended' = ended
        BY <1>1, <1>5, <2>4, <2>5, <2>6, <2>7, <3>3 DEF Follows
      <4> QED BY <1>3, <2>1, <2>7, <3>1, <4>1
    <3> QED BY <3>2, <3>3
  <2>8. CASE r # s
    <3>1. Cardinality(ToInsert(r)') = Cardinality(ToInsert(r)) /\ copies'[r] = copies[r]
      BY <1>3, <1>5, <2>2, <2>3, <2>6, <2>8 DEF Follows
    <3>2. CASE s = Rows
      <4>1. Cardinality(Inserted(r)') = Cardinality(Inserted(r)) - 1 /\ ended' = ended + 1
        BY <1>1, <1>5, <2>4, <2>5, <2>6, <2>8, <3>2 DEF Follows
      <4> QED BY <2>1, <3>1, <4>1
    <3>3. CASE s # Rows
      <4>1. Cardinality(Inserted(r)') = Cardinality(Inserted(r)) /\ ended' = ended
        BY <1>1, <1>5, <2>4, <2>5, <2>6, <2>8, <3>3 DEF Follows
      <4> QED BY <2>1, <3>1, <4>1
    <3> QED BY <3>2, <3>3
  <2> QED BY <2>7, <2>8
<1>9. InOrder'
  <2> SUFFICES ASSUME NEW r \in 2 .. Rows
               PROVE  copies'[r] + Cardinality(Before(r)') <= copies'[r - 1]
    BY DEF InOrder
  <2>1. /\ r \in 1 .. Rows /\ r - 1 \in 1 .. Rows /\ r \in Nat /\ s \in Nat /\ Rows \in Nat
        /\ copies[r] \in Nat /\ copies[r - 1] \in Nat
        /\ copies[r] + Cardinality(Before(r)) <= copies[r - 1]
        /\ Cardinality(Before(r)) \in Nat /\ Cardinality(Before(r)') \in Nat
    <3>1. r \in 1 .. Rows /\ r - 1 \in 1 .. Rows /\ r \in Nat /\ s \in Nat /\ Rows \in Nat
      BY <1>2
    <3>2. copies[r] \in Nat /\ copies[r - 1] \in Nat
      BY <1>3, <3>1
    <3>3. copies[r] + Cardinality(Before(r)) <= copies[r - 1]
      BY DEF InOrder
    <3>4. Cardinality(Before(r)) \in Nat /\ Cardinality(Before(r)') \in Nat
      BY <1>5, <3>1 DEF Follows
    <3> QED BY <3>1, <3>2, <3>3, <3>4
  <2>2. p \in Before(r) <=> r = s
    BY <1>1, <1>2 DEF Before, s
  <2>3. p \in Before(r)' <=> r = s + 1
    BY <1>2, <1>4, <2>1 DEF Before
  <2>4. CASE r = s
    <3>1. Cardinality(Before(r)') = Cardinality(Before(r)) - 1
      BY <1>5, <2>1, <2>2, <2>3, <2>4 DEF Follows
    <3>2. copies'[r] = copies[r] + 1 /\ copies'[r - 1] = copies[r - 1]
      BY <1>3, <2>1, <2>4
    <3> QED BY <2>1, <3>1, <3>2
  <2>5. CASE r = s + 1
    <3>1. Cardinality(Before(r)') = Cardinality(Before(r)) + 1
      BY <1>5, <2>1, <2>2, <2>3, <2>5 DEF Follows
    <3>2. copies'[r] = copies[r] /\ copies'[r - 1] = copies[r - 1] + 1
      BY <1>3, <2>1, <2>5
    <3> QED BY <2>1, <3>1, <3>2
  <2>6. CASE r # s /\ r # s + 1
    <3>1. Cardinality(Before(r)') = Cardinality(Before(r))
      BY <1>5, <2>1, <2>2, <2>3, <2>6 DEF Follows
    <3>2. copies'[r] = copies[r] /\ copies'[r - 1] = copies[r - 1]
      BY <1>3, <2>1, <2>6
    <3> QED BY <2>1, <3>1, <3>2
  <2> QED BY <2>4, <2>5, <2>6
<1>10. Places'
  <2>1. Place(p)'
    BY <1>1, <1>2, <1>4 DEF Place
  <2>2. tables' \in 0 .. Tables /\ tables <= tables' /\ (file => file')
    BY <1>1 DEF Type
  <2> QED BY <1>4, <2>1, <2>2, OthersStay
<1>11. SeedLast'
  BY <1>1, <1>2 DEF SeedLast
<1> QED BY <1>6, <1>7, <1>8, <1>9, <1>10, <1>11

-----------------------------------------------------------------------------
(* The theorems.                                                           *)

\* No file and no process.
LEMMA InitIInv == Init => IInv
<1> SUFFICES ASSUME Init PROVE IInv
  OBVIOUS
<1> USE DEF Init
<1>1. Type
  <2>1. /\ copies \in [1 .. Rows -> Nat] /\ tables \in 0 .. Tables
        /\ starts \in 0 .. MaxStarts /\ began \in Nat /\ ended \in Nat
    BY DatabaseAssumption
  <2>2. pc \in [Processes -> Stages] /\ step \in [Processes -> Nat] /\ file \in BOOLEAN
    BY DEF Stages
  <2> QED BY <2>1, <2>2 DEF Type
<1>0. Places
  BY DEF Places, Place
<1>2. Looking = {} /\ \A r \in 1 .. Rows : ToInsert(r) = {} /\ Inserted(r) = {} /\ Before(r) = {}
  BY DEF Looking, ToInsert, Inserted, Before
<1>3. StartsCounted
  BY <1>2, FS_EmptySet DEF StartsCounted
<1>7. /\ \A r \in 1 .. Rows : /\ Cardinality(ToInsert(r)) = 0 /\ Cardinality(Inserted(r)) = 0
                               /\ Cardinality(Before(r)) = 0 /\ copies[r] = 0
      /\ began = 0 /\ ended = 0
  BY <1>2, FS_EmptySet
<1>4. RowsCounted
  BY <1>7 DEF RowsCounted
<1>5. InOrder
  <2>1. \A r \in 2 .. Rows : r \in 1 .. Rows /\ r - 1 \in 1 .. Rows
    BY DatabaseAssumption
  <2> QED BY <1>7, <2>1 DEF InOrder
<1>6. SeedLast
  BY DatabaseAssumption DEF SeedLast
<1> QED BY <1>0, <1>1, <1>3, <1>4, <1>5, <1>6 DEF IInv

\* Every step of ensure_database, of any of the processes, keeps the counts.
THEOREM Inductive == Spec => []IInv
<1>1. IInv /\ [Next]_vars => IInv'
  <2> SUFFICES ASSUME IInv, [Next]_vars PROVE IInv'
    OBVIOUS
  <2>1. ASSUME NEW p \in Processes, Start(p) PROVE IInv'
    BY <2>1, StartKeeps
  <2>2. ASSUME NEW p \in Processes, Run(p) PROVE IInv'
    BY <2>2, LookKeeps, LookAgainKeeps, OpenKeeps, CreateTableKeeps, InsertRowKeeps DEF Run
  <2>3. ASSUME NEW p \in Processes, Exit(p) PROVE IInv'
    BY <2>3, ExitKeeps
  <2>4. CASE UNCHANGED vars
    BY <2>4 DEF vars, IInv, Type, StartsCounted, RowsCounted, InOrder, Places, Place, SeedLast,
       Looking, ToInsert, Inserted, Before
  <2> QED BY <2>1, <2>2, <2>3, <2>4 DEF Next
<1> QED BY <1>1, InitIInv, PTL DEF Spec

(***************************************************************************)
(* The shape of the state; in particular no row is ever in the file more   *)
(* often than processes have been started.                                 *)
(***************************************************************************)
THEOREM TypeCorrect == Spec => []TypeOK
<1>1. IInv => TypeOK
  <2> SUFFICES ASSUME IInv PROVE TypeOK
    OBVIOUS
  <2>1. Cardinality(Looking) \in Nat
    <3>1. Looking \in SUBSET Processes
      BY DEF Looking
    <3> QED BY <3>1, FS_Subset, FS_CardinalityType, DatabaseAssumption
  <2>2. began \in 0 .. starts /\ starts \in 0 .. MaxStarts /\ MaxStarts \in Nat
    BY <2>1, DatabaseAssumption DEF IInv, Type, StartsCounted
  <2>3. \A r \in 1 .. Rows : copies[r] \in Nat /\ ended <= copies[r] /\ copies[r] <= began
    <3> TAKE r \in 1 .. Rows
    <3>1. ToInsert(r) \in SUBSET Processes /\ Inserted(r) \in SUBSET Processes
      BY DEF ToInsert, Inserted
    <3>2. Cardinality(ToInsert(r)) \in Nat /\ Cardinality(Inserted(r)) \in Nat
      BY <3>1, FS_Subset, FS_CardinalityType, DatabaseAssumption
    <3> QED BY <3>2 DEF IInv, Type, RowsCounted
  <2>4. copies \in [1 .. Rows -> 0 .. MaxStarts]
    BY <2>2, <2>3 DEF IInv, Type
  <2>5. ended \in 0 .. began
    <3>1. 1 \in 1 .. Rows
      BY DatabaseAssumption
    <3> QED BY <2>2, <2>3, <3>1 DEF IInv, Type
  <2>6. \A p \in Processes :
           step[p] \in 0 .. (IF pc[p] \in DOMAIN Statements THEN Statements[pc[p]] - 1 ELSE 0)
    <3> TAKE p \in Processes
    <3>1. Place(p) /\ step[p] \in Nat /\ Tables \in Nat /\ Rows \in Nat
      BY DatabaseAssumption DEF IInv, Type, Places
    <3> QED BY <3>1 DEF Place, Statements
  <2> QED BY <2>2, <2>4, <2>5, <2>6 DEF IInv, Type, TypeOK, Stages
<1> QED BY <1>1, Inductive, PTL

(***************************************************************************)
(* A start that was the only one to find no file and ran both scripts to   *)
(* the end has made the database of db.py:3-5, whatever others do.         *)
(***************************************************************************)
THEOREM MadeInFull == Spec => []MadeOnce
<1>1. IInv => MadeOnce
  <2> SUFFICES ASSUME IInv, began = 1, ended = 1 PROVE Derived
    BY DEF MadeOnce
  <2>1. ASSUME NEW r \in 1 .. Rows PROVE copies[r] = 1
    <3>1. ToInsert(r) \in SUBSET Processes /\ Inserted(r) \in SUBSET Processes
      BY DEF ToInsert, Inserted
    <3>2. Cardinality(ToInsert(r)) \in Nat /\ Cardinality(Inserted(r)) \in Nat
      BY <3>1, FS_Subset, FS_CardinalityType, DatabaseAssumption
    <3> QED BY <3>2 DEF IInv, Type, RowsCounted
  <2>2. copies[1] = 1
    BY <2>1, DatabaseAssumption
  <2> QED BY <2>1, <2>2 DEF IInv, SeedLast, Derived
<1> QED BY <1>1, Inductive, PTL

(***************************************************************************)
(* db.py:26-27: no row of the seed is there without all those before it,   *)
(* and none before all the tables, whoever else is seeding the file.       *)
(***************************************************************************)
THEOREM SeedIsAPrefix == Spec => []SeededInOrder
<1>1. IInv => SeededInOrder
  <2> SUFFICES ASSUME IInv PROVE SeededInOrder
    OBVIOUS
  <2>1. ASSUME NEW r \in 2 .. Rows PROVE copies[r] <= copies[r - 1]
    <3>1. Before(r) \in SUBSET Processes
      BY DEF Before
    <3>2. Cardinality(Before(r)) \in Nat
      BY <3>1, FS_Subset, FS_CardinalityType, DatabaseAssumption
    <3>3. r \in 1 .. Rows /\ r - 1 \in 1 .. Rows
      BY DatabaseAssumption
    <3> QED BY <3>2, <3>3 DEF IInv, Type, InOrder
  <2> QED BY <2>1 DEF IInv, SeedLast, SeededInOrder
<1> QED BY <1>1, Inductive, PTL

(***************************************************************************)
(* Once the database is complete and nobody is making it, ensure_database  *)
(* "is a no-op afterwards" (db.py:4-5), for any number of starts.          *)
(***************************************************************************)
THEOREM DerivedForGood == Spec => StaysDerived
<1>1. IInv /\ [Next]_vars => [StaysDerivedStep]_vars
  <2> SUFFICES ASSUME IInv, Next, Derived, Settled PROVE Derived' /\ Settled'
    BY DEF StaysDerivedStep
  <2>1. PICK p \in Processes : Start(p) \/ Run(p) \/ Exit(p)
    BY DEF Next
  <2>2. pc[p] \notin {"open", "schema", "seed"} /\ file
    BY DEF Settled, Derived
  <2>3. \/ Start(p) \/ Look(p) \/ LookAgain(p) \/ Exit(p)
    BY <2>1, <2>2 DEF Run, Open, CreateTable, InsertRow
  <2>4. /\ UNCHANGED <<file, tables, copies>>
        /\ \E stage \in {"look", "look_again", "serving", "off"} : Goto(p, stage)
    BY <2>2, <2>3 DEF Start, Look, LookAgain, Exit
  <2>5. Derived'
    BY <2>4 DEF Derived
  <2>6. Settled'
    BY <2>4 DEF Settled, Goto, IInv, Type
  <2> QED BY <2>5, <2>6
<1> QED BY <1>1, Inductive, PTL DEF Spec, StaysDerived
=============================================================================
