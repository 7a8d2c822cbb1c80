-------------------------- MODULE MagMemoryProofs --------------------------
(***************************************************************************)
(* Proofs about MagMemory, for every set of users and texts and every      *)
(* bound on the rows.                                                      *)
(*                                                                         *)
(* SupersedeChain is not inductive alone: that a correction points at a    *)
(* row nobody points at yet needs the type invariant (the row's id is      *)
(* Len + 1, and every pointer is an id of the table), so the induction     *)
(* carries IInv == TypeOK /\ SupersedeChain.                               *)
(***************************************************************************)
EXTENDS MagMemory, SequenceTheorems, FiniteSetTheorems, WellFoundedInduction, TLAPS

IInv == TypeOK /\ SupersedeChain

-----------------------------------------------------------------------------
(* Row ids: the least and the greatest.                                    *)

\* A set of naturals has a least element: the smallest of its initial segments.
LEMMA LeastOf ==
    ASSUME NEW S \in SUBSET Nat, S # {}
    PROVE  \E x \in S : \A y \in S : x <= y
<1> DEFINE T == {0 .. x : x \in S}
<1>1. \A x \in Nat : IsFiniteSet(0 .. x)
  BY FS_Interval
<1>2. T \subseteq FiniteSubsetsOf(Nat) /\ T # {}
  <2>1. \A x \in S : 0 .. x \in FiniteSubsetsOf(Nat)
    BY <1>1 DEF FiniteSubsetsOf
  <2>2. T \subseteq FiniteSubsetsOf(Nat)
    BY <2>1
  <2>3. PICK x \in S : TRUE
    OBVIOUS
  <2>4. 0 .. x \in T
    BY <2>3
  <2> QED BY <2>2, <2>4
<1>3. PICK t \in T : \A u \in T : ~ (<<u, t>> \in StrictSubsetOrdering(Nat))
  <2> HIDE DEF T
  <2> QED BY <1>2, WFMin, FS_StrictSubsetOrderingWellFounded
<1>4. PICK x \in S : t = 0 .. x
  BY <1>3
<1>5. ASSUME NEW y \in S, y < x PROVE FALSE
  <2>1. 0 .. y \in T
    OBVIOUS
  <2>2. 0 .. y \subseteq 0 .. x /\ x \in 0 .. x /\ x \notin 0 .. y
    BY <1>5
  <2>3. 0 .. y \in SUBSET Nat /\ 0 .. x \in SUBSET Nat /\ 0 .. y # 0 .. x
    BY <2>2
  <2>4. <<0 .. y, 0 .. x>> \in StrictSubsetOrdering(Nat)
    BY <2>2, <2>3 DEF StrictSubsetOrdering
  <2> QED BY <1>3, <1>4, <2>1, <2>4
<1> QED BY <1>5

\* ... and a greatest one, if it is bounded.
LEMMA GreatestOf ==
    ASSUME NEW S \in SUBSET Nat, S # {}, NEW n \in Nat, \A x \in S : x <= n
    PROVE  \E x \in S : \A y \in S : y <= x
<1> DEFINE T == {n - x : x \in S}
<1>1. T \in SUBSET Nat /\ T # {}
  <2>1. PICK x \in S : TRUE
    OBVIOUS
  <2>2. n - x \in T
    BY <2>1
  <2>3. \A y \in S : n - y \in Nat
    OBVIOUS
  <2>4. T \subseteq Nat
    BY <2>3
  <2> QED BY <2>2, <2>4
<1>2. PICK d \in T : \A e \in T : d <= e
  BY <1>1, LeastOf
<1>3. PICK x \in S : d = n - x
  OBVIOUS
<1>4. \A y \in S : n - y \in T
  OBVIOUS
<1>5. \A y \in S : n - x <= n - y
  BY <1>2, <1>3, <1>4
<1> QED BY <1>5

-----------------------------------------------------------------------------
(* What one step does to the table, row by row.                            *)

\* AddMemory keeps every row and puts a fresh active row of u at the end.
LEMMA AddRows ==
    ASSUME TypeOK, NEW u \in Users, NEW t \in Texts, AddMemory(u, t)
    PROVE  /\ memories' \in Seq(Row)
           /\ Len(memories') = Len(memories) + 1
           /\ Ids' = 1 .. Len(memories) + 1
           /\ Ids = 1 .. Len(memories)
           /\ \A i \in Ids : memories'[i] = memories[i]
           /\ memories'[Len(memories) + 1] = NewRow(u, t)
<1>1. NewRow(u, t) \in Row
  BY DEF NewRow, Row, Status, NoRow
<1>2. QED
  BY <1>1 DEF TypeOK, AddMemory, Ids

\* CorrectMemory changes row i alone and puts the new version at the end.
LEMMA CorrectRows ==
    ASSUME TypeOK, NEW u \in Users, NEW i \in Ids, NEW t \in Texts,
           CorrectMemory(u, i, t)
    PROVE  /\ memories' \in Seq(Row)
           /\ Len(memories') = Len(memories) + 1
           /\ Ids' = 1 .. Len(memories) + 1
           /\ Ids = 1 .. Len(memories)
           /\ \A j \in Ids : j # i => memories'[j] = memories[j]
           /\ memories[i].user = u
           /\ memories[i].status = "active"
           /\ memories'[i].user = memories[i].user
           /\ memories'[i].text = memories[i].text
           /\ memories'[i].status = "superseded"
           /\ memories'[i].superseded_by = Len(memories) + 1
           /\ memories'[Len(memories) + 1] = NewRow(u, t)
<1> DEFINE n   == Len(memories) + 1
           e   == [memories[i] EXCEPT !.status = "superseded", !.superseded_by = n]
           old == [memories EXCEPT ![i] = e]
<1>1. Ids = 1 .. Len(memories) /\ n \in Nat
  BY DEF TypeOK, Ids
<1>2. memories[i] \in Row
  BY DEF TypeOK, Ids
<1>3. NewRow(u, t) \in Row
  BY DEF NewRow, Row, Status, NoRow
<1>4. /\ e \in Row
      /\ e.user = memories[i].user
      /\ e.text = memories[i].text
      /\ e.status = "superseded"
      /\ e.superseded_by = n
  BY <1>1, <1>2 DEF Row, Status
<1>5. /\ old \in Seq(Row)
      /\ Len(old) = Len(memories)
      /\ \A j \in Ids : old[j] = IF j = i THEN e ELSE memories[j]
  <2> HIDE DEF e
  <2> QED BY <1>1, <1>4, ExceptSeq DEF TypeOK
<1>6. memories' = Append(old, NewRow(u, t))
  BY DEF CorrectMemory
<1>7. /\ memories' \in Seq(Row)
      /\ Len(memories') = n
      /\ Ids' = 1 .. n
      /\ memories'[n] = NewRow(u, t)
      /\ \A j \in Ids : memories'[j] = old[j]
  <2> HIDE DEF old, n
  <2> QED BY <1>1, <1>3, <1>5, <1>6 DEF Ids, n
<1>8. memories[i].user = u /\ memories[i].status = "active"
  BY DEF CorrectMemory, OwnActive
<1>9. QED
  <2> HIDE DEF old, e
  <2> QED BY <1>1, <1>4, <1>5, <1>7, <1>8

\* A soft delete keeps every id and changes at most the status of active rows
\* of one user; DeleteMemory and DeleteAllMemories are both of this kind.
Retire(u) ==
    /\ memories' \in Seq(Row)
    /\ Ids' = Ids
    /\ Ids = 1 .. Len(memories)
    /\ \A i \in Ids :
          \/ memories'[i] = memories[i]
          \/ /\ memories[i].user = u
             /\ memories[i].status = "active"
             /\ memories'[i].status = "deleted"
             /\ memories'[i].user = memories[i].user
             /\ memories'[i].text = memories[i].text
             /\ memories'[i].superseded_by = memories[i].superseded_by

\* A deletion retires one active row of its user.
LEMMA DeleteRows ==
    ASSUME TypeOK, NEW u \in Users, NEW i \in Ids, DeleteMemory(u, i)
    PROVE  Retire(u)
<1> DEFINE e == [memories[i] EXCEPT !.status = "deleted"]
<1>1. Ids = 1 .. Len(memories)
  BY DEF TypeOK, Ids
<1>2. /\ e \in Row
      /\ e.user = memories[i].user
      /\ e.text = memories[i].text
      /\ e.status = "deleted"
      /\ e.superseded_by = memories[i].superseded_by
  <2>1. memories[i] \in Row
    BY DEF TypeOK, Ids
  <2> QED BY <2>1 DEF Row, Status
<1>3. memories' = [memories EXCEPT ![i] = e]
  BY DEF DeleteMemory
<1>4. /\ memories' \in Seq(Row)
      /\ Len(memories') = Len(memories)
      /\ \A j \in Ids : memories'[j] = IF j = i THEN e ELSE memories[j]
  <2> HIDE DEF e
  <2> QED BY <1>1, <1>2, <1>3, ExceptSeq DEF TypeOK
<1>5. Ids' = Ids
  BY <1>1, <1>4 DEF Ids
<1>6. memories[i].user = u /\ memories[i].status = "active"
  BY DEF DeleteMemory, OwnActive
<1>7. QED
  <2> HIDE DEF e
  <2> QED BY <1>1, <1>2, <1>4, <1>5, <1>6 DEF Retire

\* delete-all retires every active row of its user.
LEMMA DeleteAllRows ==
    ASSUME TypeOK, NEW u \in Users, DeleteAllMemories(u)
    PROVE  Retire(u)
<1> DEFINE e(i) == [memories[i] EXCEPT !.status =
                        IF OwnActive(u, i) THEN "deleted" ELSE @]
<1>1. Ids = 1 .. Len(memories) /\ Len(memories) \in Nat
  BY DEF TypeOK, Ids
<1>2. \A i \in Ids : memories[i] \in Row
  BY DEF TypeOK, Ids
<1>3. \A i \in Ids :
         /\ e(i) \in Row
         /\ ~ OwnActive(u, i) => e(i) = memories[i]
         /\ OwnActive(u, i) => /\ e(i).status = "deleted"
                               /\ e(i).user = memories[i].user
                               /\ e(i).text = memories[i].text
                               /\ e(i).superseded_by = memories[i].superseded_by
  BY <1>2 DEF Row, Status
<1>4. memories' = [i \in 1 .. Len(memories) |-> e(i)]
  BY <1>1 DEF DeleteAllMemories
<1>5. memories' \in Seq(Row) /\ Ids' = Ids /\ \A i \in Ids : memories'[i] = e(i)
  <2>1. memories' \in [1 .. Len(memories) -> Row]
    <3> HIDE DEF e
    <3> QED BY <1>1, <1>3, <1>4
  <2>2. memories' \in Seq(Row)
    BY <1>1, <2>1, SeqDef
  <2> HIDE DEF e
  <2> QED BY <1>1, <1>4, <2>2 DEF Ids
<1>6. QED
  <2> HIDE DEF e
  <2> QED BY <1>1, <1>3, <1>5 DEF Retire, OwnActive

-----------------------------------------------------------------------------
(* The induction.                                                          *)

\* The table starts empty.
LEMMA InitIInv == Init => IInv
BY EmptySeq DEF Init, IInv, TypeOK, SupersedeChain, Ids

\* Each method keeps the table well formed and its chains apart.
LEMMA StepIInv == IInv /\ [Next]_memories => IInv'
<1> SUFFICES ASSUME IInv, [Next]_memories PROVE IInv'
  OBVIOUS
<1> USE DEF IInv
<1>0. /\ \A i \in Ids : memories[i] \in Row
      /\ Ids = 1 .. Len(memories)
      /\ Len(memories) \in Nat
  BY DEF TypeOK, Ids
<1>1. ASSUME NEW u \in Users, NEW t \in Texts, AddMemory(u, t) PROVE IInv'
  <2>1. NewRow(u, t).status = "active" /\ NewRow(u, t).superseded_by = NoRow
    BY DEF NewRow
  <2>2. TypeOK'
    BY <1>1, AddRows DEF TypeOK
  <2> DEFINE n == Len(memories) + 1
  <2>3. /\ Ids' = 1 .. n /\ n \in Nat /\ Ids = 1 .. n - 1
        /\ \A j \in Ids : memories'[j] = memories[j]
        /\ memories'[n] = NewRow(u, t)
    BY <1>0, <1>1, AddRows
  <2> HIDE DEF n
  <2>4. \A j \in Ids' : memories'[j].superseded_by # NoRow =>
           j \in Ids /\ j # n /\ memories[j].superseded_by \in Ids
           /\ memories'[memories[j].superseded_by] = memories[memories[j].superseded_by]
    BY <2>1, <2>3 DEF SupersedeChain
  <2>5. \A j \in Ids' : (/\ memories[j].status = "superseded" <=> memories[j].superseded_by # NoRow
                         /\ memories[j].superseded_by # NoRow =>
                               /\ memories[j].superseded_by \in Ids
                               /\ memories[j].superseded_by > j
                               /\ memories[memories[j].superseded_by].user = memories[j].user)'
    BY <2>1, <2>3, <2>4 DEF SupersedeChain
  <2>6. \A i, j \in Ids' : memories'[i].superseded_by # NoRow
                           /\ memories'[i].superseded_by = memories'[j].superseded_by => i = j
    BY <2>3, <2>4 DEF SupersedeChain
  <2>7. SupersedeChain'
    BY <2>5, <2>6 DEF SupersedeChain
  <2> QED BY <2>2, <2>7
<1>2. ASSUME NEW u \in Users, NEW i \in Ids, NEW t \in Texts, CorrectMemory(u, i, t)
      PROVE  IInv'
  <2> DEFINE n == Len(memories) + 1
  <2>1. /\ NewRow(u, t).status = "active"
        /\ NewRow(u, t).superseded_by = NoRow
        /\ NewRow(u, t).user = u
    BY DEF NewRow
  <2>2. TypeOK'
    BY <1>2, CorrectRows DEF TypeOK
  <2>3. /\ Ids' = 1 .. n /\ Ids = 1 .. Len(memories)
        /\ \A j \in Ids : j # i => memories'[j] = memories[j]
        /\ memories[i].user = u
        /\ memories'[i].user = memories[i].user
        /\ memories'[i].status = "superseded"
        /\ memories'[i].superseded_by = n
        /\ memories'[n] = NewRow(u, t)
    BY <1>2, CorrectRows
  <2>4. ASSUME NEW j \in Ids'
        PROVE  /\ memories'[j].status = "superseded" <=> memories'[j].superseded_by # NoRow
               /\ memories'[j].superseded_by # NoRow =>
                     /\ memories'[j].superseded_by \in Ids'
                     /\ memories'[j].superseded_by > j
                     /\ memories'[memories'[j].superseded_by].user = memories'[j].user
    <3>1. CASE j = n
      BY <2>1, <2>3, <3>1
    <3>2. CASE j = i
      BY <1>0, <2>1, <2>3, <3>2 DEF NoRow
    <3>3. CASE j \in Ids /\ j # i
      <4>1. /\ memories[j].status = "superseded" <=> memories[j].superseded_by # NoRow
            /\ memories[j].superseded_by # NoRow =>
                  /\ memories[j].superseded_by \in Ids
                  /\ memories[j].superseded_by > j
                  /\ memories[memories[j].superseded_by].user = memories[j].user
        BY <3>3 DEF SupersedeChain
      <4>2. memories'[j] = memories[j] /\ Ids \subseteq Ids'
        BY <1>0, <2>3, <3>3
      <4>3. \A k \in Ids : memories'[k].user = memories[k].user
        BY <2>3
      <4>4. QED BY <4>1, <4>2, <4>3
    <3>4. QED BY <1>0, <2>3, <3>1, <3>2, <3>3
  <2>5. \A j, k \in Ids' :
           /\ memories'[j].superseded_by # NoRow
           /\ memories'[j].superseded_by = memories'[k].superseded_by
           => j = k
    <3>1. \A j \in Ids : memories[j].superseded_by < n
      BY <1>0, <2>3 DEF SupersedeChain, NoRow, Row
    <3>2. \A j \in Ids' : memories'[j].superseded_by = n => j = i
      BY <1>0, <2>1, <2>3, <3>1 DEF NoRow
    <3>3. \A j \in Ids' : memories'[j].superseded_by \notin {n, NoRow}
                           => j \in Ids /\ memories'[j] = memories[j]
      BY <1>0, <2>1, <2>3, <3>1
    <3> QED BY <3>2, <3>3 DEF SupersedeChain
  <2>6. QED BY <2>2, <2>4, <2>5 DEF SupersedeChain
<1>3. ASSUME NEW u \in Users, Retire(u) PROVE IInv'
  <2>1. TypeOK'
    BY <1>3 DEF Retire, TypeOK
  <2>2. \A i \in Ids : /\ memories'[i].user = memories[i].user
                       /\ memories'[i].superseded_by = memories[i].superseded_by
                       /\ memories'[i].status = "superseded" <=>
                          memories[i].status = "superseded"
    BY <1>3 DEF Retire
  <2>3. SupersedeChain'
    BY <1>3, <2>2 DEF SupersedeChain, Retire
  <2>4. QED BY <2>1, <2>3
<1>4. CASE UNCHANGED memories
  BY <1>4 DEF TypeOK, SupersedeChain, Ids
<1>5. QED
  BY <1>1, <1>2, <1>3, <1>4, DeleteRows, DeleteAllRows DEF Next

\* The table only ever holds well-formed rows.
THEOREM TypeCorrect == Spec => []TypeOK
<1>1. IInv => TypeOK
  BY DEF IInv
<1>2. QED BY InitIInv, StepIInv, <1>1, PTL DEF Spec

\* Every chain of corrections runs forward through one user's rows and no two
\* chains merge, whatever methods ran (correct_memory, delete_memory, ...).
THEOREM ChainsNeverMerge == Spec => []SupersedeChain
<1>1. IInv => SupersedeChain
  BY DEF IInv
<1>2. QED BY InitIInv, StepIInv, <1>1, PTL DEF Spec

\* No step removes, rewrites or revives a row.
LEMMA StepAuditTrail == TypeOK /\ [Next]_memories => [AuditTrailStep]_memories
<1> SUFFICES ASSUME TypeOK, [Next]_memories PROVE [AuditTrailStep]_memories
  OBVIOUS
<1>1. ASSUME NEW u \in Users, NEW t \in Texts, AddMemory(u, t) PROVE AuditTrailStep
  BY <1>1, AddRows DEF AuditTrailStep, Ids, TypeOK
<1>2. ASSUME NEW u \in Users, NEW i \in Ids, NEW t \in Texts, CorrectMemory(u, i, t)
      PROVE  AuditTrailStep
  BY <1>2, CorrectRows DEF AuditTrailStep, Ids, TypeOK
<1>3. ASSUME NEW u \in Users, Retire(u) PROVE AuditTrailStep
  BY <1>3 DEF Retire, AuditTrailStep, Ids
<1>4. QED
  BY <1>1, <1>2, <1>3, DeleteRows, DeleteAllRows DEF Next

\* No method removes a row, rewrites an owner or a text, or revives a row that
\* has left status 'active'.
THEOREM AuditTrailSurvives == Spec => AuditTrail
<1>1. Spec => []TypeOK
  BY TypeCorrect
<1>2. QED BY <1>1, StepAuditTrail, PTL DEF Spec, AuditTrail

\* The rows a step changes belong to one user.
LEMMA StepOneOwner == TypeOK /\ [Next]_memories => [OneOwnerStep]_memories
<1> SUFFICES ASSUME TypeOK, [Next]_memories PROVE [OneOwnerStep]_memories
  OBVIOUS
<1>1. ASSUME NEW u \in Users, NEW t \in Texts, AddMemory(u, t) PROVE OneOwnerStep
  <2>1. NewRow(u, t).user = u
    BY DEF NewRow
  <2>2. QED BY <1>1, <2>1, AddRows DEF OneOwnerStep, Ids, TypeOK
<1>2. ASSUME NEW u \in Users, NEW i \in Ids, NEW t \in Texts, CorrectMemory(u, i, t)
      PROVE  OneOwnerStep
  <2>1. NewRow(u, t).user = u
    BY DEF NewRow
  <2>2. QED BY <1>2, <2>1, CorrectRows DEF OneOwnerStep, Ids, TypeOK
<1>3. ASSUME NEW u \in Users, Retire(u) PROVE OneOwnerStep
  BY <1>3 DEF Retire, OneOwnerStep, Ids
<1>4. QED
  BY <1>1, <1>2, <1>3, DeleteRows, DeleteAllRows DEF Next

\* A call made for one user never touches another user's rows.
THEOREM OneOwnerPerCall == Spec => OneOwner
<1>1. Spec => []TypeOK
  BY TypeCorrect
<1>2. QED BY <1>1, StepOneOwner, PTL DEF Spec, OneOwner
=============================================================================
