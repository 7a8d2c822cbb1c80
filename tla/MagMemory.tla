------------------------------ MODULE MagMemory ------------------------------
(***************************************************************************)
(* The contract of the long-term memories of the MAG showcase              *)
(* (showcases/mag/memory_store.py): what each writing method of            *)
(* MemoryStore does to the table `memories`, as one indivisible step.      *)
(*                                                                         *)
(* Rows are never physically removed, so the row ids SQLite hands out      *)
(* (largest id + 1) are the positions of a sequence.  A row keeps who owns *)
(* it, its text, its status and the id of the row that supersedes it; the  *)
(* category and the timestamps are left out.  A method that finds no       *)
(* active row of that user raises NotFound and changes nothing: at this    *)
(* level it is no step at all, and its guard is OwnActive.                 *)
(*                                                                         *)
(* MagStoreTxn implements this contract statement by statement under the   *)
(* lock; MagService runs the HTTP handlers on top of it.                   *)
(***************************************************************************)
EXTENDS Integers, Sequences

CONSTANTS
    Users,        \* user_id labels
    Texts,        \* memory texts
    MaxMemories   \* bound on the rows ever inserted

ASSUME MaxMemoriesAssumption == MaxMemories \in Nat

VARIABLE memories

Status == {"active", "superseded", "deleted"}

\* superseded_by is NULL until the row is superseded; 0 is no row id.
NoRow == 0

Row == [user : Users, text : Texts, status : Status, superseded_by : Nat]

Ids == DOMAIN memories

NewRow(u, t) ==
    [user |-> u, text |-> t, status |-> "active", superseded_by |-> NoRow]

\* The WHERE clause of every lookup: id, owner and status together.
OwnActive(u, i) ==
    /\ i \in Ids
    /\ memories[i].user = u
    /\ memories[i].status = "active"

ActiveOf(u) == {i \in Ids : OwnActive(u, i)}

-----------------------------------------------------------------------------
Init == memories = <<>>

AddMemory(u, t) ==
    /\ Len(memories) < MaxMemories
    /\ memories' = Append(memories, NewRow(u, t))

\* Faulty variant: the pointer is the last id before the insert.
CorrectPointsAtLastRow(u, i, t) ==
    /\ Len(memories) < MaxMemories
    /\ OwnActive(u, i)
    /\ memories' = Append([memories EXCEPT ![i].status = "superseded",
                                           ![i].superseded_by = Len(memories)],
                          NewRow(u, t))

\* Faulty variant: a status the schema does not know.
CorrectWithUnknownStatus(u, i, t) ==
    /\ Len(memories) < MaxMemories
    /\ OwnActive(u, i)
    /\ memories' = Append([memories EXCEPT ![i].status = "corrected"], NewRow(u, t))

\* The new row takes the next id; the old row stays and points at it.
CorrectMemory(u, i, t) ==
    /\ Len(memories) < MaxMemories
    /\ OwnActive(u, i)
    /\ memories' = Append([memories EXCEPT ![i].status = "superseded",
                                           ![i].superseded_by = Len(memories) + 1],
                          NewRow(u, t))

\* Faulty variant: the update does not ask for status 'active'.
DeleteAnyStatus(u, i) ==
    /\ i \in Ids
    /\ memories[i].user = u
    /\ memories' = [memories EXCEPT ![i].status = "deleted"]

DeleteMemory(u, i) ==
    /\ OwnActive(u, i)
    /\ memories' = [memories EXCEPT ![i].status = "deleted"]

\* Faulty variant: the update forgets the user.
DeleteEveryones(u) ==
    memories' = [i \in Ids |->
        [memories[i] EXCEPT !.status = IF @ = "active" THEN "deleted" ELSE @]]

DeleteAllMemories(u) ==
    memories' = [i \in Ids |->
        [memories[i] EXCEPT !.status = IF OwnActive(u, i) THEN "deleted" ELSE @]]

Next == \E u \in Users :
    \/ \E t \in Texts : AddMemory(u, t)
    \/ \E i \in Ids, t \in Texts : CorrectMemory(u, i, t)
    \/ \E i \in Ids : DeleteMemory(u, i)
    \/ DeleteAllMemories(u)

Spec == Init /\ [][Next]_memories

-----------------------------------------------------------------------------
\* Every row is a well-formed row.
TypeOK == memories \in Seq(Row)

(***************************************************************************)
(* "Correction supersedes, never mutates" (showcases/mag/README.md): a     *)
(* superseded row, and only a superseded row, points at a row; that row is *)
(* younger and belongs to the same user; and no two rows are superseded by *)
(* the same row.  Following superseded_by therefore ends, stays with one   *)
(* user, and two facts never merge into one, whatever sequence of          *)
(* corrections and deletions correct_memory and delete_memory ran.         *)
(***************************************************************************)
SupersedeChain ==
    /\ \A i \in Ids :
          /\ memories[i].status = "superseded" <=> memories[i].superseded_by # NoRow
          /\ memories[i].superseded_by # NoRow =>
                /\ memories[i].superseded_by \in Ids
                /\ memories[i].superseded_by > i
                /\ memories[memories[i].superseded_by].user = memories[i].user
    /\ \A i, j \in Ids :
          /\ memories[i].superseded_by # NoRow
          /\ memories[i].superseded_by = memories[j].superseded_by
          => i = j

(***************************************************************************)
(* The audit trail survives: no method removes a row, rewrites its owner   *)
(* or its text, or touches a row that has left status 'active' (soft       *)
(* delete, and a superseded row is final).                                 *)
(***************************************************************************)
AuditTrailStep ==
    /\ Ids \subseteq DOMAIN memories'
    /\ \A i \in Ids :
          /\ memories'[i].user = memories[i].user
          /\ memories'[i].text = memories[i].text
          /\ memories[i].status # "active" => memories'[i] = memories[i]

AuditTrail == [][AuditTrailStep]_memories

(***************************************************************************)
(* One call works on one user's rows (cross-user access is                 *)
(* indistinguishable from nonexistence): all the rows one step inserts or  *)
(* changes have the same owner.                                            *)
(***************************************************************************)
OneOwnerStep ==
    \E u \in Users : \A i \in DOMAIN memories' :
        \/ memories'[i].user = u
        \/ i \in Ids /\ memories'[i] = memories[i]

OneOwner == [][OneOwnerStep]_memories
=============================================================================
