------------------------------ MODULE DemoProofs ------------------------------
(***************************************************************************)
(* Proofs about Demo, for every set of terminals, every number of commands *)
(* and of volumes.                                                         *)
(*                                                                         *)
(* The showcase manager takes no lock and keeps no state, so what holds    *)
(* between two of its kubectl calls is what the cluster keeps for it:      *)
(* memories are only in the volume that is there, a volume that goes was   *)
(* deleted by a confirmed purge, and a volume's number is never used again.*)
(***************************************************************************)
EXTENDS Demo, TLAPS

Stages == {"prompt", "look", "apply", "apply_volume", "delete", "ask", "delete_volume",
           "wait", "purged"}

Command == [pc : Stages, method : {None} \cup Methods, force : BOOLEAN, target : Nat,
            sure : BOOLEAN]

Type ==
    /\ active \subseteq Methods
    /\ pod \in BOOLEAN
    /\ volume \in [id : Nat, deleted : BOOLEAN]
    /\ memories \cup confirmed \subseteq 1 .. volumes
    /\ term \in [Terminals -> Command]
    /\ volumes \in 0 .. MaxVolumes

\* The volume that is there, and what it means that it is.
Volume ==
    /\ volume.id <= volumes
    /\ volume.id = None => volume = NoVolume
    /\ volume.deleted => volume.id \in confirmed
    /\ pod => volume.id # None
    /\ memories \subseteq {volume.id}

\* What each command knows of the cluster.
Knows(c) ==
    /\ c.pc # "prompt" => c.method \in Methods
    /\ c.target <= volumes
    /\ c.pc \in {"wait", "purged"} => c.target # None
    /\ c.pc = "purged" => volume.id # c.target

Commands == \A t \in Terminals : Knows(term[t])

IInv == Type /\ Volume /\ Commands

-----------------------------------------------------------------------------
\* Showcases are numbers other than None.
LEMMA Names == /\ None \notin Methods /\ Mag \in Methods /\ Mag # None /\ None = 0
               /\ Methods \subseteq Nat
BY DEF None, Methods, Cag, Mag, Tag

\* A terminal at its prompt is a command with nothing in hand.
LEMMA PromptType == Prompt \in Command /\ Prompt.pc = "prompt" /\ Prompt.target = None /\ Prompt.method = None
BY DEF Prompt, Command, Stages, None

\* A command goes on and the cluster stays.
LEMMA CommandKeeps ==
    ASSUME IInv, NEW t \in Terminals, NEW c \in Command, Knows(c),
           term' = [term EXCEPT ![t] = c], UNCHANGED Cluster
    PROVE  IInv'
<1>1. /\ UNCHANGED <<active, pod, volume, memories, confirmed, volumes>>
      /\ term' \in [Terminals -> Command] /\ term'[t] = c
      /\ \A u \in Terminals : u # t => term'[u] = term[u]
  BY DEF IInv, Type, Cluster
<1>2. Type' /\ Volume'
  BY <1>1 DEF IInv, Type, Volume
<1>3. Commands'
  BY <1>1 DEF IInv, Commands, Knows
<1> QED BY <1>2, <1>3 DEF IInv

\* A command is over.
LEMMA ReturnKeeps ==
    ASSUME IInv, NEW t \in Terminals, Return(t), UNCHANGED Cluster
    PROVE  IInv'
<1>1. Knows(Prompt)
  BY PromptType, Names DEF Knows, IInv, Type
<1> QED BY <1>1, PromptType, CommandKeeps DEF Return

\* A command begins: it knows nothing yet, so it claims nothing.
LEMMA BeginKeeps ==
    ASSUME IInv, NEW t \in Terminals, NEW c \in Command, Begin(t, c), c.target = None,
           c.method \in Methods, c.pc \in {"look", "delete", "ask"}
    PROVE  IInv'
<1>1. Knows(c)
  BY Names DEF Knows, IInv, Type
<1> QED BY <1>1, CommandKeeps DEF Begin

\* `up` begins.
LEMMA UpKeeps ==
    ASSUME IInv, NEW t \in Terminals, NEW m \in Methods, NEW force \in BOOLEAN, Up(t, m, force)
    PROVE  IInv'
<1> DEFINE c == [Prompt EXCEPT !.pc = "look", !.method = m, !.force = force]
<1>1. c \in Command /\ c.target = None /\ c.method = m /\ c.pc = "look"
  BY DEF Prompt, Command, Stages, None
<1>2. Begin(t, c)
  BY DEF Up
<1> HIDE DEF c
<1> QED BY <1>1, <1>2, BeginKeeps

\* `down` begins.
LEMMA DownKeeps ==
    ASSUME IInv, NEW t \in Terminals, NEW m \in Methods, Down(t, m)
    PROVE  IInv'
<1> DEFINE c == [Prompt EXCEPT !.pc = "delete", !.method = m]
<1>1. c \in Command /\ c.target = None /\ c.method = m /\ c.pc = "delete"
  BY DEF Prompt, Command, Stages, None
<1>2. Begin(t, c)
  BY DEF Down
<1> HIDE DEF c
<1> QED BY <1>1, <1>2, BeginKeeps

\* `purge` begins.
LEMMA PurgeKeeps ==
    ASSUME IInv, NEW t \in Terminals, Purge(t)
    PROVE  IInv'
<1> DEFINE c == [Prompt EXCEPT !.pc = "ask", !.method = Mag]
<1>1. c \in Command /\ c.target = None /\ c.method = Mag /\ c.pc = "ask"
  BY Names DEF Prompt, Command, Stages, None
<1>2. Begin(t, c)
  BY DEF Purge
<1> HIDE DEF c
<1> QED BY <1>1, <1>2, Names, BeginKeeps

\* The command that a terminal is in.
LEMMA InCommand ==
    ASSUME IInv, NEW t \in Terminals
    PROVE  term[t] \in Command /\ Knows(term[t])
BY DEF IInv, Type, Commands

\* A command goes on to a stage at which it knows no more than its method.
LEMMA NextStage ==
    ASSUME IInv, NEW t \in Terminals, NEW pc \in {"apply", "apply_volume"},
           term[t].pc # "prompt"
    PROVE  [term[t] EXCEPT !.pc = pc] \in Command /\ Knows([term[t] EXCEPT !.pc = pc])
<1> DEFINE c == [term[t] EXCEPT !.pc = pc]
<1>1. c \in Command /\ c.pc = pc /\ c.method = term[t].method /\ c.target = term[t].target
  BY InCommand DEF Command, Stages
<1> HIDE DEF c
<1>2. c \in Command /\ Knows(c)
  BY <1>1, InCommand DEF Knows
<1> QED BY <1>2 DEF c

\* An up applies, or is refused.
LEMMA LookKeeps ==
    ASSUME IInv, NEW t \in Terminals, Look(t)
    PROVE  IInv'
<1>1. term[t].pc = "look" /\ UNCHANGED Cluster
  BY DEF Look
<1>2. CASE Return(t)
  BY <1>1, <1>2, ReturnKeeps
<1>3. CASE Step(t, "apply")
  <2>1. term' = [term EXCEPT ![t] = [term[t] EXCEPT !.pc = "apply"]]
    BY <1>3 DEF Step
  <2> QED BY <1>1, <2>1, NextStage, CommandKeeps
<1> QED BY <1>2, <1>3 DEF Look

\* The Deployment is there, or is not: no command knows of it.
LEMMA ApplyDeploymentKeeps ==
    ASSUME IInv, NEW t \in Terminals, ApplyDeployment(t)
    PROVE  IInv'
<1>1. /\ term[t].pc = "apply" /\ UNCHANGED <<pod, volume, memories, confirmed, volumes>>
      /\ active' \subseteq active \cup {term[t].method}
      /\ Step(t, "apply_volume") \/ Return(t)
  BY DEF ApplyDeployment
<1>2. PICK c \in Command : Knows(c) /\ term' = [term EXCEPT ![t] = c]
  <2>1. CASE Step(t, "apply_volume")
    <3>1. term' = [term EXCEPT ![t] = [term[t] EXCEPT !.pc = "apply_volume"]]
      BY <2>1 DEF Step
    <3> QED BY <1>1, <3>1, NextStage
  <2>2. CASE Return(t)
    <3>1. Knows(Prompt)
      BY PromptType, Names DEF Knows, IInv, Type
    <3> QED BY <2>2, <3>1, PromptType DEF Return
  <2> QED BY <1>1, <2>1, <2>2
<1>3. term[t].method \in Methods
  BY <1>1, InCommand DEF Knows
<1>4. Type' /\ Volume'
  BY <1>1, <1>2, <1>3 DEF IInv, Type, Volume
<1>5. ASSUME NEW u \in Terminals PROVE Knows(term[u])'
  <2>1. Knows(term'[u])
    BY <1>2, InCommand DEF IInv, Type
  <2> QED BY <1>1, <2>1 DEF Knows
<1> QED BY <1>4, <1>5 DEF IInv, Commands

\* `up` applies the claim: a new volume when there is none, else the one there is.
LEMMA ApplyVolumeKeeps ==
    ASSUME IInv, NEW t \in Terminals, ApplyVolume(t)
    PROVE  IInv'
<1>1. Return(t) /\ UNCHANGED <<active, pod, memories, confirmed, commands>>
  BY DEF ApplyVolume
<1>2. CASE UNCHANGED <<volume, volumes>>
  BY <1>1, <1>2, ReturnKeeps DEF Cluster
<1>3. CASE /\ volume = NoVolume /\ volumes < MaxVolumes /\ volumes' = volumes + 1
           /\ volume' = [id |-> volumes + 1, deleted |-> FALSE]
  <2>1. /\ term' \in [Terminals -> Command] /\ term'[t] = Prompt
        /\ \A u \in Terminals : u # t => term'[u] = term[u]
    BY <1>1, PromptType DEF Return, IInv, Type
  <2>2. volumes \in Nat /\ volumes' \in 0 .. MaxVolumes /\ 1 .. volumes \subseteq 1 .. volumes'
    BY <1>3, DemoAssumption DEF IInv, Type
  <2>3. Type'
    BY <1>1, <1>3, <2>1, <2>2 DEF IInv, Type
  <2>4. memories = {} /\ ~ pod
    <3>1. volume.id = None /\ None \notin 1 .. volumes
      BY <1>3, Names DEF NoVolume
    <3> QED BY <3>1 DEF IInv, Type, Volume
  <2>5. Volume'
    BY <1>1, <1>3, <2>2, <2>4, Names DEF Volume
  <2>6. Commands'
    <3>1. ASSUME NEW u \in Terminals PROVE Knows(term[u])'
      <4>1. CASE u = t
        BY <2>1, <2>2, <4>1, PromptType, Names DEF Knows
      <4>2. CASE u # t
        <5> DEFINE c == term[u]
        <5>1. c \in Command /\ Knows(c)
          BY InCommand
        <5>2. term'[u] = c
          BY <2>1, <4>2
        <5> HIDE DEF c
        <5>3. volumes <= volumes' /\ volumes' \in Nat /\ c.target \in Nat /\ volumes \in Nat
          BY <2>2, <5>1, <1>3 DEF Command
        <5> QED BY <1>1, <1>3, <2>2, <5>1, <5>2, <5>3 DEF Knows
      <4> QED BY <4>1, <4>2
    <3> QED BY <3>1 DEF Commands
  <2> QED BY <2>3, <2>5, <2>6 DEF IInv
<1> QED BY <1>2, <1>3 DEF ApplyVolume

\* The Deployment goes, or does not.
LEMMA DeleteKeeps ==
    ASSUME IInv, NEW t \in Terminals, Delete(t)
    PROVE  IInv'
<1>1. /\ Return(t) /\ active' \subseteq active
      /\ UNCHANGED <<pod, volume, memories, confirmed, commands, volumes>>
  BY DEF Delete
<1>2. /\ term' \in [Terminals -> Command] /\ term'[t] = Prompt
      /\ \A u \in Terminals : u # t => term'[u] = term[u]
  BY <1>1, PromptType DEF Return, IInv, Type
<1>3. Type' /\ Volume'
  BY <1>1, <1>2 DEF IInv, Type, Volume
<1>4. ASSUME NEW u \in Terminals PROVE Knows(term[u])'
  <2>1. CASE u = t
    BY <1>1, <1>2, <2>1, PromptType, Names DEF Knows, IInv, Type
  <2>2. CASE u # t
    <3>1. Knows(term[u]) /\ term'[u] = term[u]
      BY <1>2, <2>2, InCommand
    <3> QED BY <1>1, <3>1 DEF Knows
  <2> QED BY <2>1, <2>2
<1> QED BY <1>3, <1>4 DEF IInv, Commands

\* The user says yes or no to the purge.
LEMMA ConfirmKeeps ==
    ASSUME IInv, NEW t \in Terminals, Confirm(t)
    PROVE  IInv'
<1>1. term[t].pc = "ask" /\ UNCHANGED Cluster
  BY DEF Confirm
<1>2. CASE Return(t)
  BY <1>1, <1>2, ReturnKeeps
<1>3. CASE term' = [term EXCEPT ![t].pc = "delete_volume", ![t].sure = TRUE]
  <2> DEFINE c == [term[t] EXCEPT !.pc = "delete_volume", !.sure = TRUE]
  <2>1. term' = [term EXCEPT ![t] = c]
    BY <1>3
  <2>2. /\ c \in Command /\ c.pc = "delete_volume" /\ c.method = term[t].method
        /\ c.target = term[t].target
    BY InCommand DEF Command, Stages
  <2> HIDE DEF c
  <2>3. Knows(c)
    BY <1>1, <2>2, InCommand DEF Knows
  <2> QED BY <1>1, <2>1, <2>2, <2>3, CommandKeeps
<1> QED BY <1>2, <1>3 DEF Confirm

\* The claim is deleted by a purge that was confirmed.
LEMMA DeleteVolumeKeeps ==
    ASSUME IInv, NEW t \in Terminals, DeleteVolume(t)
    PROVE  IInv'
<1>1. term[t].pc = "delete_volume" /\ UNCHANGED <<active, pod, memories, commands, volumes>>
  BY DEF DeleteVolume
<1>2. CASE Return(t) /\ UNCHANGED <<volume, confirmed>>
  BY <1>1, <1>2, ReturnKeeps DEF Cluster
<1>3. CASE /\ volume # NoVolume /\ volume' = [volume EXCEPT !.deleted = TRUE]
           /\ confirmed' = confirmed \cup {volume.id}
           /\ term' = [term EXCEPT ![t].pc = "wait", ![t].target = volume.id]
  <2> DEFINE c == [term[t] EXCEPT !.pc = "wait", !.target = volume.id]
  <2>1. volume.id \in 1 .. volumes /\ volume.id \in Nat /\ volume.id # None
    BY <1>3, Names DEF IInv, Type, Volume
  <2>2. /\ volume' \in [id : Nat, deleted : BOOLEAN]
        /\ volume'.id = volume.id /\ volume'.deleted
    BY <1>3 DEF IInv, Type
  <2>3. term' = [term EXCEPT ![t] = c]
    BY <1>3
  <2>4. /\ c \in Command /\ c.pc = "wait" /\ c.method = term[t].method /\ c.target = volume.id
    BY <2>1, InCommand DEF Command, Stages
  <2> HIDE DEF c
  <2>5. /\ term' \in [Terminals -> Command] /\ term'[t] = c
        /\ \A u \in Terminals : u # t => term'[u] = term[u]
    BY <2>3, <2>4 DEF IInv, Type
  <2>6. Type'
    BY <1>1, <1>3, <2>1, <2>2, <2>5 DEF IInv, Type
  <2>7. Volume'
    BY <1>1, <1>3, <2>1, <2>2 DEF IInv, Volume
  <2>8. ASSUME NEW u \in Terminals PROVE Knows(term[u])'
    <3>1. CASE u = t
      BY <1>1, <2>1, <2>4, <2>5, <3>1, InCommand DEF Knows
    <3>2. CASE u # t
      <4>1. Knows(term[u]) /\ term'[u] = term[u]
        BY <2>5, <3>2, InCommand
      <4> QED BY <1>1, <2>2, <4>1 DEF Knows
    <3> QED BY <3>1, <3>2
  <2> QED BY <2>6, <2>7, <2>8 DEF IInv, Commands
<1> QED BY <1>1, <1>2, <1>3 DEF DeleteVolume

\* `purge` sees its volume gone, and says so.
LEMMA GoneKeeps ==
    ASSUME IInv, NEW t \in Terminals, Gone(t)
    PROVE  IInv'
<1> DEFINE c == [term[t] EXCEPT !.pc = "purged"]
<1>1. term[t].pc = "wait" /\ volume.id # term[t].target /\ term' = [term EXCEPT ![t] = c] /\ UNCHANGED Cluster
  BY DEF Gone, Step
<1>2. /\ c \in Command /\ c.pc = "purged" /\ c.method = term[t].method /\ c.target = term[t].target
  BY InCommand DEF Command, Stages
<1> HIDE DEF c
<1>3. Knows(c)
  BY <1>1, <1>2, InCommand DEF Knows
<1> QED BY <1>1, <1>2, <1>3, CommandKeeps

-----------------------------------------------------------------------------
(* The cluster's own steps: no command goes on.                            *)

\* The cluster takes a step of its own that brings no new volume.
LEMMA ClusterKeeps ==
    ASSUME IInv, Type', Volume', UNCHANGED <<active, term, volumes>>,
           volume'.id = volume.id \/ volume'.id = None
    PROVE  IInv'
<1>1. ASSUME NEW u \in Terminals PROVE Knows(term[u])'
  BY InCommand DEF Knows
<1> QED BY <1>1 DEF IInv, Commands

\* A pod starts, on a claim that is not about to go, or stops.
LEMMA PodKeeps ==
    ASSUME IInv, PodStarts \/ PodStops
    PROVE  IInv'
<1>1. /\ pod' \in BOOLEAN /\ UNCHANGED <<active, volume, memories, confirmed, term, commands, volumes>>
      /\ pod' => volume # NoVolume
  BY DEF PodStarts, PodStops
<1>2. Type' /\ Volume'
  BY <1>1 DEF IInv, Type, Volume
<1> QED BY <1>1, <1>2, ClusterKeeps

\* A deleted claim goes once no pod holds it.
LEMMA VolumeGoesKeeps ==
    ASSUME IInv, VolumeGoes
    PROVE  IInv'
<1>1. /\ volume.deleted /\ ~ pod /\ volume' = NoVolume /\ memories' = memories \ {volume.id}
      /\ UNCHANGED <<active, pod, confirmed, term, commands, volumes>>
  BY DEF VolumeGoes
<1>2. memories' = {} /\ volumes \in Nat
  BY <1>1 DEF IInv, Type, Volume
<1>3. volume' \in [id : Nat, deleted : BOOLEAN] /\ volume'.id = None /\ ~ volume'.deleted
  BY <1>1 DEF NoVolume, None
<1>4. Type' /\ Volume'
  BY <1>1, <1>2, <1>3, Names DEF IInv, Type, Volume, NoVolume
<1> QED BY <1>1, <1>3, <1>4, ClusterKeeps

\* MAG stores a memory in the volume it runs on.
LEMMA RememberKeeps ==
    ASSUME IInv, Remember
    PROVE  IInv'
<1>1. /\ pod /\ memories' = memories \cup {volume.id}
      /\ UNCHANGED <<active, pod, volume, confirmed, term, commands, volumes>>
  BY DEF Remember
<1>2. volume.id \in 1 .. volumes
  BY <1>1, Names DEF IInv, Type, Volume
<1>3. Type' /\ Volume'
  BY <1>1, <1>2 DEF IInv, Type, Volume
<1> QED BY <1>1, <1>3, ClusterKeeps

-----------------------------------------------------------------------------
(* The theorems.                                                           *)

\* An empty cluster, and every terminal at its prompt.
LEMMA InitIInv == Init => IInv
<1> SUFFICES ASSUME Init PROVE IInv
  OBVIOUS
<1> USE DEF Init
<1>1. Type
  <2>1. term \in [Terminals -> Command]
    BY PromptType
  <2>2. volume \in [id : Nat, deleted : BOOLEAN]
    BY DEF NoVolume, None
  <2>3. volumes \in 0 .. MaxVolumes
    BY DemoAssumption
  <2>4. active \subseteq Methods /\ pod \in BOOLEAN /\ memories \cup confirmed \subseteq 1 .. volumes
    OBVIOUS
  <2> QED BY <2>1, <2>2, <2>3, <2>4 DEF Type
<1>2. Volume
  BY Names DEF Volume, NoVolume
<1>3. Commands
  BY PromptType, Names DEF Commands, Knows
<1> QED BY <1>1, <1>2, <1>3 DEF IInv

\* Every kubectl call of demo.sh, in any terminal, and every step of the cluster.
THEOREM Inductive == Spec => []IInv
<1>1. IInv /\ [Next]_vars => IInv'
  <2> SUFFICES ASSUME IInv, [Next]_vars PROVE IInv'
    OBVIOUS
  <2>1. ASSUME NEW t \in Terminals, NEW m \in Methods,
               Down(t, m) \/ \E force \in BOOLEAN : Up(t, m, force)
        PROVE  IInv'
    BY <2>1, UpKeeps, DownKeeps
  <2>2. ASSUME NEW t \in Terminals, Interrupt(t) \/ Report(t) PROVE IInv'
    BY <2>2, ReturnKeeps DEF Interrupt, Report
  <2>3. ASSUME NEW t \in Terminals,
               \/ Purge(t) \/ Look(t) \/ ApplyDeployment(t) \/ ApplyVolume(t) \/ Delete(t)
               \/ Confirm(t) \/ DeleteVolume(t) \/ Gone(t)
        PROVE  IInv'
    BY <2>3, PurgeKeeps, LookKeeps, ApplyDeploymentKeeps, ApplyVolumeKeeps, DeleteKeeps,
       ConfirmKeeps, DeleteVolumeKeeps, GoneKeeps
  <2>4. CASE PodStarts \/ PodStops \/ VolumeGoes \/ Remember
    BY <2>4, PodKeeps, VolumeGoesKeeps, RememberKeeps
  <2>5. CASE UNCHANGED vars
    BY <2>5 DEF vars, IInv, Type, Volume, Commands, Knows
  <2> QED BY <2>1, <2>2, <2>3, <2>4, <2>5 DEF Next
<1> QED BY <1>1, InitIInv, PTL DEF Spec

(***************************************************************************)
(* The shape of the cluster and of the commands; MAG's pod always runs on  *)
(* a volume that is there.                                                 *)
(***************************************************************************)
THEOREM TypeCorrect == Spec => []TypeOK
<1>1. IInv => TypeOK
  <2> SUFFICES ASSUME IInv PROVE TypeOK
    OBVIOUS
  <2>1. ASSUME NEW t \in Terminals
        PROVE  /\ term[t].pc \in Stages /\ term[t].method \in {None} \cup Methods
               /\ term[t].target \in 0 .. volumes
    BY InCommand DEF Command, Knows, IInv, Type
  <2>2. volume.id \in 0 .. volumes
    BY DEF IInv, Type, Volume
  <2> QED BY <2>1, <2>2 DEF IInv, Type, Volume, TypeOK, Stages
<1> QED BY <1>1, Inductive, PTL

(***************************************************************************)
(* When `demo.sh purge mag` says that all MAG memories are deleted, they   *)
(* are, and no pod, up or second purge in another terminal brings one      *)
(* back into that volume.                                                  *)
(***************************************************************************)
THEOREM PurgedForGood == Spec => []PurgeIsFinal
<1>1. IInv => PurgeIsFinal
  <2> SUFFICES ASSUME IInv, NEW t \in Terminals, term[t].pc = "purged"
               PROVE  term[t].target \notin memories /\ volume.id # term[t].target
    BY DEF PurgeIsFinal
  <2>1. volume.id # term[t].target
    BY InCommand DEF Knows
  <2> QED BY <2>1 DEF IInv, Volume
<1> QED BY <1>1, Inductive, PTL

(***************************************************************************)
(* "only an explicit purge mag (with confirmation) deletes memories"       *)
(* (showcases/README.md:87), in every step of every terminal and of the    *)
(* cluster.                                                                *)
(***************************************************************************)
THEOREM OnlyPurgeForgets == Spec => MemoriesOutlive
<1> DEFINE A == /\ memories \ memories' \subseteq confirmed
                /\ volume.id \notin {None, volume'.id} => volume.id \in confirmed
<1>1. IInv /\ [Next]_vars => [A]_vars
  <2> SUFFICES ASSUME IInv, Next PROVE A
    OBVIOUS
  <2>1. CASE VolumeGoes
    <3>1. memories' = memories \ {volume.id} /\ volume.id \in confirmed
      BY <2>1 DEF VolumeGoes, IInv, Volume
    <3> QED BY <3>1
  <2>2. ASSUME NEW t \in Terminals, ApplyVolume(t) PROVE A
    <3>1. memories' = memories /\ (volume = NoVolume \/ volume' = volume)
      BY <2>2 DEF ApplyVolume
    <3>2. NoVolume.id = None
      BY DEF NoVolume
    <3> QED BY <3>1, <3>2
  <2>3. ASSUME NEW t \in Terminals, DeleteVolume(t) PROVE A
    <3>1. memories' = memories /\ volume'.id = volume.id
      BY <2>3 DEF DeleteVolume, IInv, Type
    <3> QED BY <3>1
  <2>4. CASE Remember
    <3>1. memories \subseteq memories' /\ volume' = volume
      BY <2>4 DEF Remember
    <3> QED BY <3>1
  <2>5. CASE PodStarts \/ PodStops
    <3>1. memories' = memories /\ volume' = volume
      BY <2>5 DEF PodStarts, PodStops
    <3> QED BY <3>1
  <2>6. ASSUME NEW t \in Terminals, NEW m \in Methods,
               Down(t, m) \/ \E force \in BOOLEAN : Up(t, m, force)
        PROVE  A
    <3>1. memories' = memories /\ volume' = volume
      BY <2>6 DEF Down, Up, Begin, Cluster
    <3> QED BY <3>1
  <2>7. ASSUME NEW t \in Terminals,
               \/ Purge(t) \/ Look(t) \/ ApplyDeployment(t) \/ Delete(t) \/ Confirm(t)
               \/ Gone(t) \/ Interrupt(t) \/ Report(t)
        PROVE  A
    <3>1. memories' = memories /\ volume' = volume
      BY <2>7 DEF Purge, Begin, Look, ApplyDeployment, Delete, Confirm, Gone, Interrupt, Report, Cluster
    <3> QED BY <3>1
  <2> HIDE DEF A
  <2> QED BY <2>1, <2>2, <2>3, <2>4, <2>5, <2>6, <2>7 DEF Next
<1> QED BY <1>1, Inductive, PTL DEF Spec, MemoriesOutlive
=============================================================================
