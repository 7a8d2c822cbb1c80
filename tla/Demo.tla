--------------------------------- MODULE Demo ---------------------------------
(***************************************************************************)
(* The showcase manager (showcases/demo.sh): up, down and purge, run from  *)
(* several terminals against one cluster.  The script keeps no state and   *)
(* takes no lock: up looks for an active showcase with kubectl get and     *)
(* then applies the manifests, down deletes deployment.yaml, purge deletes *)
(* MAG's volume claim and waits for it to go.  Every kubectl may fail.     *)
(*                                                                         *)
(* The cluster is external: it starts MAG's pod while there is a           *)
(* Deployment and the claim is bound, stops it after the Deployment is     *)
(* gone, and removes a claim that was deleted once no pod uses it.         *)
(* status, port-forward and usage errors change nothing and are left out.  *)
(***************************************************************************)
EXTENDS Naturals, FiniteSets, FiniteSetsExt

CONSTANTS
    Terminals,
    MaxCommands,   \* bound on the commands ever started
    MaxVolumes     \* bound on the volumes ever made

ASSUME DemoAssumption ==
    /\ MaxCommands \in Nat /\ MaxVolumes \in Nat

\* In the order in which kubectl lists ag-cag, ag-mag, ag-tag.
Cag == 1
Mag == 2
Tag == 3
Methods == {Cag, Mag, Tag}
None == 0

VARIABLES
    active,     \* the showcases that have a Deployment
    pod,        \* MAG's pod runs
    volume,     \* MAG's claim: the number of the volume (None: no claim), and
                \* whether it was deleted and waits for the pod to let it go
    memories,   \* the volumes that hold memories
    confirmed,  \* history: the volumes someone has agreed to delete
    term,       \* terminal -> its command
    commands, volumes

vars == <<active, pod, volume, memories, confirmed, term, commands, volumes>>

NoVolume == [id |-> None, deleted |-> FALSE]

(***************************************************************************)
(* A command: where it is, its arguments, and for a purge the volume it    *)
(* waits for.  History: sure, the user has agreed.                         *)
(***************************************************************************)
Prompt == [pc |-> "prompt", method |-> None, force |-> FALSE, target |-> None,
           sure |-> FALSE]

Init ==
    /\ active = {}
    /\ pod = FALSE
    /\ volume = NoVolume
    /\ memories = {}
    /\ confirmed = {}
    /\ term = [t \in Terminals |-> Prompt]
    /\ commands = 0
    /\ volumes = 0

Cluster == <<active, pod, volume, memories, confirmed, volumes>>

Begin(t, command) ==
    /\ term[t].pc = "prompt"
    /\ commands < MaxCommands
    /\ commands' = commands + 1
    /\ term' = [term EXCEPT ![t] = command]
    /\ UNCHANGED Cluster

Up(t, m, force) ==
    Begin(t, [Prompt EXCEPT !.pc = "look", !.method = m, !.force = force])

Down(t, m) == Begin(t, [Prompt EXCEPT !.pc = "delete", !.method = m])

Purge(t) == Begin(t, [Prompt EXCEPT !.pc = "ask", !.method = Mag])

\* Success or not, the command is over.
Return(t) == term' = [term EXCEPT ![t] = Prompt]
Step(t, pc) == term' = [term EXCEPT ![t].pc = pc]

-----------------------------------------------------------------------------
\* active_showcase: the first in the list, or none, also when kubectl get fails.
Current == {None} \cup (IF active = {} THEN {} ELSE {Min(active)})

MayApply(t, current) == current \in {None, term[t].method} \/ term[t].force

Look(t) ==
    /\ term[t].pc = "look"
    /\ \E current \in Current :
          IF MayApply(t, current) THEN Step(t, "apply") ELSE Return(t)
    /\ UNCHANGED <<Cluster, commands>>

\* kubectl apply goes on with the next file when one fails.
ApplyDeployment(t) ==
    /\ term[t].pc = "apply"
    /\ active' = active \cup {term[t].method} \/ UNCHANGED active
    /\ IF term[t].method = Mag THEN Step(t, "apply_volume") ELSE Return(t)
    /\ UNCHANGED <<pod, volume, memories, confirmed, commands, volumes>>

\* A claim that is there stays as it is, even if it is about to go.
ApplyVolume(t) ==
    /\ term[t].pc = "apply_volume"
    /\ \/ /\ volume = NoVolume /\ volumes < MaxVolumes
          /\ volumes' = volumes + 1
          /\ volume' = [id |-> volumes + 1, deleted |-> FALSE]
       \/ UNCHANGED <<volume, volumes>>
    /\ Return(t)
    /\ UNCHANGED <<active, pod, memories, confirmed, commands>>

\* Faulty variant: the whole directory, as `up` applies it.
DeleteDirectory(t) ==
    /\ term[t].pc = "delete"
    /\ \/ /\ active' = active \ {term[t].method}
          /\ volume' = IF term[t].method = Mag /\ volume # NoVolume
                       THEN [volume EXCEPT !.deleted = TRUE] ELSE volume
       \/ UNCHANGED <<active, volume>>
    /\ Return(t)
    /\ UNCHANGED <<pod, memories, confirmed, commands, volumes>>

\* kubectl delete -f deployment.yaml; an error when there is none.
Delete(t) ==
    /\ term[t].pc = "delete"
    /\ active' = active \ {term[t].method} \/ UNCHANGED active
    /\ Return(t)
    /\ UNCHANGED <<pod, volume, memories, confirmed, commands, volumes>>

\* --yes, or the answer to the question: anything but y, Y and yes keeps them.
Confirm(t) ==
    /\ term[t].pc = "ask"
    /\ \/ term' = [term EXCEPT ![t].pc = "delete_volume", ![t].sure = TRUE]
       \/ Return(t)
    /\ UNCHANGED <<Cluster, commands>>

\* kubectl delete pvc: an error when there is none.
DeleteVolume(t) ==
    /\ term[t].pc = "delete_volume"
    /\ \/ /\ volume # NoVolume
          /\ volume' = [volume EXCEPT !.deleted = TRUE]
          /\ confirmed' = confirmed \cup {volume.id}
          /\ term' = [term EXCEPT ![t].pc = "wait", ![t].target = volume.id]
       \/ Return(t) /\ UNCHANGED <<volume, confirmed>>
    /\ UNCHANGED <<active, pod, memories, commands, volumes>>

\* Faulty variant: it does not wait.
GoneAtOnce(t) ==
    /\ term[t].pc = "wait"
    /\ Step(t, "purged")
    /\ UNCHANGED <<Cluster, commands>>

\* ... which waits for the claim to go, or is interrupted.
Gone(t) ==
    /\ term[t].pc = "wait" /\ volume.id # term[t].target
    /\ Step(t, "purged")
    /\ UNCHANGED <<Cluster, commands>>

Interrupt(t) ==
    /\ term[t].pc = "wait"
    /\ Return(t)
    /\ UNCHANGED <<Cluster, commands>>

\* "all MAG memories deleted."
Report(t) ==
    /\ term[t].pc = "purged"
    /\ Return(t)
    /\ UNCHANGED <<Cluster, commands>>

-----------------------------------------------------------------------------
(* The cluster.                                                            *)

PodStarts ==
    /\ ~ pod /\ Mag \in active /\ volume # NoVolume /\ ~ volume.deleted
    /\ pod' = TRUE
    /\ UNCHANGED <<active, volume, memories, confirmed, term, commands, volumes>>

\* With its Deployment, or to be started again.
PodStops ==
    /\ pod
    /\ pod' = FALSE
    /\ UNCHANGED <<active, volume, memories, confirmed, term, commands, volumes>>

VolumeGoes ==
    /\ volume.deleted /\ ~ pod
    /\ volume' = NoVolume
    /\ memories' = memories \ {volume.id}
    /\ UNCHANGED <<active, pod, confirmed, term, commands, volumes>>

\* MAG stores a memory.
Remember ==
    /\ pod
    /\ memories' = memories \cup {volume.id}
    /\ UNCHANGED <<active, pod, volume, confirmed, term, commands, volumes>>

Next ==
    \/ \E t \in Terminals :
          \/ \E m \in Methods : Down(t, m) \/ \E force \in BOOLEAN : Up(t, m, force)
          \/ Purge(t)
          \/ Look(t) \/ ApplyDeployment(t) \/ ApplyVolume(t) \/ Delete(t)
          \/ Confirm(t) \/ DeleteVolume(t) \/ Gone(t) \/ Interrupt(t) \/ Report(t)
    \/ PodStarts \/ PodStops \/ VolumeGoes \/ Remember

Spec == Init /\ [][Next]_vars

-----------------------------------------------------------------------------
\* Shape of the state; MAG's pod holds on to the volume.
TypeOK ==
    /\ active \subseteq Methods
    /\ volume.id \in 0 .. volumes /\ volumes \in 0 .. MaxVolumes
    /\ memories \cup confirmed \subseteq 1 .. volumes
    /\ pod => volume.id # None
    /\ \A t \in Terminals :
          /\ term[t].pc \in {"prompt", "look", "apply", "apply_volume", "delete", "ask",
                             "delete_volume", "wait", "purged"}
          /\ term[t].method \in {None} \cup Methods /\ term[t].target \in 0 .. volumes

(***************************************************************************)
(* "up refuses to start a second showcase unless --force is given"         *)
(* (showcases/README.md:84): while a showcase is active another one        *)
(* becomes so only by an up that was forced.                               *)
(***************************************************************************)
OneAtATime ==
    [][\A m \in active' \ active : active # {} =>
          \E t \in Terminals : term[t].pc = "apply" /\ term[t].method = m /\ term[t].force]_vars

(***************************************************************************)
(* "only an explicit purge mag (with confirmation) deletes memories"       *)
(* (showcases/README.md:87): whatever up, down and purge do in whichever   *)
(* terminals, forced, failing or interrupted, stored memories vanish only  *)
(* with a volume someone has agreed to delete, and no new volume takes the *)
(* place of one that no one has.                                           *)
(***************************************************************************)
MemoriesOutlive ==
    [][/\ memories \ memories' \subseteq confirmed
       /\ volume.id \notin {None, volume'.id} => volume.id \in confirmed]_vars

(***************************************************************************)
(* When purge says "all MAG memories deleted." they are, and stay so: not  *)
(* even a pod that was running when the purge was confirmed can have kept  *)
(* or written one in that volume.                                          *)
(***************************************************************************)
PurgeIsFinal ==
    \A t \in Terminals : term[t].pc = "purged" =>
        term[t].target \notin memories /\ volume.id # term[t].target
=============================================================================
