------------------------- MODULE PodVolumeBackupper --------------------------
(***************************************************************************)
(* What a backup looks at: pods, the claims they mount and the volumes the *)
(* claims are bound to, and the decisions that depend on them alone: which *)
(* items belong together, and how the data of a claim is to be copied.     *)
(* Items without data (priority classes, service accounts, custom          *)
(* resources) are left out.                                                *)
(***************************************************************************)
EXTENDS Naturals, FiniteSets, SequencesExt, Integers

CONSTANTS
    Pod, Claim, Volume,
    BoundTo,         \* the volume a claim is bound to
    Order,           \* the items in the order in which they are collected
    Worker,
    Clusters         \* the clusters, and the requests, that are looked at

Item == Pod \cup Claim \cup Volume

Approaches == {"none", "fs", "snapshot", "skip"}
Drivers == {"csi", "native", "other"}

ASSUME ItemsAssumption ==
    /\ IsFiniteSet(Pod) /\ IsFiniteSet(Claim)
    /\ Pod \cap Claim = {} /\ Pod \cap Volume = {} /\ Claim \cap Volume = {}
    /\ BoundTo \in [Claim -> Volume]
    /\ \A c, d \in Claim : BoundTo[c] = BoundTo[d] => c = d
    /\ Order \in Seq(Item) /\ ToSet(Order) = Item

\* Volumes to which no claim is bound are left out.
ASSUME BoundAssumption == \A v \in Volume : \E c \in Claim : BoundTo[c] = v

ASSUME ClustersAssumption ==
    Clusters \subseteq
        [mounts : [Pod -> SUBSET Claim],  \* the claims a pod mounts
         running : SUBSET Pod,
         hooks : [Pod -> {"none", "ok", "fails"}],  \* what they do, if any
         optIn : SUBSET Pod,       \* whose annotation lists their volumes
         policy : [Claim -> Approaches],  \* what the volume policies choose
         driver : [Claim -> Drivers],     \* what can take a snapshot
         excluded : SUBSET Item,   \* labelled velero.io/exclude-from-backup
         omitted : SUBSET Item,    \* that an item action leaves out
         ordered : SUBSET Item,    \* listed under orderedResources
         unread : SUBSET Item,     \* whose file cannot be read, or decoded
         unlisted : SUBSET Item,   \* whose item block action fails
         pool : SUBSET Worker]     \* the item block workers

VARIABLE cluster

Mounted(p) == cluster.mounts[p]
UsersOf(c) == {p \in Pod : c \in Mounted(p)}
ClaimOf(v) == CHOOSE c \in Claim : BoundTo[c] = v

\* Of a set of items the first is taken first.
IsFirst(i, S) ==
    i \in S /\ \E n \in DOMAIN Order :
                  Order[n] = i /\ \A m \in 1 .. n - 1 : Order[m] \notin S

\* The excluded items are passed over wherever they come from.
Included(i) == i \notin cluster.excluded

-----------------------------------------------------------------------------
(* What belongs to an item. *)

\* What an item's block action says has to be backed up in the same block; it
\* names nothing if it fails, as when the pods of a namespace cannot be listed.
RelatedItems_PodsLeft(i) ==
    IF i \in cluster.unlisted THEN <<>>
    ELSE IF i \in Pod THEN <<Mounted(i)>>
    ELSE IF i \in Claim THEN <<{BoundTo[i]}>> ELSE <<>>

\* A volume comes before the pods.
RelatedItems(i) ==
    IF i \in cluster.unlisted THEN <<>>
    ELSE IF i \in Pod THEN <<Mounted(i)>>
    ELSE IF i \in Claim
         THEN <<{BoundTo[i]}, UsersOf(i) \cap cluster.running>>
         ELSE <<>>

\* What is backed up along with an item.
AdditionalItems(i) ==
    IF i \in Pod THEN Mounted(i)
    ELSE IF i \in Claim THEN {BoundTo[i]} ELSE {}

-----------------------------------------------------------------------------
(* How the data of a claim is copied. *)

ShouldPerformFSBackupLegacy(p) == p \in cluster.optIn

ShouldPerformFSBackup(p, c) ==
    \/ cluster.policy[c] = "fs"
    \/ cluster.policy[c] = "none" /\ ShouldPerformFSBackupLegacy(p)

ShouldPerformSnapshot_PodsIgnored(c) ==
    cluster.policy[c] \in {"none", "snapshot"}

\* Any pod that mounts the claim counts, whether it is backed up or not.
ShouldPerformSnapshot(c) ==
    \/ cluster.policy[c] = "snapshot"
    \/ /\ cluster.policy[c] = "none"
       /\ ~\E p \in UsersOf(c) : ShouldPerformFSBackupLegacy(p)

-----------------------------------------------------------------------------
(* Item blocks. *)

SameKind(i, j) == \E K \in {Pod, Claim, Volume} : {i, j} \subseteq K

\* Neighbours that are ordered and of one kind share a block.
AddNextToBlock(n) ==
    /\ n < Len(Order)
    /\ {Order[n], Order[n + 1]} \subseteq cluster.ordered
    /\ SameKind(Order[n], Order[n + 1])

-----------------------------------------------------------------------------
(***************************************************************************)
(* The server's side of pod volume backups (PVBs): the indexer with the    *)
(* PVBs of the backup, the group that counts those without an end, the     *)
(* handler of the informer's updates, and the timeout with its cancels.    *)
(* The node agents, modelled in PodVolumeTransfers, are reduced to the phase *)
(* in which a PVB ends.                                                    *)
(***************************************************************************)
CONSTANTS
    Timely,          \* PVBs end before the timeout of the backup
    CancelsFail,     \* the call that cancels a PVB may fail
    MaxMishaps       \* bound: calls and actions that fail

ASSUME BackupperAssumption ==
    Timely \in BOOLEAN /\ CancelsFail \in BOOLEAN /\ MaxMishaps \in Nat

VARIABLES
    index,           \* pvbIndexer: the phase of each PVB as last seen
    objects,         \* the PVBs in the API server
    wg,              \* the group: PVBs without an end
    timeUp,          \* the context of the backup's PVBs is done
    mishaps

pvbVars == <<index, objects, wg, timeUp>>

PVB == Pod \X Claim
Final == {"Completed", "Failed", "Canceled"}
NoObject == [phase |-> "None", cancel |-> FALSE]

BackupperTypeOK ==
    /\ index \in [PVB -> {"None", "New"} \cup Final]
    /\ objects \in [PVB -> [phase : {"None", "New"} \cup Final,
                            cancel : BOOLEAN]]
    /\ wg \in 0 .. Cardinality(PVB)
    /\ timeUp \in BOOLEAN
    /\ mishaps \in 0 .. MaxMishaps

BackupperInit ==
    /\ index = [k \in PVB |-> "None"]
    /\ objects = [k \in PVB |-> NoObject]
    /\ wg = 0
    /\ timeUp = FALSE
    /\ mishaps = 0

\* n calls fail in this step.
Fails(n) ==
    /\ mishaps + n <= MaxMishaps
    /\ mishaps' = mishaps + n

Tracked == {k \in PVB : index[k] # "None"}
Open == {k \in Tracked : index[k] \notin Final}
Running == {k \in PVB : objects[k].phase = "New"}

-----------------------------------------------------------------------------
CreatePVB_StaysCounted(k, created) ==
    /\ index' = [index EXCEPT ![k] = "New"]
    /\ objects' = [objects EXCEPT ![k].phase = IF created THEN "New" ELSE @]
    /\ wg' = wg + 1
    /\ UNCHANGED timeUp

\* The PVB is in the indexer and counted before it is created; if it cannot
\* be created it is no longer counted, but stays in the indexer.  A call that
\* fails is taken not to have created it: one whose reply is lost would be
\* counted down here and again when the PVB ends.
CreatePVB(k, created) ==
    /\ index' = [index EXCEPT ![k] = "New"]
    /\ objects' = [objects EXCEPT ![k].phase = IF created THEN "New" ELSE @]
    /\ wg' = IF created THEN wg + 1 ELSE wg
    /\ UNCHANGED timeUp

\* A node agent brings a PVB to its end.
EndPVB(k) ==
    /\ k \in Running
    /\ \E phase \in {"Completed", "Failed"} \cup
                        {q \in {"Canceled"} : objects[k].cancel} :
           objects' = [objects EXCEPT ![k].phase = phase]
    /\ UNCHANGED <<index, wg, timeUp, mishaps>>

\* The informer reports the end of a PVB, possibly more than once.
UpdatePVB(k) ==
    /\ objects[k].phase \in Final
    /\ index' = [index EXCEPT ![k] = objects[k].phase]
    /\ wg' = IF index[k] \in Final THEN wg ELSE wg - 1
    /\ UNCHANGED <<objects, timeUp, mishaps>>

TimeOut ==
    /\ ~timeUp
    /\ Timely => Running = {}
    /\ timeUp' = TRUE
    /\ UNCHANGED <<index, objects, wg, mishaps>>

\* What is not known to have ended is cancelled; a PVB that does not exist
\* cannot be.  A call that fails is not repeated.
CancelPVBs ==
    \E lost \in SUBSET {k \in Open \cap Running : CancelsFail} :
        /\ Fails(Cardinality(lost))
        /\ objects' = [k \in PVB |->
                [objects[k] EXCEPT !.cancel =
                    @ \/ k \in (Open \cap Running) \ lost]]
        /\ UNCHANGED <<index, wg, timeUp>>

AllProcessed(pods) == \A k \in Open : k[1] \notin pods
=============================================================================
