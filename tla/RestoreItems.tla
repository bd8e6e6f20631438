----------------------------- MODULE RestoreItems -----------------------------
(***************************************************************************)
(* The restoring of a backup's items (pkg/restore/restore.go): one item    *)
(* after the other, each with the additional items its actions return      *)
(* first, and in the background the volumes of the restored pods           *)
(* (pkg/podvolume/restorer.go) and their hooks.  One restore runs at a     *)
(* time.                                                                   *)
(***************************************************************************)
EXTENDS RestoreHooks

CONSTANTS
    Extra,        \* the additional items that the actions of an item return
    Asynchronous, \* the items with an action that starts an operation
    Excluded,     \* the items that the restore's filters exclude
    InCluster,    \* the items that the cluster may have already
    HasVolume,    \* the pods with a volume to restore from its backup
    Reprovision,  \* the volumes to provision anew instead of restoring them
    ClaimOf,      \* of a claim, its volume; of another item, NoItem
    Priority,     \* the rank of each item's resource in the priority list
    NoItem

ASSUME ItemsAssumption ==
    /\ Extra \in [Items -> Seq(Items)]
    /\ Asynchronous \subseteq Items
    /\ Excluded \subseteq Items
    /\ InCluster \subseteq Items
    /\ HasVolume \subseteq Pods
    /\ Reprovision \subseteq Items \ Pods
    /\ NoItem \notin Items
    /\ ClaimOf \in [Items -> Items \cup {NoItem}]
    /\ Priority \in [Items -> Nat]
    /\ "before" \notin Restores \cup {NoRestore}

VARIABLES
    run,      \* the restore that runs: what is left of it and what it did
    cluster,  \* which restore created an item, or that it was there before
    unbound,  \* the claims created without the name of their volume
    volume    \* the volume of each restored pod

itemVars == <<run, cluster, unbound, volume>>

\* What became of an item in this restore; "Pending" from the moment it is
\* taken.
Results == {"No", "Pending", "Created", "Skipped", "Failed"}

\* A frame is one call of restoreItem: its item, how far it is, and the
\* additional items it has not asked for yet.
Frame(i, at, extras) == [item |-> i, at |-> at, extras |-> extras]

Frames == [item : Items, at : {"actions", "extras"}, extras : Seq(Items)]

RunOf(r, todo) ==
    [r |-> r, at |-> "items", todo |-> todo, stack |-> <<>>,
     result |-> [i \in Items |-> "No"], provision |-> {},
     list |-> NoOperations, errs |-> FALSE, phase |-> "InProgress"]

NotRunning == [RunOf(NoRestore, {}) EXCEPT !.at = "idle"]

ItemsTypeOK ==
    /\ run \in [r : Restores \cup {NoRestore}, at : {"idle", "items", "patch"},
                todo : SUBSET Items, stack : Seq(Frames),
                result : [Items -> Results], provision : SUBSET Items,
                list : [Items -> OpPhases], errs : BOOLEAN, phase : Phases]
    /\ cluster \in [Items -> Restores \cup {NoRestore, "before"}]
    /\ unbound \subseteq Items
    /\ volume \in [Pods -> {"none", "restoring", "restored", "failed"}]

ItemsInit ==
    /\ run = NotRunning
    /\ \E before \in SUBSET InCluster :
           cluster = [i \in Items |-> IF i \in before THEN "before"
                                     ELSE NoRestore]
    /\ unbound = {}
    /\ volume = [p \in Pods |-> "none"]

-----------------------------------------------------------------------------

(***************************************************************************)
(* restoreItem.                                                            *)
(***************************************************************************)
Top == Head(run.stack)

Running == run.at = "items" /\ run.stack # <<>>

\* The call ends, and leaves a result unless it set one itself.
Return(result, errs) ==
    [run EXCEPT !.stack = Tail(@),
                !.result[Top.item] = result,
                !.errs = @ \/ errs]

Enter(rn, i) ==
    IF i \in Excluded \/ rn.result[i] # "No" THEN rn
    ELSE [rn EXCEPT !.result[i] = "Pending",
                    !.stack = <<Frame(i, "actions", Extra[i])>> \o @]

\* execute and processSelectedResource: an item of the first resource in the
\* priority list that is left.  Its namespace may be out of reach.
NextItem(i) ==
    LET rn == [run EXCEPT !.todo = @ \ {i}] IN
    /\ run.at = "items"
    /\ run.stack = <<>>
    /\ i \in run.todo
    /\ \A j \in run.todo : Priority[i] <= Priority[j]
    /\ run' \in {Enter(rn, i), [rn EXCEPT !.errs = TRUE]}
    /\ UNCHANGED <<requestVars, hookVars, cluster, unbound, volume>>

RememberVolume_Forgets ==
    /\ Running
    /\ Top.at = "actions"
    /\ Top.item \in Reprovision
    /\ run' = Return("Skipped", FALSE)
    /\ UNCHANGED <<requestVars, hookVars, cluster, unbound, volume>>

\* A volume that is to be provisioned anew is only remembered.
RememberVolume ==
    /\ Running
    /\ Top.at = "actions"
    /\ Top.item \in Reprovision
    /\ run' = [Return("Skipped", FALSE) EXCEPT !.provision = @ \cup {Top.item}]
    /\ UNCHANGED <<requestVars, hookVars, cluster, unbound, volume>>

\* The actions of an item run.  They may start an operation, return
\* additional items, discard the item, or fail, an operation started or not.
RunActions ==
    LET i == Top.item
        started(begins) ==
            [run.list EXCEPT ![i] = IF begins THEN "InProgress" ELSE @]
    IN
    /\ Running
    /\ Top.at = "actions"
    /\ i \notin Reprovision
    /\ \E begins \in BOOLEAN :
           /\ begins => i \in Asynchronous
           /\ \/ run' = [Return("Failed", TRUE) EXCEPT !.list = started(begins)]
              \/ /\ i \in Asynchronous => begins
                 /\ \/ run' = [Return("Skipped", FALSE) EXCEPT
                                   !.list = started(begins)]
                    \/ run' = [run EXCEPT !.stack[1].at = "extras",
                                          !.list = started(begins)]
           /\ progress' = IF begins
                          THEN [progress EXCEPT ![run.r][i] = "running"]
                          ELSE progress
    /\ UNCHANGED <<restores, seen, unseen, backup, lists, mishaps, hookVars,
                   cluster, unbound, volume>>

\* The next additional item, before the item itself.
NextExtra ==
    LET rn == [run EXCEPT !.stack[1].extras = Tail(@)] IN
    /\ Running
    /\ Top.at = "extras"
    /\ Top.extras # <<>>
    /\ run' \in {Enter(rn, Head(Top.extras)), [rn EXCEPT !.errs = TRUE]}
    /\ UNCHANGED <<requestVars, hookVars, cluster, unbound, volume>>

\* The item cannot be created; or it exists, and is left as it is or
\* patched.
DoNotCreate ==
    /\ Running
    /\ Top.at = "extras"
    /\ Top.extras = <<>>
    /\ \/ run' = Return("Failed", TRUE)
       \/ cluster[Top.item] # NoRestore /\ run' = Return("Skipped", FALSE)
    /\ UNCHANGED <<requestVars, hookVars, cluster, unbound, volume>>

\* The item is created.  A claim loses the name of a volume that is to be
\* provisioned.  A pod's volume and hooks go on in the background, unless an
\* error comes first.
CreateItem(errs, goesOn) ==
    LET i == Top.item IN
    /\ goesOn \/ errs
    /\ Running
    /\ Top.at = "extras"
    /\ Top.extras = <<>>
    /\ cluster[i] = NoRestore
    /\ run' = Return("Created", errs)
    /\ cluster' = [cluster EXCEPT ![i] = run.r]
    /\ unbound' = IF ClaimOf[i] \in run.provision THEN unbound \cup {i}
                  ELSE unbound
    /\ IF i \in Pods
       THEN /\ IF goesOn THEN StartHooks(run.r, i)
               ELSE UNCHANGED <<tracker, handler>>
            /\ pod' = [pod EXCEPT ![i] = "created"]
            /\ volume' = [volume EXCEPT ![i] =
                              IF i \in HasVolume /\ goesOn
                              THEN "restoring" ELSE @]
       ELSE UNCHANGED <<tracker, handler, pod, volume>>
    /\ UNCHANGED <<requestVars, cancelled, ran>>

ItemStep ==
    \/ \E i \in Items : NextItem(i)
    \/ RememberVolume
    \/ RunActions
    \/ NextExtra
    \/ DoNotCreate
    \/ \E errs, goesOn \in BOOLEAN : CreateItem(errs, goesOn)

-----------------------------------------------------------------------------

(***************************************************************************)
(* RestorePodVolumes: the pod's volume restores end, are cancelled or time *)
(* out; the restore waits for them all.  The pod's init container waits    *)
(* for a volume that is restored, and for ever for one that is not.        *)
(***************************************************************************)
VolumeEnds(p) ==
    /\ volume[p] = "restoring"
    /\ \E end \in {"restored", "failed"} :
           volume' = [volume EXCEPT ![p] = end]
    /\ run' = [run EXCEPT !.errs = @ \/ volume'[p] = "failed"]
    /\ UNCHANGED <<requestVars, hookVars, cluster, unbound>>

MayStart(p) == p \in HasVolume => volume[p] = "restored"

ItemsDone ==
    /\ run.at = "items"
    /\ run.todo = {}
    /\ run.stack = <<>>
    /\ \A p \in Pods : volume[p] # "restoring"
=============================================================================
