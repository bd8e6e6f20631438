---------------------------- MODULE RestoreLifecycle ----------------------------
(***************************************************************************)
(* Restores from their creation to their end: the three controllers, the   *)
(* restoring of the items, the goroutines of the pods, users who delete,   *)
(* failed calls, and a server that restarts.                               *)
(***************************************************************************)
EXTENDS RestoreOperations

vars == <<requestVars, hookVars, itemVars, reconcilerVars, opsMap, fin>>

TypeOK ==
    /\ RequestsTypeOK
    /\ HooksTypeOK
    /\ ItemsTypeOK
    /\ ReconcilerTypeOK
    /\ OperationsTypeOK
    /\ FinalizerTypeOK

Init ==
    /\ RequestsInit
    /\ HooksInit
    /\ ItemsInit
    /\ ReconcilerInit
    /\ OperationsInit
    /\ FinalizerInit

-----------------------------------------------------------------------------

(***************************************************************************)
(* The server restarts.  Memory is gone: the goroutines of the pods, the   *)
(* tracker and the map of operations too.  Before the controllers start,   *)
(* restores in progress are marked as failed, unless that call fails, and  *)
(* their volume restores are cancelled.                                    *)
(***************************************************************************)
Restart ==
    /\ Mishap
    /\ \/ /\ restores' = [r \in Restores |->
                 IF restores[r].phase = "InProgress"
                 THEN [restores[r] EXCEPT !.phase = "Failed"]
                 ELSE restores[r]]
       \/ UNCHANGED restores
    /\ seen' = restores'
    /\ unseen' = [r \in Restores |-> {}]
    /\ lost' = [r \in Restores |->
           lost[r] \cup (IF tracker[r] # NotTracked \/ fin.r = r
                         THEN {"hooks"} ELSE {})
                   \cup (IF restores'[r].phase = "InProgress"
                         THEN {"phase"} ELSE {})]
    /\ tracker' = [r \in Restores |-> NotTracked]
    /\ handler' = [p \in Pods |-> NoHandler]
    /\ cancelled' = {}
    /\ run' = NotRunning
    /\ volume' = [p \in Pods |-> IF volume[p] = "restoring" THEN "failed"
                                 ELSE volume[p]]
    /\ opsMap' = [r \in Restores |-> NoEntry]
    /\ fin' = FinIdle
    /\ UNCHANGED <<backup, lists, progress, pod, ran, cluster, unbound,
                   hadErrs>>

-----------------------------------------------------------------------------

(***************************************************************************)
(* The parts, each of which leaves the others' state alone.                *)
(***************************************************************************)
EnvironmentStep(A) ==
    A /\ UNCHANGED <<hookVars, itemVars, reconcilerVars, opsMap, fin>>

HooksStep(A) ==
    /\ A
    /\ UNCHANGED <<restores, seen, unseen, backup, lists, progress, itemVars,
                   reconcilerVars, opsMap, fin>>

ItemsStep(A) == A /\ UNCHANGED <<reconcilerVars, opsMap, fin>>

RestoreStep(A) == A /\ UNCHANGED <<opsMap, fin>>

Next ==
    \/ \E r \in Restores :
          \/ EnvironmentStep(Deliver(r))
          \/ EnvironmentStep(Create(r))
          \/ EnvironmentStep(Delete(r))
          \/ EnvironmentStep(\E i \in Items : OperationEnds(r, i))
          \/ OperationsStep(r) /\ UNCHANGED fin
    \/ EnvironmentStep(BackupGoes)
    \/ \E p \in Pods :
          \/ HooksStep(MayStart(p) /\ ContainerUp(p) /\ UNCHANGED mishaps)
          \/ HooksStep(HandlerStep(p) /\ UNCHANGED mishaps)
          \/ HooksStep(PodEnds(p) /\ Mishap)
          \/ ItemsStep(VolumeEnds(p))
    \/ ItemsStep(ItemStep)
    \/ RestoreStep(ReconcilerStep)
    \/ FinalizerStep
    \/ Restart

Spec == Init /\ [][Next]_vars

-----------------------------------------------------------------------------

(***************************************************************************)
(* Properties.                                                             *)
(***************************************************************************)

\* A restore that is Completed has had no error, its operations have all
\* succeeded and its hooks have all run without a failure, unless a failed
\* call or a restart took just that with it.
CompletedIsTrue ==
    \A r \in Restores :
        restores[r].phase = "Completed" =>
            /\ r \notin hadErrs
            /\ lost[r] \cap {"list", "failure"} = {} =>
                   \A i \in Items : progress[r][i] \in {"none", "succeeded"}
            /\ "hooks" \notin lost[r] =>
                   \A p \in Pods : cluster[p] = r =>
                       \A h \in HooksIn(p) : ran[h] = "ok"

\* Within a restore no call of restoreItem is inside another for the same
\* item: additional items that refer back to an item end.
NoItemTwice ==
    \A m, n \in DOMAIN run.stack :
        m # n => run.stack[m].item # run.stack[n].item

\* A claim whose volume is to be provisioned anew is created without the name
\* of that volume, which will never exist, or the restore shows an error.
ClaimsFindVolumes ==
    \A i \in Items :
        run.result[i] = "Created" /\ ClaimOf[i] \in Reprovision \ Excluded =>
            i \in unbound \/ run.errs

\* What goes on by itself.  No part of it can be repeated for ever.
Progress ==
    \/ \E r \in Restores :
          \/ EnvironmentStep(Deliver(r))
          \/ EnvironmentStep(\E i \in Items : OperationEnds(r, i))
          \/ OperationsStep(r) /\ UNCHANGED fin
    \/ ItemsStep(\E p \in Pods : VolumeEnds(p))
    \/ ItemsStep(ItemStep)
    \/ RestoreStep(ReconcilerStep)
    \/ FinalizerStep

\* A restore never waits for what its pods and hooks may owe it for ever:
\* when nothing else can go on, every restore has ended, or its last patch
\* was given up.
NoneStuck ==
    \/ ENABLED Progress
    \/ \A r \in Restores :
           \/ restores[r].phase \in EndPhases \cup {"Absent", "Gone"}
           \/ "phase" \in lost[r]
=============================================================================
