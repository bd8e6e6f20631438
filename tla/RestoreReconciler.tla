--------------------------- MODULE RestoreReconciler ---------------------------
(***************************************************************************)
(* The restore controller (pkg/controller/restore_controller.go), with one *)
(* worker: it validates a new restore, runs it, stores what came of it and *)
(* moves it on, and it deletes the files of a restore that is being        *)
(* deleted.  The server's start marks what was running as failed           *)
(* (pkg/cmd/server/server.go).                                             *)
(***************************************************************************)
EXTENDS RestoreItems

VARIABLES
    lost,    \* of each restore, what a failed call or a restart took with it
    hadErrs  \* the restores whose run met an error

reconcilerVars == <<lost, hadErrs>>

Losses == {"list", "failure", "hooks", "phase"}

ReconcilerTypeOK ==
    /\ lost \in [Restores -> SUBSET Losses]
    /\ hadErrs \subseteq Restores

ReconcilerInit ==
    /\ lost = [r \in Restores |-> {}]
    /\ hadErrs = {}

Loses(r, what) == lost' = [lost EXCEPT ![r] = @ \cup {what}]

WorkerFree == run.at = "idle"

-----------------------------------------------------------------------------

(***************************************************************************)
(* The progress of a list of operations, as the plugins tell it.  A plugin *)
(* may fail to answer, which fails the operation.                          *)
(***************************************************************************)
Answers(r, i) ==
    CASE progress[r][i] = "running" -> {"InProgress", "Failed"}
      [] progress[r][i] = "succeeded" -> {"Completed", "Failed"}
      [] OTHER -> {"Failed"}

Polled(r, list) ==
    {new \in [Items -> OpPhases] :
        \A i \in Items : new[i] \in IF list[i] = "InProgress"
                                    THEN Answers(r, i) ELSE {list[i]}}

NewFailure(list, new) == \E i \in Items : new[i] = "Failed" /\ list[i] # "Failed"

PhaseFor(failed, waits) ==
    IF waits
    THEN IF failed THEN "WaitingForPluginOperationsPartiallyFailed"
         ELSE "WaitingForPluginOperations"
    ELSE IF failed THEN "FinalizingPartiallyFailed" ELSE "Finalizing"

-----------------------------------------------------------------------------

(***************************************************************************)
(* Reconcile.                                                              *)
(***************************************************************************)

\* A restore that cannot be validated is refused; one whose backup is gone
\* cannot be.
Refuse(r) ==
    /\ WorkerFree
    /\ Reads("restore", r, {"New"})
    /\ ~seen[r].deleting
    /\ Exists(r)
    /\ restores' = [restores EXCEPT ![r] =
           [phase |-> "FailedValidation", deleting |-> @.deleting,
            finalizer |-> TRUE]]
    /\ unseen' = [unseen EXCEPT ![r] = @ \cup {"restore"}]
    /\ UNCHANGED <<seen, backup, lists, progress, mishaps, hookVars, itemVars,
                   reconcilerVars>>

\* The restore is valid: it is patched to be in progress, and runs.
Start(r) ==
    /\ WorkerFree
    /\ Reads("restore", r, {"New"})
    /\ ~seen[r].deleting
    /\ Exists(r)
    /\ backup = "usable"
    /\ restores' = [restores EXCEPT ![r] =
           [phase |-> "InProgress", deleting |-> @.deleting,
            finalizer |-> TRUE]]
    /\ unseen' = [unseen EXCEPT ![r] = @ \cup {"restore"}]
    /\ run' = RunOf(r, Items)
    /\ cancelled' = cancelled \ {r}
    /\ UNCHANGED <<seen, backup, lists, progress, mishaps, tracker, handler,
                   pod, ran, cluster, unbound, volume, reconcilerVars>>

\* The backup cannot be fetched before the first item, or the store cannot
\* be reached before it or after the last: the restore fails.
RunFails ==
    LET first == run.at = "items" /\ run.todo = Items /\ run.stack = <<>> IN
    /\ \/ first /\ backup = "gone" /\ UNCHANGED mishaps
       \/ (first \/ ItemsDone) /\ Mishap
    /\ run' = [run EXCEPT !.at = "patch", !.phase = "Failed"]
    /\ hadErrs' = hadErrs \cup {run.r}
    /\ UNCHANGED <<restores, seen, unseen, backup, lists, progress, hookVars,
                   cluster, unbound, volume, lost>>

\* The items are done: the operations are polled once, and the results and
\* the list of the operations are stored.  A failed upload of the log is an
\* error of the restore; the others are logged.
FinishRun(stored) ==
    LET r == run.r IN
    /\ ItemsDone
    /\ \E new \in Polled(r, run.list), log \in BOOLEAN :
           LET failed == run.errs \/ NewFailure(run.list, new) \/ ~log IN
           /\ IF stored /\ log THEN UNCHANGED mishaps ELSE Mishap
           /\ lists' = [lists EXCEPT ![r] = IF stored THEN new ELSE @]
           /\ IF stored \/ new = NoOperations THEN UNCHANGED lost
              ELSE Loses(r, "list")
           /\ hadErrs' = IF failed THEN hadErrs \cup {r} ELSE hadErrs
           /\ run' = [run EXCEPT !.at = "patch", !.list = new,
                          !.phase = PhaseFor(failed, StillInProgress(new))]
    /\ UNCHANGED <<restores, seen, unseen, backup, progress, hookVars,
                   cluster, unbound, volume>>

\* The last patch is tried until it is made or given up.
EndRun ==
    /\ run.at = "patch"
    /\ \/ /\ PatchPhase("restore", run.r, run.phase)
          /\ UNCHANGED <<mishaps, lost>>
       \/ /\ Mishap
          /\ Loses(run.r, "phase")
          /\ UNCHANGED <<restores, unseen>>
    /\ run' = NotRunning
    /\ UNCHANGED <<seen, backup, lists, progress, hookVars, cluster, unbound,
                   volume, hadErrs>>

\* A restore that is being deleted: its files go, if its backup is there to
\* tell where they are; then the finalizer, and the object with it.
DeleteExternalResources(r) ==
    /\ WorkerFree
    /\ Reads("restore", r, Phases)
    /\ seen[r].deleting
    /\ seen[r].finalizer
    /\ Exists(r)
    /\ lists' = [lists EXCEPT ![r] = IF backup = "gone" THEN @
                                     ELSE NoOperations]
    /\ \/ /\ restores' = [restores EXCEPT ![r] = Gone]
          /\ UNCHANGED <<mishaps, lost>>
       \/ /\ Mishap
          /\ Loses(r, "list")
          /\ UNCHANGED restores
    /\ UNCHANGED <<seen, unseen, backup, progress, hookVars, itemVars,
                   hadErrs>>

ReconcilerStep ==
    \/ \E r \in Restores : Refuse(r) \/ Start(r) \/ DeleteExternalResources(r)
    \/ RunFails
    \/ \E stored \in BOOLEAN : FinishRun(stored)
    \/ EndRun
=============================================================================
