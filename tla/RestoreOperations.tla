-------------------------- MODULE RestoreOperations --------------------------
(***************************************************************************)
(* The restore operations controller                                       *)
(* (pkg/controller/restore_operations_controller.go) and its in-memory map *)
(* of operations (pkg/itemoperationmap/restore_operation_map.go).  One     *)
(* worker polls, once a period, the operations of the restores that wait   *)
(* for them.                                                               *)
(***************************************************************************)
EXTENDS RestoreReconciler

VARIABLE opsMap  \* the entry of each restore: what is known of its
                 \* operations, and whether errors are not uploaded yet

Entry(list, errs) == [list |-> list, errs |-> errs]

NoEntry == Entry(NoOperations, FALSE)

OperationsTypeOK ==
    opsMap \in [Restores -> [list : [Items -> OpPhases], errs : BOOLEAN]]

OperationsInit == opsMap = [r \in Restores |-> NoEntry]

\* GetOperationsForRestore: an entry without operations is read from the
\* store.
Known(r) == IF opsMap[r].list = NoOperations THEN Entry(lists[r], FALSE)
            ELSE opsMap[r]

\* Without operations left the restore is finalized; errors that are not
\* uploaded yet make it partially failed from here on.
NextPhase(phase, entry) ==
    PhaseFor(entry.errs \/ phase = "WaitingForPluginOperationsPartiallyFailed",
             StillInProgress(entry.list))

-----------------------------------------------------------------------------

Polls(r) == Reads("operations", r, WaitingPhases)

\* The backup is gone: the restore is finalized as partially failed.
BackupMissing(r) ==
    /\ Polls(r)
    /\ backup = "gone"
    /\ PatchPhase("operations", r, "FinalizingPartiallyFailed")
    /\ opsMap' = [opsMap EXCEPT ![r] = NoEntry]
    /\ UNCHANGED <<seen, backup, lists, progress, mishaps, hookVars, itemVars,
                   reconcilerVars>>

PolledEntry(r, new) ==
    Entry(new, Known(r).errs \/ NewFailure(Known(r).list, new))

\* Nothing to tell: progress stays in memory.
KeepWaiting(r) ==
    /\ Polls(r)
    /\ backup = "usable"
    /\ \E new \in Polled(r, Known(r).list) :
           LET entry == PolledEntry(r, new) IN
           /\ StillInProgress(new)
           /\ ~entry.errs
           /\ opsMap' = [opsMap EXCEPT ![r] = entry]
    /\ UNCHANGED <<requestVars, hookVars, itemVars, reconcilerVars>>

\* Errors, or no operation left: the list is uploaded, the errors count as
\* told, and the restore is patched.
TellProgress(r) ==
    /\ Polls(r)
    /\ backup = "usable"
    /\ \E new \in Polled(r, Known(r).list) :
           LET entry == PolledEntry(r, new)
               phase == NextPhase(seen[r].phase, entry)
           IN
           /\ entry.errs \/ ~StillInProgress(new)
           /\ Exists(r)
           /\ lists' = [lists EXCEPT ![r] = IF new = NoOperations THEN @
                                            ELSE new]
           /\ PatchPhase("operations", r, phase)
           /\ opsMap' = [opsMap EXCEPT ![r] =
                  IF phase \in FinalizingPhases THEN NoEntry
                  ELSE Entry(new, FALSE)]
    /\ UNCHANGED <<seen, backup, progress, mishaps, hookVars, itemVars,
                   reconcilerVars>>

\* The upload fails: the entry keeps the errors.
UploadFails(r) ==
    /\ Polls(r)
    /\ backup = "usable"
    /\ Mishap
    /\ \E new \in Polled(r, Known(r).list) :
           LET entry == PolledEntry(r, new) IN
           /\ entry.errs \/ ~StillInProgress(new)
           /\ opsMap' = [opsMap EXCEPT ![r] =
                  IF new # Known(r).list THEN entry ELSE Known(r)]
    /\ UNCHANGED <<restores, seen, unseen, backup, lists, progress, hookVars,
                   itemVars, reconcilerVars>>

\* The patch fails after the upload: the list tells of the failed operations,
\* the restore does not, and the errors count as told.  The patch of a
\* restore that is gone always fails.
PatchFails(r) ==
    /\ Polls(r)
    /\ backup = "usable"
    /\ IF Exists(r) THEN Mishap ELSE UNCHANGED mishaps
    /\ \E new \in Polled(r, Known(r).list) :
           LET entry == PolledEntry(r, new) IN
           /\ entry.errs \/ ~StillInProgress(new)
           /\ lists' = [lists EXCEPT ![r] = IF new = NoOperations THEN @
                                            ELSE new]
           /\ opsMap' = [opsMap EXCEPT ![r] = Entry(new, FALSE)]
           /\ IF entry.errs THEN Loses(r, "failure") ELSE UNCHANGED lost
    /\ UNCHANGED <<restores, seen, unseen, backup, progress, hookVars,
                   itemVars, hadErrs>>

OperationsStep(r) ==
    \/ BackupMissing(r)
    \/ KeepWaiting(r)
    \/ TellProgress(r)
    \/ UploadFails(r)
    \/ PatchFails(r)

-----------------------------------------------------------------------------
(***************************************************************************)
(* The restore finalizer controller                                        *)
(* (pkg/controller/restore_finalizer_controller.go), with one worker: the  *)
(* wrap-up tasks, the last of which waits for the exec hooks, the results, *)
(* and the last phase.                                                     *)
(***************************************************************************)
VARIABLE fin  \* the worker: its restore, its step, whether it met an error

FinAt(r, at, failed) == [r |-> r, at |-> at, failed |-> failed]

FinIdle == FinAt(NoRestore, "idle", FALSE)

FinalizerTypeOK ==
    fin \in [r : Restores \cup {NoRestore},
            at : {"idle", "hooks", "results", "patch"}, failed : BOOLEAN]

FinalizerInit == fin = FinIdle

TakeFinalizing_NotFailed(r) ==
    /\ fin.at = "idle"
    /\ Reads("finalizer", r, {"Finalizing"})
    /\ Exists(r)
    /\ \E errs \in BOOLEAN :
           fin' = IF backup = "gone" THEN FinAt(r, "patch", TRUE)
                  ELSE FinAt(r, "hooks", errs)
    /\ UNCHANGED <<requestVars, hookVars, itemVars, reconcilerVars, opsMap>>

\* A restore to finalize.  The tasks before the hooks may fail; without the
\* backup there are none, and the restore has partially failed.
TakeFinalizing(r) ==
    /\ fin.at = "idle"
    /\ Reads("finalizer", r, FinalizingPhases)
    /\ Exists(r)
    /\ \E errs \in BOOLEAN :
           fin' = IF backup = "gone" THEN FinAt(r, "patch", TRUE)
                  ELSE FinAt(r, "hooks",
                             errs \/ seen[r].phase = "FinalizingPartiallyFailed")
    /\ UNCHANGED <<requestVars, hookVars, itemVars, reconcilerVars, opsMap>>

\* WaitRestoreExecHook: every hook is accounted for, and the tracker of the
\* restore is deleted, before the results are told to anybody.
HooksDone_FailuresIgnored ==
    /\ fin.at = "hooks"
    /\ IsComplete(fin.r)
    /\ fin' = FinAt(fin.r, "results", fin.failed)
    /\ tracker' = [tracker EXCEPT ![fin.r] = NotTracked]
    /\ UNCHANGED <<requestVars, handler, cancelled, pod, ran, itemVars,
                   reconcilerVars, opsMap>>

HooksDone ==
    /\ fin.at = "hooks"
    /\ IsComplete(fin.r)
    /\ fin' = FinAt(fin.r, "results", fin.failed \/ HookErrs(fin.r))
    /\ tracker' = [tracker EXCEPT ![fin.r] = NotTracked]
    /\ UNCHANGED <<requestVars, handler, cancelled, pod, ran, itemVars,
                   reconcilerVars, opsMap>>

\* The resource timeout is over before they are.
HooksTimeOut ==
    /\ fin.at = "hooks"
    /\ ~IsComplete(fin.r)
    /\ fin' = FinAt(fin.r, "results", TRUE)
    /\ UNCHANGED <<requestVars, hookVars, itemVars, reconcilerVars, opsMap>>

\* Errors and warnings join the results.  When that fails the restore is taken
\* again, and the second pass finds no hooks to ask about.
UpdateResults ==
    /\ fin.at = "results"
    /\ \/ /\ fin' = FinAt(fin.r, "patch", fin.failed)
          /\ UNCHANGED <<mishaps, lost>>
       \/ /\ Mishap
          /\ fin' = FinIdle
          /\ Loses(fin.r, "hooks")
    /\ UNCHANGED <<restores, seen, unseen, backup, lists, progress, hookVars,
                   itemVars, hadErrs, opsMap>>

\* The last phase; the patch is tried until it is made or given up.
FinishProcessing ==
    /\ fin.at = "patch"
    /\ \/ /\ PatchPhase("finalizer", fin.r, IF fin.failed THEN "PartiallyFailed"
                                            ELSE "Completed")
          /\ UNCHANGED <<mishaps, lost>>
       \/ /\ Mishap
          /\ Loses(fin.r, "hooks")
          /\ UNCHANGED <<restores, unseen>>
    /\ fin' = FinIdle
    /\ UNCHANGED <<seen, backup, lists, progress, hookVars, itemVars,
                   hadErrs, opsMap>>

FinalizerStep ==
    \/ \E r \in Restores : TakeFinalizing(r)
    \/ HooksDone
    \/ HooksTimeOut
    \/ UpdateResults
    \/ FinishProcessing
=============================================================================
