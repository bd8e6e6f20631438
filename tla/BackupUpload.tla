----------------------------- MODULE BackupUpload -----------------------------
(***************************************************************************)
(* What the backup controller does between InProgress and the phase it     *)
(* writes next (runBackup and persistBackup in                             *)
(* pkg/controller/backup_controller.go, PutBackup in                       *)
(* pkg/persistence/object_store.go): refuse a name that is taken in the    *)
(* store, run the backup, poll the operations it started, choose the phase *)
(* and upload the backup with that phase in its metadata, object by        *)
(* object.                                                                 *)
(***************************************************************************)
EXTENDS BackupReconciler, BackupStore

VARIABLES
    plugin,   \* per operation, what the plugin would answer to a poll
    up        \* per backup, the upload under way

uploadVars == <<plugin, up>>

PluginStates == {"running", "ok", "error"}

UpPc == {"idle", "metadata", "contents", "lists", "undoContents",
         "undoMetadata", "ended"}

UpIdle == [pc |-> "idle", phase |-> "Failed", ops |-> NoOps]

UploadTypeOK ==
    /\ plugin \in [Backup -> [Op -> PluginStates]]
    /\ up \in [Backup -> [pc : UpPc, phase : RunOutcomes \cup {"Failed"},
                          ops : Operations \cup {NoOps}]]

UploadInit ==
    /\ plugin = [b \in Backup |-> [o \in Op |-> "running"]]
    /\ up = [b \in Backup |-> UpIdle]

UpAt(b, pc, phase, ops) ==
    up' = [up EXCEPT ![b] = [pc |-> pc, phase |-> phase, ops |-> ops]]

-----------------------------------------------------------------------------
\* The plugin's operation ends, well or not.
PluginEnds(b, o) ==
    /\ plugin[b][o] = "running"
    /\ \E s \in {"ok", "error"} : plugin' = [plugin EXCEPT ![b][o] = s]
    /\ UNCHANGED <<apiVars, reconcilerVars, store, up>>

\* The polled status of the operations ops of b, of which those in late
\* have used up their time and are cancelled (getBackupItemOperationProgress).
Polled(b, ops, late) ==
    [o \in Op |->
        IF ops[o] # "new" THEN ops[o]
        ELSE IF plugin[b][o] = "ok" THEN "completed"
        ELSE IF plugin[b][o] = "error" \/ o \in late THEN "failed"
        ELSE "new"]

InProgressOps(ops) == \E o \in Op : ops[o] = "new"

\* The operations of new that have failed since old.
NewFailures(old, new) == \E o \in Op : old[o] = "new" /\ new[o] = "failed"

\* The phase of a backup that has run: an item or an operation that failed
\* is an error.
RunPhase(fatal, errors, inProgress) ==
    IF fatal THEN "Failed"
    ELSE IF errors
    THEN IF inProgress THEN "WaitingForPluginOperationsPartiallyFailed"
         ELSE "FinalizingPartiallyFailed"
    ELSE IF inProgress THEN "WaitingForPluginOperations" ELSE "Finalizing"

\* The backup runs, unless its name is taken.
BackUp(b) ==
    /\ bw[b].pc = "running"
    /\ up[b].pc = "idle"
    /\ \/ /\ ~BackupExists(b)
          /\ \E fatal, errors \in BOOLEAN, late \in SUBSET Op :
                LET ops == Polled(b, [o \in Op |-> "new"], late)
                    phase == RunPhase(fatal,
                        errors \/ \E o \in Op : ops[o] = "failed",
                        InProgressOps(ops))
                IN  /\ phase \in RunOutcomes \cup {"Failed"}
                    /\ UpAt(b, "metadata", phase, ops)
          /\ UNCHANGED <<faults, store>>
       \/ /\ BackupExists(b)
          /\ UpAt(b, "ended", "Failed", NoOps)
          /\ UNCHANGED <<faults, store>>
       \/ /\ ReadError
          /\ UpAt(b, "ended", "Failed", NoOps)
    /\ UNCHANGED <<api, watch, cache, reconcilerVars, plugin>>

\* Upload one object after the other; after an error, delete again what
\* makes the backup look whole, and fail it.
PutMetadata(b) ==
    LET dir == WithMeta(b, up[b].phase) IN
    /\ up[b].pc = "metadata"
    /\ \/ /\ StoreOk(b, dir)
          /\ UpAt(b, "contents", up[b].phase, up[b].ops)
       \/ /\ StoreError(b, dir)
          /\ UpAt(b, "ended", "Failed", up[b].ops)
    /\ UNCHANGED <<api, watch, cache, reconcilerVars, plugin>>

PutContents(b) ==
    LET dir == WithContents(b, "initial") IN
    /\ up[b].pc = "contents"
    /\ \/ /\ StoreOk(b, dir)
          /\ UpAt(b, "lists", up[b].phase, up[b].ops)
       \/ /\ StoreError(b, dir)
          /\ UpAt(b, "undoMetadata", "Failed", up[b].ops)
    /\ UNCHANGED <<api, watch, cache, reconcilerVars, plugin>>

PutLists(b) ==
    LET dir == WithOps(b, up[b].ops) IN
    /\ up[b].pc = "lists"
    /\ \/ /\ StoreOk(b, dir)
          /\ UpAt(b, "ended", up[b].phase, up[b].ops)
       \/ /\ StoreError(b, dir)
          /\ UpAt(b, "undoContents", "Failed", up[b].ops)
    /\ UNCHANGED <<api, watch, cache, reconcilerVars, plugin>>

UndoContents(b) ==
    LET dir == WithContents(b, "none") IN
    /\ up[b].pc = "undoContents"
    /\ StoreOk(b, dir) \/ StoreError(b, dir)
    /\ UpAt(b, "undoMetadata", "Failed", up[b].ops)
    /\ UNCHANGED <<api, watch, cache, reconcilerVars, plugin>>

UndoMetadata(b) ==
    LET dir == WithMeta(b, "none") IN
    /\ up[b].pc = "undoMetadata"
    /\ StoreOk(b, dir) \/ StoreError(b, dir)
    /\ UpAt(b, "ended", "Failed", up[b].ops)
    /\ UNCHANGED <<api, watch, cache, reconcilerVars, plugin>>

\* runBackup returns; the controller goes on with the phase it chose.
BackedUp(b) ==
    /\ up[b].pc = "ended"
    /\ RunBackup(b, up[b].phase)
    /\ up' = [up EXCEPT ![b] = UpIdle]
    /\ UNCHANGED <<store, plugin>>

Upload(b) ==
    \/ BackUp(b)
    \/ PutMetadata(b)
    \/ PutContents(b)
    \/ PutLists(b)
    \/ UndoContents(b)
    \/ UndoMetadata(b)
    \/ BackedUp(b)

\* The rest of the reconciliation, as in BackupReconciler.
Reconcile(b) ==
    /\ \/ TakeBackup(b)
       \/ \E phase \in Verdicts :
             PatchStarted(b, phase)
       \/ TrackStarted(b)
       \/ PatchFinished(b)
       \/ LeaveBackup(b)
    /\ UNCHANGED <<store, uploadVars>>

=============================================================================
