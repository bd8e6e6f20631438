---------------------------- MODULE BackupLifecycle ----------------------------
(***************************************************************************)
(* The life of a backup from ReadyToStart on: the controllers that run,    *)
(* poll, finalize, delete and sync backups, next to each other in one      *)
(* server that may restart, over one API server and one bucket.  The queue *)
(* (module BackupQueue) is reduced to what it does for one backup.         *)
(***************************************************************************)
EXTENDS BackupOperations, BackupDeletion, BackupSync

CONSTANTS
    MayDelete,       \* the backups whose object a user may delete
    MayEmpty,        \* the backups whose directory may be deleted from the
                     \* bucket, by a user or the server of another cluster
    MayDownload,     \* the backups whose operations a user may download
    MaxRestarts      \* bound: restarts of the server

ASSUME LifecycleAssumption ==
    /\ MayDelete \subseteq Backup
    /\ MayEmpty \subseteq Backup
    /\ MayDownload \subseteq Backup
    /\ MaxRestarts \in Nat

VARIABLE restarts    \* restarts so far

controllerVars == <<tracker, bkeys, bw, up, opsMap, bo, fkeys, bf, bd, sy>>

vars == <<api, watch, cache, faults, store, plugin, req, restarts,
          controllerVars>>

TypeOK ==
    /\ ApiTypeOK
    /\ StoreTypeOK
    /\ ReconcilerTypeOK
    /\ UploadTypeOK
    /\ OperationsTypeOK
    /\ FinalizerTypeOK
    /\ DeletionTypeOK
    /\ SyncTypeOK
    /\ restarts \in 0 .. MaxRestarts

Init ==
    /\ ApiInit
    /\ StoreInit
    /\ ReconcilerInit
    /\ UploadInit
    /\ OperationsInit
    /\ FinalizerInit
    /\ DeletionInit
    /\ SyncInit
    /\ restarts = 0

-----------------------------------------------------------------------------
(***************************************************************************)
(* Users and the queue.                                                    *)
(***************************************************************************)
\* A user creates a backup.
CreateBackup(b) ==
    /\ api[b] = Absent
    /\ Store(b, [phase |-> "New", pos |-> 0])
    /\ UNCHANGED <<cache, faults, store, plugin, req, restarts,
                   controllerVars>>

\* A user deletes the object of a backup ...
DeleteObjectOf(b) ==
    /\ b \in MayDelete
    /\ Exists(api[b])
    /\ Store(b, Gone)
    /\ UNCHANGED <<cache, faults, store, plugin, req, restarts,
                   controllerVars>>

\* ... or its directory, from the bucket; the server of another cluster may
\* do that, too.
EmptyDirectory(b) ==
    /\ b \in MayEmpty
    /\ store[b] # Empty
    /\ store' = [store EXCEPT ![b] = Empty]
    /\ UNCHANGED <<apiVars, plugin, req, restarts, controllerVars>>

\* The queue controller lets the backup in.
LetIn(b) ==
    /\ api[b].phase = "New"
    /\ tracker' = AddReadyToStart(tracker, b)
    /\ Store(b, [phase |-> "ReadyToStart", pos |-> 0])
    /\ UNCHANGED <<cache, faults, store, plugin, req, restarts, bkeys, bw, up,
                   opsMap, bo, fkeys, bf, bd, sy>>

-----------------------------------------------------------------------------
(***************************************************************************)
(* Events.  The finalizer's queue gets the key of every object that is     *)
(* created, changed, deleted or resynced.                                  *)
(***************************************************************************)
Notify(b, old, new) ==
    /\ bkeys' = bkeys \cup BackupKeysOn(b, old, new)
    /\ fkeys' = fkeys \cup {b}
    /\ UNCHANGED <<faults, api, store, plugin, req, restarts, tracker, bw, up,
                   opsMap, bo, bf, bd, sy>>

Deliver ==
    /\ watch # <<>>
    /\ LET e == Head(watch) IN
       /\ cache' = [cache EXCEPT ![e.key] = e.obj]
       /\ Notify(e.key, cache[e.key], e.obj)
    /\ watch' = Tail(watch)

Resync(b) ==
    /\ Exists(cache[b])
    /\ Notify(b, cache[b], cache[b])
    /\ UNCHANGED <<cache, watch>>

\* The server stops and starts again: everything it had in memory is gone,
\* what it was doing at the API server, in the store or in plugins is not.
Restart(missed) ==
    /\ restarts < MaxRestarts
    /\ restarts' = restarts + 1
    /\ MarkInProgressFailed(missed)
    /\ RelistCache
    /\ tracker' = NewBackupTracker
    /\ bkeys' = {}
    /\ fkeys' = {b \in Backup : Exists(api'[b])}
    /\ bw' = [b \in Backup |-> Idle]
    /\ up' = [b \in Backup |-> UpIdle]
    /\ opsMap' = [b \in Backup |-> NoEntry]
    /\ bo' = BoIdle
    /\ bf' = BfIdle
    /\ bd' = BdIdle
    /\ sy' = SyIdle
    /\ UNCHANGED <<store, plugin, req>>

-----------------------------------------------------------------------------
(***************************************************************************)
(* The controllers, each of which leaves the others' state alone.          *)
(***************************************************************************)
BackupStep(A) ==
    A /\ UNCHANGED <<operationsVars, finalizerVars, deletionVars, sy, restarts>>

OperationsStep(A) ==
    A /\ UNCHANGED <<finalizerVars, deletionVars, sy, restarts>>

FinalizerStep(A) == A /\ UNCHANGED <<deletionVars, sy, restarts>>

DeletionStep(A) ==
    A /\ UNCHANGED <<uploadVars, operationsVars, finalizerVars, sy, restarts>>

SyncStep(A) ==
    A /\ UNCHANGED <<reconcilerVars, uploadVars, operationsVars, finalizerVars,
                     deletionVars, restarts>>

\* The controllers' next steps, with those of the world around them.
Next ==
    \/ \E b \in Backup :
          \/ CreateBackup(b)
          \/ LetIn(b)
          \/ Resync(b)
          \/ BackupStep(Reconcile(b))
          \/ BackupStep(Upload(b))
          \/ BackupStep(\E o \in Op : PluginEnds(b, o))
          \/ OperationsStep(TakeWaiting(b))
          \/ FinalizerStep(TakeFinalizing(b))
    \/ \E b \in MayDelete : DeleteObjectOf(b)
    \/ \E b \in MayEmpty : EmptyDirectory(b)
    \/ \E b \in MayDownload : OperationsStep(DownloadOperations(b))
    \/ \E r \in Request :
          \/ DeletionStep(CreateRequest(r))
          \/ DeletionStep(TakeRequest(r))
          \/ DeletionStep(ExpireRequest(r))
    \/ Deliver
    \/ OperationsStep(ReconcileOperations)
    \/ FinalizerStep(Finalize)
    \/ DeletionStep(ReconcileDeletion)
    \/ SyncStep(Sync)
    \/ \E missed \in SUBSET {b \in Backup : api[b].phase = "InProgress"} :
          Restart(missed)

Spec == Init /\ [][Next]_vars

(***************************************************************************)
(* Fairness.  Workers go on, events arrive, the informer resyncs, the      *)
(* queue lets backups in, the periodic sources of the operations and sync  *)
(* controllers fire, and a key in a work queue is taken at some point.  An *)
(* operation may run for ever, but not the polling of it: in the end its   *)
(* time is up.  Users, plugins, faults and restarts owe nothing.           *)
(***************************************************************************)
LateOps == {o \in Op : Known(bo.key).ops[o] = "new"
                       /\ plugin[bo.key][o] = "running"}

TimeIsUp == bo.pc = "poll" /\ Poll(LateOps)

Fairness ==
    /\ WF_vars(Deliver)
    /\ WF_vars(OperationsStep(ReconcileOperations))
    /\ SF_vars(OperationsStep(TimeIsUp))
    /\ WF_vars(FinalizerStep(Finalize))
    /\ WF_vars(DeletionStep(ReconcileDeletion))
    /\ SF_vars(SyncStep(Sync))
    /\ \A b \in Backup :
          /\ WF_vars(LetIn(b))
          /\ WF_vars(Resync(b))
          /\ SF_vars(BackupStep(Reconcile(b)))
          /\ WF_vars(BackupStep(Upload(b)))
          /\ SF_vars(OperationsStep(TakeWaiting(b)))
          /\ SF_vars(FinalizerStep(TakeFinalizing(b)))
    /\ \A r \in Request : SF_vars(DeletionStep(TakeRequest(r)))

FairSpec == Spec /\ Fairness

-----------------------------------------------------------------------------
(***************************************************************************)
(* Properties.                                                             *)
(***************************************************************************)

\* A backup that is Completed is in the store as a whole: its metadata says
\* so too, and its contents are there, rewritten if it had operations.
CompletedIsStored ==
    \A b \in Backup : api[b].phase = "Completed" =>
        /\ store[b].meta = "Completed"
        /\ store[b].contents = IF HasOps(b) THEN "final" ELSE "initial"

\* A backup leaves the phases in which its operations are polled, other than
\* by being deleted or given up, only when each of them has ended or timed
\* out: the items they touch are not finalized too early.
NoUnfinishedOperations ==
    \A b \in Backup :
        api[b].phase \in FinalizingPhases \cup {"Completed"} =>
            /\ ~InProgressOps(store[b].ops)
            /\ \A o \in Op : store[b].ops[o] = "completed" =>
                                 plugin[b][o] = "ok"

\* A backup of which an operation has failed is never Completed.
FailedOperationsShow ==
    \A b \in Backup : api[b].phase = "Completed" =>
        \A o \in Op : store[b].ops[o] # "failed"

\* ... which holds while no call fails and the server does not restart.
FailuresShowUndisturbed ==
    faults = 0 /\ restarts = 0 => FailedOperationsShow

\* Phases change only as the design has it; in particular a backup that has
\* failed in part is never Completed, and one that has ended does not come
\* back.
Moves(phase) ==
    {p \in Phases :
        \/ phase = "Absent" /\ p = "New"
        \/ phase = "New" /\ p = "ReadyToStart"
        \/ phase = "ReadyToStart" /\ p \in {"InProgress", "FailedValidation"}
        \/ phase = "InProgress" /\ p \in PostPhases \cup {"Failed"}
        \/ phase = "WaitingForPluginOperations"
              /\ p \in {"Finalizing", "WaitingForPluginOperationsPartiallyFailed"}
        \/ phase \in WaitingPhases
              /\ p \in {"FinalizingPartiallyFailed", "PartiallyFailed"}
        \/ phase = "Finalizing" /\ p = "Completed"
        \/ phase = "FinalizingPartiallyFailed" /\ p = "PartiallyFailed"}

PhasesMove ==
    \A b \in Backup :
        api[b].phase # api'[b].phase =>
            api'[b].phase \in Moves(api[b].phase) \cup {"Deleting", "Gone"}

PhasesFollowDesign == [][PhasesMove]_vars

\* At most one controller writes the directory of a backup.
Uploading(b) == bw[b].pc = "running"

Polling(b) == bo.key = b /\ bo.pc \in {"poll", "putMetadata", "putOps"}

Finalizing(b) ==
    bf.key = b /\ bf.pc \in {"prepare", "putMetadata", "putContents"}

DeletingStore(b) ==
    /\ bd.pc \in {"clean", "list", "objects"}
    /\ Target[bd.req] = b

SingleWriter ==
    \A b \in Backup :
        Cardinality({i \in 1 .. 4 :
            \/ i = 1 /\ Uploading(b)
            \/ i = 2 /\ Polling(b)
            \/ i = 3 /\ Finalizing(b)
            \/ i = 4 /\ DeletingStore(b)}) <= 1

\* The deletion controller gives up a backup's object only when nothing of
\* the backup is left in the store.
GivesUpEmpty ==
    \A b \in Backup :
        /\ bd.pc = "backup" /\ Target[bd.req] = b
        /\ Exists(api[b]) /\ ~Exists(api'[b])
        => store[b] = Empty

NothingLeftBehind == [][GivesUpEmpty]_vars

\* A finished backup in the store of which the cluster has no object gets
\* one.
FinishedPhases == {"Completed", "PartiallyFailed", "Failed"}

StoredBackupsAppear ==
    \A b \in Backup :
        store[b].meta \in FinishedPhases /\ ~Exists(api[b]) ~>
            store[b].meta \notin FinishedPhases \/ Exists(api[b])

\* The object of a Completed backup that has left the store goes, too, also
\* when nothing else is in the bucket and when sync itself has just created it
\* from metadata that are gone.  (Sync deletes PartiallyFailed objects as well,
\* which the documentation excludes.  So nothing is stated of them.)
OrphansGo ==
    \A b \in Backup :
        api[b].phase = "Completed" /\ store[b] = Empty ~>
            api[b].phase # "Completed" \/ store[b] # Empty

\* A backup that has been started comes to an end, also when the server
\* restarts, unless a call fails: the patch out of InProgress is given up
\* after a time limit.
UnfinishedPhases == {"InProgress"} \cup PostPhases

BackupsEnd ==
    \A b \in Backup :
        api[b].phase \in UnfinishedPhases ~>
            api[b].phase \notin UnfinishedPhases \/ faults > 0

\* A request is answered.
RequestsEnd ==
    \A r \in Request : req[r] = "New" ~> req[r] # "New"

\* The tracker forgets a backup that has ended, so that it can be deleted.
EndedBackupsForgotten ==
    \A b \in Backup :
        api[b].phase \in {"Completed", "PartiallyFailed"} ~>
            ~Contains(tracker, b) \/ ~Exists(api[b])

=============================================================================
