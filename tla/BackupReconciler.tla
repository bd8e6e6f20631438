--------------------------- MODULE BackupReconciler ---------------------------
(***************************************************************************)
(* The backup controller (pkg/controller/backup_controller.go): it takes   *)
(* backups that are ReadyToStart, runs them and writes the phase they end  *)
(* in.  Up to ConcurrentBackups workers run at once, one per key.  And the *)
(* tracker of backups that the server's controllers share.                 *)
(***************************************************************************)
EXTENDS BackupApi

CONSTANTS
    ConcurrentBackups,   \* the server's --concurrent-backups
    RunOutcomes          \* the phases runBackup may leave a backup in

ASSUME ReconcilerAssumption ==
    /\ ConcurrentBackups \in Nat \ {0}
    /\ RunOutcomes \subseteq PostPhases \cup {"Failed"}

-----------------------------------------------------------------------------
(***************************************************************************)
(* The server's in-memory record of the backups it is working on           *)
(* (pkg/controller/backup_tracker.go): three sets of backup keys behind    *)
(* one lock.  Every method holds the lock for its whole body, so each one  *)
(* is a single operator on the record.  Nothing of it survives a restart   *)
(* of the server.                                                          *)
(***************************************************************************)
NewBackupTracker == [ready |-> {}, inProgress |-> {}, post |-> {}]

\* The queue controller records a backup it is about to dequeue.
AddReadyToStart(t, b) ==
    [ready |-> t.ready \cup {b}, inProgress |-> t.inProgress, post |-> t.post]

\* The backup controller has moved the backup to InProgress.
Add(t, b) ==
    [ready |-> t.ready \ {b},
     inProgress |-> t.inProgress \cup {b},
     post |-> t.post]

\* The backup has left InProgress and awaits its operations or finalizing.
AddPostProcessing(t, b) ==
    [ready |-> t.ready \ {b},
     inProgress |-> t.inProgress \ {b},
     post |-> t.post \cup {b}]

Delete(t, b) ==
    [ready |-> t.ready \ {b},
     inProgress |-> t.inProgress \ {b},
     post |-> t.post \ {b}]

\* The deletion controller asks this: a backup that is only ready to start
\* does not count.
Contains(t, b) == b \in t.inProgress \cup t.post

\* The queue controller asks this before it dequeues a backup.
RunningCount_InProgressOnly(t) == Cardinality(t.inProgress)

RunningCount(t) == Cardinality(t.inProgress) + Cardinality(t.ready)

-----------------------------------------------------------------------------
(***************************************************************************)
(* The controller's own state.                                             *)
(***************************************************************************)
VARIABLES
    tracker,   \* the BackupTracker shared by the controllers of the server
    bkeys,     \* the keys in the backup controller's work queue
    bw         \* per key, the worker that reconciles it: where it is, and
               \* the phase of its own copy of the backup

reconcilerVars == <<tracker, bkeys, bw>>

WorkerPc == {"idle", "prepared", "patched", "running", "finishing", "leaving"}

Idle == [pc |-> "idle", phase |-> "New"]

ReconcilerTypeOK ==
    /\ tracker \in [ready : SUBSET Backup, inProgress : SUBSET Backup,
                    post : SUBSET Backup]
    /\ bkeys \in SUBSET Backup
    /\ bw \in [Backup -> [pc : WorkerPc, phase : Phases]]

ReconcilerInit ==
    /\ tracker = NewBackupTracker
    /\ bkeys = {}
    /\ bw = [b \in Backup |-> Idle]

\* The keys a change of object b from old to new puts in the work queue:
\* update events only, so that neither a creation nor the list the informer
\* starts with after a restart wakes the controller.
BackupKeysOn(b, old, new) ==
    {k \in {b} : Exists(old) /\ new.phase = "ReadyToStart"}

Busy == {b \in Backup : bw[b].pc # "idle"}

-----------------------------------------------------------------------------
(***************************************************************************)
(* One reconciliation, step by step.                                       *)
(***************************************************************************)

\* A worker takes the key, reads the backup from the cache and goes on only
\* with a backup that is ReadyToStart.
TakeBackup_AnyPhase(b) ==
    /\ b \in bkeys
    /\ bw[b].pc = "idle"
    /\ Cardinality(Busy) < ConcurrentBackups
    /\ CanRead
    /\ bkeys' = bkeys \ {b}
    /\ bw' = [bw EXCEPT ![b] = [pc |-> "prepared", phase |-> "ReadyToStart"]]
    /\ UNCHANGED <<apiVars, tracker>>

TakeBackup(b) ==
    /\ b \in bkeys
    /\ bw[b].pc = "idle"
    /\ Cardinality(Busy) < ConcurrentBackups
    /\ CanRead
    /\ bkeys' = bkeys \ {b}
    /\ bw' = IF cache[b].phase = "ReadyToStart"
             THEN [bw EXCEPT ![b] = [pc |-> "prepared",
                                     phase |-> "ReadyToStart"]]
             ELSE bw
    /\ UNCHANGED <<apiVars, tracker>>

\* What prepareBackupRequest makes of the backup: it fills in the defaults,
\* looks up the locations and policies it names, and validates it.
Verdicts == {"InProgress", "FailedValidation"}

\* Patch the backup with that verdict.  After an error the key is retried.
PatchStarted(b, phase) ==
    LET started == [phase |-> phase, pos |-> api[b].pos] IN
    /\ bw[b].pc = "prepared"
    /\ \/ /\ PatchOk(b, started)
          /\ bw' = [bw EXCEPT ![b] = [pc |-> "patched", phase |-> phase]]
          /\ UNCHANGED bkeys
       \/ /\ PatchError(b, started)
          /\ bw' = [bw EXCEPT ![b] = Idle]
          /\ bkeys' = bkeys \cup {b}
    /\ UNCHANGED <<cache, tracker>>

\* Only after the patch does the tracker learn that the backup runs.
TrackStarted(b) ==
    /\ bw[b].pc = "patched"
    /\ tracker' = Add(tracker, b)
    /\ bw' = [bw EXCEPT ![b] =
                  [pc |-> IF bw[b].phase = "FailedValidation"
                          THEN "leaving" ELSE "running",
                   phase |-> bw[b].phase]]
    /\ UNCHANGED <<apiVars, bkeys>>

\* runBackup executes the backup, uploads it and decides the phase.
RunBackup(b, phase) ==
    /\ bw[b].pc = "running"
    /\ bw' = [bw EXCEPT ![b] = [pc |-> "finishing", phase |-> phase]]
    /\ UNCHANGED <<apiVars, tracker, bkeys>>

\* Patch the backup to that phase, retrying on any error until
\* resourceTimeout; running out of time is only logged.
PatchFinished(b) ==
    LET finished == [phase |-> bw[b].phase, pos |-> api[b].pos]
        left == [bw EXCEPT ![b] = [pc |-> "leaving", phase |-> bw[b].phase]]
    IN
    /\ bw[b].pc = "finishing"
    /\ \/ /\ PatchOk(b, finished)
          /\ bw' = left
       \/ /\ PatchError(b, finished)
          /\ bw' \in {bw, left}
    /\ UNCHANGED <<cache, tracker, bkeys>>

\* The deferred update of the tracker, from the worker's own copy.
LeaveBackup(b) ==
    /\ bw[b].pc = "leaving"
    /\ tracker' = IF bw[b].phase \in TerminalPhases THEN Delete(tracker, b)
                  ELSE AddPostProcessing(tracker, b)
    /\ bw' = [bw EXCEPT ![b] = Idle]
    /\ UNCHANGED <<apiVars, bkeys>>

\* The steps of a worker that has taken the backup.
WorkOn(b) ==
    \/ \E phase \in Verdicts : PatchStarted(b, phase)
    \/ TrackStarted(b)
    \/ \E phase \in RunOutcomes : RunBackup(b, phase)
    \/ PatchFinished(b)
    \/ LeaveBackup(b)

ReconcileBackup(b) == TakeBackup(b) \/ WorkOn(b)

-----------------------------------------------------------------------------
(***************************************************************************)
(* The server stops, at any point, and starts again: what it kept in       *)
(* memory is gone, and before its controllers run it fails the backups it  *)
(* finds InProgress, going on past a patch that fails (missed).            *)
(***************************************************************************)
MarkInProgressFailed_Never(missed) == UNCHANGED <<api, faults>>

MarkInProgressFailed(missed) ==
    /\ faults + Cardinality(missed) <= MaxFaults
    /\ faults' = faults + Cardinality(missed)
    /\ api' = [b \in Backup |->
                  IF api[b].phase = "InProgress" /\ b \notin missed
                  THEN [phase |-> "Failed", pos |-> api[b].pos]
                  ELSE api[b]]

\* The informer starts from a list of the objects.
RelistCache ==
    /\ cache' = api'
    /\ watch' = <<>>

=============================================================================
