-------------------------------- MODULE Upkeep --------------------------------
(***************************************************************************)
(* What the server does as time goes by: it checks the backup storage      *)
(* location, keeps the backup repositories connected and maintained,       *)
(* submits the backups of a schedule, collects those that expired, and     *)
(* keeps the snapshots of volumes for as long as they are needed.          *)
(***************************************************************************)
EXTENDS BackupRepositories, Schedules, CsiSnapshots

CONSTANTS
    InUse,    \* the installations: which of "volumes", "schedule" and
              \* "snapshots" it uses
    LastTick  \* the last value of the clock in one that uses each

ASSUME UpkeepAssumption ==
    LastTick \in [{"volumes", "schedule", "snapshots"} -> 0 .. MaxTime]

VARIABLE uses

vars == <<locationVars, repoVars, calls, scheduleVars, snapshotVars, uses>>

TypeOK ==
    /\ LocationsTypeOK
    /\ RepositoriesTypeOK
    /\ EnsurerTypeOK
    /\ SchedulesTypeOK
    /\ SnapshotsTypeOK

Init ==
    /\ LocationsInit
    /\ RepositoriesInit
    /\ EnsurerInit
    /\ SchedulesInit
    /\ SnapshotsInit
    /\ uses \in InUse

\* What the process had in memory: events, calls, and the controllers' work.
Restart ==
    /\ uses # {"snapshots"}
    /\ Fails(1)
    /\ Undisturbed => ~unseen
    /\ SubmissionsRecorded => scheduler.at # "submitted"
    /\ unseen' = FALSE
    /\ worker' = Idle
    /\ calls' = [c \in Callers |->
                    IF calls[c] \in {"before", "done"} THEN calls[c]
                    ELSE "failed"]
    /\ scheduler' = [at |-> "idle", since |-> 0]
    /\ deleting' = 0
    /\ UNCHANGED <<now, location, usable, changes, repos, prepared, jobs,
                   tries, schedule, backups, snapshotVars, uses>>

LocationStep ==
    /\ uses # {"snapshots"}  \* no snapshot depends on the location or the time
    /\ \/ Tick /\ \A u \in uses : now < LastTick[u]
       \/ UserStep /\ (Undisturbed => worker.at # "connecting")
       \/ StoreStep
       \/ ReconcileLocation /\ "schedule" \in uses  \* no repository reads it
    /\ UNCHANGED <<repoVars, calls, scheduleVars, snapshotVars, uses>>

RepositoryStep ==
    /\ "volumes" \in uses
    /\ \/ InvalidateRepositories /\ UNCHANGED calls
       \/ WorkerStep /\ UNCHANGED calls
       \/ JobStep /\ UNCHANGED calls
       \/ \E c \in Callers : EnsurerStep(c)
    /\ UNCHANGED <<scheduleVars, snapshotVars, uses>>

ScheduleStep ==
    /\ "schedule" \in uses
    /\ \/ ChangeSchedule
       \/ SchedulerStep
       \/ \E i \in DOMAIN backups :
              BackupGoesOn(i) \/ CollectExpired(i) \/ DeletionStep(i)
    /\ UNCHANGED <<repoVars, calls, snapshotVars, uses>>

SnapshotStep ==
    /\ "snapshots" \in uses
    /\ SnapshotsNext
    /\ UNCHANGED <<repoVars, calls, scheduleVars, uses>>

Next ==
    Restart \/ LocationStep \/ RepositoryStep \/ ScheduleStep \/ SnapshotStep

\* Garbage collection reconciles every backup again and again, the deletion
\* controller takes every request, and every backup ends.
Goes(i, A) ==
    /\ "schedule" \in uses
    /\ i \in DOMAIN backups
    /\ A
    /\ UNCHANGED <<repoVars, calls, snapshotVars, uses>>

Fairness ==
    \A i \in 1 .. MaxBackups :
        /\ WF_vars(Goes(i, CollectExpired(i) \/ DeletionStep(i)))
        /\ WF_vars(Goes(i, BackupGoesOn(i)))

Spec == Init /\ [][Next]_vars /\ Fairness

----------------------------------------------------------------------------
(* Properties. *)

\* Once every change of the location has been handled, a repository that is
\* Ready is one that was connected with the location as it is: a worker that
\* still holds an older copy of the repository does not undo the suspicion.
ReadyIsCurrent ==
    \A r \in Repos :
        (repos[r].phase = "Ready" /\ location.exists /\ ~unseen)
            => prepared[r] = location.config

\* Two maintenance jobs of one repository never run at the same time, whether
\* the worker lost sight of the first one by a failed call or by a restart.
OneJobAtATime == \A r \in Repos : Cardinality(Running(r)) <= 1

\* A run that is skipped, or for which a backup was submitted, is over: between
\* it and the next backup of the schedule lies another time at which the
\* schedule runs.
OneBackupPerRun ==
    [][Len(backups') > Len(backups) =>
           /\ Instant > NextRun(schedule'.skipped)
           /\ \A i \in DOMAIN backups : Instant > NextRun(backups[i].made)]_vars

\* The backups that have expired are deleted, again and again until none is
\* left, if their location stays fit for that, though a request for a deletion
\* may fail, or be left InProgress by a restart.
ExpiredBackupsGo ==
    <>[]FitForDeletion =>
        []<>(\A i \in DOMAIN backups : ~Expired(backups[i]))
=============================================================================
