------------------------------ MODULE Schedules ------------------------------
(***************************************************************************)
(* The schedule controller, which submits a backup when one is due, and    *)
(* the garbage collection controller, which requests the deletion of a     *)
(* backup that has expired.  What happens to a backup in between, and what *)
(* a deletion does, is the work of other components and abstracted here.   *)
(***************************************************************************)
EXTENDS BackupLocations

CONSTANTS
    Period,              \* the time between two runs
    TTL,                 \* how long a backup is kept
    MaxBackups,          \* how many backups are submitted
    ServerSkips,         \* the server's default of skipImmediately
    SubmissionsRecorded  \* TRUE: once a backup is created, LastBackup is set

ASSUME SchedulesAssumption ==
    /\ Period \in Nat \ {0}
    /\ TTL \in Nat
    /\ MaxBackups \in Nat
    /\ ServerSkips \in BOOLEAN
    /\ SubmissionsRecorded \in BOOLEAN

VARIABLES
    schedule,   \* the object
    scheduler,  \* what the schedule controller is doing
    backups,    \* the backups of the schedule, in the order of their creation
    deleting    \* the backup whose deletion is being carried out, or 0

scheduleVars == <<schedule, scheduler, backups, deleting>>

\* 0 is no time.
Instant == now + 1

Instants == 0 .. MaxTime + 1

\* The clock's value when the schedule was created.
Created == 1

SchedulesTypeOK ==
    /\ schedule \in [paused : BOOLEAN, skip : {"unset", "yes", "no"},
                     last : Instants, skipped : Instants]
    /\ scheduler \in [at : {"idle", "queued", "submitted"}, since : Instants]
    /\ \A i \in DOMAIN backups :
           backups[i] \in
               [made : Instants, expires : 0 .. MaxTime + TTL + 1,
                phase : {"New", "Queued", "InProgress", "Completed", "Gone"},
                label : {"", "NotFound", "Unavailable", "ReadOnly"},
                request : {"none", "New", "InProgress", "Processed"}]
    /\ deleting \in 0 .. MaxBackups

SchedulesInit ==
    /\ schedule \in [paused : BOOLEAN, skip : {"unset", "yes", "no"},
                     last : {0}, skipped : {0}]
    /\ scheduler = [at |-> "idle", since |-> 0]
    /\ backups = <<>>
    /\ deleting = 0

----------------------------------------------------------------------------
(* The user pauses the schedule, or lets it go on. *)

ChangeSchedule ==
    /\ changes < MaxChanges
    /\ changes' = changes + 1
    /\ \E s \in {"yes", "no"} :
           schedule' = [schedule EXCEPT !.paused = ~@,
                                        !.skip = IF schedule.paused THEN s
                                                 ELSE @]
    /\ UNCHANGED <<now, location, usable, unseen, mishaps, scheduler, backups,
                   deleting>>

----------------------------------------------------------------------------
(* The schedule controller. *)

\* A schedule that is paused is not enqueued; one that was enqueued before is
\* still reconciled.
EnqueueSchedule ==
    /\ scheduler.at = "idle"
    /\ ~schedule.paused
    /\ scheduler' = [scheduler EXCEPT !.at = "queued"]
    /\ UNCHANGED <<locationVars, schedule, backups, deleting>>

Skips == \/ schedule.skip = "yes"
         \/ schedule.skip = "unset" /\ ServerSkips

Validated ==
    [schedule EXCEPT !.skip = "no",
                     !.skipped = IF Skips THEN Instant ELSE @]

NextRun(t) == (t \div Period + 1) * Period

Later(s, t) == IF s > t THEN s ELSE t

LastRun_SkipIgnored(s) == IF s.last # 0 THEN s.last ELSE Created

LastRun(s) == Later(IF s.last # 0 THEN s.last ELSE Created, s.skipped)

IsDue(s) == Instant > NextRun(LastRun(s))

HasUnfinished ==
    \E i \in DOMAIN backups : backups[i].phase \in {"New", "InProgress"}

Submission == [made |-> Instant, expires |-> 0, phase |-> "New", label |-> "",
               request |-> "none"]

\* The object is validated and patched.  If a run is due and no backup of the
\* schedule is New or InProgress, a backup is created.
ReconcileSchedule ==
    LET submits == IsDue(Validated) /\ ~HasUnfinished
        idle == [scheduler EXCEPT !.at = "idle"]
    IN  /\ scheduler.at = "queued"
        /\ Len(backups) < MaxBackups
        /\ \/ /\ Validated # schedule
              /\ Fails(1)
              /\ UNCHANGED <<schedule, scheduler, backups>>
           \/ /\ schedule' = Validated
              /\ IF submits
                 THEN \/ /\ backups' = Append(backups, Submission)
                         /\ scheduler' = [at |-> "submitted", since |-> Instant]
                         /\ Fails(0)
                      \/ /\ Fails(1)
                         /\ UNCHANGED <<scheduler, backups>>
                 ELSE /\ scheduler' = idle
                      /\ Fails(0)
                      /\ UNCHANGED backups
        /\ NothingLocal
        /\ UNCHANGED deleting

\* If LastBackup cannot be set the schedule is reconciled once more.
RecordSubmission ==
    /\ scheduler.at = "submitted"
    /\ \E recorded \in {TRUE} \cup {SubmissionsRecorded} :
           /\ schedule' = [schedule EXCEPT
                              !.last = IF recorded THEN scheduler.since ELSE @]
           /\ scheduler' = [at |-> IF recorded THEN "idle" ELSE "queued",
                            since |-> 0]
           /\ Fails(IF recorded THEN 0 ELSE 1)
    /\ NothingLocal
    /\ UNCHANGED <<backups, deleting>>

SchedulerStep == EnqueueSchedule \/ ReconcileSchedule \/ RecordSubmission

----------------------------------------------------------------------------
(* Backups, as the queue and the backup controllers move them on. *)

Move(i, b) ==
    /\ backups' = [backups EXCEPT ![i] = b]
    /\ UNCHANGED <<now, location, usable, unseen, changes, schedule, scheduler>>

BackupGoesOn(i) ==
    LET b == backups[i]
    IN  /\ b.phase \in {"New", "Queued", "InProgress"}
        /\ Move(i, CASE b.phase = "New" -> [b EXCEPT !.phase = "Queued"]
                     [] b.phase = "Queued" ->
                            [b EXCEPT !.phase = "InProgress",
                                      !.expires = Instant + TTL]
                     [] OTHER -> [b EXCEPT !.phase = "Completed"])
        /\ UNCHANGED deleting
        /\ Fails(0)

----------------------------------------------------------------------------
(* Garbage collection. *)

Expired(b) == b.phase # "Gone" /\ b.expires # 0 /\ b.expires <= Instant

Unfit == CASE ~location.exists -> "NotFound"
           [] location.phase # "Available" -> "Unavailable"
           [] location.mode = "ReadOnly" -> "ReadOnly"
           [] OTHER -> ""

\* What stands in the way of a new request: one that is still to be processed.
Pending(b) == b.request \in {"New", "InProgress"}

\* The label says why a backup cannot be collected.
CollectExpired(i) ==
    LET b == backups[i]
        labelled == [b EXCEPT !.label = Unfit]
        asked == [labelled EXCEPT !.request = "New"]
    IN  /\ Expired(b)
        /\ UNCHANGED deleting
        /\ IF Unfit # "" \/ Pending(b)
           THEN Move(i, labelled) /\ Fails(0)
           ELSE \/ Move(i, asked) /\ Fails(0)
                \/ Move(i, labelled) /\ Fails(1)

----------------------------------------------------------------------------
(* Deletion, by the one worker of the deletion controller. *)

\* The location is checked once more, and a backup that runs is left alone.
TakeRequest(i) ==
    LET b == backups[i]
        taken == FitForDeletion /\ b.phase # "InProgress"
    IN  /\ b.request = "New"
        /\ deleting = 0
        /\ Move(i, [b EXCEPT !.request = IF taken THEN "InProgress"
                                         ELSE "Processed"])
        /\ deleting' = IF taken THEN i ELSE 0
        /\ Fails(0)

FinishRequest(i) ==
    LET b == backups[i]
    IN  /\ deleting = i
        /\ \/ /\ Move(i, [b EXCEPT !.phase = "Gone", !.request = "none"])
              /\ Fails(0)
           \/ /\ Move(i, [b EXCEPT !.request = "Processed"])
              /\ Fails(1)
        /\ deleting' = 0

RemoveRequest_ProcessedOnly(i) ==
    /\ backups[i].request = "Processed"
    /\ deleting = 0
    /\ Move(i, [backups[i] EXCEPT !.request = "none"])
    /\ UNCHANGED deleting
    /\ Fails(0)

\* A request that is Processed, or that a restart left InProgress, is removed
\* when it is a day old.
RemoveRequest(i) ==
    LET b == backups[i]
    IN  /\ b.request \in {"Processed", "InProgress"}
        /\ deleting = 0
        /\ Move(i, [b EXCEPT !.request = "none"])
        /\ UNCHANGED deleting
        /\ Fails(0)

DeletionStep(i) == TakeRequest(i) \/ FinishRequest(i) \/ RemoveRequest(i)
=============================================================================
