----------------------------- MODULE BackupQueue -----------------------------
(***************************************************************************)
(* The backup queue controller (pkg/controller/backup_queue_controller.go) *)
(* together with the backup controller it feeds.  A new backup is put at   *)
(* the end of the queue; a queued one is dequeued, that is, made           *)
(* ReadyToStart, when fewer than ConcurrentBackups are running, nothing    *)
(* that runs or is ahead of it touches its namespaces, and nothing ahead   *)
(* of it could be dequeued instead.  The controller has one worker.        *)
(***************************************************************************)
EXTENDS BackupReconciler

CONSTANTS
    Namespace,     \* the namespaces of the cluster
    NsOf,          \* the namespaces each backup includes
    MayDelete,     \* the backups whose object a user may delete
    MaxRestarts,   \* bound: restarts of the server
    NoBackup       \* no key: the queue worker is idle

ASSUME QueueAssumption ==
    /\ NsOf \in [Backup -> SUBSET Namespace]
    /\ MayDelete \subseteq Backup
    /\ MaxRestarts \in Nat
    /\ NoBackup \notin Backup

VARIABLES
    qkeys,      \* the keys in the queue controller's work queue
    q,          \* its worker
    restarts    \* restarts so far

vars == <<api, watch, cache, faults, tracker, bkeys, bw, qkeys, q, restarts>>

(***************************************************************************)
(* The worker's local state: the step it is at, the key, the queue         *)
(* position it read (or, for a new backup, the one it gives it), the       *)
(* queued backups it has still to renumber with the positions they had in  *)
(* its list, and the next position it hands out.                           *)
(***************************************************************************)
QueuePc == {"idle", "listNew", "listQueued", "enqueue", "admit", "dequeue",
            "renumber"}

At(pc, key, pos, todo, seen, next) ==
    [pc |-> pc, key |-> key, pos |-> pos,
     todo |-> todo, seen |-> seen, next |-> next]

Unseen == [b \in Backup |-> 0]

QIdle == At("idle", NoBackup, 0, {}, Unseen, 1)

QueueWorker ==
    [pc : QueuePc, key : Backup \cup {NoBackup}, pos : Nat,
     todo : SUBSET Backup, seen : [Backup -> Nat], next : Nat]

TypeOK ==
    /\ ApiTypeOK
    /\ ReconcilerTypeOK
    /\ qkeys \in SUBSET Backup
    /\ q \in QueueWorker
    /\ q.pc # "idle" => q.key \in Backup
    /\ restarts \in 0 .. MaxRestarts

Init ==
    /\ ApiInit
    /\ ReconcilerInit
    /\ qkeys = {}
    /\ q = QIdle
    /\ restarts = 0

-----------------------------------------------------------------------------
(***************************************************************************)
(* What the worker computes from a list c of the backups.                  *)
(***************************************************************************)

ActivePhases == {"ReadyToStart", "InProgress"}

\* The queuedBackupsLister.
Listed(c) == {b \in Backup : c[b].phase \in ActivePhases \cup {"Queued"}}

OrderedQueued(c) == {b \in Listed(c) : c[b].phase = "Queued"}

\* getMaxQueuePosition: the last position taken, 0 if there is none.
IsMaxQueuePosition(c, m) ==
    /\ m \in {0} \cup {c[b].pos : b \in OrderedQueued(c)}
    /\ \A b \in OrderedQueued(c) : c[b].pos <= m

EarlierThan(c, pos) == {b \in Listed(c) : c[b].pos < pos}

Overlap(b1, b2) == NsOf[b1] \cap NsOf[b2] # {}

\* detectNSConflictsInternal: b, at position pos, against the backups of
\* earlier that are not queued behind it.
Conflicts_RunningIgnored(c, b, pos, earlier) ==
    \E e \in earlier : c[e].phase = "Queued" /\ c[e].pos < pos /\ Overlap(b, e)

Conflicts_QueuedIgnored(c, b, pos, earlier) ==
    \E e \in earlier : c[e].phase # "Queued" /\ Overlap(b, e)

Conflicts(c, b, pos, earlier) ==
    \E e \in earlier : /\ c[e].phase = "Queued" => c[e].pos < pos
                       /\ Overlap(b, e)

\* checkForEarlierRunnableBackups
EarlierRunnable(c, pos, earlier) ==
    \E e \in earlier : /\ c[e].phase = "Queued"
                       /\ c[e].pos < pos
                       /\ ~Conflicts(c, e, c[e].pos, earlier)

Runnable(c, b, pos) ==
    LET earlier == EarlierThan(c, pos) IN
    /\ RunningCount(tracker) < ConcurrentBackups
    /\ ~Conflicts(c, b, pos, earlier)
    /\ ~EarlierRunnable(c, pos, earlier)

-----------------------------------------------------------------------------
(***************************************************************************)
(* One reconciliation of the queue controller, step by step.               *)
(***************************************************************************)

\* Take a key and read the backup; go on if it is New or Queued.
TakeKey(b) ==
    /\ q.pc = "idle"
    /\ b \in qkeys
    /\ CanRead
    /\ qkeys' = qkeys \ {b}
    /\ \/ /\ cache[b].phase = "New"
          /\ q' = At("listNew", b, 0, {}, Unseen, 1)
       \/ /\ cache[b].phase = "Queued"
          /\ q' = At("listQueued", b, cache[b].pos, {}, Unseen, 1)
       \/ /\ cache[b].phase \notin {"New", "Queued"}
          /\ UNCHANGED q
    /\ UNCHANGED <<apiVars, reconcilerVars, restarts>>

\* List the backups and give a new one the position after the last.
ListForNew_AtLast ==
    /\ q.pc = "listNew"
    /\ CanRead
    /\ \E m \in {0} \cup {cache[b].pos : b \in Backup} :
          /\ IsMaxQueuePosition(cache, m)
          /\ q' = At("enqueue", q.key, m, {}, Unseen, 1)
    /\ UNCHANGED <<apiVars, reconcilerVars, qkeys, restarts>>

ListForNew ==
    /\ q.pc = "listNew"
    /\ CanRead
    /\ \E m \in {0} \cup {cache[b].pos : b \in Backup} :
          /\ IsMaxQueuePosition(cache, m)
          /\ q' = At("enqueue", q.key, m + 1, {}, Unseen, 1)
    /\ UNCHANGED <<apiVars, reconcilerVars, qkeys, restarts>>

\* List the backups and decide whether the queued one may be dequeued.
ListForQueued ==
    /\ q.pc = "listQueued"
    /\ CanRead
    /\ q' = IF Runnable(cache, q.key, q.pos)
            THEN LET todo == OrderedQueued(cache) \ {q.key} IN
                 At("admit", q.key, q.pos, todo,
                    [b \in Backup |-> IF b \in todo THEN cache[b].pos ELSE 0],
                    1)
            ELSE QIdle
    /\ UNCHANGED <<apiVars, reconcilerVars, qkeys, restarts>>

\* A list fails: the reconciliation ends without an error, so that nothing
\* retries the key.
ListError ==
    /\ q.pc \in {"listNew", "listQueued"}
    /\ faults < MaxFaults
    /\ faults' = faults + 1
    /\ q' = QIdle
    /\ UNCHANGED <<api, watch, cache, reconcilerVars, qkeys, restarts>>

\* Patch a new backup to Queued at that position.
Enqueue ==
    LET queued == [phase |-> "Queued", pos |-> q.pos] IN
    /\ q.pc = "enqueue"
    /\ \/ /\ PatchOk(q.key, queued)
          /\ UNCHANGED qkeys
       \/ /\ PatchError(q.key, queued)
          /\ qkeys' = qkeys \cup {q.key}
    /\ q' = QIdle
    /\ UNCHANGED <<cache, reconcilerVars, restarts>>

\* Count the backup as running before anyone can see that it is.
Admit ==
    /\ q.pc = "admit"
    /\ tracker' = AddReadyToStart(tracker, q.key)
    /\ q' = At("dequeue", q.key, q.pos, q.todo, q.seen, 1)
    /\ UNCHANGED <<apiVars, bkeys, bw, qkeys, restarts>>

\* Patch it to ReadyToStart; take it out of the tracker if that fails.
Dequeue ==
    LET dequeued == [phase |-> "ReadyToStart", pos |-> 0] IN
    /\ q.pc = "dequeue"
    /\ \/ /\ PatchOk(q.key, dequeued)
          /\ q' = At("renumber", q.key, 0, q.todo, q.seen, 1)
          /\ UNCHANGED <<tracker, qkeys>>
       \/ /\ PatchError(q.key, dequeued)
          /\ tracker' = Delete(tracker, q.key)
          /\ q' = QIdle
          /\ qkeys' = qkeys \cup {q.key}
    /\ UNCHANGED <<cache, bkeys, bw, restarts>>

Renumber(b) ==
    LET moved == IF q.seen[b] = q.next THEN api[b]
                 ELSE [phase |-> api[b].phase, pos |-> q.next] IN
    /\ q.pc = "renumber"
    /\ b \in q.todo
    /\ \A e \in q.todo : q.seen[b] <= q.seen[e]
    /\ \/ /\ PatchOk(b, moved)
          /\ q' = At("renumber", q.key, 0, q.todo \ {b}, q.seen, q.next + 1)
       \/ /\ PatchError(b, moved)
          /\ q' = QIdle
    /\ UNCHANGED <<cache, reconcilerVars, qkeys, restarts>>

RenumberDone ==
    /\ q.pc = "renumber"
    /\ q.todo = {}
    /\ q' = QIdle
    /\ UNCHANGED <<apiVars, reconcilerVars, qkeys, restarts>>

ReconcileQueue ==
    \/ ListForNew
    \/ ListForQueued
    \/ ListError
    \/ Enqueue
    \/ Admit
    \/ Dequeue
    \/ \E b \in Backup : Renumber(b)
    \/ RenumberDone

-----------------------------------------------------------------------------
(***************************************************************************)
(* Events.                                                                 *)
(***************************************************************************)

\* The keys a change of object b from old to new puts in the queue
\* controller's work queue: b if it is new; every queued backup if b has
\* left InProgress, or has been queued while there is room to run it.
QueueKeysOn(b, old, new, c) ==
    {k \in {b} : new.phase = "New"}
    \cup
    {k \in OrderedQueued(c) :
        /\ Exists(old)
        /\ Exists(new)
        /\ \/ old.phase = "InProgress" /\ new.phase # "InProgress"
           \/ /\ old.phase # "Queued"
              /\ new.phase = "Queued"
              /\ RunningCount(tracker) < ConcurrentBackups}

\* The informer applies the oldest change and tells the controllers.
Deliver ==
    /\ watch # <<>>
    /\ LET e == Head(watch) IN
       /\ cache' = [cache EXCEPT ![e.key] = e.obj]
       /\ qkeys' = qkeys \cup QueueKeysOn(e.key, cache[e.key], e.obj, cache')
       /\ bkeys' = bkeys \cup BackupKeysOn(e.key, cache[e.key], e.obj)
    /\ watch' = Tail(watch)
    /\ UNCHANGED <<api, faults, tracker, bw, q, restarts>>

\* The informer's periodic resync: an update event for an object that has
\* not changed.
Resync(b) ==
    /\ Exists(cache[b])
    /\ qkeys' = qkeys \cup QueueKeysOn(b, cache[b], cache[b], cache)
    /\ bkeys' = bkeys \cup BackupKeysOn(b, cache[b], cache[b])
    /\ UNCHANGED <<apiVars, tracker, bw, q, restarts>>

\* Once a minute the queue controller enqueues the queued backups.
PeriodicEnqueue_Never == UNCHANGED vars

PeriodicEnqueue ==
    /\ qkeys' = qkeys \cup OrderedQueued(cache)
    /\ UNCHANGED <<apiVars, reconcilerVars, q, restarts>>

\* A user creates a backup, or deletes the object of one.
CreateBackup(b) ==
    /\ api[b] = Absent
    /\ Store(b, [phase |-> "New", pos |-> 0])
    /\ UNCHANGED <<cache, faults, reconcilerVars, qkeys, q, restarts>>

DeleteBackup(b) ==
    /\ b \in MayDelete
    /\ Exists(api[b])
    /\ Store(b, Gone)
    /\ UNCHANGED <<cache, faults, reconcilerVars, qkeys, q, restarts>>

\* The server restarts.  The queue controller sees the objects of the
\* first list as created.
Restart(missed) ==
    /\ restarts < MaxRestarts
    /\ restarts' = restarts + 1
    /\ MarkInProgressFailed(missed)
    /\ RelistCache
    /\ tracker' = NewBackupTracker
    /\ bkeys' = {}
    /\ bw' = [b \in Backup |-> Idle]
    /\ q' = QIdle
    /\ qkeys' = {b \in Backup : api[b].phase = "New"}

-----------------------------------------------------------------------------
Next ==
    \/ \E b \in Backup : TakeKey(b)
    \/ ReconcileQueue
    \/ \E b \in Backup : ReconcileBackup(b) /\ UNCHANGED <<qkeys, q, restarts>>
    \/ Deliver
    \/ \E b \in Backup : Resync(b)
    \/ PeriodicEnqueue
    \/ \E b \in Backup : CreateBackup(b)
    \/ \E b \in MayDelete : DeleteBackup(b)
    \/ \E missed \in SUBSET {b \in Backup : api[b].phase = "InProgress"} :
          Restart(missed)

Spec == Init /\ [][Next]_vars

(***************************************************************************)
(* Fairness.  Every worker that has something to do goes on (its calls     *)
(* return or time out), the informer's stream is not stuck, the queue      *)
(* controller's timer and the informer's resync keep firing.  A work queue *)
(* is first in, first out, so that no key waits in it for ever: hence      *)
(* strong fairness for taking a key, which is possible only now and then.  *)
(***************************************************************************)
Fairness ==
    /\ WF_vars(Deliver)
    /\ WF_vars(PeriodicEnqueue)
    /\ SF_vars(ReconcileQueue)
    /\ \A b \in Backup :
          /\ WF_vars(Resync(b))
          /\ SF_vars(TakeKey(b))
          /\ SF_vars(TakeBackup(b) /\ UNCHANGED <<qkeys, q, restarts>>)
          /\ SF_vars(WorkOn(b) /\ UNCHANGED <<qkeys, q, restarts>>)

FairSpec == Spec /\ Fairness

-----------------------------------------------------------------------------
(***************************************************************************)
(* Properties.                                                             *)
(***************************************************************************)

Active(b) == api[b].phase \in ActivePhases

\* Two backups that include a common namespace are never both ReadyToStart
\* or InProgress: the same workload is never backed up twice at once.
NoConflictingActive ==
    \A b1, b2 \in Backup :
        b1 # b2 /\ Active(b1) /\ Active(b2) => ~Overlap(b1, b2)

\* As long as the server has not restarted and no call has failed, no more
\* than ConcurrentBackups backups are ReadyToStart or InProgress.  (A new
\* server starts with an empty tracker although backups may still be
\* ReadyToStart; a patch whose reply is lost takes one out of the tracker.)
WithinLimit ==
    restarts = 0 /\ faults = 0 =>
        Cardinality({b \in Backup : Active(b)}) <= ConcurrentBackups

\* A backup the tracker counts as running does run, or a worker that will
\* take it out of the tracker holds it.  A leaked entry would use up a slot
\* of the queue until the server restarts.
NoTrackerLeak ==
    \A b \in tracker.ready \cup tracker.inProgress :
        \/ Active(b)
        \/ q.pc = "dequeue" /\ q.key = b
        \/ bw[b].pc \in {"patched", "running", "finishing", "leaving"}

\* Queued backups have distinct positions from 1 on and the running ones
\* have position 0, which is what earlierThan relies on.
QueuePositions ==
    \A b1 \in Backup :
        /\ Active(b1) => api[b1].pos = 0
        /\ api[b1].phase = "Queued" =>
              /\ api[b1].pos > 0
              /\ \A b2 \in Backup \ {b1} :
                    api[b2].phase = "Queued" => api[b1].pos # api[b2].pos

\* A backup never goes back to a phase it has left: it is queued, dequeued
\* and run at most once.
Life == <<{"Absent"}, {"New"}, {"Queued"}, {"ReadyToStart"}, {"InProgress"},
          PostPhases, TerminalPhases \cup {"Deleting", "Gone"}>>

Age == [phase \in Phases \cup {"Absent", "Gone"} |->
           CHOOSE i \in 1 .. 7 : phase \in Life[i]]

PhasesGoForward ==
    [][\A b \in Backup : Age[api[b].phase] <= Age[api'[b].phase]]_vars

\* When a backup is dequeued, no backup with a common namespace is ahead of
\* it in the queue: a backup of many namespaces is not overtaken for ever by
\* later ones that each need some of them.
StartsInOrder ==
    [][\A b \in Backup :
          api[b].phase = "Queued" /\ api'[b].phase = "ReadyToStart" =>
              \A e \in Backup :
                  api[e].phase = "Queued" /\ api[e].pos < api[b].pos =>
                      ~Overlap(b, e)]_vars

\* Renumbering the queue, at every one of its patches, keeps the order in
\* which the queued backups stand, and so does everything else.
OrderKept ==
    [][\A b1, b2 \in Backup :
          /\ api[b1].phase = "Queued" /\ api'[b1].phase = "Queued"
          /\ api[b2].phase = "Queued" /\ api'[b2].phase = "Queued"
          /\ api[b1].pos < api[b2].pos
          => api'[b1].pos < api'[b2].pos]_vars

\* Every backup that is created is eventually run (or refused), whatever is
\* queued around it and although the server may restart at any point.
EveryBackupRuns ==
    \A b \in Backup :
        api[b].phase \in {"New", "Queued", "ReadyToStart"} ~>
            api[b].phase \notin {"New", "Queued", "ReadyToStart"}

\* A backup that has been started ends, even if the server restarts while
\* it runs.
StartedBackupsFinish ==
    \A b \in Backup :
        api[b].phase = "InProgress" ~> api[b].phase # "InProgress"

\* The tracker's count of running backups comes down again: no entry stays
\* in it for ever.
RunningCountSettles ==
    \A b \in Backup :
        b \in tracker.ready \cup tracker.inProgress ~>
            b \notin tracker.ready \cup tracker.inProgress

-----------------------------------------------------------------------------
(***************************************************************************)
(* The abstract specification this one implements.                         *)
(***************************************************************************)
Stage(phase) ==
    IF phase = "Absent" THEN "absent"
    ELSE IF phase \in {"New", "Queued"} THEN "waiting"
    ELSE IF phase \in ActivePhases THEN "running"
    ELSE "over"

Admission == INSTANCE BackupAdmission
             WITH stage <- [b \in Backup |-> Stage(api[b].phase)]

\* The controllers implement the promise: every step they take lets a
\* backup in under the abstract guard, ends backups or changes nothing.
ImplementsAdmission == Admission!StageSpec

-----------------------------------------------------------------------------
(***************************************************************************)
(* The inductive invariant, for reads that are fresh.                      *)
(***************************************************************************)

\* The cache is the API server's state but for the changes under way.
CacheBehind ==
    /\ \A b \in Backup :
          (\A i \in 1 .. Len(watch) : watch[i].key # b) => cache[b] = api[b]
    /\ \A i \in 1 .. Len(watch) :
          (\A j \in i + 1 .. Len(watch) : watch[j].key # watch[i].key)
              => watch[i].obj = api[watch[i].key]

\* Positions say which backups are queued.
PosInv ==
    \A b \in Backup : (api[b].phase = "Queued") <=> (api[b].pos > 0)

\* What the queue worker has decided is still so: the only other change its
\* backup can undergo is to be deleted.
DeciderInv ==
    \A b \in Backup : b = q.key /\ api[b].phase # "Gone" =>
        /\ q.pc \in {"listNew", "enqueue"} =>
              api[b].phase = "New"
        /\ q.pc \in {"listQueued", "admit", "dequeue"} =>
              /\ api[b].phase = "Queued"
              /\ api[b].pos = q.pos
        /\ q.pc \in {"admit", "dequeue"} =>
              \A r \in Backup : Active(r) => ~Overlap(b, r)

\* The backups it has still to renumber are queued where it saw them.
RenumberInv ==
    /\ q.next > 0
    /\ q.pc = "enqueue" => q.pos > 0
    /\ q.pc \in {"admit", "dequeue", "renumber"} =>
          /\ q.key \notin q.todo
          /\ \A b \in q.todo : api[b].phase # "Gone" =>
                /\ api[b].phase = "Queued"
                /\ api[b].pos = q.seen[b]

\* A worker's backup is in the phase the worker believes, or deleted.
WorkerInv ==
    \A b \in Backup : api[b].phase # "Gone" =>
        /\ bw[b].pc = "prepared" => api[b].phase = "ReadyToStart"
        /\ bw[b].pc = "patched" => api[b].phase = bw[b].phase
        /\ bw[b].pc = "patched" =>
              bw[b].phase \in {"InProgress", "FailedValidation"}
        /\ bw[b].pc = "running" => api[b].phase = "InProgress"
        /\ bw[b].pc = "finishing" =>
              /\ api[b].phase \in {"InProgress", bw[b].phase}
              /\ bw[b].phase \in RunOutcomes

\* Why overlapping backups never run together.
ExclusionInv ==
    /\ CacheBehind
    /\ PosInv
    /\ DeciderInv
    /\ RenumberInv
    /\ WorkerInv
    /\ NoConflictingActive

=============================================================================
