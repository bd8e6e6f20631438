------------------------ MODULE BackupDeletion_proofs ------------------------
(***************************************************************************)
(* Proofs about BackupLifecycle with requests to delete backups, for any   *)
(* set of backups, operations and requests: who works on a backup while it *)
(* is being deleted.  The deletion controller asks the tracker once, when  *)
(* it takes a request; what makes that enough is that the tracker holds    *)
(* every backup some controller works on, or is going to work on.          *)
(***************************************************************************)
EXTENDS BackupLifecycle_proofs

-----------------------------------------------------------------------------
(***************************************************************************)
(* One writer.  Requests to delete backups are made, calls fail, objects   *)
(* and directories go, but the server does not restart, since the tracker  *)
(* comes up empty, and nobody asks to delete a backup that has not run.    *)
(***************************************************************************)
Orderly ==
    /\ FreshReads /\ ~LostReplies /\ ~Syncing
    /\ MaxRestarts = 0
    /\ DeletableIn \cap Early = {}

\* A controller works on b.
ActsOn(b) == bo.pc \in Acting /\ bo.key = b

DecidesOn(b) == Deciding /\ bf.key = b

Engaged(b) ==
    /\ bd.pc \in {"get", "accept", "mark", "clean", "list", "objects", "backup"}
    /\ Target[bd.req] = b

\* All that is left to the finalizer is to patch the final phase.
FinalIsOut(b) == bf.pc = "patch" /\ bf.phase # "New" /\ bf.key = b

\* A worker that will take b out of the tracker.
Forgets(b) == bw[b].pc \in {"patched", "leaving"} /\ bw[b].phase \in TerminalPhases

\* b has run, and does not run again.
Passed(b) ==
    /\ api[b].phase \notin Early
    /\ bw[b].pc \notin {"prepared", "running", "finishing"}
    /\ bw[b].pc = "patched" => bw[b].phase = "FailedValidation"

\* What the backup controller knows of the phase, next to deletions.
RunnerInv ==
    \A b \in Backup :
        /\ bw[b].pc = "prepared" => api[b].phase \in {"ReadyToStart", "Gone"}
        /\ bw[b].pc = "patched" =>
              /\ bw[b].phase \in Verdicts
              /\ bw[b].phase = "InProgress" =>
                    api[b].phase \in {"InProgress", "Gone"}
        /\ bw[b].pc \in {"running", "finishing"} =>
              api[b].phase \in {"InProgress", "Gone"}
        /\ bw[b].pc = "finishing" => bw[b].phase \in PostPhases \cup {"Failed"}
        /\ up[b].pc # "idle" => bw[b].pc = "running"

\* The other controllers work on backups that have run.
PassedInv ==
    /\ \A r \in Request : req[r] # "Absent" => Passed(Target[r])
    /\ bd.pc # "idle" => req[bd.req] # "Absent"
    /\ bo.pc # "idle" => Passed(bo.key)
    /\ bf.pc # "idle" => Passed(bf.key)

\* The phase the finalizer has read still holds, or the backup is being
\* deleted after the tracker has been told that it is over.
FinisherInv ==
    Deciding =>
        /\ bf.phase # "New"
        /\ \/ api[bf.key].phase \in FinalizingPhases \cup {"Gone"}
           \/ bf.pc = "patch" /\ api[bf.key].phase = "Deleting"

\* Nobody works on a backup that a worker will take out of the tracker.
LeaverInv ==
    \A b \in Backup : Forgets(b) =>
        /\ api[b].phase \notin PostPhases
        /\ ~ActsOn(b)
        /\ ~DecidesOn(b)

\* The tracker has every backup that somebody works on or is to work on.
TrackerInv ==
    \A b \in Backup :
        /\ bw[b].pc \in {"running", "finishing"} => b \in tracker.inProgress
        /\ api[b].phase \in WaitingPhases => Contains(tracker, b)
        /\ api[b].phase \in FinalizingPhases =>
              Contains(tracker, b) \/ FinalIsOut(b)
        /\ ActsOn(b) => Contains(tracker, b)
        /\ DecidesOn(b) => Contains(tracker, b) \/ FinalIsOut(b)

OneKey == \A b \in Backup : ~(ActsOn(b) /\ DecidesOn(b))

\* On a backup that is being deleted nobody works, or is going to.
DeleterInv ==
    \A b \in Backup : Engaged(b) =>
        /\ api[b].phase \notin WaitingPhases
        /\ api[b].phase \in FinalizingPhases => FinalIsOut(b)
        /\ ~ActsOn(b)
        /\ DecidesOn(b) => FinalIsOut(b)

OrderInv ==
    /\ RunnerInv /\ PollerInv /\ PassedInv /\ FinisherInv /\ LeaverInv
    /\ TrackerInv /\ OneKey /\ DeleterInv
    /\ sy.pc = "idle"

OrderBasis == TypeInv /\ CacheBehind /\ OrderInv

\* What the invariants are about, well typed.
LEMMA OrderTypes ==
    ASSUME TypeInv
    PROVE  /\ api \in [Backup -> Object]
           /\ bw \in [Backup -> [pc : WorkerPc, phase : Phases]]
           /\ tracker \in [ready : SUBSET Backup, inProgress : SUBSET Backup,
                           post : SUBSET Backup]
           /\ up \in [Backup -> [pc : UpPc, phase : RunOutcomes \cup {"Failed"},
                                 ops : Operations \cup {NoOps}]]
           /\ req \in [Request -> RequestPhases]
           /\ Target \in [Request -> Backup]
           /\ bo.pc # "idle" => bo.key \in Backup
           /\ bf.pc # "idle" => bf.key \in Backup
           /\ bd.pc # "idle" => bd.req \in Request
BY DeletionAssumption DEF TypeInv, TypeOK, Keys, ApiTypeOK, ReconcilerTypeOK,
   UploadTypeOK, DeletionTypeOK

\* Steps that change nothing of it.
LEMMA OrderKept ==
    ASSUME OrderInv, UNCHANGED <<api, bw, up, tracker, bo, bf, req, bd, sy>>
    PROVE  OrderInv'
BY DEF OrderInv, RunnerInv, PollerInv, PassedInv, Passed, FinisherInv, LeaverInv,
   Forgets, TrackerInv, OneKey, DeleterInv, ActsOn, DecidesOn, Deciding, Engaged,
   FinalIsOut

\* Users, the queue and the informer keep the order.
LEMMA WorldOrder ==
    ASSUME Orderly, OrderBasis, WorldStep
    PROVE  OrderInv'
<1> USE DEF OrderBasis
<1>1. UNCHANGED <<bw, up, bo, bf, req, bd, sy>>
  BY DEF WorldStep, CreateBackup, DeleteObjectOf, EmptyDirectory, LetIn, Resync,
     Deliver, Notify, controllerVars
<1>2. CASE UNCHANGED <<api, tracker>>
  BY <1>1, <1>2, OrderKept
<1>3. ASSUME NEW b \in Backup, NEW o \in Object, NEW old,
             api[b].phase = old, api' = [api EXCEPT ![b] = o],
             \A c : Contains(tracker, c)' = Contains(tracker, c),
             tracker'.inProgress = tracker.inProgress,
             \/ old = "Absent" /\ o.phase = "New"
             \/ old = "New" /\ o.phase = "ReadyToStart"
             \/ o.phase = "Gone"
      PROVE  OrderInv'
  BY <1>1, <1>3, OrderTypes DEF OrderInv, RunnerInv, PollerInv, PassedInv, Passed,
     FinisherInv, LeaverInv, Forgets, TrackerInv, OneKey, DeleterInv, ActsOn,
     DecidesOn, Deciding, Engaged, FinalIsOut, Early, Verdicts, WaitingPhases,
     FinalizingPhases, PostPhases, Acting
<1>4. [phase |-> "New", pos |-> 0] \in Object
      /\ [phase |-> "ReadyToStart", pos |-> 0] \in Object /\ Gone \in Object
  BY DEF Object, Phases, Gone
<1>5. ASSUME NEW b \in Backup, CreateBackup(b) PROVE OrderInv'
  <2>1. api[b].phase = "Absent"
    BY <1>5 DEF CreateBackup, Absent
  <2> QED
    BY <1>3, <1>4, <1>5, <2>1 DEF CreateBackup, Store, controllerVars
<1>6. ASSUME NEW b \in Backup, DeleteObjectOf(b) PROVE OrderInv'
  BY <1>3, <1>4, <1>6 DEF DeleteObjectOf, Store, Gone, controllerVars
<1>7. ASSUME NEW b \in Backup, LetIn(b) PROVE OrderInv'
  <2>1. /\ \A c : Contains(tracker, c)' = Contains(tracker, c)
        /\ tracker'.inProgress = tracker.inProgress
    BY <1>7 DEF LetIn, AddReadyToStart, Contains
  <2> QED
    BY <1>3, <1>4, <1>7, <2>1 DEF LetIn, Store
<1>8. ASSUME NEW b \in Backup, EmptyDirectory(b) PROVE OrderInv'
  BY <1>2, <1>8 DEF EmptyDirectory, apiVars, controllerVars
<1>9. ASSUME NEW b \in Backup, Resync(b) \/ Deliver PROVE OrderInv'
  BY <1>2, <1>9 DEF Resync, Deliver, Notify
<1>10. CASE Deliver
  BY <1>2, <1>10 DEF Deliver, Notify
<1> QED
  BY <1>5, <1>6, <1>7, <1>8, <1>9, <1>10 DEF WorldStep

\* The backup controller keeps the order: what it writes is about a backup
\* that no other controller has seen run, until it leaves it in the tracker.
LEMMA ReconcileOrder ==
    ASSUME Orderly, OrderBasis, NEW b \in Backup, BackupStep(Reconcile(b))
    PROVE  OrderInv'
<1> USE DEF OrderBasis
<1>1. UNCHANGED <<up, bo, bf, req, bd, sy>>
  BY DEF BackupStep, Reconcile, uploadVars, operationsVars, finalizerVars,
     deletionVars
<1>2. ASSUME bw[b].pc = "idle", UNCHANGED <<api, tracker>>,
             \/ UNCHANGED bw
             \/ /\ api[b].phase = "ReadyToStart"
                /\ bw' = [bw EXCEPT ![b] = [pc |-> "prepared",
                                            phase |-> "ReadyToStart"]]
      PROVE  OrderInv'
  <2>1. CASE UNCHANGED bw
    BY <1>1, <1>2, <2>1, OrderKept
  <2>2. CASE /\ api[b].phase = "ReadyToStart"
             /\ bw' = [bw EXCEPT ![b] = [pc |-> "prepared",
                                         phase |-> "ReadyToStart"]]
    BY <1>1, <1>2, <2>2, OrderTypes DEF OrderInv, RunnerInv, PollerInv, PassedInv,
       Passed, FinisherInv, LeaverInv, Forgets, TrackerInv, OneKey, DeleterInv,
       ActsOn, DecidesOn, Deciding, Engaged, FinalIsOut, Early, TerminalPhases
  <2> QED
    BY <1>2, <2>1, <2>2
<1>3. CASE TakeBackup(b)
  <2>1. cache = api
    BY <1>3, FreshCache DEF TypeInv, TypeOK, Orderly, TakeBackup
  <2> QED
    BY <1>2, <1>3, <2>1 DEF TakeBackup, apiVars
<1>4. ASSUME NEW phase \in Verdicts, PatchStarted(b, phase)
      PROVE  OrderInv'
  <2>1. phase \in {"InProgress", "FailedValidation"} /\ UNCHANGED tracker
    BY <1>4 DEF Verdicts, PatchStarted
  <2>2. CASE UNCHANGED api /\ bw' = [bw EXCEPT ![b] = Idle]
    BY <1>1, <1>4, <2>1, <2>2, OrderTypes DEF PatchStarted, Idle, OrderInv,
       RunnerInv, PollerInv, PassedInv, Passed, FinisherInv, LeaverInv, Forgets,
       TrackerInv, OneKey, DeleterInv, ActsOn, DecidesOn, Deciding, Engaged,
       FinalIsOut
  <2>4. /\ bw[b].pc = "prepared" /\ ~Passed(b) /\ ~ActsOn(b) /\ ~DecidesOn(b)
        /\ ~Engaged(b)
    BY <1>4, OrderTypes DEF PatchStarted, Passed, OrderInv, PassedInv, ActsOn,
       DecidesOn, Deciding, Acting, Engaged
  <2>3. CASE /\ Exists(api[b])
             /\ api' = [api EXCEPT ![b] =
                           [phase |-> phase, pos |-> api[b].pos]]
             /\ bw' = [bw EXCEPT ![b] = [pc |-> "patched", phase |-> phase]]
    BY <1>1, <2>1, <2>3, <2>4, OrderTypes DEF Exists, OrderInv, RunnerInv,
       PollerInv, PassedInv, Passed, FinisherInv, LeaverInv, Forgets, TrackerInv,
       OneKey, DeleterInv, ActsOn, DecidesOn, Deciding, Acting, Engaged,
       FinalIsOut, Early, Verdicts, WaitingPhases, FinalizingPhases, PostPhases,
       TerminalPhases
  <2> QED
    BY <1>4, <2>2, <2>3 DEF PatchStarted, PatchOk, PatchError, Store, Orderly
<1>5. CASE TrackStarted(b)
  <2>1. /\ \A c : Contains(tracker, c) => Contains(tracker, c)'
        /\ tracker'.inProgress = tracker.inProgress \cup {b}
    BY <1>5 DEF TrackStarted, Add, Contains
  <2>2. bw[b].pc = "patched" /\ UNCHANGED api
    BY <1>5 DEF TrackStarted, apiVars
  <2>3. bw' = [bw EXCEPT ![b] = [pc |-> IF bw[b].phase = "FailedValidation"
                                        THEN "leaving" ELSE "running",
                                 phase |-> bw[b].phase]]
    BY <1>5 DEF TrackStarted
  <2> QED
    BY <1>1, <2>1, <2>2, <2>3, OrderTypes DEF OrderInv, RunnerInv, PollerInv,
       PassedInv, Passed, FinisherInv, LeaverInv, Forgets, TrackerInv, OneKey,
       DeleterInv, ActsOn, DecidesOn, Deciding, Engaged, FinalIsOut, Verdicts
<1>6. CASE PatchFinished(b)
  <2>1. bw[b].pc = "finishing" /\ UNCHANGED tracker
    BY <1>6 DEF PatchFinished
  <2>2. ~Passed(b) /\ b \in tracker.inProgress /\ Contains(tracker, b)
    BY <2>1 DEF Passed, OrderInv, TrackerInv, Contains
  <2>3. CASE UNCHANGED <<api, bw>>
    BY <1>1, <2>1, <2>3, OrderKept
  <2>4. CASE UNCHANGED api /\ bw' = [bw EXCEPT ![b] =
                                  [pc |-> "leaving", phase |-> bw[b].phase]]
    BY <1>1, <2>1, <2>2, <2>4, OrderTypes DEF OrderInv, RunnerInv, PollerInv,
       PassedInv, Passed, FinisherInv, LeaverInv, Forgets, TrackerInv, OneKey,
       DeleterInv, ActsOn, DecidesOn, Deciding, Acting, Engaged, FinalIsOut,
       PostPhases
  <2>5. CASE /\ Exists(api[b])
             /\ api' = [api EXCEPT ![b] =
                           [phase |-> bw[b].phase, pos |-> api[b].pos]]
             /\ bw' = [bw EXCEPT ![b] =
                           [pc |-> "leaving", phase |-> bw[b].phase]]
    BY <1>1, <2>1, <2>2, <2>5, OrderTypes DEF Exists, OrderInv, RunnerInv,
       PollerInv, PassedInv, Passed, FinisherInv, LeaverInv, Forgets, TrackerInv,
       OneKey, DeleterInv, ActsOn, DecidesOn, Deciding, Acting, Engaged,
       FinalIsOut, PostPhases, WaitingPhases, FinalizingPhases, TerminalPhases,
       Early
  <2> QED
    BY <1>6, <2>3, <2>4, <2>5 DEF PatchFinished, PatchOk, PatchError, Store,
       Orderly
<1>7. CASE LeaveBackup(b)
  <2>1. /\ bw[b].pc = "leaving" /\ UNCHANGED api
        /\ bw' = [bw EXCEPT ![b] = [pc |-> "idle", phase |-> "New"]]
    BY <1>7 DEF LeaveBackup, Idle, apiVars
  <2>2. \A c \in Backup :
           /\ c # b => (c \in tracker'.inProgress <=> c \in tracker.inProgress)
           /\ Contains(tracker, c) => Contains(tracker, c)' \/ (c = b /\ Forgets(b))
    BY <1>7, <2>1, OrderTypes DEF LeaveBackup, Delete, AddPostProcessing, Contains,
       Forgets
  <2> QED
    BY <1>1, <2>1, <2>2, OrderTypes DEF OrderInv, RunnerInv, PollerInv, PassedInv,
       Passed, FinisherInv, LeaverInv, Forgets, TrackerInv, OneKey, DeleterInv,
       ActsOn, DecidesOn, Deciding, Engaged, FinalIsOut, PostPhases,
       WaitingPhases, FinalizingPhases
<1> QED
  BY <1>3, <1>4, <1>5, <1>6, <1>7 DEF BackupStep, Reconcile

\* So do uploads, which only the worker of a running backup makes, and the
\* plugins.
LEMMA UploadOrder ==
    ASSUME OrderBasis, NEW b \in Backup,
           BackupStep(Upload(b)) \/ BackupStep(\E o \in Op : PluginEnds(b, o))
    PROVE  OrderInv'
<1> USE DEF OrderBasis
<1>1. UNCHANGED <<api, tracker, bo, bf, req, bd, sy>>
  BY DEF BackupStep, Upload, BackUp, PutMetadata, PutContents, PutLists,
     UndoContents, UndoMetadata, BackedUp, RunBackup, PluginEnds, apiVars,
     reconcilerVars, operationsVars, finalizerVars, deletionVars
<1>2. CASE UNCHANGED <<bw, up>>
  BY <1>1, <1>2, OrderKept
<1>3. ASSUME bw[b].pc = "running", UNCHANGED bw,
             \E pc, phase, ops : UpAt(b, pc, phase, ops)
      PROVE  OrderInv'
  BY <1>1, <1>3, OrderTypes DEF UpAt, OrderInv, RunnerInv, PollerInv, PassedInv,
     Passed, FinisherInv, LeaverInv, Forgets, TrackerInv, OneKey, DeleterInv,
     ActsOn, DecidesOn, Deciding, Engaged, FinalIsOut
<1>4. CASE BackedUp(b)
  <2>1. bw' = [bw EXCEPT ![b] = [pc |-> "finishing", phase |-> up[b].phase]]
    BY <1>4 DEF BackedUp, RunBackup
  <2>2. up' = [up EXCEPT ![b] = UpIdle] /\ UpIdle.pc = "idle"
    BY <1>4 DEF BackedUp, UpIdle
  <2>3. bw[b].pc = "running" /\ up[b].phase \in PostPhases \cup {"Failed"}
    BY <1>4, OrderTypes, ReconcilerAssumption DEF BackedUp, RunBackup
  <2> QED
    BY <1>1, <2>1, <2>2, <2>3, OrderTypes DEF OrderInv, RunnerInv, PollerInv,
       PassedInv, Passed, FinisherInv, LeaverInv, Forgets, TrackerInv, OneKey,
       DeleterInv, ActsOn, DecidesOn, Deciding, Engaged, FinalIsOut
<1>5. BackUp(b) => bw[b].pc = "running" /\ UNCHANGED bw
                   /\ \E pc, phase, ops : UpAt(b, pc, phase, ops)
  BY DEF BackUp, reconcilerVars
<1>6. ASSUME \/ PutMetadata(b) \/ PutContents(b) \/ PutLists(b)
             \/ UndoContents(b) \/ UndoMetadata(b)
      PROVE  bw[b].pc = "running" /\ UNCHANGED bw
             /\ \E pc, phase, ops : UpAt(b, pc, phase, ops)
  BY <1>6 DEF PutMetadata, PutContents, PutLists, UndoContents, UndoMetadata,
     reconcilerVars, OrderInv, RunnerInv
<1>7. ASSUME NEW o \in Op, PluginEnds(b, o) PROVE UNCHANGED <<bw, up>>
  BY <1>7 DEF PluginEnds, reconcilerVars
<1> QED
  BY <1>2, <1>3, <1>4, <1>5, <1>6, <1>7 DEF BackupStep, Upload

\* So does the operations controller: it takes a backup that waits, so one
\* that is in the tracker and not being deleted.
LEMMA PollOrder ==
    ASSUME Orderly, OrderBasis,
           \/ \E b \in Backup : OperationsStep(TakeWaiting(b))
           \/ \E b \in Backup : OperationsStep(DownloadOperations(b))
           \/ OperationsStep(ReconcileOperations)
    PROVE  OrderInv'
<1> USE DEF OrderBasis
<1>1. UNCHANGED <<bw, up, tracker, bf, req, bd, sy>>
  BY DEF OperationsStep, TakeWaiting, DownloadOperations, ReconcileOperations,
     LocationGone, Poll, PollError, PutPhase, PutOps, PatchPolled,
     LeaveOperations, reconcilerVars, uploadVars, finalizerVars, deletionVars
<1>2. ASSUME UNCHANGED api, bo.pc # "idle", PollerInv',
             \/ bo'.key = bo.key /\ (bo'.pc \in Acting => bo.pc \in Acting)
             \/ bo'.pc = "idle"
      PROVE  OrderInv'
  BY <1>1, <1>2, OrderTypes DEF OrderInv, RunnerInv, PassedInv, Passed,
     FinisherInv, LeaverInv, Forgets, TrackerInv, OneKey, DeleterInv, ActsOn,
     DecidesOn, Deciding, Acting, Engaged, FinalIsOut
<1>3. ASSUME NEW b \in Backup, TakeWaiting(b) PROVE OrderInv'
  <2>1. cache = api
    BY <1>3, FreshCache DEF TypeInv, TypeOK, Orderly, TakeWaiting
  <2>2. /\ UNCHANGED api
        /\ api[b].phase \in WaitingPhases
        /\ bo'.pc = "poll" /\ bo'.key = b
        /\ bo'.was = api[b].phase /\ bo'.phase = api[b].phase
    BY <1>3, <2>1 DEF TakeWaiting, apiVars, BoAt
  <2>3. Passed(b)
    BY <2>2, OrderTypes DEF OrderInv, RunnerInv, Passed, WaitingPhases, Early,
       Verdicts
  <2>4. ~Forgets(b) /\ Contains(tracker, b) /\ ~DecidesOn(b) /\ ~Engaged(b)
    BY <2>2 DEF OrderInv, LeaverInv, TrackerInv, FinisherInv, DecidesOn,
       DeleterInv, WaitingPhases, FinalizingPhases, PostPhases
  <2> QED
    BY <1>1, <2>2, <2>3, <2>4, OrderTypes DEF OrderInv, RunnerInv, PollerInv,
       PassedInv, Passed, FinisherInv, LeaverInv, Forgets, TrackerInv, OneKey,
       DeleterInv, ActsOn, DecidesOn, Deciding, Acting, Engaged, FinalIsOut
<1>4. ASSUME NEW b \in Backup, DownloadOperations(b) PROVE OrderInv'
  BY <1>1, <1>4, OrderKept DEF DownloadOperations
<1>5. CASE LocationGone
  <2>1. UNCHANGED api /\ bo.pc = "poll" /\ bo'.pc = "patch" /\ bo'.key = bo.key
        /\ bo'.was = bo.was /\ bo'.phase = "PartiallyFailed"
    BY <1>5 DEF LocationGone, apiVars, BoAt
  <2>2. PollerInv'
    BY <2>1, MovesFacts DEF OrderInv, PollerInv, Acting
  <2> QED
    BY <1>2, <2>1, <2>2 DEF Acting
<1>6. ASSUME NEW late, Poll(late) PROVE OrderInv'
  <2>1. PICK pc, ops, errs, entry, changes :
           bo' = BoAt(pc, bo.key, bo.was, NextPhase(bo.phase, ops, errs),
                      entry, changes, TRUE)
    BY <1>6 DEF Poll
  <2>2. bo.pc = "poll" /\ UNCHANGED api
    BY <1>6 DEF Poll, apiVars
  <2>3. bo.was \in WaitingPhases /\ bo.phase = bo.was
    BY <2>2 DEF OrderInv, PollerInv
  <2>4. NextPhase(bo.phase, ops, errs) \in Moves(bo.was) \cup {bo.was}
    BY <2>3, NextPhaseMoves
  <2>5. bo'.pc \in {"putMetadata", "leave"} /\ bo'.key = bo.key
    BY <1>6 DEF Poll, BoAt
  <2>6. PollerInv'
    BY <2>1, <2>2, <2>3, <2>4, <2>5 DEF BoAt, OrderInv, PollerInv, Acting
  <2> QED
    BY <1>2, <2>2, <2>5, <2>6 DEF Acting
<1>7. CASE PollError \/ PutPhase \/ PutOps
  <2>1. /\ UNCHANGED api
        /\ bo.pc \in {"poll", "putMetadata", "putOps"}
        /\ bo'.pc \in {"putMetadata", "putOps", "patch", "leave"}
        /\ bo'.key = bo.key /\ bo'.was = bo.was /\ bo'.phase = bo.phase
    BY <1>7 DEF PollError, PutPhase, PutOps, BoNext, GiveUp, BoAt
  <2>2. PollerInv'
    BY <2>1 DEF OrderInv, PollerInv, Acting
  <2> QED
    BY <1>2, <2>1, <2>2 DEF Acting
<1>8. CASE PatchPolled
  <2>1. /\ bo.pc = "patch" /\ bo'.pc = "leave" /\ bo'.key = bo.key
        /\ bo'.was = bo.was
    BY <1>8 DEF PatchPolled, BoNext, GiveUp, BoAt
  <2>2. PollerInv'
    BY <2>1 DEF OrderInv, PollerInv, Acting
  <2>3. CASE UNCHANGED api
    BY <1>2, <2>1, <2>2, <2>3 DEF Acting
  <2>4. CASE /\ Exists(api[bo.key])
             /\ bo.phase # bo.was
             /\ api' = [api EXCEPT ![bo.key] =
                           [phase |-> bo.phase, pos |-> api[bo.key].pos]]
    <3>1. bo.key \in Backup /\ ActsOn(bo.key)
      BY <2>1, OrderTypes DEF ActsOn, Acting
    <3>2. bo.phase \in PostPhases \cup {"PartiallyFailed"}
      <4>1. bo.was \in WaitingPhases /\ bo.phase \in Moves(bo.was)
        BY <2>1, <2>4 DEF OrderInv, PollerInv, Acting
      <4> QED
        BY <4>1 DEF Moves, WaitingPhases, PostPhases
    <3>3. /\ ~Forgets(bo.key) /\ ~DecidesOn(bo.key) /\ ~Engaged(bo.key)
          /\ Passed(bo.key) /\ Contains(tracker, bo.key)
      <4>1. ~Forgets(bo.key) /\ ~DecidesOn(bo.key) /\ ~Engaged(bo.key)
        BY <3>1 DEF OrderInv, LeaverInv, OneKey, DeleterInv
      <4>2. Passed(bo.key) /\ Contains(tracker, bo.key)
        BY <2>1, <3>1 DEF OrderInv, PassedInv, TrackerInv
      <4> QED
        BY <4>1, <4>2
    <3> QED
      BY <1>1, <2>1, <2>2, <2>4, <3>1, <3>2, <3>3, OrderTypes DEF OrderInv,
         RunnerInv, PassedInv, Passed, FinisherInv, LeaverInv, Forgets,
         TrackerInv, OneKey, DeleterInv, ActsOn, DecidesOn, Deciding, Acting,
         Engaged, FinalIsOut, Early, PostPhases, Verdicts
  <2> QED
    BY <1>8, <2>3, <2>4, OrderTypes DEF PatchPolled, PatchOk, PatchError, Store,
       Orderly
<1>9. CASE LeaveOperations
  <2>1. bo.pc = "leave" /\ bo'.pc = "idle" /\ UNCHANGED api
    BY <1>9 DEF LeaveOperations, apiVars, BoIdle, BoAt
  <2>2. PollerInv'
    BY <2>1 DEF PollerInv, Acting
  <2> QED
    BY <1>2, <2>1, <2>2
<1> QED
  BY <1>3, <1>4, <1>5, <1>6, <1>7, <1>8, <1>9 DEF OperationsStep,
     ReconcileOperations

\* So does the finalizer: when it takes a backup out of the tracker, only the
\* patch of the final phase is left to do.
LEMMA FinalizeOrder ==
    ASSUME Orderly, OrderBasis,
           \/ \E b \in Backup : FinalizerStep(TakeFinalizing(b))
           \/ FinalizerStep(Finalize)
    PROVE  OrderInv'
<1> USE DEF OrderBasis
<1>1. UNCHANGED <<bw, up, bo, req, bd, sy>>
  BY DEF FinalizerStep, TakeFinalizing, Finalize, Prepare, PrepareError,
     PutFinalMetadata, PutFinalContents, TrackFinal, PatchFinal,
     reconcilerVars, uploadVars, operationsVars, deletionVars
<1>2. ASSUME UNCHANGED <<api, tracker>>, bf.pc \notin {"idle", "patch"},
             bf'.key = bf.key,
             \/ bf'.pc \notin {"idle", "patch"} /\ bf'.phase = bf.phase
             \/ bf'.pc = "patch" /\ bf'.phase = "New"
      PROVE  OrderInv'
  BY <1>1, <1>2, OrderTypes DEF OrderInv, RunnerInv, PollerInv, PassedInv, Passed,
     FinisherInv, LeaverInv, Forgets, TrackerInv, OneKey, DeleterInv, ActsOn,
     DecidesOn, Deciding, Engaged, FinalIsOut
<1>3. ASSUME NEW b \in Backup, TakeFinalizing(b) PROVE OrderInv'
  <2>1. cache = api
    BY <1>3, FreshCache DEF TypeInv, TypeOK, Orderly, TakeFinalizing
  <2>2. UNCHANGED <<api, tracker>> /\ bf.pc = "idle"
    BY <1>3 DEF TakeFinalizing, apiVars, reconcilerVars
  <2>3. CASE UNCHANGED bf
    BY <1>1, <2>2, <2>3, OrderKept
  <2>4. CASE /\ api[b].phase \in FinalizingPhases
             /\ bf' = BfAt("prepare", b, FinalPhase(api[b].phase), FALSE)
    <3>1. bf'.pc = "prepare" /\ bf'.key = b /\ bf'.phase # "New"
      BY <2>4 DEF BfAt, FinalPhase
    <3>4. api[b].phase \in FinalizingPhases
      BY <2>4
    <3>2. Passed(b)
      BY <3>4 DEF OrderInv, RunnerInv, Passed, FinalizingPhases, Early, Verdicts
    <3>3. /\ ~Forgets(b) /\ Contains(tracker, b) /\ ~ActsOn(b) /\ ~Engaged(b)
          /\ ~FinalIsOut(b)
      BY <2>2, <3>4 DEF OrderInv, LeaverInv, TrackerInv, PollerInv, ActsOn,
         Acting, DeleterInv, FinalIsOut, WaitingPhases, FinalizingPhases,
         PostPhases
    <3> QED
      BY <1>1, <2>2, <3>1, <3>2, <3>3, <3>4, OrderTypes DEF OrderInv, RunnerInv,
         PollerInv, PassedInv, Passed, FinisherInv, LeaverInv, Forgets,
         TrackerInv, OneKey, DeleterInv, ActsOn, DecidesOn, Deciding, Engaged,
         FinalIsOut
  <2> QED
    BY <1>3, <2>1, <2>3, <2>4 DEF TakeFinalizing
<1>4. CASE Prepare \/ PrepareError \/ PutFinalMetadata \/ PutFinalContents
  <2>1. /\ UNCHANGED <<api, tracker>>
        /\ bf.pc \in {"prepare", "putMetadata", "putContents"}
        /\ bf'.key = bf.key
        /\ \/ /\ bf'.pc \in {"putMetadata", "putContents", "track"}
              /\ bf'.phase = bf.phase
           \/ bf'.pc = "patch" /\ bf'.phase = "New"
    BY <1>4 DEF Prepare, PrepareError, PutFinalMetadata, PutFinalContents, Failing,
       BfAt, apiVars, reconcilerVars
  <2> QED
    BY <1>2, <2>1
<1>5. CASE TrackFinal
  <2>1. /\ UNCHANGED api
        /\ bf.pc = "track" /\ bf.key \in Backup /\ Deciding /\ DecidesOn(bf.key)
        /\ bf'.pc = "patch" /\ bf'.key = bf.key /\ bf'.phase = bf.phase
    BY <1>5, OrderTypes DEF TrackFinal, apiVars, BfAt, Deciding, DecidesOn
  <2>2. \A c \in Backup :
           c # bf.key => /\ c \in tracker'.inProgress <=> c \in tracker.inProgress
                         /\ Contains(tracker, c)' <=> Contains(tracker, c)
    BY <1>5, <2>1, OrderTypes DEF TrackFinal, Delete, Contains
  <2>3. /\ bf.phase # "New" /\ ~ActsOn(bf.key) /\ Passed(bf.key)
        /\ api[bf.key].phase \in FinalizingPhases \cup {"Gone"}
    BY <2>1 DEF OrderInv, FinisherInv, OneKey, PassedInv
  <2> QED
    BY <1>1, <2>1, <2>2, <2>3, OrderTypes DEF OrderInv, RunnerInv, PollerInv,
       PassedInv, Passed, FinisherInv, LeaverInv, Forgets, TrackerInv, OneKey,
       DeleterInv, ActsOn, DecidesOn, Deciding, Engaged, FinalIsOut,
       WaitingPhases, FinalizingPhases
<1>6. CASE PatchFinal
  <2>1. bf.pc = "patch" /\ UNCHANGED tracker /\ bf.key \in Backup
    BY <1>6, OrderTypes DEF PatchFinal, reconcilerVars
  <2>2. CASE UNCHANGED <<api, bf>>
    BY <1>1, <2>1, <2>2, OrderKept
  <2>3. CASE UNCHANGED api /\ bf.phase = "New" /\ bf'.pc = "idle"
    BY <1>1, <2>1, <2>3, OrderTypes DEF OrderInv, RunnerInv, PollerInv, PassedInv,
       Passed, FinisherInv, LeaverInv, Forgets, TrackerInv, OneKey, DeleterInv,
       ActsOn, DecidesOn, Deciding, Engaged, FinalIsOut
  <2>4. CASE /\ bf.phase # "New" /\ bf'.pc = "idle"
             /\ api' = [api EXCEPT ![bf.key] =
                           [phase |-> bf.phase, pos |-> api[bf.key].pos]]
    <3>1. DecidesOn(bf.key) /\ bf.phase \in {"Completed", "PartiallyFailed"}
      BY <2>1, <2>4 DEF DecidesOn, Deciding, TypeInv, TypeOK, FinalizerTypeOK
    <3>2. ~ActsOn(bf.key) /\ Passed(bf.key) /\ ~Forgets(bf.key)
      BY <2>1, <3>1 DEF OrderInv, OneKey, PassedInv, LeaverInv
    <3> QED
      BY <1>1, <2>1, <2>4, <3>1, <3>2, OrderTypes DEF OrderInv, RunnerInv,
         PollerInv, PassedInv, Passed, FinisherInv, LeaverInv, Forgets,
         TrackerInv, OneKey, DeleterInv, ActsOn, DecidesOn, Deciding, Engaged,
         FinalIsOut, Early, PostPhases, WaitingPhases, FinalizingPhases
  <2>5. BfIdle.pc = "idle"
    BY DEF BfIdle, BfAt
  <2>6. CASE PatchError(bf.key, IF bf.phase = "New" THEN api[bf.key]
                       ELSE [phase |-> bf.phase, pos |-> api[bf.key].pos])
             /\ UNCHANGED bf
    BY <2>2, <2>6 DEF PatchError, Orderly
  <2>7. CASE PatchOk(bf.key, IF bf.phase = "New" THEN api[bf.key]
                       ELSE [phase |-> bf.phase, pos |-> api[bf.key].pos])
             /\ bf' = BfIdle
    BY <2>1, <2>3, <2>4, <2>5, <2>7, OrderTypes DEF PatchOk, Store
  <2> QED
    BY <1>6, <2>6, <2>7 DEF PatchFinal
<1> QED
  BY <1>3, <1>4, <1>5, <1>6 DEF FinalizerStep, Finalize

\* So do users who ask to delete backups, and the deletion controller, which
\* goes on only with a backup the tracker does not have.
LEMMA DeleteOrder ==
    ASSUME Orderly, OrderBasis,
           \/ \E r \in Request : \/ DeletionStep(CreateRequest(r))
                                 \/ DeletionStep(TakeRequest(r))
                                 \/ DeletionStep(ExpireRequest(r))
           \/ DeletionStep(ReconcileDeletion)
    PROVE  OrderInv'
<1> DEFINE Engaging == {"get", "accept", "mark", "clean", "list", "objects",
                        "backup"}
<1> USE DEF OrderBasis
<1>1. UNCHANGED <<bw, up, tracker, bo, bf, sy>>
  BY DEF DeletionStep, CreateRequest, TakeRequest, ExpireRequest,
     ReconcileDeletion, GetBackup, Refuse, Accept, MarkDeleting, CleanUp,
     ListObjects, DeleteObject, ObjectsDone, DeleteBackup, Finish, Sweep,
     reconcilerVars, uploadVars, operationsVars, finalizerVars
\* The worker goes on, or ends; no request is taken back.
<1>2. ASSUME UNCHANGED api,
             \A s \in Request : req'[s] # "Absent" <=> req[s] # "Absent",
             \/ bd'.pc = "idle"
             \/ /\ bd.pc # "idle" /\ bd'.req = bd.req
                /\ bd'.pc \in Engaging => bd.pc \in Engaging
      PROVE  OrderInv'
  BY <1>1, <1>2, OrderTypes DEF OrderInv, RunnerInv, PollerInv, PassedInv, Passed,
     FinisherInv, LeaverInv, Forgets, TrackerInv, OneKey, DeleterInv, ActsOn,
     DecidesOn, Deciding, Engaged, FinalIsOut
<1>3. ASSUME NEW r \in Request, CreateRequest(r) PROVE OrderInv'
  <2>1. /\ UNCHANGED <<api, bd>>
        /\ req' = [req EXCEPT ![r] = "New"]
        /\ api[Target[r]].phase \in DeletableIn
    BY <1>3 DEF CreateRequest, apiVars
  <2>2. api[Target[r]].phase \notin Early \cup {"Gone"}
    BY <2>1, DeletionAssumption DEF Orderly, Phases, PostPhases, TerminalPhases
  <2>3. Passed(Target[r])
    BY <2>2, OrderTypes DEF OrderInv, RunnerInv, Passed, Early, Verdicts
  <2> QED
    BY <1>1, <2>1, <2>3, OrderTypes DEF OrderInv, RunnerInv, PollerInv, PassedInv,
       Passed, FinisherInv, LeaverInv, Forgets, TrackerInv, OneKey, DeleterInv,
       ActsOn, DecidesOn, Deciding, Engaged, FinalIsOut
<1>4. ASSUME NEW gone \in SUBSET {s \in Request : req[s] # "Absent"},
             NEW s \in Request
      PROVE  WithoutRequests(gone)[s] # "Absent" <=> req[s] # "Absent"
  BY <1>4 DEF WithoutRequests
<1>5. ASSUME NEW r \in Request, TakeRequest(r) PROVE OrderInv'
  <2>1. UNCHANGED api /\ bd.pc = "idle" /\ req[r] = "New"
    BY <1>5 DEF TakeRequest
  <2>2. PICK gone \in SUBSET Others(r) : req' = WithoutRequests(gone)
    BY <1>5 DEF TakeRequest
  <2>3. \A s \in Request : req'[s] # "Absent" <=> req[s] # "Absent"
    BY <1>4, <2>2 DEF Others
  <2>4. CASE UNCHANGED bd
    BY <1>2, <2>1, <2>3, <2>4
  <2>5. CASE bd' = BdAt(IF Contains(tracker, Target[r]) THEN "refuse" ELSE "get",
                        r, FALSE, {}, FALSE)
    <3>1. /\ bd'.req = r
          /\ bd'.pc \in {"refuse", "get"}
          /\ bd'.pc = "get" => ~Contains(tracker, Target[r])
      BY <2>5 DEF BdAt
    <3> QED
      BY <1>1, <2>1, <2>3, <3>1, OrderTypes DEF OrderInv, RunnerInv, PollerInv,
         PassedInv, Passed, FinisherInv, LeaverInv, Forgets, TrackerInv, OneKey,
         DeleterInv, ActsOn, DecidesOn, Deciding, Engaged, FinalIsOut
  <2> QED
    BY <1>5, <2>4, <2>5 DEF TakeRequest
<1>6. ASSUME NEW r \in Request, ExpireRequest(r) PROVE OrderInv'
  <2>1. /\ UNCHANGED <<api, bd>> /\ bd.pc = "idle"
        /\ req[r] # "Absent" /\ req' = [req EXCEPT ![r] = "Gone"]
    BY <1>6 DEF ExpireRequest, apiVars
  <2> QED
    BY <1>2, <2>1, OrderTypes
<1>7. CASE GetBackup \/ CleanUp \/ ListObjects \/ ObjectsDone
           \/ \E part \in Parts : DeleteObject(part)
  <2>1. /\ UNCHANGED <<api, req>>
        /\ \/ bd'.pc = "idle"
           \/ /\ bd.pc \in Engaging /\ bd'.req = bd.req
    BY <1>7 DEF GetBackup, CleanUp, ListObjects, ObjectsDone, DeleteObject,
       BdNext, BdIdle, BdAt
  <2> QED
    BY <1>2, <2>1
<1>8. CASE Refuse \/ Accept \/ Finish
  <2>1. bd.pc \in {"refuse", "accept", "finish"} /\ bd.req \in Request
    BY <1>8, OrderTypes DEF Refuse, Accept, Finish
  <2>2. \/ UNCHANGED req
        \/ \E phase \in {"InProgress", "Processed"} :
              req' = [req EXCEPT ![bd.req] = phase]
    BY <1>8 DEF Refuse, Accept, Finish, RequestOk, RequestError
  <2>3. req[bd.req] # "Absent"
    BY <2>1 DEF OrderInv, PassedInv
  <2>4. \A s \in Request : req'[s] # "Absent" <=> req[s] # "Absent"
    BY <2>1, <2>2, <2>3, OrderTypes
  <2>5. /\ UNCHANGED api
        /\ \/ bd'.pc = "idle"
           \/ /\ bd'.req = bd.req
              /\ bd.pc = "accept" \/ bd'.pc = "sweep"
    BY <1>8 DEF Refuse, Accept, Finish, BdNext, BdIdle, BdAt
  <2> QED
    BY <1>2, <2>1, <2>4, <2>5
<1>9. CASE Sweep
  <2>1. bd.pc = "sweep" /\ bd'.pc = "idle" /\ UNCHANGED api
    BY <1>9 DEF Sweep, BdIdle, BdAt
  <2>2. \/ UNCHANGED req
        \/ req' = WithoutRequests(Others(bd.req) \cup {bd.req})
    BY <1>9 DEF Sweep
  <2>3. Others(bd.req) \cup {bd.req} \in SUBSET {s \in Request : req[s] # "Absent"}
    BY <2>1, OrderTypes DEF Others, OrderInv, PassedInv
  <2>4. \A s \in Request : req'[s] # "Absent" <=> req[s] # "Absent"
    BY <1>4, <2>2, <2>3
  <2> QED
    BY <1>2, <2>1, <2>4
<1>10. CASE MarkDeleting \/ DeleteBackup
  <2> DEFINE b == Target[bd.req]
  <2>1. /\ bd.pc \in {"mark", "backup"} /\ bd.req \in Request /\ b \in Backup
        /\ Engaged(b)
    BY <1>10, OrderTypes DEF MarkDeleting, DeleteBackup, Engaged
  <2>2. /\ UNCHANGED req
        /\ bd'.req = bd.req
        /\ bd'.pc \in {"clean", "refuse", "finish"}
    BY <1>10 DEF MarkDeleting, DeleteBackup, BdNext, BdAt
  <2>3. CASE UNCHANGED api
    BY <1>2, <2>1, <2>2, <2>3
  <2>4. ASSUME NEW o \in Object, o.phase \in {"Deleting", "Gone"},
               Exists(api[b]), api' = [api EXCEPT ![b] = o]
        PROVE  OrderInv'
    <3>1. /\ api[b].phase \notin WaitingPhases /\ ~ActsOn(b)
          /\ api[b].phase \in FinalizingPhases => FinalIsOut(b)
          /\ DecidesOn(b) => FinalIsOut(b)
          /\ Passed(b)
      BY <2>1 DEF OrderInv, DeleterInv, PassedInv
    <3> HIDE DEF b
    <3>2. Target[bd.req] = b
      BY DEF b
    <3> QED
      BY <1>1, <2>1, <2>2, <2>4, <3>1, <3>2, OrderTypes DEF OrderInv, RunnerInv,
         PollerInv, PassedInv, Passed, FinisherInv, LeaverInv, Forgets,
         TrackerInv, OneKey, DeleterInv, ActsOn, DecidesOn, Deciding, Acting,
         Engaged, FinalIsOut, Early, PostPhases, WaitingPhases,
         FinalizingPhases
  <2>5. [phase |-> "Deleting", pos |-> api[b].pos] \in Object /\ Gone \in Object
    <3>1. "Deleting" \in Phases
      BY DEF Phases
    <3>2. TypeInv => ApiTypeOK
      BY DEF TypeInv, TypeOK
    <3> QED
      BY <2>1, <3>1, <3>2, PhaseObject DEF Gone, Object
  <2>6. CASE MarkDeleting
    <3>1. \/ UNCHANGED api
          \/ /\ Exists(api[b])
             /\ \/ api' = [api EXCEPT ![b] = api[b]]
                \/ api' = [api EXCEPT ![b] =
                              [phase |-> "Deleting", pos |-> api[b].pos]]
      BY <2>6 DEF MarkDeleting, PatchOk, PatchError, Store, Orderly
    <3>2. api' = [api EXCEPT ![b] = api[b]] => UNCHANGED api
      BY <2>1, OrderTypes
    <3> HIDE DEF b
    <3> QED
      BY <2>3, <2>4, <2>5, <3>1, <3>2
  <2>7. CASE DeleteBackup
    <3>1. \/ UNCHANGED api
          \/ Exists(api[b]) /\ api' = [api EXCEPT ![b] = Gone]
      BY <2>7 DEF DeleteBackup, PatchOk, PatchError, Store, Orderly
    <3>2. Gone.phase = "Gone"
      BY DEF Gone
    <3> HIDE DEF b
    <3> QED
      BY <2>3, <2>4, <2>5, <3>1, <3>2
  <2> QED
    BY <1>10, <2>6, <2>7
<1> QED
  BY <1>3, <1>5, <1>6, <1>7, <1>8, <1>9, <1>10 DEF DeletionStep,
     ReconcileDeletion

\* The steps there are when the server neither restarts nor syncs.
LEMMA OrderSteps ==
    ASSUME Orderly, OrderBasis, [Next]_vars
    PROVE  \/ WorldStep
           \/ \E b \in Backup :
                 \/ BackupStep(Reconcile(b))
                 \/ BackupStep(Upload(b))
                 \/ BackupStep(\E o \in Op : PluginEnds(b, o))
           \/ \E b \in Backup : OperationsStep(TakeWaiting(b))
           \/ \E b \in Backup : OperationsStep(DownloadOperations(b))
           \/ OperationsStep(ReconcileOperations)
           \/ \E b \in Backup : FinalizerStep(TakeFinalizing(b))
           \/ FinalizerStep(Finalize)
           \/ \E r \in Request : \/ DeletionStep(CreateRequest(r))
                                 \/ DeletionStep(TakeRequest(r))
                                 \/ DeletionStep(ExpireRequest(r))
           \/ DeletionStep(ReconcileDeletion)
           \/ UNCHANGED vars
<1>1. ASSUME SyncStep(Sync) PROVE FALSE
  BY <1>1 DEF SyncStep, Sync, ListStore, ListCluster, CheckStored, CreateSynced,
     ListOrphans, DeleteOrphan, Synced, Orderly, OrderBasis, OrderInv
<1>2. ASSUME NEW missed, Restart(missed) PROVE FALSE
  BY <1>2 DEF Restart, Orderly, OrderBasis, TypeInv, TypeOK
<1> QED
  BY <1>1, <1>2, LifecycleAssumption DEF Next, WorldStep

\* Every step keeps the order.
LEMMA NextOrder == Orderly /\ OrderBasis /\ [Next]_vars => OrderInv'
<1> SUFFICES ASSUME Orderly, OrderBasis, [Next]_vars PROVE OrderInv'
  OBVIOUS
<1>1. CASE UNCHANGED vars
  BY <1>1, OrderKept DEF OrderBasis, vars, controllerVars
<1>2. ASSUME NEW b \in Backup,
             \/ BackupStep(Reconcile(b))
             \/ BackupStep(Upload(b))
             \/ BackupStep(\E o \in Op : PluginEnds(b, o))
      PROVE  OrderInv'
  BY <1>2, ReconcileOrder, UploadOrder
<1> QED
  BY <1>1, <1>2, OrderSteps, WorldOrder, PollOrder, FinalizeOrder, DeleteOrder

\* Initially nobody works on anything, and nothing is asked for.
LEMMA InitOrder == Init => CacheBehind /\ OrderInv
<1> SUFFICES ASSUME Init PROVE OrderInv
  BY InitPhases
<1>1. /\ \A b \in Backup : bw[b] = Idle /\ up[b].pc = "idle" /\ api[b] = Absent
      /\ bo.pc = "idle" /\ bf.pc = "idle" /\ bd.pc = "idle" /\ sy.pc = "idle"
      /\ \A r \in Request : req[r] = "Absent"
  BY DEF Init, ApiInit, ReconcilerInit, UploadInit, OperationsInit, FinalizerInit,
     DeletionInit, SyncInit, UpIdle, BoIdle, BoAt, BfIdle, BfAt, BdIdle, BdAt,
     SyIdle, SyAt
<1> QED
  BY <1>1 DEF Idle, Absent, OrderInv, RunnerInv, PollerInv, PassedInv, FinisherInv,
     LeaverInv, Forgets, TrackerInv, OneKey, DeleterInv, ActsOn, DecidesOn,
     Deciding, Acting, Engaged, FinalIsOut, WaitingPhases, FinalizingPhases

\* The tracker has every backup that a controller works on, and nobody works
\* on one that is being deleted.
THEOREM OrderInductive == Orderly => (Spec => []OrderBasis)
<1> SUFFICES ASSUME Orderly PROVE Spec => []OrderBasis
  OBVIOUS
<1>1. Init => OrderBasis
  BY InitType, InitOrder DEF OrderBasis
<1>2. OrderBasis /\ [Next]_vars => OrderBasis'
  BY NextType, NextCache, NextOrder DEF OrderBasis
<1> QED
  BY <1>1, <1>2, PTL DEF Spec

\* A set whose elements are all the same has at most one.
LEMMA AtMostOne ==
    ASSUME NEW S, \A i, j \in S : i = j
    PROVE  Cardinality(S) <= 1
<1>1. CASE S = {}
  <2>1. Cardinality(S) = 0
    BY <1>1, FS_EmptySet
  <2> QED
    BY <2>1
<1>2. ASSUME NEW i \in S PROVE Cardinality(S) <= 1
  <2>1. S = {i}
    BY <1>2
  <2>2. Cardinality({i}) = 1
    BY FS_Singleton
  <2> QED
    BY <2>1, <2>2
<1> QED
  BY <1>1, <1>2

\* At most one controller writes the directory of a backup: the backup
\* controller that uploads it, the operations controller that polls it, the
\* finalizer, or the deletion controller, which only asks the tracker once.
THEOREM OneWriter == Orderly => (Spec => []SingleWriter)
<1> SUFFICES ASSUME Orderly PROVE Spec => []SingleWriter
  OBVIOUS
<1>1. OrderBasis => SingleWriter
  <2> SUFFICES ASSUME OrderBasis, NEW b \in Backup
               PROVE  Cardinality({i \in 1 .. 4 :
                          \/ i = 1 /\ Uploading(b)
                          \/ i = 2 /\ Polling(b)
                          \/ i = 3 /\ Finalizing(b)
                          \/ i = 4 /\ DeletingStore(b)}) <= 1
    BY DEF SingleWriter
  <2>1. Polling(b) => ActsOn(b)
    BY DEF Polling, ActsOn, Acting
  <2>2. Finalizing(b) => DecidesOn(b) /\ ~FinalIsOut(b)
    BY DEF Finalizing, DecidesOn, Deciding, FinalIsOut
  <2>3. DeletingStore(b) => Engaged(b)
    BY DEF DeletingStore, Engaged
  <2>4. ~Uploading(b) \/ ~(Polling(b) \/ Finalizing(b) \/ DeletingStore(b))
    <3>1. ActsOn(b) \/ DecidesOn(b) \/ Engaged(b) => Passed(b)
      BY OrderTypes DEF ActsOn, Acting, DecidesOn, Deciding, Engaged, OrderBasis,
         OrderInv, PassedInv
    <3> QED
      BY <2>1, <2>2, <2>3, <3>1 DEF Uploading, Passed
  <2>5. /\ ~(Polling(b) /\ Finalizing(b))
        /\ ~(DeletingStore(b) /\ (Polling(b) \/ Finalizing(b)))
    BY <2>1, <2>2, <2>3 DEF OrderBasis, OrderInv, OneKey, DeleterInv
  <2> DEFINE S == {i \in 1 .. 4 :
                     \/ i = 1 /\ Uploading(b)
                     \/ i = 2 /\ Polling(b)
                     \/ i = 3 /\ Finalizing(b)
                     \/ i = 4 /\ DeletingStore(b)}
  <2>6. \A i, j \in S : i = j
    BY <2>4, <2>5
  <2>7. Cardinality(S) <= 1
    <3> HIDE DEF S
    <3> QED
      BY <2>6, AtMostOne
  <2> QED
    BY <2>7
<1> QED
  BY <1>1, OrderInductive, PTL

-----------------------------------------------------------------------------
(***************************************************************************)
(* Nothing left behind.  When the deletion controller comes to the object  *)
(* of the backup, it has seen every object of the directory go: nobody has *)
(* written another one since it listed them, neither a controller that     *)
(* works on the backup nor a download, which uploads what the operations   *)
(* controller has not yet told.                                            *)
(***************************************************************************)
\* A download of b uploads its operations, or soon may.
Untold(b) ==
    \/ Dirty(opsMap[b])
    \/ bo.pc = "leave" /\ bo.key = b /\ Dirty(bo.entry)

\* b has run, and stays in the tracker for now.
Settled(b) ==
    /\ Passed(b)
    /\ Contains(tracker, b)
    /\ api[b].phase \notin FinalizingPhases
    /\ ~Forgets(b)

UntoldInv ==
    \A b \in Backup : Untold(b) => Settled(b) /\ ~DecidesOn(b) /\ ~Engaged(b)

\* When the operations controller patches a backup it has told everything.
ToldInv ==
    bo.pc = "patch" =>
        /\ ~Dirty(bo.entry)
        /\ bo.phase \in FinalizingPhases => ~Dirty(opsMap[bo.key])

\* What the deletion controller has not yet deleted.
LeftInv ==
    \A b \in Backup : Engaged(b) =>
        /\ bd.pc = "objects" /\ ~bd.errs => Stored(b) \subseteq bd.todo
        /\ bd.pc = "backup" => Stored(b) = {}

DirectoryInv == UntoldInv /\ ToldInv /\ LeftInv

DirectoryBasis == OrderBasis /\ DirectoryInv

\* Steps that write no directory that is being deleted, or empty it.
LEMMA LeftKept ==
    ASSUME LeftInv, UNCHANGED bd,
           \A b \in Backup : Engaged(b) => store'[b] = store[b] \/ store'[b] = Empty
    PROVE  LeftInv'
<1>1. \A b \in Backup : Engaged(b)' <=> Engaged(b)
  BY DEF Engaged
<1>2. \A b \in Backup : Engaged(b) => Stored(b)' \subseteq Stored(b)
  BY DEF Stored, Empty
<1> QED
  BY <1>1, <1>2 DEF LeftInv

\* Who works on a backup, or deletes it, has seen it run.
LEMMA EngagedPassed ==
    ASSUME OrderBasis, NEW b \in Backup, ActsOn(b) \/ DecidesOn(b) \/ Engaged(b)
    PROVE  Passed(b)
BY OrderTypes DEF OrderBasis, OrderInv, PassedInv, ActsOn, Acting, DecidesOn,
   Deciding, Engaged

\* A backup the operations controller works on is in the tracker, not being
\* finalized and not being deleted.
LEMMA ActingSettled ==
    ASSUME OrderBasis, NEW b \in Backup, ActsOn(b)
    PROVE  Settled(b) /\ ~DecidesOn(b) /\ ~Engaged(b)
<1>1. Passed(b)
  BY EngagedPassed
<1>2. Contains(tracker, b) /\ ~DecidesOn(b) /\ ~Engaged(b) /\ ~Forgets(b)
  BY DEF OrderBasis, OrderInv, TrackerInv, OneKey, DeleterInv, LeaverInv
<1>3. api[b].phase \notin FinalizingPhases
  BY DEF OrderBasis, OrderInv, PollerInv, ActsOn, Acting, WaitingPhases,
     FinalizingPhases
<1> QED
  BY <1>1, <1>2, <1>3 DEF Settled

\* Steps that change neither the map, nor the operations controller, nor the
\* finalizer, nor the deletion controller.
LEMMA UntoldKept ==
    ASSUME DirectoryInv, UNCHANGED <<opsMap, bo, bf, bd>>,
           \A b \in Backup : Settled(b) => Settled(b)'
    PROVE  UntoldInv' /\ ToldInv'
<1>1. \A b \in Backup : /\ Untold(b)' <=> Untold(b)
                        /\ DecidesOn(b)' <=> DecidesOn(b)
                        /\ Engaged(b)' <=> Engaged(b)
  BY DEF Untold, Dirty, DecidesOn, Deciding, Engaged
<1>2. UntoldInv'
  BY <1>1 DEF DirectoryInv, UntoldInv
<1>3. ToldInv'
  BY DEF DirectoryInv, ToldInv, Dirty
<1> QED
  BY <1>2, <1>3

\* Users, who may empty a directory, the queue and the informer.
LEMMA WorldDirectory ==
    ASSUME DirectoryBasis, WorldStep
    PROVE  DirectoryInv'
<1> USE DEF DirectoryBasis
<1>1. UNCHANGED <<bw, up, opsMap, bo, bf, bd>>
  BY DEF WorldStep, CreateBackup, DeleteObjectOf, EmptyDirectory, LetIn, Resync,
     Deliver, Notify, controllerVars
<1>2. \A b \in Backup : store'[b] = store[b] \/ store'[b] = Empty
  BY DEF WorldStep, CreateBackup, DeleteObjectOf, EmptyDirectory, LetIn, Resync,
     Deliver, Notify, controllerVars, OrderBasis, TypeInv, TypeOK, StoreTypeOK
<1>3. LeftInv'
  BY <1>1, <1>2, LeftKept DEF DirectoryInv
<1>4. ASSUME NEW b \in Backup PROVE Settled(b) => Settled(b)'
  <2>1. \/ UNCHANGED <<api, tracker>>
        \/ \E c \in Backup : \/ CreateBackup(c) \/ DeleteObjectOf(c) \/ LetIn(c)
    BY DEF WorldStep, EmptyDirectory, Resync, Deliver, Notify, controllerVars,
       apiVars
  <2>2. CASE UNCHANGED <<api, tracker>>
    BY <1>1, <2>2 DEF Settled, Passed, Forgets
  <2>3. ASSUME NEW c \in Backup, CreateBackup(c) \/ DeleteObjectOf(c) \/ LetIn(c)
        PROVE  /\ Contains(tracker, b) => Contains(tracker, b)'
               /\ \/ api'[b] = api[b]
                  \/ api[b].phase \in {"Absent", "New"}
                  \/ api'[b].phase = "Gone"
    BY <2>3, OrderTypes DEF CreateBackup, DeleteObjectOf, LetIn, Store, Gone,
       Absent, AddReadyToStart, Contains, controllerVars, OrderBasis
  <2> QED
    BY <1>1, <2>1, <2>2, <2>3 DEF Settled, Passed, Forgets, Early,
       FinalizingPhases
<1>5. UntoldInv' /\ ToldInv'
  BY <1>1, <1>4, UntoldKept
<1> QED
  BY <1>3, <1>5 DEF DirectoryInv

\* The backup controller does not forget a backup with something to tell.
LEMMA ReconcileDirectory ==
    ASSUME Orderly, DirectoryBasis, NEW b \in Backup, BackupStep(Reconcile(b))
    PROVE  DirectoryInv'
<1> USE DEF DirectoryBasis, OrderBasis
<1>1. UNCHANGED <<store, opsMap, bo, bf, bd>>
  BY DEF BackupStep, Reconcile, uploadVars, operationsVars, finalizerVars,
     deletionVars
<1>2. LeftInv'
  BY <1>1, LeftKept DEF DirectoryInv
<1>3. ASSUME NEW c \in Backup, c # b, Settled(c) PROVE Settled(c)'
  <2>1. api'[c] = api[c] /\ bw'[c] = bw[c]
    BY <1>3, OrderTypes DEF BackupStep, Reconcile, TakeBackup, PatchStarted,
       TrackStarted, PatchFinished, LeaveBackup, PatchOk, PatchError, Store,
       apiVars
  <2>2. tracker' \in {tracker, Add(tracker, b), Delete(tracker, b),
                     AddPostProcessing(tracker, b)}
    BY DEF BackupStep, Reconcile, TakeBackup, PatchStarted, TrackStarted,
       PatchFinished, LeaveBackup
  <2>3. Contains(tracker, c) => Contains(tracker, c)'
    BY <1>3, <2>2 DEF Add, Delete, AddPostProcessing, Contains
  <2> QED
    BY <1>3, <2>1, <2>3 DEF Settled, Passed, Forgets
<1>4. ASSUME Settled(b) PROVE Settled(b)'
  <2>1. ~TakeBackup(b) \/ UNCHANGED <<api, tracker, bw>>
    <3>1. TakeBackup(b) => cache = api
      BY FreshCache DEF TypeInv, TypeOK, Orderly, TakeBackup
    <3> QED
      BY <1>4, <3>1 DEF TakeBackup, apiVars, Settled, Passed, Early
  <2>2. ASSUME NEW phase \in Verdicts, PatchStarted(b, phase) PROVE FALSE
    BY <1>4, <2>2 DEF PatchStarted, Settled, Passed
  <2>3. ~TrackStarted(b)
    BY <1>4 DEF TrackStarted, Settled, Passed, Forgets, TerminalPhases
  <2>4. ~PatchFinished(b)
    BY <1>4 DEF PatchFinished, Settled, Passed
  <2>5. CASE UNCHANGED <<api, tracker, bw>>
    BY <1>4, <2>5 DEF Settled, Passed, Forgets
  <2>6. CASE LeaveBackup(b)
    <3>1. /\ bw[b].pc = "leaving" /\ UNCHANGED api
          /\ bw' = [bw EXCEPT ![b] = [pc |-> "idle", phase |-> "New"]]
      BY <2>6 DEF LeaveBackup, Idle, apiVars
    <3>2. Contains(tracker, b)'
      BY <1>4, <2>6, <3>1, OrderTypes DEF LeaveBackup, AddPostProcessing, Contains,
         Settled, Forgets
    <3> QED
      BY <1>4, <3>1, <3>2, OrderTypes DEF Settled, Passed, Forgets
  <2> QED
    BY <2>1, <2>2, <2>3, <2>4, <2>5, <2>6 DEF BackupStep, Reconcile
<1>5. UntoldInv' /\ ToldInv'
  BY <1>1, <1>3, <1>4, UntoldKept
<1> QED
  BY <1>2, <1>5 DEF DirectoryInv

\* An upload writes the directory of a backup that runs; plugins write none.
LEMMA UploadDirectory ==
    ASSUME DirectoryBasis, NEW b \in Backup,
           BackupStep(Upload(b)) \/ BackupStep(\E o \in Op : PluginEnds(b, o))
    PROVE  DirectoryInv'
<1> USE DEF DirectoryBasis, OrderBasis
<1>1. UNCHANGED <<api, tracker, opsMap, bo, bf, bd>>
  BY DEF BackupStep, Upload, BackUp, PutMetadata, PutContents, PutLists,
     UndoContents, UndoMetadata, BackedUp, RunBackup, PluginEnds, apiVars,
     reconcilerVars, operationsVars, finalizerVars, deletionVars
<1>2. \/ UNCHANGED <<store, bw>>
      \/ /\ bw[b].pc = "running"
         /\ \A c \in Backup \ {b} : store'[c] = store[c] /\ bw'[c] = bw[c]
  <2>1. CASE \E o \in Op : PluginEnds(b, o)
    BY <2>1 DEF PluginEnds, reconcilerVars
  <2>2. CASE BackUp(b)
    BY <2>2 DEF BackUp, reconcilerVars, ReadError
  <2>3. CASE \/ PutMetadata(b) \/ PutContents(b) \/ PutLists(b)
             \/ UndoContents(b) \/ UndoMetadata(b)
    <3>1. up[b].pc # "idle" /\ UNCHANGED bw
      BY <2>3 DEF PutMetadata, PutContents, PutLists, UndoContents, UndoMetadata,
         reconcilerVars
    <3>2. \E dir : StoreOk(b, dir) \/ StoreError(b, dir)
      BY <2>3 DEF PutMetadata, PutContents, PutLists, UndoContents, UndoMetadata
    <3>3. bw[b].pc = "running"
      BY <3>1 DEF OrderInv, RunnerInv
    <3>4. \A c \in Backup \ {b} : store'[c] = store[c]
      BY <3>2 DEF StoreOk, StoreError, TypeInv, TypeOK, StoreTypeOK
    <3> QED
      BY <3>1, <3>3, <3>4
  <2>4. CASE BackedUp(b)
    BY <2>4, OrderTypes DEF BackedUp, RunBackup
  <2> QED
    BY <2>1, <2>2, <2>3, <2>4 DEF BackupStep, Upload
<1>3. bw[b].pc = "running" => ~Passed(b)
  BY DEF Passed
<1>4. LeftInv'
  BY <1>1, <1>2, <1>3, EngagedPassed, LeftKept DEF DirectoryInv
<1>5. ASSUME NEW c \in Backup, Settled(c) PROVE Settled(c)'
  BY <1>1, <1>2, <1>3, <1>5 DEF Settled, Passed, Forgets
<1>6. UntoldInv' /\ ToldInv'
  BY <1>1, <1>5, UntoldKept
<1> QED
  BY <1>4, <1>6 DEF DirectoryInv

\* The operations controller, and a download, write the directory of a
\* backup that is not being deleted.
LEMMA PollDirectory ==
    ASSUME Orderly, DirectoryBasis,
           \/ \E b \in Backup : OperationsStep(TakeWaiting(b))
           \/ \E b \in Backup : OperationsStep(DownloadOperations(b))
           \/ OperationsStep(ReconcileOperations)
    PROVE  DirectoryInv'
<1> USE DEF DirectoryBasis, OrderBasis
<1>1. UNCHANGED <<bw, tracker, bf, bd>>
  BY DEF OperationsStep, TakeWaiting, DownloadOperations, ReconcileOperations,
     LocationGone, Poll, PollError, PutPhase, PutOps, PatchPolled,
     LeaveOperations, reconcilerVars, uploadVars, finalizerVars, deletionVars
\* It writes the directory of the backup it works on, or of one that is not
\* being deleted.
<1>2. ASSUME \/ UNCHANGED store
             \/ \E b \in Backup : /\ ActsOn(b) \/ Untold(b)
                                  /\ \A c \in Backup \ {b} : store'[c] = store[c]
      PROVE  LeftInv'
  BY <1>1, <1>2, ActingSettled, LeftKept DEF DirectoryInv, UntoldInv
<1>3. ASSUME UNCHANGED api, ToldInv',
             \A b \in Backup : Untold(b)' => Untold(b) \/ ActsOn(b)
      PROVE  UntoldInv' /\ ToldInv'
  <2>1. \A b \in Backup : Untold(b)' => Settled(b) /\ ~DecidesOn(b) /\ ~Engaged(b)
    BY <1>3, ActingSettled DEF DirectoryInv, UntoldInv
  <2>2. \A b \in Backup : /\ Settled(b)' <=> Settled(b)
                          /\ DecidesOn(b)' <=> DecidesOn(b)
                          /\ Engaged(b)' <=> Engaged(b)
    BY <1>1, <1>3 DEF Settled, Passed, Forgets, DecidesOn, Deciding, Engaged
  <2> QED
    BY <1>3, <2>1, <2>2 DEF UntoldInv
<1>4. opsMap \in [Backup -> Entry] /\ (bo.pc # "idle" => bo.key \in Backup)
  BY OrderTypes DEF TypeInv, TypeOK, OperationsTypeOK
<1>5. \A ops : ~Dirty(Uploaded(ops)) /\ ~Dirty(NoEntry)
  BY DEF Dirty, Uploaded, NoEntry
<1>6. \A b \in Backup : bo.key = b /\ bo.pc \in Acting => ActsOn(b)
  BY DEF ActsOn
<1>7. ASSUME NEW b \in Backup, TakeWaiting(b) PROVE DirectoryInv'
  <2>1. UNCHANGED <<api, store, opsMap>> /\ bo'.pc = "poll"
    BY <1>7 DEF TakeWaiting, BoAt, apiVars
  <2> QED
    BY <1>2, <1>3, <2>1 DEF DirectoryInv, ToldInv, Untold
<1>8. ASSUME NEW b \in Backup, DownloadOperations(b) PROVE DirectoryInv'
  <2>1. /\ UNCHANGED <<api, bo>> /\ Untold(b)
        /\ opsMap' \in {opsMap, [opsMap EXCEPT ![b] = Uploaded(opsMap[b].ops)]}
    BY <1>8 DEF DownloadOperations, Untold, Dirty
  <2>2. \A c \in Backup \ {b} : store'[c] = store[c]
    BY <1>8 DEF DownloadOperations, StoreOk, StoreError, TypeInv, TypeOK,
       StoreTypeOK
  <2>3. \A c \in Backup : Dirty(opsMap'[c]) => Dirty(opsMap[c])
    BY <1>4, <1>5, <2>1
  <2>4. ToldInv'
    BY <1>4, <2>1, <2>3 DEF DirectoryInv, ToldInv
  <2> QED
    BY <1>2, <1>3, <2>1, <2>2, <2>3, <2>4 DEF DirectoryInv, Untold
<1>9. CASE LocationGone
  <2>1. /\ UNCHANGED <<api, store, opsMap>>
        /\ bo'.pc = "patch" /\ bo'.phase = "PartiallyFailed"
        /\ bo'.entry = NoEntry
    BY <1>9 DEF LocationGone, BoAt, apiVars
  <2>2. ToldInv'
    BY <1>5, <2>1 DEF ToldInv, FinalizingPhases
  <2> QED
    BY <1>2, <1>3, <2>1, <2>2 DEF DirectoryInv, Untold
<1>10. ASSUME NEW late, Poll(late) PROVE DirectoryInv'
  <2>1. /\ UNCHANGED <<api, store>> /\ bo.pc = "poll"
        /\ bo'.pc \in {"putMetadata", "leave"} /\ bo'.key = bo.key
        /\ opsMap' = [opsMap EXCEPT ![bo.key] = Known(bo.key)]
    BY <1>10 DEF Poll, BoAt, apiVars
  <2>2. Dirty(Known(bo.key)) => Dirty(opsMap[bo.key])
    BY <1>5 DEF Known
  <2>3. \A c \in Backup : Untold(c)' => Untold(c) \/ ActsOn(c)
    BY <1>4, <1>6, <2>1, <2>2 DEF Untold, Acting
  <2>4. ToldInv'
    BY <2>1 DEF ToldInv
  <2> QED
    BY <1>2, <1>3, <2>1, <2>3, <2>4 DEF DirectoryInv
<1>11. CASE PollError \/ PutPhase
  <2>1. /\ UNCHANGED <<api, opsMap>>
        /\ bo.pc \in {"poll", "putMetadata"} /\ bo'.key = bo.key
        /\ bo'.pc \in {"putMetadata", "putOps", "leave"}
    BY <1>11 DEF PollError, PutPhase, BoNext, GiveUp, BoAt
  <2>2. \A c \in Backup \ {bo.key} : store'[c] = store[c]
    BY <1>11 DEF PollError, PutPhase, ReadError, StoreOk, StoreError, TypeInv,
       TypeOK, StoreTypeOK
  <2>3. \A c \in Backup : Untold(c)' => Untold(c) \/ ActsOn(c)
    BY <1>6, <2>1 DEF Untold, Acting
  <2>4. ToldInv'
    BY <2>1 DEF ToldInv
  <2>5. bo.key \in Backup /\ ActsOn(bo.key)
    BY <1>4, <2>1 DEF ActsOn, Acting
  <2> QED
    BY <1>2, <1>3, <2>1, <2>2, <2>3, <2>4, <2>5 DEF DirectoryInv
<1>12. CASE PutOps
  <2>1. /\ UNCHANGED api
        /\ bo.pc = "putOps" /\ bo'.key = bo.key
        /\ \/ /\ bo'.pc = "patch"
              /\ bo'.entry = Uploaded(bo.entry.ops)
              /\ opsMap' = [opsMap EXCEPT ![bo.key] = Uploaded(bo.entry.ops)]
           \/ bo'.pc = "leave" /\ UNCHANGED opsMap
    BY <1>12 DEF PutOps, BoNext, GiveUp, BoAt
  <2>2. \A c \in Backup \ {bo.key} : store'[c] = store[c]
    BY <1>12 DEF PutOps, StoreOk, StoreError, TypeInv, TypeOK, StoreTypeOK
  <2>3. \A c \in Backup : Untold(c)' => Untold(c) \/ ActsOn(c)
    BY <1>4, <1>5, <1>6, <2>1 DEF Untold, Acting
  <2>4. bo.key \in Backup /\ ActsOn(bo.key)
    BY <1>4, <2>1 DEF ActsOn, Acting
  <2>5. ToldInv'
    BY <1>4, <1>5, <2>1, <2>4 DEF ToldInv
  <2> QED
    BY <1>2, <1>3, <2>1, <2>2, <2>3, <2>4, <2>5 DEF DirectoryInv
<1>13. CASE PatchPolled
  <2>1. /\ UNCHANGED <<store, opsMap>>
        /\ bo.pc = "patch" /\ bo'.pc = "leave" /\ bo'.key = bo.key
        /\ bo'.entry = bo.entry
    BY <1>13 DEF PatchPolled, BoNext, GiveUp, BoAt
  <2>2. ToldInv' /\ ~Dirty(bo.entry)
    BY <2>1 DEF DirectoryInv, ToldInv
  <2>3. \A c \in Backup : Untold(c)' => Dirty(opsMap[c])
    BY <2>1, <2>2 DEF Untold
  <2>4. CASE UNCHANGED api
    BY <1>2, <1>3, <2>1, <2>2, <2>3, <2>4 DEF DirectoryInv, Untold
  <2>5. CASE /\ bo.phase # bo.was
             /\ api' = [api EXCEPT ![bo.key] =
                           [phase |-> bo.phase, pos |-> api[bo.key].pos]]
    <3>1. bo.phase \in PostPhases \cup {"PartiallyFailed"}
      <4>1. bo.was \in WaitingPhases /\ bo.phase \in Moves(bo.was)
        BY <2>1, <2>5 DEF OrderInv, PollerInv, Acting
      <4> QED
        BY <4>1 DEF Moves, WaitingPhases, PostPhases
    <3>2. bo.phase \in FinalizingPhases => ~Dirty(opsMap[bo.key])
      BY <2>1 DEF DirectoryInv, ToldInv
    <3>3. ASSUME NEW c \in Backup, Dirty(opsMap[c])
          PROVE  Settled(c)' /\ ~DecidesOn(c)' /\ ~Engaged(c)'
      <4>1. Settled(c) /\ ~DecidesOn(c) /\ ~Engaged(c)
        BY <3>3 DEF DirectoryInv, UntoldInv, Untold
      <4>2. \/ api'[c].phase = api[c].phase
            \/ api'[c].phase = bo.phase /\ bo.phase \notin FinalizingPhases
        BY <2>5, <3>2, <3>3, OrderTypes
      <4>3. Settled(c)'
        BY <1>1, <3>1, <4>1, <4>2 DEF Settled, Passed, Forgets, Early, PostPhases
      <4>4. ~DecidesOn(c)' /\ ~Engaged(c)'
        BY <1>1, <4>1 DEF DecidesOn, Deciding, Engaged
      <4> QED
        BY <4>3, <4>4
    <3> QED
      BY <1>2, <2>1, <2>2, <2>3, <3>3 DEF DirectoryInv, UntoldInv
  <2> QED
    BY <1>13, <2>4, <2>5, OrderTypes, <1>4, <2>1 DEF PatchPolled, PatchOk,
       PatchError, Store, Orderly
<1>14. CASE LeaveOperations
  <2>1. /\ UNCHANGED <<api, store>>
        /\ bo.pc = "leave" /\ bo'.pc = "idle"
        /\ opsMap' \in {opsMap, [opsMap EXCEPT ![bo.key] = NoEntry],
                        [opsMap EXCEPT ![bo.key] = bo.entry]}
    BY <1>14 DEF LeaveOperations, apiVars, BoIdle, BoAt
  <2>2. \A c \in Backup : Untold(c)' => Untold(c)
    BY <1>4, <1>5, <2>1 DEF Untold
  <2>3. ToldInv'
    BY <2>1 DEF ToldInv
  <2> QED
    BY <1>2, <1>3, <2>1, <2>2, <2>3 DEF DirectoryInv
<1> QED
  BY <1>7, <1>8, <1>9, <1>10, <1>11, <1>12, <1>13, <1>14 DEF OperationsStep,
     ReconcileOperations

\* The finalizer does not upload a backup that is being deleted.
LEMMA FinalizeDirectory ==
    ASSUME Orderly, DirectoryBasis,
           \/ \E b \in Backup : FinalizerStep(TakeFinalizing(b))
           \/ FinalizerStep(Finalize)
    PROVE  DirectoryInv'
<1> USE DEF DirectoryBasis, OrderBasis
<1>1. UNCHANGED <<bw, opsMap, bo, bd>>
  BY DEF FinalizerStep, TakeFinalizing, Finalize, Prepare, PrepareError,
     PutFinalMetadata, PutFinalContents, TrackFinal, PatchFinal,
     reconcilerVars, uploadVars, operationsVars, deletionVars
<1>2. ToldInv' /\ \A b \in Backup : /\ Untold(b)' <=> Untold(b)
                                    /\ Engaged(b)' <=> Engaged(b)
  BY <1>1 DEF DirectoryInv, ToldInv, Untold, Engaged
<1>3. ASSUME UNCHANGED store PROVE LeftInv'
  BY <1>1, <1>3, LeftKept DEF DirectoryInv
\* Nobody but the finalizer has to do with the backup it works on.
<1>4. ASSUME \A b \in Backup :
                \/ /\ api'[b] = api[b]
                   /\ Contains(tracker, b) => Contains(tracker, b)'
                   /\ DecidesOn(b)' => DecidesOn(b) \/ api[b].phase \in FinalizingPhases
                \/ DecidesOn(b)
      PROVE  UntoldInv'
  BY <1>1, <1>2, <1>4 DEF DirectoryInv, UntoldInv, Settled, Passed, Forgets
<1>5. ASSUME NEW b \in Backup, TakeFinalizing(b) PROVE DirectoryInv'
  <2>1. cache = api
    BY <1>5, FreshCache DEF TypeInv, TypeOK, Orderly, TakeFinalizing
  <2>2. UNCHANGED <<api, tracker, store>>
        /\ (\/ UNCHANGED bf
            \/ bf'.key = b /\ api[b].phase \in FinalizingPhases)
    BY <1>5, <2>1 DEF TakeFinalizing, apiVars, reconcilerVars, BfAt
  <2>3. \A c \in Backup : DecidesOn(c)' =>
                             DecidesOn(c) \/ api[c].phase \in FinalizingPhases
    BY <2>2 DEF DecidesOn, Deciding
  <2> QED
    BY <1>2, <1>3, <1>4, <2>2, <2>3 DEF DirectoryInv, Contains
<1>6. CASE Prepare \/ PrepareError \/ PutFinalMetadata \/ PutFinalContents
  <2>1. /\ UNCHANGED <<api, tracker>>
        /\ bf.pc \in {"prepare", "putMetadata", "putContents"}
        /\ bf'.key = bf.key
    BY <1>6 DEF Prepare, PrepareError, PutFinalMetadata, PutFinalContents, Failing,
       BfAt, apiVars, reconcilerVars
  <2>2. \A c \in Backup : DecidesOn(c)' => DecidesOn(c)
    BY <2>1 DEF DecidesOn, Deciding
  <2>3. bf.key \in Backup /\ DecidesOn(bf.key) /\ ~FinalIsOut(bf.key)
    BY <2>1, OrderTypes DEF DecidesOn, Deciding, FinalIsOut
  <2>4. ~Engaged(bf.key)
    BY <2>3 DEF OrderInv, DeleterInv
  <2>5. \A c \in Backup \ {bf.key} : store'[c] = store[c]
    BY <1>6 DEF Prepare, PrepareError, PutFinalMetadata, PutFinalContents,
       ReadError, StoreOk, StoreError, TypeInv, TypeOK, StoreTypeOK
  <2>6. LeftInv'
    BY <1>1, <2>4, <2>5, LeftKept DEF DirectoryInv
  <2> QED
    BY <1>2, <1>4, <2>1, <2>2, <2>6 DEF DirectoryInv, Contains
<1>7. CASE TrackFinal
  <2>1. /\ UNCHANGED <<api, store>> /\ tracker' = Delete(tracker, bf.key)
        /\ bf.pc = "track" /\ bf'.key = bf.key
    BY <1>7 DEF TrackFinal, apiVars, BfAt
  <2>2. \A c \in Backup : c # bf.key =>
           (Contains(tracker, c) => Contains(tracker, c)') /\ ~DecidesOn(c)'
    BY <2>1 DEF Delete, Contains, DecidesOn
  <2>3. DecidesOn(bf.key)
    BY <2>1 DEF DecidesOn, Deciding
  <2> QED
    BY <1>2, <1>3, <1>4, <2>1, <2>2, <2>3 DEF DirectoryInv
<1>8. CASE PatchFinal
  <2>1. /\ UNCHANGED <<store, tracker>> /\ bf.pc = "patch"
        /\ bf.key \in Backup
        /\ bf' \in {bf, BfIdle}
    BY <1>8, OrderTypes DEF PatchFinal, reconcilerVars
  <2>2. \A c \in Backup : DecidesOn(c)' => DecidesOn(c)
    BY <2>1 DEF DecidesOn, Deciding, BfIdle, BfAt
  <2>3. \A c \in Backup : api'[c] = api[c] \/ DecidesOn(c)
    BY <1>8, OrderTypes DEF PatchFinal, PatchOk, PatchError, Store, DecidesOn,
       Deciding, Orderly
  <2> QED
    BY <1>2, <1>3, <1>4, <2>1, <2>2, <2>3 DEF DirectoryInv, Contains
<1> QED
  BY <1>5, <1>6, <1>7, <1>8 DEF FinalizerStep, Finalize

\* The deletion controller deletes what it has listed, and goes on to the
\* object of the backup only without an error.
LEMMA DeleteDirectory ==
    ASSUME Orderly, DirectoryBasis,
           \/ \E r \in Request : \/ DeletionStep(CreateRequest(r))
                                 \/ DeletionStep(TakeRequest(r))
                                 \/ DeletionStep(ExpireRequest(r))
           \/ DeletionStep(ReconcileDeletion)
    PROVE  DirectoryInv'
<1> DEFINE Engaging == {"get", "accept", "mark", "clean", "list", "objects",
                        "backup"}
<1> USE DEF DirectoryBasis, OrderBasis
<1>1. UNCHANGED <<bw, tracker, opsMap, bo, bf>>
  BY DEF DeletionStep, CreateRequest, TakeRequest, ExpireRequest,
     ReconcileDeletion, GetBackup, Refuse, Accept, MarkDeleting, CleanUp,
     ListObjects, DeleteObject, ObjectsDone, DeleteBackup, Finish, Sweep,
     reconcilerVars, uploadVars, operationsVars, finalizerVars
<1>2. ToldInv' /\ \A b \in Backup : /\ Untold(b)' <=> Untold(b)
                                    /\ DecidesOn(b)' <=> DecidesOn(b)
  BY <1>1 DEF DirectoryInv, ToldInv, Untold, DecidesOn, Deciding
\* The backup that is deleted is not one with something to tell.
<1>3. ASSUME \A b \in Backup : Untold(b) => ~Engaged(b)' /\ api'[b] = api[b]
      PROVE  UntoldInv'
  BY <1>1, <1>2, <1>3 DEF DirectoryInv, UntoldInv, Settled, Passed, Forgets
<1>4. ASSUME UNCHANGED api,
             \/ bd'.pc \notin Engaging
             \/ bd.pc \in Engaging /\ bd'.req = bd.req
      PROVE  UntoldInv'
  <2>1. \A b \in Backup : Engaged(b)' => Engaged(b)
    BY <1>4 DEF Engaged
  <2> QED
    BY <1>3, <1>4, <2>1 DEF DirectoryInv, UntoldInv
<1>5. ASSUME bd'.pc \notin {"objects", "backup"} PROVE LeftInv'
  BY <1>5 DEF LeftInv
<1>6. ASSUME UNCHANGED <<store, bd>> PROVE LeftInv'
  BY <1>6, LeftKept DEF DirectoryInv
<1>7. ASSUME NEW r \in Request, CreateRequest(r) \/ ExpireRequest(r)
      PROVE  DirectoryInv'
  <2>1. UNCHANGED <<api, store, bd>>
    BY <1>7 DEF CreateRequest, ExpireRequest, apiVars
  <2>2. LeftInv'
    BY <1>6, <2>1
  <2>3. UntoldInv'
    BY <1>4, <2>1
  <2> QED
    BY <1>2, <2>2, <2>3 DEF DirectoryInv
<1>8. ASSUME NEW r \in Request, TakeRequest(r) PROVE DirectoryInv'
  <2>1. UNCHANGED <<api, store>> /\ bd.pc = "idle"
    BY <1>8 DEF TakeRequest, ReadError
  <2>2. CASE UNCHANGED bd
    BY <1>2, <1>4, <1>6, <2>1, <2>2 DEF DirectoryInv
  <2>3. CASE bd' = BdAt(IF Contains(tracker, Target[r]) THEN "refuse" ELSE "get",
                        r, FALSE, {}, FALSE)
    <3>1. /\ bd'.req = r
          /\ bd'.pc \in {"refuse", "get"}
          /\ bd'.pc = "get" => ~Contains(tracker, Target[r])
      BY <2>3 DEF BdAt
    <3>2. \A b \in Backup : Untold(b) => Contains(tracker, b)
      BY DEF DirectoryInv, UntoldInv, Settled
    <3>3. \A b \in Backup : Engaged(b)' => ~Contains(tracker, b)
      BY <3>1 DEF Engaged
    <3> QED
      BY <1>2, <1>3, <1>5, <2>1, <3>1, <3>2, <3>3 DEF DirectoryInv
  <2> QED
    BY <1>8, <2>2, <2>3 DEF TakeRequest
<1>9. CASE Refuse \/ Accept \/ Finish \/ Sweep \/ GetBackup \/ CleanUp
  <2>1. /\ UNCHANGED api
        /\ bd'.pc \notin {"objects", "backup"}
        /\ \/ bd'.pc \notin Engaging
           \/ bd.pc \in Engaging /\ bd'.req = bd.req
    BY <1>9 DEF Refuse, Accept, Finish, Sweep, GetBackup, CleanUp, BdNext, BdIdle,
       BdAt
  <2> QED
    BY <1>2, <1>4, <1>5, <2>1 DEF DirectoryInv
<1>10. CASE ListObjects
  <2>1. /\ UNCHANGED <<api, store>> /\ bd.pc = "list" /\ bd'.req = bd.req
        /\ \/ bd'.pc = "finish"
           \/ bd'.pc = "objects" /\ bd'.todo = Stored(Target[bd.req])
    BY <1>10 DEF ListObjects, BdNext, BdAt, ReadError
  <2>2. \A b : Stored(b)' = Stored(b)
    BY <2>1 DEF Stored
  <2>3. LeftInv'
    BY <2>1, <2>2 DEF LeftInv, Engaged
  <2> QED
    BY <1>2, <1>4, <2>1, <2>3 DEF DirectoryInv
<1>11. ASSUME NEW part \in Parts, DeleteObject(part) PROVE DirectoryInv'
  <2>0. PICK b \in Backup : bd.pc = "objects" /\ Target[bd.req] = b
    BY <1>11, OrderTypes DEF DeleteObject
  <2>1. /\ UNCHANGED api /\ Engaged(b)
        /\ bd'.pc = "objects" /\ bd'.req = bd.req /\ bd'.todo = bd.todo \ {part}
    BY <1>11, <2>0 DEF DeleteObject, BdAt, Engaged
  <2>2. ~bd'.errs => /\ ~bd.errs
                     /\ store' = [store EXCEPT ![b] = Without(b, part)]
    BY <1>11, <2>0 DEF DeleteObject, BdAt, StoreOk
  <2>3. store \in [Backup -> Directory]
    BY DEF TypeInv, TypeOK, StoreTypeOK
  <2>4. ~bd'.errs => Stored(b)' \subseteq Stored(b) \ {part}
    <3>1. CASE part = "meta"
      BY <2>1, <2>2, <2>3, <3>1 DEF Stored, Without, WithMeta, Parts
    <3>2. CASE part = "contents"
      BY <2>1, <2>2, <2>3, <3>2 DEF Stored, Without, WithContents, Parts
    <3>3. CASE part = "ops"
      BY <2>1, <2>2, <2>3, <3>3 DEF Stored, Without, WithOps, Parts
    <3> QED
      BY <3>1, <3>2, <3>3 DEF Parts
  <2>5. ~bd.errs => Stored(b) \subseteq bd.todo
    BY <2>0, <2>1 DEF DirectoryInv, LeftInv
  <2>6. \A c \in Backup : Engaged(c)' => c = b
    BY <2>0, <2>1 DEF Engaged
  <2>7. LeftInv'
    BY <2>1, <2>2, <2>4, <2>5, <2>6 DEF LeftInv
  <2> QED
    BY <1>2, <1>4, <2>0, <2>1, <2>7 DEF DirectoryInv
<1>12. CASE ObjectsDone
  <2>1. /\ UNCHANGED <<api, store>> /\ bd.pc = "objects" /\ bd.todo = {}
        /\ bd'.req = bd.req
        /\ \/ bd'.pc = "finish"
           \/ bd'.pc = "backup" /\ ~bd.errs
    BY <1>12 DEF ObjectsDone, BdNext, BdAt, ReadError
  <2>2. \A b : Stored(b)' = Stored(b)
    BY <2>1 DEF Stored
  <2>3. LeftInv'
    BY <2>1, <2>2 DEF DirectoryInv, LeftInv, Engaged
  <2> QED
    BY <1>2, <1>4, <2>1, <2>3 DEF DirectoryInv
<1>13. CASE MarkDeleting \/ DeleteBackup
  <2>1. /\ bd.pc \in {"mark", "backup"} /\ bd.req \in Request
        /\ bd'.req = bd.req /\ bd'.pc \in {"clean", "refuse", "finish"}
    BY <1>13, OrderTypes DEF MarkDeleting, DeleteBackup, BdNext, BdAt
  <2>2. Engaged(Target[bd.req])
    BY <2>1 DEF Engaged
  <2>3. \A b \in Backup : Engaged(b)' => Engaged(b)
    BY <2>1 DEF Engaged
  <2>4. \A b \in Backup : b # Target[bd.req] => api'[b] = api[b]
    BY <1>13, OrderTypes DEF MarkDeleting, DeleteBackup, PatchOk, PatchError, Store
  <2>5. UntoldInv'
    BY <1>3, <2>2, <2>3, <2>4 DEF DirectoryInv, UntoldInv
  <2> QED
    BY <1>2, <1>5, <2>1, <2>5 DEF DirectoryInv
<1> QED
  BY <1>7, <1>8, <1>9, <1>10, <1>11, <1>12, <1>13 DEF DeletionStep,
     ReconcileDeletion

\* Every step keeps the directories of backups that are being deleted.
LEMMA NextDirectory == Orderly /\ DirectoryBasis /\ [Next]_vars => DirectoryInv'
<1> SUFFICES ASSUME Orderly, DirectoryBasis, [Next]_vars PROVE DirectoryInv'
  OBVIOUS
<1>1. CASE UNCHANGED vars
  <2>1. UNCHANGED <<api, store, tracker, bw, opsMap, bo, bf, bd>>
    BY <1>1 DEF vars, controllerVars
  <2>2. LeftInv'
    BY <2>1, LeftKept DEF DirectoryBasis, DirectoryInv
  <2>3. \A b \in Backup : Settled(b) => Settled(b)'
    BY <2>1 DEF Settled, Passed, Forgets, Contains
  <2> QED
    BY <2>1, <2>2, <2>3, UntoldKept DEF DirectoryBasis, DirectoryInv
<1>2. ASSUME NEW b \in Backup,
             \/ BackupStep(Reconcile(b))
             \/ BackupStep(Upload(b))
             \/ BackupStep(\E o \in Op : PluginEnds(b, o))
      PROVE  DirectoryInv'
  BY <1>2, ReconcileDirectory, UploadDirectory
<1> QED
  BY <1>1, <1>2, OrderSteps, WorldDirectory, PollDirectory, FinalizeDirectory,
     DeleteDirectory DEF DirectoryBasis

\* Initially there is nothing to tell, and nothing is being deleted.
LEMMA InitDirectory == Init => DirectoryInv
<1> SUFFICES ASSUME Init PROVE DirectoryInv
  OBVIOUS
<1>1. /\ \A b \in Backup : ~Dirty(opsMap[b])
      /\ bo.pc = "idle" /\ bd.pc = "idle"
  BY DEF Init, OperationsInit, DeletionInit, NoEntry, Uploaded, Dirty, BoIdle,
     BoAt, BdIdle, BdAt
<1> QED
  BY <1>1 DEF DirectoryInv, UntoldInv, ToldInv, LeftInv, Untold, Engaged

\* Nobody writes the directory of a backup that is being deleted.
THEOREM DirectoryInductive == Orderly => (Spec => []DirectoryBasis)
<1> SUFFICES ASSUME Orderly PROVE Spec => []DirectoryBasis
  OBVIOUS
<1>1. Init => DirectoryInv
  BY InitDirectory
<1>2. OrderBasis /\ DirectoryInv /\ [Next]_vars => DirectoryInv'
  BY NextDirectory DEF DirectoryBasis
<1>3. Spec => []OrderBasis
  BY OrderInductive
<1>4. DirectoryBasis <=> OrderBasis /\ DirectoryInv
  BY DEF DirectoryBasis
<1> QED
  BY <1>1, <1>2, <1>3, <1>4, PTL DEF Spec

\* The deletion controller gives up the object of a backup only when nothing
\* of the backup is left in the store, also when users download its
\* operations, or calls fail, in the meantime.
THEOREM GivenUpEmpty == Orderly => (Spec => NothingLeftBehind)
<1> SUFFICES ASSUME Orderly PROVE Spec => NothingLeftBehind
  OBVIOUS
<1>1. DirectoryBasis => GivesUpEmpty
  <2> SUFFICES ASSUME DirectoryBasis, NEW b \in Backup,
                      bd.pc = "backup", Target[bd.req] = b
               PROVE  store[b] = Empty
    BY DEF GivesUpEmpty
  <2>1. Stored(b) = {}
    BY DEF DirectoryBasis, DirectoryInv, LeftInv, Engaged
  <2>2. store[b] \in Directory
    BY DEF DirectoryBasis, OrderBasis, TypeInv, TypeOK, StoreTypeOK
  <2>3. store[b].meta = "none" /\ store[b].contents = "none" /\ store[b].ops = NoOps
    BY <2>1 DEF Stored, Parts
  <2> QED
    BY <2>2, <2>3 DEF Directory, Empty
<1>2. DirectoryBasis => [GivesUpEmpty]_vars
  BY <1>1
<1> QED
  BY <1>2, DirectoryInductive, PTL DEF NothingLeftBehind
=============================================================================
