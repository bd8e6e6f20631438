--------------------------- MODULE DataPaths_proofs ---------------------------
(***************************************************************************)
(* Proofs about the process in a data mover's pod (module MicroServices)   *)
(* and about the node agents around it (module DataMovement).              *)
(***************************************************************************)
EXTENDS MicroServices, DataMovement, FiniteSetTheorems, TLAPS

\* What the data path has by the time it has come so far.  A context that is
\* cancelled stays cancelled, and the uploader is told only then: hence the
\* manifest it leaves incomplete is never flushed without an error.
PathInv ==
    /\ dp.pc \in BackingUp => IsBackup
    /\ dp.pc \in Restoring => ~IsBackup
    /\ dp.pc = "blocks" => mover.uploader = "block"
    /\ canceling # "no" => dpCanceled /\ mover.uploader = "kopia"
    /\ dp.pc \in {"save", "retention", "flush"} =>
          manifest.complete \/ dpCanceled
    /\ dp.pc = "report" => manifest.complete /\ manifest.stored
    /\ dp.pc = "flushVolume" => target = "written" \/ canceling # "no"
    /\ dp.pc = "returned" /\ dp.err = "none" =>
          IF IsBackup THEN Moved ELSE target = "flushed" \/ canceling # "no"
    /\ dp.pc = "sending" => dp.err \in {"completed", "failed", "canceled"}
    /\ dp.err = "completed" =>
          Moved /\ dp.pc \in {"sending", "closing", "ended"}

\* The main goroutine is the only one that makes the data path and starts it.
MainInv ==
    /\ main.pc \in Preparing => dp.pc = "none"
    /\ main.pc = "dpInit" => dp.pc \in {"created", "initializing"}
    /\ main.pc = "start" => dp.pc = "initialized"
    /\ main.pc \in {"recorder", "close", "waitDataPath"} =>
          main.result # "none"

\* Whoever says that the volume has been moved has it from the data path.
SuccessInv ==
    /\ main.result = "completed" \/ exit = "completed" \/ mark =>
          dp.err = "completed"
    /\ watcher.verdict = "completed" => exit = "completed"

ServicesInv == ServicesTypeOK /\ PathInv /\ MainInv /\ SuccessInv

-----------------------------------------------------------------------------
(***************************************************************************)
(* Type correctness.                                                       *)
(***************************************************************************)

\* A call that fails is counted within its bound.
LEMMA FaultType ==
    ASSUME PathTypeOK, PathFault \/ PathBreaks \/ UNCHANGED pathFaults
    PROVE  pathFaults' \in 0 .. MaxPathFaults
BY PathAssumption DEF PathTypeOK, PathFault, PathBreaks

\* The steps of the uploader's goroutines.
LEMMA UploaderType == ASSUME PathTypeOK, UploaderStep PROVE PathTypeOK'
<1> USE DEF PathTypeOK
<1>1. pathFaults' \in 0 .. MaxPathFaults
  BY FaultType DEF UploaderStep, CheckContext, GetLocalEntry, FindParent,
     SetupPolicy, Upload, SaveManifest, ApplyRetention, FlushSnapshot,
     ReportSnapshotStatus, LoadSnapshot, RestoreEntry, FlushVolume, RunBlocks
<1>2. UNCHANGED mover /\ UNCHANGED dpCanceled
  BY DEF UploaderStep, CheckContext, GetLocalEntry, FindParent,
     SetupPolicy, Upload, SaveManifest, ApplyRetention, FlushSnapshot,
     ReportSnapshotStatus, LoadSnapshot, RestoreEntry, FlushVolume, RunBlocks
<1>3. canceling' \in CheckContextState
  BY DEF UploaderStep, CheckContext, GetLocalEntry, FindParent,
     SetupPolicy, Upload, SaveManifest, ApplyRetention, FlushSnapshot,
     ReportSnapshotStatus, LoadSnapshot, RestoreEntry, FlushVolume, RunBlocks,
     CheckContextState
<1>4. target' \in TargetState
  BY DEF UploaderStep, CheckContext, GetLocalEntry, FindParent,
     SetupPolicy, Upload, SaveManifest, ApplyRetention, FlushSnapshot,
     ReportSnapshotStatus, LoadSnapshot, RestoreEntry, FlushVolume, RunBlocks,
     TargetState
<1>5. manifest' \in Manifest
  BY DEF UploaderStep, CheckContext, GetLocalEntry, FindParent,
     SetupPolicy, Upload, SaveManifest, ApplyRetention, FlushSnapshot,
     ReportSnapshotStatus, LoadSnapshot, RestoreEntry, FlushVolume, RunBlocks,
     Manifest
<1>6. dp' \in DataPathState
  <2>1. ASSUME NEW pc \in {"parent", "policy", "upload", "save", "retention",
                           "flush", "report", "copy", "flushVolume"},
               GoTo(pc)
        PROVE  dp' \in DataPathState
    BY <2>1 DEF GoTo, DataPathState, BackingUp, Restoring
  <2>2. ASSUME NEW err \in {"none", "failed", "canceled", "panic"}, Return(err)
        PROVE  dp' \in DataPathState
    BY <2>2 DEF Return, DataPathState
  <2> QED
    BY <2>1, <2>2 DEF UploaderStep, CheckContext, GetLocalEntry, FindParent,
       SetupPolicy, Upload, SaveManifest, ApplyRetention, FlushSnapshot,
       ReportSnapshotStatus, LoadSnapshot, RestoreEntry, FlushVolume, RunBlocks
<1> QED
  BY <1>1, <1>2, <1>3, <1>4, <1>5, <1>6

\* Everything else the process does, and what is around it.
LEMMA VersionsType ==
    ASSUME ServicesTypeOK, GoInProgress \/ AskToCancel
    PROVE  versions' \in Seq(Version) \ {<<>>}
<1> DEFINE n == Len(versions)
<1>1. versions \in Seq(Version) /\ n \in Nat /\ n > 0
  BY DEF ServicesTypeOK
<1>2. Current \in Version
  BY <1>1 DEF Current
<1>3. /\ [Current EXCEPT !.inProgress = TRUE] \in Version
      /\ [Current EXCEPT !.cancel = TRUE] \in Version
  BY <1>2 DEF Version
<1>4. PICK v \in Version : versions' = Append(versions, v)
  BY <1>3 DEF GoInProgress, AskToCancel
<1> QED
  BY <1>1, <1>4

\* The goroutine that posts the events.
LEMMA RecorderType ==
    ASSUME ServicesTypeOK, NEW e \in {"Started", "Stopped"},
           Event(e) \/ EndingEvent(e)
    PROVE  recorder' \in RecorderState
<1> DEFINE E == {"Started", "Stopped", "sentinel"}
<1>1. recorder.queue \in Seq(E) /\ recorder \in RecorderState
  BY DEF ServicesTypeOK, RecorderState
<1>2. <<e, "sentinel">> \in Seq(E)
  OBVIOUS
<1>3. /\ Append(recorder.queue, e) \in Seq(E)
      /\ recorder.queue \o <<e, "sentinel">> \in Seq(E)
  BY <1>1, <1>2
<1>4. /\ [recorder EXCEPT !.queue = Append(@, e)] \in RecorderState
      /\ [queue |-> recorder.queue \o <<e, "sentinel">>, sentinel |-> "sent"]
            \in RecorderState
  BY <1>1, <1>3 DEF RecorderState
<1> QED
  BY <1>1, <1>4 DEF Event, EndingEvent

\* The main goroutine.
LEMMA MainType ==
    ASSUME ServicesTypeOK,
           \/ \E pc \in {"init", "poll", "create", "dpInit", "start", "wait",
                         "close", "waitDataPath", "gone"} : To(pc)
           \/ \E r \in {"failed", "canceled", "completed"} :
                 main' = [pc |-> "recorder", result |-> r]
    PROVE  main' \in MainState
BY DEF ServicesTypeOK, To, MainState, Preparing

\* The goroutine that runs the data path, at its end.
LEMMA OutcomeType ==
    ASSUME PathTypeOK
    PROVE  Outcome \in {"completed", "failed", "canceled", "panic"}
BY DEF PathTypeOK, DataPathState, Outcome, RunBackupResult, RunRestoreResult

\* Every step.
LEMMA ServicesType == ASSUME ServicesInv, MicroServicesNext PROVE ServicesTypeOK'
<1>0. ServicesTypeOK /\ PathInv /\ MainInv
  BY DEF ServicesInv
<1> USE <1>0 DEF ServicesTypeOK
<1>1. CASE GoInProgress \/ AskToCancel
  BY <1>1, VersionsType DEF GoInProgress, AskToCancel, PathUnchanged, pathVars,
     PathTypeOK
<1>2. CASE Terminate \/ Kill
  BY <1>2 DEF Terminate, Kill, PathUnchanged, pathVars, PathTypeOK, PodState
<1>3. CASE PostEvent
  <2> DEFINE q == recorder.queue
  <2>1. q \in Seq({"Started", "Stopped", "sentinel"}) /\ q # <<>>
    BY <1>3 DEF PostEvent, RecorderState
  <2>2. /\ Tail(q) \in Seq({"Started", "Stopped", "sentinel"})
        /\ Head(q) \in {"Started", "Stopped", "sentinel"}
    BY <2>1
  <2>3. recorder' \in RecorderState
    BY <1>3, <2>2 DEF PostEvent, RecorderState
  <2>4. events' \in Seq({"Started", "Stopped"})
    <3>1. CASE UNCHANGED events
      BY <3>1
    <3>2. CASE Head(q) # "sentinel" /\ events' = Append(events, Head(q))
      <4>1. Head(q) \in {"Started", "Stopped"}
        BY <2>2, <3>2
      <4> QED
        BY <3>2, <4>1
    <3> QED
      BY <1>3, <3>1, <3>2 DEF PostEvent
  <2>5. pathFaults' \in 0 .. MaxPathFaults
    BY <1>3, FaultType DEF PostEvent
  <2> QED
    BY <1>3, <2>3, <2>4, <2>5 DEF PostEvent, PathTypeOK
<1>4. CASE \/ CreateDataPathService
           \/ ServiceInit
           \/ WaitInProgress
           \/ CreateGenericDataPath
           \/ InitContext
           \/ InitDataPath
           \/ StartDataPath
  <2>1. main' \in MainState
    BY <1>4, MainType
       DEF CreateDataPathService, ServiceInit, WaitInProgress,
           CreateGenericDataPath, InitContext, InitDataPath, StartDataPath,
           FailWith, serviceVars
  <2>2. pathFaults' \in 0 .. MaxPathFaults
    BY <1>4, FaultType
       DEF CreateDataPathService, ServiceInit, WaitInProgress,
       CreateGenericDataPath, InitContext, InitDataPath, StartDataPath
  <2>3. dp' \in DataPathState
    BY <1>4
       DEF CreateDataPathService, ServiceInit, WaitInProgress,
       CreateGenericDataPath, InitContext, InitDataPath, StartDataPath,
       PathTypeOK, GoTo, DataPathState, BackingUp, Restoring
  <2>4. handler' \in HandlerState
    BY <1>4
       DEF CreateDataPathService, ServiceInit, WaitInProgress,
       CreateGenericDataPath, InitContext, InitDataPath, StartDataPath,
       HandlerState, serviceVars
  <2>5. recorder' \in RecorderState
    BY <1>4, RecorderType
       DEF CreateDataPathService, ServiceInit, WaitInProgress,
       CreateGenericDataPath, InitContext, InitDataPath, StartDataPath,
       serviceVars
  <2> QED
    BY <1>4, <2>1, <2>2, <2>3, <2>4, <2>5
       DEF CreateDataPathService, ServiceInit, WaitInProgress,
       CreateGenericDataPath, InitContext, InitDataPath, StartDataPath,
       PathTypeOK, PodState, serviceVars
<1>5. CASE TakeResult
  <2>1. dp.pc = "sending" => dp.err \in {"completed", "failed", "canceled"}
    BY DEF PathInv
  <2>2. PICK r \in {"failed", "canceled", "completed"} : Taken(r)
    BY <1>5, <2>1 DEF TakeResult
  <2>3. main' \in MainState /\ recorder' \in RecorderState
    BY <2>2, MainType, RecorderType DEF Taken
  <2>4. dp' \in DataPathState /\ handler' \in HandlerState
    BY <1>5 DEF TakeResult, GoTo, PathTypeOK, DataPathState, HandlerState
  <2> QED
    BY <1>5, <2>3, <2>4 DEF TakeResult, PathTypeOK
<1>6. CASE ShutdownRecorder \/ CloseDataPath
  <2>1. main' \in MainState /\ pathFaults' \in 0 .. MaxPathFaults
    BY <1>6, MainType, FaultType DEF ShutdownRecorder, CloseDataPath
  <2>2. recorder' \in RecorderState
    <3>1. [queue |-> <<>>, sentinel |-> "off"] \in RecorderState
      BY DEF RecorderState
    <3> QED
      BY <1>6, <3>1 DEF ShutdownRecorder, CloseDataPath
  <2>3. dpCanceled' \in BOOLEAN
    <3>1. CASE ShutdownRecorder
      BY <3>1 DEF ShutdownRecorder, PathTypeOK
    <3>2. CASE CloseDataPath
      BY <3>2 DEF CloseDataPath
    <3> QED
      BY <1>6, <3>1, <3>2
  <2> QED
    BY <1>6, <2>1, <2>2, <2>3 DEF ShutdownRecorder, CloseDataPath, PathTypeOK
<1>7. CASE ExitPod
  <2>1. main' \in MainState /\ pathFaults' \in 0 .. MaxPathFaults
    BY <1>7, MainType, FaultType DEF ExitPod
  <2>2. exit' \in PodState
    BY <1>7 DEF ExitPod, MainInv, MainState, PodState
  <2> QED
    BY <1>7, <2>1, <2>2 DEF ExitPod, PathTypeOK
<1>8. CASE HandleUpdate \/ CancelRequest
  <2>1. handler' \in HandlerState
    BY <1>8 DEF HandleUpdate, CancelRequest, HandlerState
  <2> QED
    BY <1>8, <2>1 DEF HandleUpdate, CancelRequest, PathUnchanged, pathVars,
       PathTypeOK, PodState
<1>9. CASE HandlerStops
  <2>1. recorder' \in RecorderState
    BY <1>9, RecorderType DEF HandlerStops
  <2>2. handler' \in HandlerState
    BY <1>9 DEF HandlerStops, HandlerState
  <2> QED
    BY <1>9, <2>1, <2>2 DEF HandlerStops, PathUnchanged, pathVars, PathTypeOK
<1>10. CASE RunUploader
  BY <1>10, UploaderType DEF RunUploader, serviceVars
<1>11. CASE OnOutcome \/ CloseProvider
  <2>1. dp' \in DataPathState
    BY <1>11, OutcomeType
       DEF OnOutcome, CloseProvider, serviceVars, GoTo, PathTypeOK,
           DataPathState
  <2>2. pathFaults' \in 0 .. MaxPathFaults
    BY <1>11, FaultType DEF OnOutcome, CloseProvider
  <2>3. mark' \in BOOLEAN /\ exit' \in PodState
    BY <1>11 DEF OnOutcome, CloseProvider, serviceVars, PodState
  <2> QED
    BY <1>11, <2>1, <2>2, <2>3
       DEF OnOutcome, CloseProvider, serviceVars, PathTypeOK
<1>12. CASE WatchEvent \/ WatchPod \/ CallVerdict \/ CloseWatcher
  <2>1. watcher' \in WatcherState
    <3>1. CASE WatchEvent
      <4> DEFINE started == watcher.started \/ events[watcher.read + 1] = "Started"
                 stopped == watcher.stopped \/ events[watcher.read + 1] = "Stopped"
      <4>1. started \in BOOLEAN /\ stopped \in BOOLEAN
        OBVIOUS
      <4>2. watcher' = [watcher EXCEPT !.read = watcher.read + 1,
                                       !.started = started,
                                       !.stopped = stopped]
        BY <3>1 DEF WatchEvent, OnEvent
      <4> HIDE DEF started, stopped
      <4>3. ASSUME NEW r \in Nat, NEW a \in BOOLEAN, NEW b \in BOOLEAN
            PROVE  [watcher EXCEPT !.read = r, !.started = a, !.stopped = b]
                       \in WatcherState
        BY DEF WatcherState
      <4>4. watcher.read + 1 \in Nat
        BY DEF WatcherState
      <4> QED
        BY <4>1, <4>2, <4>3, <4>4
    <3>2. CASE WatchPod \/ CloseWatcher
      BY <3>2 DEF WatchPod, CloseWatcher, WatcherState
    <3>3. CASE CallVerdict
      <4> DEFINE late == ~(watcher.started /\ watcher.stopped)
      <4>1. late \in BOOLEAN
        OBVIOUS
      <4>2. watcher' = [watcher EXCEPT !.pc = "ended", !.late = late,
                                       !.verdict = exit]
        BY <3>3 DEF CallVerdict
      <4> HIDE DEF late
      <4> QED
        BY <4>1, <4>2 DEF WatcherState
    <3> QED
      BY <1>12, <3>1, <3>2, <3>3
  <2> QED
    BY <1>12, <2>1 DEF WatchEvent, WatchPod, CallVerdict, CloseWatcher,
       PathUnchanged, pathVars, PathTypeOK
<1> QED
  BY <1>1, <1>2, <1>3, <1>4, <1>5, <1>6, <1>7, <1>8, <1>9, <1>10, <1>11, <1>12
     DEF MicroServicesNext, ProcessStep

-----------------------------------------------------------------------------
(***************************************************************************)
(* What is said to be complete is.                                         *)
(***************************************************************************)

\* The initial state.
LEMMA InitServices == MicroServicesInit => ServicesInv
<1> SUFFICES ASSUME MicroServicesInit PROVE ServicesInv
  OBVIOUS
<1> USE DEF MicroServicesInit, DataPathInit
<1>1. ServicesTypeOK
  <2>1. pathFaults \in 0 .. MaxPathFaults
    BY PathAssumption
  <2>2. PathTypeOK
    BY <2>1 DEF PathTypeOK, DataPathState, CheckContextState, Manifest,
       TargetState
  <2>3. versions \in Seq(Version) \ {<<>>}
    BY DEF Version
  <2>4. handler \in HandlerState /\ main \in MainState
    BY DEF HandlerState, MainState, Preparing
  <2>5. recorder \in RecorderState /\ events \in Seq({"Started", "Stopped"})
    BY DEF RecorderState
  <2>6. exit \in PodState /\ watcher \in WatcherState
    BY DEF PodState, WatcherState
  <2> QED
    BY <2>2, <2>3, <2>4, <2>5, <2>6 DEF ServicesTypeOK
<1>2. PathInv
  BY DEF PathInv, BackingUp, Restoring
<1>3. MainInv /\ SuccessInv
  BY DEF MainInv, SuccessInv
<1> QED
  BY <1>1, <1>2, <1>3 DEF ServicesInv

\* The uploader's goroutines, one step at a time.
LEMMA UploaderKeeps ==
    ASSUME PathTypeOK, PathInv, UploaderStep
    PROVE  PathInv' /\ (dp.err = "completed" => dp'.err = "completed")
<1>1. CASE CheckContext
  BY <1>1 DEF CheckContext, Watched, PathTypeOK,
     DataPathState, Manifest, BackingUp, Restoring, PathInv, IsBackup, Moved
<1>2. CASE GetLocalEntry \/ FindParent \/ SetupPolicy
  BY <1>2 DEF GetLocalEntry, FindParent, SetupPolicy, GoTo, Return, PathTypeOK,
     DataPathState, Manifest, BackingUp, Restoring, PathInv, IsBackup, Moved
<1>3. CASE Upload
  BY <1>3 DEF Upload, GoTo, Return, PathTypeOK,
     DataPathState, Manifest, BackingUp, Restoring, PathInv, IsBackup, Moved
<1>4. CASE SaveManifest \/ ApplyRetention
  BY <1>4 DEF SaveManifest, ApplyRetention, GoTo, Return, PathTypeOK,
     DataPathState, Manifest, BackingUp, Restoring, PathInv, IsBackup, Moved
<1>5. CASE FlushSnapshot \/ ReportSnapshotStatus
  BY <1>5 DEF FlushSnapshot, ReportSnapshotStatus, GoTo, Return, PathTypeOK,
     DataPathState, Manifest, BackingUp, Restoring, PathInv, IsBackup, Moved
<1>6. CASE LoadSnapshot \/ RestoreEntry \/ FlushVolume
  BY <1>6 DEF LoadSnapshot, RestoreEntry, FlushVolume, GoTo, Return,
     PathTypeOK, DataPathState, Manifest, BackingUp, Restoring, PathInv,
     IsBackup, Moved
<1>7. CASE RunBlocks
  BY <1>7, PathAssumption DEF RunBlocks, GoTo, Return, PathTypeOK,
     DataPathState, Manifest, BackingUp, Restoring, PathInv, IsBackup, Moved
<1> QED
  BY <1>1, <1>2, <1>3, <1>4, <1>5, <1>6, <1>7 DEF UploaderStep

\* Steps that leave the data path where it is.
LEMMA PathKept ==
    ASSUME PathInv, UNCHANGED <<mover, dp, canceling, manifest, target>>,
           dpCanceled => dpCanceled'
    PROVE  PathInv'
BY DEF PathInv, Moved, IsBackup

\* The main goroutine, up to the start of the data path.
LEMMA PreparingKeeps ==
    ASSUME ServicesInv,
           \/ CreateDataPathService
           \/ ServiceInit
           \/ WaitInProgress
           \/ CreateGenericDataPath
           \/ InitContext
           \/ InitDataPath
           \/ StartDataPath
    PROVE  PathInv' /\ MainInv' /\ SuccessInv'
<1> USE DEF ServicesInv
<1>1. dp \in DataPathState /\ main \in MainState
  BY DEF ServicesTypeOK, PathTypeOK
<1>2. UNCHANGED <<mover, canceling, manifest, target, mark, watcher>>
  BY DEF CreateDataPathService, ServiceInit, WaitInProgress,
     CreateGenericDataPath, InitContext, InitDataPath, StartDataPath,
     serviceVars
<1>3. /\ dp'.err = dp.err
      /\ \/ dp' = dp /\ dpCanceled' = dpCanceled
         \/ dp'.pc \in {"created", "initializing", "initialized"}
               /\ dpCanceled' = dpCanceled
         \/ dp'.pc = "ended" /\ dpCanceled' = TRUE
         \/ /\ dp.pc = "initialized"
            /\ dp'.pc = IF mover.uploader = "block" THEN "blocks"
                        ELSE IF IsBackup THEN "entry" ELSE "load"
            /\ dpCanceled' = dpCanceled
  BY <1>1
     DEF CreateDataPathService, ServiceInit, WaitInProgress,
     CreateGenericDataPath, InitContext, InitDataPath, StartDataPath, GoTo,
     DataPathState, serviceVars, MainInv
<1>4. dp.err # "completed"
  BY DEF CreateDataPathService, ServiceInit, WaitInProgress,
     CreateGenericDataPath, InitContext, InitDataPath, StartDataPath,
     MainInv, PathInv, Preparing
<1>5. PathInv'
  BY <1>2, <1>3, <1>4 DEF PathInv, BackingUp, Restoring, IsBackup, Moved
<1>6. MainInv'
  BY <1>1
     DEF CreateDataPathService, ServiceInit, WaitInProgress,
     CreateGenericDataPath, InitContext, InitDataPath, StartDataPath, GoTo,
     FailWith, To, DataPathState, MainState, Preparing, MainInv, serviceVars
<1>7. SuccessInv'
  BY <1>1, <1>2, <1>3, <1>4
     DEF CreateDataPathService, ServiceInit, WaitInProgress,
     CreateGenericDataPath, InitContext, InitDataPath, StartDataPath,
     FailWith, To, MainState, SuccessInv, Alive, serviceVars
<1> QED
  BY <1>5, <1>6, <1>7

\* The main goroutine, from the result on.
LEMMA EndingKeeps ==
    ASSUME ServicesInv,
           TakeResult \/ ShutdownRecorder \/ CloseDataPath \/ ExitPod
    PROVE  PathInv' /\ MainInv' /\ SuccessInv'
<1> USE DEF ServicesInv
<1>1. dp \in DataPathState /\ main \in MainState
  BY DEF ServicesTypeOK, PathTypeOK
<1>2. CASE TakeResult
  <2>1. /\ UNCHANGED <<mover, canceling, manifest, target, dpCanceled, mark,
                       exit, watcher>>
        /\ dp'.err = dp.err
        /\ dp' = dp \/ (dp.pc = "sending" /\ dp'.pc = "closing")
        /\ main'.pc = "recorder"
        /\ \/ main'.result \in {"failed", "canceled"}
           \/ dp.pc = "sending" /\ main'.result = dp.err
    BY <1>1, <1>2 DEF TakeResult, Taken, GoTo, DataPathState
  <2>2. PathInv'
    BY <2>1 DEF PathInv, BackingUp, Restoring, IsBackup, Moved
  <2>3. MainInv' /\ SuccessInv'
    BY <2>1 DEF MainInv, SuccessInv, PathInv, Preparing
  <2> QED
    BY <2>2, <2>3
<1>3. CASE ShutdownRecorder \/ CloseDataPath \/ ExitPod
  <2>1. dpCanceled => dpCanceled'
    BY <1>3 DEF ShutdownRecorder, CloseDataPath, ExitPod
  <2>2. /\ UNCHANGED <<mover, dp, canceling, manifest, target, mark, watcher>>
        /\ main'.pc \in {"close", "waitDataPath", "gone"}
        /\ main'.result = main.result
        /\ main.pc \in {"recorder", "close", "waitDataPath"}
        /\ exit' \in {exit, main.result, "failed"}
        /\ exit' # exit => exit = "running"
    BY <1>1, <1>3 DEF ShutdownRecorder, CloseDataPath, ExitPod, To, MainState,
       Alive
  <2>3. PathInv'
    BY <2>1, <2>2, PathKept
  <2>4. MainInv' /\ SuccessInv'
    BY <2>2 DEF MainInv, SuccessInv, Preparing
  <2> QED
    BY <2>3, <2>4
<1> QED
  BY <1>2, <1>3

\* The goroutine of the data path, at its end.
LEMMA OutcomeKeeps ==
    ASSUME ServicesInv, OnOutcome \/ CloseProvider
    PROVE  PathInv' /\ MainInv' /\ SuccessInv'
<1> USE DEF ServicesInv
<1>1. dp \in DataPathState /\ main \in MainState
  BY DEF ServicesTypeOK, PathTypeOK
<1>2. CASE OnOutcome
  <2>1. dp.pc = "returned" /\ dp.err # "completed"
    BY <1>2 DEF OnOutcome, PathInv
  <2>2. /\ UNCHANGED <<mover, canceling, manifest, target, dpCanceled, main,
                       watcher>>
        /\ \/ /\ Outcome # "panic"
              /\ dp'.pc = "sending"
              /\ dp'.err = Outcome
              /\ mark' => mark \/ Outcome = "completed"
              /\ exit' = exit
           \/ dp' = dp /\ mark' = mark /\ exit' = "failed"
    BY <1>1, <1>2 DEF OnOutcome, DataPathState
  <2>3. Outcome = "completed" => Moved
    BY <2>1
       DEF Outcome, RunBackupResult, RunRestoreResult, PathInv, Moved
  <2>4. Outcome \in {"completed", "failed", "canceled", "panic"}
    BY OutcomeType DEF ServicesTypeOK
  <2>5. PathInv'
    BY <2>1, <2>2, <2>3, <2>4 DEF PathInv, BackingUp, Restoring, IsBackup,
       Moved
  <2>6. MainInv'
    BY <2>1, <2>2 DEF MainInv, Preparing
  <2>7. SuccessInv'
    BY <1>2, <2>1, <2>2 DEF SuccessInv, OnOutcome, Alive
  <2> QED
    BY <2>5, <2>6, <2>7
<1>3. CASE CloseProvider
  <2>1. /\ UNCHANGED <<mover, canceling, manifest, target, dpCanceled,
                       serviceVars>>
        /\ dp.pc = "closing"
        /\ dp'.pc = "ended"
        /\ dp'.err = dp.err
    BY <1>1, <1>3 DEF CloseProvider, GoTo, DataPathState
  <2>2. PathInv'
    BY <2>1 DEF PathInv, BackingUp, Restoring, IsBackup, Moved
  <2>3. MainInv' /\ SuccessInv'
    BY <2>1 DEF MainInv, SuccessInv, Preparing, serviceVars
  <2> QED
    BY <2>2, <2>3
<1> QED
  BY <1>2, <1>3

\* Every step.
LEMMA NextServices == ServicesInv /\ [MicroServicesNext]_msVars => ServicesInv'
<1> SUFFICES ASSUME ServicesInv, [MicroServicesNext]_msVars PROVE ServicesInv'
  OBVIOUS
<1>1. CASE UNCHANGED msVars
  BY <1>1 DEF msVars, pathVars, serviceVars, ServicesInv, ServicesTypeOK,
     PathTypeOK, PathInv, MainInv, SuccessInv, Moved, IsBackup
<1>2. CASE MicroServicesNext
  <2>1. ServicesTypeOK'
    BY <1>2, ServicesType
  <2>2. CASE \/ CreateDataPathService
             \/ ServiceInit
             \/ WaitInProgress
             \/ CreateGenericDataPath
             \/ InitContext
             \/ InitDataPath
             \/ StartDataPath
    BY <2>1, <2>2, PreparingKeeps DEF ServicesInv
  <2>3. CASE TakeResult \/ ShutdownRecorder \/ CloseDataPath \/ ExitPod
    BY <2>1, <2>3, EndingKeeps DEF ServicesInv
  <2>4. CASE OnOutcome \/ CloseProvider
    BY <2>1, <2>4, OutcomeKeeps DEF ServicesInv
  <2>5. CASE RunUploader
    <3>1. /\ PathInv'
          /\ dp.err = "completed" => dp'.err = "completed"
          /\ UNCHANGED serviceVars
      BY <2>5, UploaderKeeps DEF RunUploader, ServicesInv, ServicesTypeOK
    <3>2. MainInv'
      <4>1. dp.pc \notin {"none", "created", "initializing", "initialized"}
               \/ UNCHANGED dp
        BY <2>5
           DEF RunUploader, UploaderStep, CheckContext, GetLocalEntry,
               FindParent, SetupPolicy, Upload, SaveManifest, ApplyRetention,
               FlushSnapshot, ReportSnapshotStatus, LoadSnapshot, RestoreEntry,
               FlushVolume, RunBlocks
      <4> QED
        BY <3>1, <4>1 DEF MainInv, ServicesInv, serviceVars
    <3>3. SuccessInv'
      BY <3>1 DEF SuccessInv, ServicesInv, serviceVars
    <3> QED
      BY <2>1, <3>1, <3>2, <3>3 DEF ServicesInv
  <2>6. ASSUME UNCHANGED <<mover, dp, canceling, manifest, target, main, mark>>,
               dpCanceled => dpCanceled',
               exit' \in {exit, "failed"},
               exit' # exit => exit = "running",
               watcher'.verdict \in {watcher.verdict, exit},
               watcher' = watcher \/ exit' = exit
        PROVE  ServicesInv'
    BY <2>1, <2>6, PathKept DEF ServicesInv, MainInv, SuccessInv
  <2>7. CASE \/ GoInProgress \/ AskToCancel \/ Terminate \/ Kill
             \/ CancelRequest \/ HandlerStops \/ PostEvent \/ HandleUpdate
    BY <2>6, <2>7
       DEF GoInProgress, AskToCancel, Terminate, Kill, CancelRequest,
           HandlerStops, PostEvent, HandleUpdate, PathUnchanged, pathVars,
           Alive
  <2>8. CASE WatchEvent \/ WatchPod \/ CallVerdict \/ CloseWatcher
    <3>1. watcher'.verdict \in {watcher.verdict, exit}
      BY <2>8
         DEF WatchEvent, WatchPod, CallVerdict, CloseWatcher, OnEvent,
             ServicesInv, ServicesTypeOK, WatcherState
    <3> QED
      BY <2>6, <2>8, <3>1
         DEF WatchEvent, WatchPod, CallVerdict, CloseWatcher, PathUnchanged,
             pathVars
  <2> QED
    BY <1>2, <2>2, <2>3, <2>4, <2>5, <2>7, <2>8
       DEF MicroServicesNext, ProcessStep
<1> QED
  BY <1>1, <1>2

\* The invariant of the process, its data path and its watcher.
THEOREM ServicesInductive == MicroServicesSpec => []ServicesInv
BY InitServices, NextServices, PTL DEF MicroServicesSpec

\* A pod that succeeds, the verdict on it and the mark it leaves stand for a
\* volume that has been moved as a whole.
THEOREM Success == MicroServicesSpec => []SuccessIsMoved
<1>1. ServicesInv => SuccessIsMoved
  BY DEF ServicesInv, PathInv, SuccessInv, SuccessIsMoved
<1> QED
  BY <1>1, ServicesInductive, PTL

-----------------------------------------------------------------------------
(***************************************************************************)
(* The requests and the node agents: what holds of each request.           *)
(***************************************************************************)

\* The requests that one exclusive update accepts, hence at most once.
Transfer(r) == kind[r] \in {"DataUpload", "DataDownload"}

\* A node that is about to expose a request has it for itself: a data transfer
\* since nobody else can accept it any more, a pod volume since it is at home.
ExposerInv(r) ==
    \A n \in Nodes :
        work[n][r] \in {"accepting", "exposing"} =>
            IF Transfer(r)
            THEN /\ work[n][r] = "exposing"
                 /\ req[r].phase # "New"
                 /\ \A m \in Nodes \ {n} : work[m][r] # "exposing"
            ELSE n = home[r]

PodInv(r) ==
    /\ pod[r] \in {"none", "pending"} => podNode[r] = None
    /\ pod[r] = "none" => ~podNews[r]
    /\ pod[r] = "succeeded" => moved[r]

FreshPhases == {"New", "Accepted", "Failed", "Canceled", "Gone"}

\* Nobody has made a hosting pod for r yet.
Fresh(r) ==
    /\ pod[r] = "none"
    /\ volume[r].pv = "none"
    /\ At(r, "none")
    /\ req[r].phase \in FreshPhases
    /\ \A n \in Nodes :
          /\ cache[n][r].phase \in FreshPhases
          /\ work[n][r] \notin {"starting", "stopping", "canceling"}
          /\ event[n][r] = "none"
          /\ tracker[n][r] = "none"
          /\ r \notin resume[n]

\* The pod of a data transfer is made once, by the node that accepted it.
FreshInv(r) ==
    /\ Transfer(r)
    /\ req[r].phase = "New" \/ \E n \in Nodes : work[n][r] = "exposing"
    => Fresh(r)

\* Only the node that the pod of a data transfer runs on, or ran on, has a
\* data path for it.
TrackerInv(r) ==
    \A n \in Nodes :
        Transfer(r) /\ tracker[n][r] # "none" =>
            /\ pod[r] # "pending"
            /\ podNode[r] \in {n, None}
            /\ \A m \in Nodes \ {n} : tracker[m][r] = "none"

\* The storage of a volume that is bound, or about to be, exists: it is
\* released only when it is retained.
VolumeInv(r) ==
    /\ volume[r].pv # "none" \/ At(r, "createPV") => volume[r].disk
    /\ rebind[r].step \in {"deletePod", "deletePVC"} /\ volume[r].pv = "restore"
          => volume[r].retain
    /\ At(r, "createPV") => volume[r].pv # "restore"

\* Nothing is completed but what was moved.
MovedInv(r) ==
    /\ req[r].phase = "Completed" => moved[r]
    /\ \A n \in Nodes :
          /\ tracker[n][r] \in {"rebinding", "Completed"} => moved[r]
          /\ tracker[n][r] = "rebinding" => DataDownload(r)

\* The volume of a DataDownload that is completed, or about to be, is no
\* longer touched.
RestoredInv(r) ==
    /\ DataDownload(r)
    /\ req[r].phase = "Completed" \/ \E n \in Nodes : tracker[n][r] = "Completed"
    => /\ pod[r] = "none"
       /\ volume[r].pv = "target"
       /\ volume[r].named
       /\ \A n \in Nodes : tracker[n][r] \notin {"watching", "rebinding"}

RequestInv(r) ==
    /\ ExposerInv(r)
    /\ PodInv(r)
    /\ FreshInv(r)
    /\ TrackerInv(r)
    /\ VolumeInv(r)
    /\ MovedInv(r)
    /\ RestoredInv(r)

MovementInv == TypeOK /\ \A r \in Requests : RequestInv(r)

\* Nothing that the invariant says of s changes.
Same(s) ==
    /\ UNCHANGED <<kind, home>>
    /\ UNCHANGED <<req[s], pod[s], podNode[s], podNews[s], moved[s]>>
    /\ UNCHANGED <<volume[s], rebind[s]>>
    /\ \A n \in Nodes :
          /\ UNCHANGED <<cache[n][s], work[n][s], event[n][s], tracker[n][s]>>
          /\ s \in resume'[n] => s \in resume[n]

\* The invariant of a request is about what Same compares.
LEMMA SameKeeps ==
    ASSUME NEW s \in Requests, RequestInv(s), Same(s) PROVE RequestInv(s)'
BY DEF Same, RequestInv, ExposerInv, PodInv, FreshInv, Fresh, TrackerInv,
   VolumeInv, MovedInv, RestoredInv, At, Transfer, DataDownload

-----------------------------------------------------------------------------
(***************************************************************************)
(* What the controllers of a node may do with one request, whatever its    *)
(* kind.                                                                   *)
(***************************************************************************)
Ends(n, r) ==
    /\ Reconciles(n, r)
    /\ \/ DelayExpires(r)
       \/ cache[n][r].phase = "New"
       \/ cache[n][r].phase = "Accepted" /\ PeekFails(r)
    /\ \E phase \in {"Failed", "Canceled"} : EndExclusively(n, r, phase)

Accepts(n, r) ==
    \/ Transfer(r) /\ AcceptExclusively(n, r)
    \/ ~Transfer(r) /\ home[r] = n /\ BeginAccept(n, r)
    \/ /\ ~Transfer(r)
       /\ \E m \in Nodes \cup {req[r].node} :
             FinishAccept(n, r, InPhaseOn(req[r], "Accepted", m))

Exposes(n, r) ==
    /\ work[n][r] = "exposing"
    /\ Timely => cache[n][r].phase # "New"

Creates(n, r) ==
    /\ Exposes(n, r)
    /\ CreatePod(r)
    /\ Works(n, r, "idle")
    /\ UNCHANGED requestVars
    /\ OnlyWork

Errs(n, r) ==
    /\ \/ Exposes(n, r)
       \/ Read(n, r, "Prepared")
       \/ ~Transfer(r) /\ home[r] = n /\ Read(n, r, "New")
    /\ ErrorOut(n, r)

Cancels(n, r) ==
    /\ cache[n][r].phase \in {"Prepared", "InProgress"}
    /\ OnCancelled(n, r)

Starts(n, r) ==
    /\ Read(n, r, "Prepared")
    /\ tracker[n][r] = "none"
    /\ GetExposed(n, r)
    /\ tracker' = Put(tracker, n, r, "watching")
    /\ Works(n, r, "starting")
    /\ UNCHANGED <<requestVars, podVars, event, resume, restarts, faults>>

Stops(n, r) ==
    /\ Read(n, r, "InProgress")
    /\ Works(n, r, "stopping")
    /\ UNCHANGED <<requestVars, podVars>>
    /\ OnlyWork

Prepares(n, r) ==
    \E m \in Nodes \cup {req[r].node} :
        FinishPreparing(n, r, InPhaseOn(req[r], "Prepared", m))

CallsBack(n, r) ==
    /\ Watches(n, r)
    /\ CleansUp(r)
    /\ \E outcome \in Final :
          /\ outcome = "Completed" => pod[r] = "succeeded" /\ ~DataDownload(r)
          /\ tracker' = Put(tracker, n, r, outcome)
    /\ OnlyTracker

Work(n, r) ==
    \/ ReconcileFinalizer(n, r)
    \/ Ends(n, r)
    \/ Accepts(n, r)
    \/ Creates(n, r)
    \/ Errs(n, r)
    \/ FinishCleaning(n, r)
    \/ UpdateStatusToFailed(n, r)
    \/ Cancels(n, r)
    \/ FinishCancelled(n, r)
    \/ Starts(n, r)
    \/ FinishStarting(n, r)
    \/ Stops(n, r)
    \/ FinishStopping(n, r)

Follow(n, r) ==
    \/ FindForPod(n, r)
    \/ FinishMarking(n, r)
    \/ Prepares(n, r)
    \/ CallsBack(n, r)
    \/ Forget(n, r)
    \/ FinishCallback(n, r)
    \/ Resume(n, r)

Rebinds(n, r) ==
    \/ OnDataDownloadCompleted(n, r)
    \/ tracker[n][r] = "rebinding" /\ RebindStep(r)
    \/ FinishRebind(n, r)
    \/ RebindFails(n, r)

Move(n, r) ==
    \/ (Work(n, r) \/ Follow(n, r)) /\ UNCHANGED rebindVars
    \/ Rebinds(n, r)
    \/ WatchDelivers(n, r)

Elsewhere(r) == User(r) \/ PodRuns(r) \/ PodMishap(r)

\* The same object with the same node.
LEMMA SameNode ==
    ASSUME NEW o, NEW phase PROVE InPhase(o, phase) = InPhaseOn(o, phase, o.node)
BY DEF InPhase, InPhaseOn

\* Every step but a restart is one of these.
LEMMA StepIsMove ==
    ASSUME Next
    PROVE  \/ \E n \in Nodes, r \in Requests : Move(n, r)
           \/ \E r \in Requests : Elsewhere(r)
           \/ \E n \in Nodes : AgentRestart(n)
<1>1. ASSUME NEW n \in Nodes, NEW r \in Requests, Worker(n, r)
      PROVE  Move(n, r)
  <2> SUFFICES Work(n, r)
    BY <1>1 DEF Worker, Move
  <2>1. ReconcileCancelDelay(n, r) \/ CancelNew(n, r) \/ ReconcileAccepted(n, r)
           => Ends(n, r)
    BY DEF ReconcileCancelDelay, CancelNew, ReconcileAccepted, Read, Ends
  <2>2. Expose(n, r) => Creates(n, r) \/ Errs(n, r)
    BY DEF Expose, Exposes, Creates, Errs
  <2>3. ReconcilePrepared(n, r) => Cancels(n, r) \/ Errs(n, r) \/ Starts(n, r)
    BY DEF ReconcilePrepared, Read, Cancels, Starts, Errs
  <2>4. ReconcileInProgress(n, r) => Cancels(n, r) \/ Stops(n, r)
    BY DEF ReconcileInProgress, Read, Cancels, Stops
  <2>5. CASE DataUploadWorker(n, r)
    BY <2>1, <2>2, <2>3, <2>4, <2>5
       DEF DataUploadWorker, ReconcileDataUpload, AcceptDataUpload,
           ExposeDataUpload, ReconcileDataUploadAccepted,
           FinishCancelDataUpload, StartDataUpload, StopDataUpload,
           UpdateDataUploadToFailed, CanceledDataUpload, DataUpload, Transfer,
           Accepts, Work
  <2>6. CASE DataDownloadWorker(n, r)
    BY <2>1, <2>2, <2>3, <2>4, <2>6
       DEF DataDownloadWorker, ReconcileDataDownload, AcceptDataDownload,
           ExposeDataDownload, ReconcileDataDownloadAccepted,
           FinishCancelDataDownload, StartDataDownload, StopDataDownload,
           UpdateDataDownloadToFailed, CanceledDataDownload, DataDownload,
           Transfer, Accepts, Work
  <2>7. CASE PodVolumeBackupWorker(n, r)
    BY <2>1, <2>2, <2>3, <2>4, <2>7, SameNode
       DEF PodVolumeBackupWorker, ReconcilePodVolumeBackup,
           BeginAcceptPodVolumeBackup, AcceptPodVolumeBackup,
           ExposePodVolumeBackup, ReconcilePodVolumeBackupAccepted,
           FinishCancelPodVolumeBackup, StartPodVolumeBackup,
           StopPodVolumeBackup, UpdatePodVolumeBackupToFailed,
           CanceledPodVolumeBackup, PodVolumeBackup, Transfer, Accepts, Work
  <2>8. CASE PodVolumeRestoreWorker(n, r)
    BY <2>1, <2>2, <2>3, <2>4, <2>8
       DEF PodVolumeRestoreWorker, ReconcilePodVolumeRestore, ShouldNotProcess,
           BeginAcceptPodVolumeRestore, AcceptPodVolumeRestore,
           ExposePodVolumeRestore, ReconcilePodVolumeRestoreAccepted,
           FinishCancelPodVolumeRestore, StartPodVolumeRestore,
           StopPodVolumeRestore, UpdatePodVolumeRestoreToFailed,
           CanceledPodVolumeRestore, PodVolumeRestore, Transfer, Accepts, Errs,
           Work
  <2> QED
    BY <1>1, <2>5, <2>6, <2>7, <2>8 DEF Worker
<1>2. ASSUME NEW n \in Nodes, NEW r \in Requests, Handler(n, r)
      PROVE  Move(n, r)
  BY <1>2, SameNode
     DEF Handler, DataUploadHandler, DataDownloadHandler,
         PodVolumeBackupHandler, PodVolumeRestoreHandler, FindDataUploadForPod,
         PrepareDataUpload, FindDataDownloadForPod, PrepareDataDownload,
         FindPodVolumeBackupForPod, PreparePodVolumeBackup,
         FindPodVolumeRestoreForPod, PreparePodVolumeRestore, Prepares, Follow,
         Move
<1>3. ASSUME NEW n \in Nodes, NEW r \in Requests, Watcher(n, r)
      PROVE  Move(n, r)
  <2>1. ~DataDownload(r) /\ OnCompletedCallback(n, r) => Follow(n, r)
    BY DEF OnCompletedCallback, CallBack, CallsBack, Follow, Final
  <2>2. OnFailedCallback(n, r) \/ OnCancelledCallback(n, r) => Follow(n, r)
    BY DEF OnFailedCallback, OnCancelledCallback, CallBack, CallsBack, Follow,
       Final
  <2>3. CASE DataUploadWatcher(n, r) /\ UNCHANGED rebindVars
    BY <2>1, <2>2, <2>3
       DEF DataUploadWatcher, OnDataUploadCompleted, OnDataUploadFailed,
           OnDataUploadCancelled, UpdateDataUpload, DataUpload, DataDownload,
           Follow, Move
  <2>4. CASE PodVolumeBackupWatcher(n, r) /\ UNCHANGED rebindVars
    BY <2>1, <2>2, <2>4
       DEF PodVolumeBackupWatcher, OnPodVolumeBackupCompleted,
           OnPodVolumeBackupFailed, OnPodVolumeBackupCancelled,
           UpdatePodVolumeBackup, PodVolumeBackup, DataDownload, Follow, Move
  <2>5. CASE PodVolumeRestoreWatcher(n, r) /\ UNCHANGED rebindVars
    BY <2>1, <2>2, <2>5
       DEF PodVolumeRestoreWatcher, OnPodVolumeRestoreCompleted,
           OnPodVolumeRestoreFailed, OnPodVolumeRestoreCancelled,
           UpdatePodVolumeRestore, PodVolumeRestore, DataDownload, Follow, Move
  <2>6. CASE /\ \/ AbandonDataDownload(n, r)
                \/ OnDataDownloadFailed(n, r)
                \/ OnDataDownloadCancelled(n, r)
                \/ UpdateDataDownload(n, r)
             /\ UNCHANGED rebindVars
    BY <2>2, <2>6
       DEF AbandonDataDownload, OnDataDownloadFailed, OnDataDownloadCancelled,
           UpdateDataDownload, Follow, Move
  <2> QED
    BY <1>3, <2>3, <2>4, <2>5, <2>6 DEF Watcher, Rebinds, Move
<1>4. ASSUME NEW n \in Nodes, NEW r \in Requests, AgentResume(n, r)
      PROVE  Move(n, r)
  BY <1>4
     DEF AgentResume, ResumeDataUpload, ResumeDataDownload,
         ResumePodVolumeBackup, ResumePodVolumeRestore, Follow, Move
<1> QED
  BY <1>1, <1>2, <1>3, <1>4 DEF Next, Elsewhere, Move

(***************************************************************************)
(* What a step about one request leaves of the others.                     *)
(***************************************************************************)
LEMMA MoveSame ==
    ASSUME TypeOK, NEW n \in Nodes, NEW r \in Requests, Move(n, r)
    PROVE  \A s \in Requests \ {r} : Same(s)
<1> USE DEF TypeOK, RequestsTypeOK, PodsTypeOK, AgentsTypeOK, RebindTypeOK,
    Same, Works, OnlyWork, OnlyEvent, OnlyTracker, WriteNow, RetriedWrite,
    UpdateWithRetry, Write, PodsSeeWrite, CleansUp, CleanUp, ClearPod, Put,
    requestVars, podVars, agentVars, rebindVars
<1>1. CASE Work(n, r) /\ UNCHANGED rebindVars
  <2>1. CASE ReconcileFinalizer(n, r)
    BY <1>1, <2>1 DEF ReconcileFinalizer, AddFinalizer, CancelDeleted,
       RemoveFinalizer
  <2>2. CASE Ends(n, r)
    BY <1>1, <2>2 DEF Ends, EndExclusively
  <2>3. CASE Accepts(n, r)
    <3>1. CASE AcceptExclusively(n, r)
      BY <1>1, <3>1 DEF AcceptExclusively
    <3>2. CASE BeginAccept(n, r)
      BY <1>1, <3>2 DEF BeginAccept
    <3>3. ASSUME NEW o, FinishAccept(n, r, o)
          PROVE  \A s \in Requests \ {r} : Same(s)
      BY <1>1, <3>3 DEF FinishAccept
    <3> QED
      BY <2>3, <3>1, <3>2, <3>3 DEF Accepts
  <2>4. CASE Creates(n, r)
    BY <1>1, <2>4 DEF Creates, Exposes, CreatePod
  <2>5. CASE Errs(n, r)
    BY <1>1, <2>5 DEF Errs, ErrorOut
  <2>6. CASE FinishCleaning(n, r)
    BY <1>1, <2>6 DEF FinishCleaning
  <2>7. CASE UpdateStatusToFailed(n, r)
    BY <1>1, <2>7 DEF UpdateStatusToFailed
  <2>8. CASE Cancels(n, r)
    BY <1>1, <2>8 DEF Cancels, OnCancelled
  <2>9. CASE FinishCancelled(n, r)
    BY <1>1, <2>9 DEF FinishCancelled
  <2>10. CASE Starts(n, r)
    BY <1>1, <2>10 DEF Starts
  <2>11. CASE FinishStarting(n, r)
    BY <1>1, <2>11 DEF FinishStarting
  <2>12. CASE Stops(n, r)
    BY <1>1, <2>12 DEF Stops
  <2>13. CASE FinishStopping(n, r)
    BY <1>1, <2>13 DEF FinishStopping
  <2> QED
    BY <1>1, <2>1, <2>2, <2>3, <2>4, <2>5, <2>6, <2>7, <2>8, <2>9, <2>10, <2>11,
       <2>12, <2>13
       DEF Work
<1>2. CASE Follow(n, r) /\ UNCHANGED rebindVars
  <2>1. CASE FindForPod(n, r)
    BY <1>2, <2>1 DEF FindForPod
  <2>2. CASE FinishMarking(n, r)
    BY <1>2, <2>2 DEF FinishMarking
  <2>3. CASE Prepares(n, r)
    BY <1>2, <2>3 DEF Prepares, FinishPreparing
  <2>4. CASE CallsBack(n, r)
    BY <1>2, <2>4 DEF CallsBack
  <2>5. CASE Forget(n, r)
    BY <1>2, <2>5 DEF Forget
  <2>6. CASE FinishCallback(n, r)
    BY <1>2, <2>6 DEF FinishCallback
  <2>7. CASE Resume(n, r)
    BY <1>2, <2>7 DEF Resume
  <2> QED
    BY <1>2, <2>1, <2>2, <2>3, <2>4, <2>5, <2>6, <2>7 DEF Follow
<1>3. CASE Rebinds(n, r)
  <2> USE DEF SetVolume, Next1, OnlyVolume
  <2>1. CASE OnDataDownloadCompleted(n, r)
    BY <2>1 DEF OnDataDownloadCompleted, BeginRebind
  <2>2. CASE FinishRebind(n, r)
    BY <2>2 DEF FinishRebind
  <2>3. CASE RebindFails(n, r)
    BY <2>3 DEF RebindFails
  <2>4. CASE RebindStep(r)
    <3>1. CASE DeleteRestorePod(r)
      BY <3>1 DEF DeleteRestorePod
    <3>2. CASE DeleteRestorePVC(r)
      BY <3>2 DEF DeleteRestorePVC
    <3>3. CASE DeleteRestorePV(r)
      BY <3>3 DEF DeleteRestorePV
    <3>4. CASE CreateRebindPV(r)
      BY <3>4 DEF CreateRebindPV
    <3>5. CASE NameTargetPVC(r)
      BY <3>5 DEF NameTargetPVC
    <3>6. CASE ResetPVBinding(r)
      BY <3>6 DEF ResetPVBinding
    <3> QED
      BY <2>4, <3>1, <3>2, <3>3, <3>4, <3>5, <3>6 DEF RebindStep
  <2> QED
    BY <1>3, <2>1, <2>2, <2>3, <2>4 DEF Rebinds
<1>4. CASE WatchDelivers(n, r)
  BY <1>4 DEF WatchDelivers, Deliver
<1> QED
  BY <1>1, <1>2, <1>3, <1>4 DEF Move

\* Users and pods, too, change only one request.
LEMMA ElsewhereSame ==
    ASSUME TypeOK, NEW r \in Requests, Elsewhere(r)
    PROVE  \A s \in Requests \ {r} : Same(s)
<1> USE DEF TypeOK, RequestsTypeOK, PodsTypeOK, Same, Write, PodsSeeWrite,
    CleanUp, ClearPod, PodUpdate, requestVars, agentVars, rebindVars
<1>1. CASE User(r)
  BY <1>1 DEF User, AskCancel, Delete
<1>2. CASE PodRuns(r)
  <2>1. ASSUME NEW n \in Nodes, Schedule(r, n)
        PROVE  \A s \in Requests \ {r} : Same(s)
    BY <1>2, <2>1 DEF PodRuns, Schedule
  <2>2. CASE MicroServiceInit(r) \/ RunCancelableDataPath(r)
    BY <1>2, <2>2 DEF PodRuns, MicroServiceInit, RunCancelableDataPath
  <2>3. CASE DataPathEnds(r)
    BY <1>2, <2>3 DEF PodRuns, DataPathEnds
  <2>4. CASE CollectPod(r)
    BY <1>2, <2>4 DEF PodRuns, CollectPod
  <2> QED
    BY <1>2, <2>1, <2>2, <2>3, <2>4 DEF PodRuns
<1>3. CASE PodMishap(r)
  BY <1>3 DEF PodMishap, TouchPod, PodFails
<1> QED
  BY <1>1, <1>2, <1>3 DEF Elsewhere

\* What the agents do with a request keeps its invariant.
LEMMA MoveKeeps ==
    ASSUME TypeOK, NEW n \in Nodes, NEW r \in Requests,
           RequestInv(r), Move(n, r)
    PROVE  RequestInv(r)'
<1> USE NoneIsNoNode DEF TypeOK, RequestsTypeOK, PodsTypeOK, AgentsTypeOK,
    RebindTypeOK, Object, Volumes, PodStates, WorkStates, EventStates,
    TrackerStates, RebindSteps, Phases, Final, Kinds, Running, Ended,
    RequestInv, ExposerInv, PodInv, FreshInv, Fresh, FreshPhases, TrackerInv,
    VolumeInv, MovedInv, RestoredInv, At, Transfer, DataDownload, UpToDate,
    Stored, InPhase, InPhaseOn, Cancelled, Finalizer, Of, Volume, Reconciles,
    Read, Active, IsFinal, Exists, Watches, GetExposed, Works, OnlyWork,
    OnlyEvent, OnlyTracker, WriteNow, RetriedWrite, UpdateWithRetry, Write,
    PodsSeeWrite, CleansUp, CleanUp, ClearPod, Put, requestVars, podVars,
    agentVars, rebindVars
<1>1. CASE Work(n, r) /\ UNCHANGED rebindVars
  <2>1. CASE ReconcileFinalizer(n, r)
    BY <1>1, <2>1 DEF ReconcileFinalizer, AddFinalizer, CancelDeleted,
       RemoveFinalizer
  <2>2. CASE Ends(n, r)
    BY <1>1, <2>2 DEF Ends, EndExclusively
  <2>3. CASE Accepts(n, r)
    <3>1. CASE Transfer(r) /\ AcceptExclusively(n, r)
      BY <1>1, <3>1 DEF AcceptExclusively
    <3>2. CASE ~Transfer(r) /\ home[r] = n /\ BeginAccept(n, r)
      BY <1>1, <3>2 DEF BeginAccept
    <3>3. ASSUME NEW m \in Nodes \cup {req[r].node}, ~Transfer(r),
                 FinishAccept(n, r, InPhaseOn(req[r], "Accepted", m))
          PROVE  RequestInv(r)'
      BY <1>1, <3>3 DEF FinishAccept
    <3> QED
      BY <2>3, <3>1, <3>2, <3>3 DEF Accepts
  <2>4. CASE Creates(n, r)
    BY <1>1, <2>4 DEF Creates, Exposes, CreatePod
  <2>5. CASE Errs(n, r)
    BY <1>1, <2>5 DEF Errs, ErrorOut
  <2>6. CASE FinishCleaning(n, r)
    BY <1>1, <2>6 DEF FinishCleaning
  <2>7. CASE UpdateStatusToFailed(n, r)
    BY <1>1, <2>7 DEF UpdateStatusToFailed
  <2>8. CASE Cancels(n, r)
    BY <1>1, <2>8 DEF Cancels, OnCancelled
  <2>9. CASE FinishCancelled(n, r)
    BY <1>1, <2>9 DEF FinishCancelled
  <2>10. CASE Starts(n, r)
    BY <1>1, <2>10 DEF Starts
  <2>11. CASE FinishStarting(n, r)
    <3>1. CASE UNCHANGED tracker
      BY <1>1, <2>11, <3>1 DEF FinishStarting
    <3>2. CASE tracker' = Put(tracker, n, r, "none")
      BY <1>1, <2>11, <3>2 DEF FinishStarting
    <3> QED
      BY <2>11, <3>1, <3>2 DEF FinishStarting
  <2>12. CASE Stops(n, r)
    BY <1>1, <2>12 DEF Stops
  <2>13. CASE FinishStopping(n, r)
    BY <1>1, <2>13 DEF FinishStopping
  <2> QED
    BY <1>1, <2>1, <2>2, <2>3, <2>4, <2>5, <2>6, <2>7, <2>8, <2>9, <2>10, <2>11,
       <2>12, <2>13
       DEF Work
<1>2. CASE Follow(n, r) /\ UNCHANGED rebindVars
  <2>1. CASE FindForPod(n, r)
    BY <1>2, <2>1 DEF FindForPod, Unrecoverable
  <2>2. CASE FinishMarking(n, r)
    BY <1>2, <2>2 DEF FinishMarking
  <2>3. CASE Prepares(n, r)
    BY <1>2, <2>3 DEF Prepares, FinishPreparing
  <2>4. CASE CallsBack(n, r)
    BY <1>2, <2>4 DEF CallsBack
  <2>5. CASE Forget(n, r)
    BY <1>2, <2>5 DEF Forget
  <2>6. CASE FinishCallback(n, r)
    BY <1>2, <2>6 DEF FinishCallback
  <2>7. CASE Resume(n, r)
    <3>1. CASE UNCHANGED tracker
      BY <1>2, <2>7, <3>1 DEF Resume
    <3>2. CASE /\ GetExposed(n, r)
               /\ tracker' = Put(tracker, n, r, "watching")
               /\ UNCHANGED <<requestVars, podVars>>
      BY <1>2, <2>7, <3>2 DEF Resume
    <3> QED
      BY <2>7, <3>1, <3>2 DEF Resume
  <2> QED
    BY <1>2, <2>1, <2>2, <2>3, <2>4, <2>5, <2>6, <2>7 DEF Follow
<1>3. CASE Rebinds(n, r)
  <2> USE DEF SetVolume, Next1, OnlyVolume, Rebinding, NotRebinding
  <2>1. CASE OnDataDownloadCompleted(n, r)
    BY <2>1 DEF OnDataDownloadCompleted, BeginRebind
  <2>2. CASE FinishRebind(n, r)
    BY <2>2 DEF FinishRebind
  <2>3. CASE RebindFails(n, r)
    BY <2>3 DEF RebindFails, Unbound
  <2>4. CASE tracker[n][r] = "rebinding" /\ RebindStep(r)
    <3>1. CASE DeleteRestorePod(r)
      BY <2>4, <3>1 DEF DeleteRestorePod
    <3>2. CASE DeleteRestorePVC(r)
      BY <2>4, <3>2 DEF DeleteRestorePVC
    <3>3. CASE DeleteRestorePV(r)
      BY <2>4, <3>3 DEF DeleteRestorePV
    <3>4. CASE CreateRebindPV(r)
      BY <2>4, <3>4 DEF CreateRebindPV
    <3>5. CASE NameTargetPVC(r)
      BY <2>4, <3>5 DEF NameTargetPVC
    <3>6. CASE ResetPVBinding(r)
      BY <2>4, <3>6 DEF ResetPVBinding
    <3> QED
      BY <2>4, <3>1, <3>2, <3>3, <3>4, <3>5, <3>6 DEF RebindStep
  <2> QED
    BY <1>3, <2>1, <2>2, <2>3, <2>4 DEF Rebinds
<1>4. CASE WatchDelivers(n, r)
  BY <1>4 DEF WatchDelivers, Deliver
<1> QED
  BY <1>1, <1>2, <1>3, <1>4 DEF Move

\* What users and pods do with a request keeps its invariant.
LEMMA ElsewhereKeeps ==
    ASSUME TypeOK, NEW r \in Requests,
           RequestInv(r), Elsewhere(r)
    PROVE  RequestInv(r)'
<1> USE NoneIsNoNode DEF TypeOK, RequestsTypeOK, PodsTypeOK, Object, Volumes,
    PodStates, WorkStates, EventStates, TrackerStates, RebindSteps, Phases,
    Final, Kinds, Running, Ended, RequestInv, ExposerInv, PodInv, FreshInv,
    Fresh, FreshPhases, TrackerInv, VolumeInv, MovedInv, RestoredInv, At,
    Transfer, DataDownload, UpToDate, Stored, InPhase, InPhaseOn, Cancelled,
    Finalizer, Of, Volume, Reconciles, Read, Active, IsFinal, Exists, Watches,
    GetExposed, AgentsTypeOK, RebindTypeOK, podVars, Write, PodsSeeWrite,
    CleanUp, ClearPod, PodUpdate, requestVars, agentVars, rebindVars
<1>1. CASE User(r)
  BY <1>1 DEF User, AskCancel, Delete
<1>2. CASE PodRuns(r)
  <2>1. ASSUME NEW n \in Nodes, Schedule(r, n)
        PROVE  RequestInv(r)'
    BY <1>2, <2>1 DEF PodRuns, Schedule
  <2>2. CASE MicroServiceInit(r) \/ RunCancelableDataPath(r)
    BY <1>2, <2>2 DEF PodRuns, MicroServiceInit, RunCancelableDataPath
  <2>3. CASE DataPathEnds(r)
    BY <1>2, <2>3 DEF PodRuns, DataPathEnds
  <2>4. CASE CollectPod(r)
    BY <1>2, <2>4 DEF PodRuns, CollectPod
  <2> QED
    BY <1>2, <2>1, <2>2, <2>3, <2>4 DEF PodRuns
<1>3. CASE PodMishap(r)
  BY <1>3 DEF PodMishap, TouchPod, PodFails
<1> QED
  BY <1>1, <1>2, <1>3 DEF Elsewhere

-----------------------------------------------------------------------------
(***************************************************************************)
(* Type correctness.                                                       *)
(***************************************************************************)

\* The objects that the writers make.
LEMMA Objects ==
    ASSUME NEW o \in Object
    PROVE  /\ \A phase \in Phases : InPhase(o, phase) \in Object
           /\ \A phase \in Phases, n \in Nodes \cup {o.node} :
                 InPhaseOn(o, phase, n) \in Object
           /\ Cancelled(o) \in Object
           /\ \A present \in BOOLEAN : Finalizer(o, present) \in Object
           /\ Of(o.phase, o.cancel, TRUE, o.finalizer, o.node) \in Object
           /\ Stored(o) \in Object
BY DEF InPhase, InPhaseOn, Cancelled, Finalizer, Of, Stored, Object

\* The requests that the agents write.
LEMMA MoveTypesRequests ==
    ASSUME TypeOK, NEW n \in Nodes, NEW r \in Requests, Move(n, r)
    PROVE  RequestsTypeOK'
<1>1. req[r] \in Object
  BY DEF TypeOK, RequestsTypeOK
<1>2. ASSUME NEW o \in Object, Write(r, o), UNCHANGED <<kind, home, cache>>
      PROVE  RequestsTypeOK'
  BY <1>2, Objects DEF TypeOK, RequestsTypeOK, Write
<1>3. ASSUME UNCHANGED <<kind, home, req, cache>>
      PROVE  RequestsTypeOK'
  BY <1>3 DEF TypeOK, RequestsTypeOK
<1>4. ASSUME NEW o \in Object, NEW declined, RetriedWrite(n, r, declined, o)
      PROVE  RequestsTypeOK'
  BY <1>2, <1>3, <1>4 DEF RetriedWrite, UpdateWithRetry
<1>5. ASSUME NEW o \in Object, WriteNow(n, r, o)
      PROVE  RequestsTypeOK'
  BY <1>2, <1>5 DEF WriteNow
<1>6. CASE Work(n, r) /\ UNCHANGED rebindVars
  <2>1. CASE ReconcileFinalizer(n, r)
    BY <1>1, <1>5, <2>1, Objects
       DEF ReconcileFinalizer, AddFinalizer, CancelDeleted, RemoveFinalizer
  <2>2. CASE Ends(n, r)
    BY <1>1, <1>5, <2>2, Objects DEF Ends, EndExclusively, Phases, Final
  <2>3. CASE Accepts(n, r)
    BY <1>1, <1>3, <1>4, <1>5, <2>3, Objects
       DEF Accepts, AcceptExclusively, BeginAccept, FinishAccept, Phases,
           requestVars
  <2>4. CASE Creates(n, r) \/ Errs(n, r) \/ FinishCleaning(n, r)
             \/ Cancels(n, r) \/ Starts(n, r) \/ Stops(n, r)
    BY <1>3, <2>4
       DEF Creates, Errs, ErrorOut, FinishCleaning, Cancels, OnCancelled,
           Starts, Stops, CleansUp, requestVars
  <2>5. CASE UpdateStatusToFailed(n, r)
    BY <1>1, <1>4, <2>5, Objects DEF UpdateStatusToFailed, Phases, Final
  <2>6. CASE FinishCancelled(n, r)
    BY <1>1, <1>4, <2>6, Objects DEF FinishCancelled, Phases, Final
  <2>7. CASE FinishStarting(n, r)
    BY <1>1, <1>3, <1>4, <2>7, Objects
       DEF FinishStarting, Phases, requestVars
  <2>8. CASE FinishStopping(n, r)
    BY <1>1, <1>4, <2>8, Objects DEF FinishStopping, Phases
  <2> QED
    BY <1>6, <2>1, <2>2, <2>3, <2>4, <2>5, <2>6, <2>7, <2>8 DEF Work
<1>7. CASE Follow(n, r) /\ UNCHANGED rebindVars
  <2>1. CASE FindForPod(n, r) \/ CallsBack(n, r) \/ Forget(n, r)
    BY <1>3, <2>1 DEF FindForPod, CallsBack, Forget, CleansUp, requestVars
  <2>2. CASE FinishMarking(n, r)
    BY <1>1, <1>4, <2>2, Objects DEF FinishMarking
  <2>3. CASE Prepares(n, r)
    BY <1>1, <1>4, <2>3, Objects DEF Prepares, FinishPreparing, Phases
  <2>4. CASE FinishCallback(n, r)
    BY <1>1, <1>3, <1>4, <2>4, Objects
       DEF FinishCallback, Phases, requestVars
  <2>5. CASE Resume(n, r)
    BY <1>1, <1>3, <1>4, <2>5, Objects DEF Resume, requestVars
  <2> QED
    BY <1>7, <2>1, <2>2, <2>3, <2>4, <2>5 DEF Follow
<1>8. CASE Rebinds(n, r)
  BY <1>3, <1>8
     DEF Rebinds, OnDataDownloadCompleted, BeginRebind, FinishRebind,
         RebindFails, RebindStep, DeleteRestorePod, DeleteRestorePVC,
         DeleteRestorePV, CreateRebindPV, NameTargetPVC, ResetPVBinding,
         OnlyVolume, requestVars
<1>9. CASE WatchDelivers(n, r)
  BY <1>1, <1>9 DEF TypeOK, RequestsTypeOK, WatchDelivers, Deliver
<1> QED
  BY <1>6, <1>7, <1>8, <1>9 DEF Move

\* A clean-up keeps the types.
LEMMA CleanUpTypes ==
    ASSUME TypeOK, NEW r \in Requests, CleanUp(r) PROVE PodsTypeOK'
BY DEF TypeOK, PodsTypeOK, CleanUp, ClearPod, Volume, Volumes, PodStates

\* The pods and volumes that the agents make and delete.
LEMMA MoveTypesPods ==
    ASSUME TypeOK, NEW n \in Nodes, NEW r \in Requests, Move(n, r)
    PROVE  PodsTypeOK'
<1>1. ASSUME PodsSeeWrite
      PROVE  PodsTypeOK'
  BY <1>1 DEF TypeOK, PodsTypeOK, PodsSeeWrite
<1>2. ASSUME UNCHANGED podVars
      PROVE  PodsTypeOK'
  BY <1>2 DEF TypeOK, PodsTypeOK, podVars
<1>3. CASE Work(n, r)
  <2>1. CASE Creates(n, r)
    BY <2>1 DEF TypeOK, PodsTypeOK, Creates, CreatePod, ClearPod, Volume,
       Volumes, PodStates
  <2>2. CASE ~Creates(n, r)
    BY <1>1, <1>2, <1>3, <2>2, CleanUpTypes
       DEF Work, ReconcileFinalizer, AddFinalizer, CancelDeleted,
           RemoveFinalizer, Ends, EndExclusively, Accepts, AcceptExclusively,
           BeginAccept, FinishAccept, Errs, ErrorOut, FinishCleaning,
           UpdateStatusToFailed, Cancels, OnCancelled, FinishCancelled, Starts,
           FinishStarting, Stops, FinishStopping, WriteNow, RetriedWrite,
           CleansUp
  <2> QED
    BY <2>1, <2>2
<1>4. CASE Follow(n, r)
  <2>1. CASE FindForPod(n, r)
    BY <2>1 DEF TypeOK, PodsTypeOK, FindForPod
  <2>2. CASE ~FindForPod(n, r)
    BY <1>1, <1>2, <1>4, <2>2, CleanUpTypes
       DEF Follow, FinishMarking, Prepares, FinishPreparing, CallsBack, Forget,
           FinishCallback, Resume, RetriedWrite, CleansUp
  <2> QED
    BY <2>1, <2>2
<1>5. CASE Rebinds(n, r)
  <2>1. \A v \in Volumes : SetVolume(r, v) => volume' \in [Requests -> Volumes]
    BY DEF TypeOK, PodsTypeOK, SetVolume
  <2>2. /\ volume[r] \in Volumes
        /\ \A pv \in {"none", "restore", "released", "target"},
              retain \in BOOLEAN, named \in BOOLEAN, disk \in BOOLEAN :
                 Volume(pv, retain, named, disk) \in Volumes
        /\ rebind[r].org \in BOOLEAN
    BY DEF TypeOK, PodsTypeOK, RebindTypeOK, Volume, Volumes
  <2>3. /\ volume[r].pv \in {"none", "restore", "released", "target"}
        /\ volume[r].retain \in BOOLEAN
        /\ volume[r].named \in BOOLEAN
        /\ volume[r].disk \in BOOLEAN
    BY <2>2 DEF Volumes
  <2>4. volume' \in [Requests -> Volumes]
    <3>1. CASE OnDataDownloadCompleted(n, r) \/ FinishRebind(n, r)
      BY <2>1, <2>2, <2>3, <3>1
         DEF OnDataDownloadCompleted, BeginRebind, FinishRebind
    <3>2. CASE RebindFails(n, r)
      BY <2>1, <2>2, <2>3, <3>2 DEF RebindFails
    <3>3. CASE DeleteRestorePod(r)
      BY <3>3 DEF DeleteRestorePod, TypeOK, PodsTypeOK
    <3>4. CASE DeleteRestorePVC(r)
      BY <2>1, <2>2, <2>3, <3>4 DEF DeleteRestorePVC
    <3>5. CASE DeleteRestorePV(r) \/ CreateRebindPV(r) \/ NameTargetPVC(r)
               \/ ResetPVBinding(r)
      BY <2>1, <2>2, <2>3, <3>5
         DEF DeleteRestorePV, CreateRebindPV, NameTargetPVC, ResetPVBinding
    <3> QED
      BY <1>5, <3>1, <3>2, <3>3, <3>4, <3>5 DEF Rebinds, RebindStep
  <2> QED
    BY <1>5, <2>4
       DEF TypeOK, PodsTypeOK, PodStates, Rebinds, OnDataDownloadCompleted,
           BeginRebind, FinishRebind, RebindFails, RebindStep,
           DeleteRestorePod, DeleteRestorePVC, DeleteRestorePV, CreateRebindPV,
           NameTargetPVC, ResetPVBinding, OnlyVolume, ClearPod
<1>6. CASE WatchDelivers(n, r)
  BY <1>2, <1>6 DEF WatchDelivers
<1> QED
  BY <1>3, <1>4, <1>5, <1>6 DEF Move

\* What the agents are doing.
LEMMA MoveTypesAgents ==
    ASSUME TypeOK, NEW n \in Nodes, NEW r \in Requests, Move(n, r)
    PROVE  AgentsTypeOK' /\ RebindTypeOK'
<1> USE DEF TypeOK, AgentsTypeOK
<1>1. \A w \in WorkStates :
         Works(n, r, w) => work' \in [Nodes -> [Requests -> WorkStates]]
  BY DEF Works, Put
<1>2. \A t \in TrackerStates :
         tracker' = Put(tracker, n, r, t)
            => tracker' \in [Nodes -> [Requests -> TrackerStates]]
  BY DEF Put
<1>3. \A e \in EventStates :
         event' = Put(event, n, r, e)
            => event' \in [Nodes -> [Requests -> EventStates]]
  BY DEF Put
<1>4. CASE Work(n, r) /\ UNCHANGED rebindVars
  <2>1. RebindTypeOK'
    BY <1>4 DEF RebindTypeOK, rebindVars
  <2>2. work' \in [Nodes -> [Requests -> WorkStates]]
    BY <1>1, <1>4
       DEF Work, ReconcileFinalizer, AddFinalizer, CancelDeleted,
           RemoveFinalizer, Ends, EndExclusively, Accepts, AcceptExclusively,
           BeginAccept, FinishAccept, Creates, Errs, ErrorOut, FinishCleaning,
           UpdateStatusToFailed, Cancels, OnCancelled, FinishCancelled, Starts,
           FinishStarting, Stops, FinishStopping, WorkStates, agentVars
  <2>3. tracker' \in [Nodes -> [Requests -> TrackerStates]]
    BY <1>2, <1>4
       DEF Work, ReconcileFinalizer, AddFinalizer, CancelDeleted,
           RemoveFinalizer, Ends, EndExclusively, Accepts, AcceptExclusively,
           BeginAccept, FinishAccept, Creates, Errs, ErrorOut, FinishCleaning,
           UpdateStatusToFailed, Cancels, OnCancelled, FinishCancelled, Starts,
           FinishStarting, Stops, FinishStopping, OnlyWork, TrackerStates,
           agentVars
  <2>4. /\ UNCHANGED <<event, resume, restarts>>
        /\ UNCHANGED faults \/ (faults < MaxFaults /\ faults' = faults + 1)
    BY <1>4
       DEF Work, ReconcileFinalizer, AddFinalizer, CancelDeleted,
           RemoveFinalizer, Ends, EndExclusively, Accepts, AcceptExclusively,
           BeginAccept, FinishAccept, Creates, Errs, ErrorOut, FinishCleaning,
           UpdateStatusToFailed, Cancels, OnCancelled, FinishCancelled, Starts,
           FinishStarting, Stops, FinishStopping, OnlyWork, agentVars
  <2> QED
    BY <2>1, <2>2, <2>3, <2>4, AgentAssumption
<1>5. CASE Follow(n, r) /\ UNCHANGED rebindVars
  <2>1. RebindTypeOK'
    BY <1>5 DEF RebindTypeOK, rebindVars
  <2>2. UNCHANGED <<work, restarts>> /\ faults' \in 0 .. MaxFaults
    BY <1>5, AgentAssumption
       DEF Follow, FindForPod, FinishMarking, Prepares, FinishPreparing,
           CallsBack, Forget, FinishCallback, Resume, OnlyEvent, OnlyTracker
  <2>3. event' \in [Nodes -> [Requests -> EventStates]]
    BY <1>3, <1>5
       DEF Follow, FindForPod, FinishMarking, Prepares, FinishPreparing,
           CallsBack, Forget, FinishCallback, Resume, OnlyTracker, EventStates
  <2>4. tracker' \in [Nodes -> [Requests -> TrackerStates]]
    BY <1>2, <1>5
       DEF Follow, FindForPod, FinishMarking, Prepares, FinishPreparing,
           CallsBack, Forget, FinishCallback, Resume, OnlyEvent, TrackerStates,
           Final
  <2>5. resume' \in [Nodes -> SUBSET Requests]
    BY <1>5
       DEF Follow, FindForPod, FinishMarking, Prepares, FinishPreparing,
           CallsBack, Forget, FinishCallback, Resume, OnlyEvent, OnlyTracker
  <2> QED
    BY <2>1, <2>2, <2>3, <2>4, <2>5
<1>6. CASE Rebinds(n, r)
  <2>1. UNCHANGED <<work, event, resume, restarts, faults, changesMode>>
    BY <1>6
       DEF Rebinds, OnDataDownloadCompleted, BeginRebind, FinishRebind,
           RebindFails, RebindStep, DeleteRestorePod, DeleteRestorePVC,
           DeleteRestorePV, CreateRebindPV, NameTargetPVC, ResetPVBinding,
           OnlyVolume, OnlyTracker, agentVars
  <2>2. tracker' \in [Nodes -> [Requests -> TrackerStates]]
    BY <1>2, <1>6
       DEF Rebinds, OnDataDownloadCompleted, BeginRebind, FinishRebind,
           RebindFails, RebindStep, DeleteRestorePod, DeleteRestorePVC,
           DeleteRestorePV, CreateRebindPV, NameTargetPVC, ResetPVBinding,
           OnlyVolume, agentVars, TrackerStates, Final
  <2> DEFINE State == [step : RebindSteps, retained : BOOLEAN, org : BOOLEAN]
  <2>3. rebind' \in [Requests -> State]
    <3>1. \A s \in State :
             rebind' = [rebind EXCEPT ![r] = s] => rebind' \in [Requests -> State]
      BY DEF RebindTypeOK
    <3>2. \A step \in RebindSteps, a \in BOOLEAN, b \in BOOLEAN :
             Rebinding(step, a, b) \in State
      BY DEF Rebinding
    <3>3. rebind[r] \in State /\ volume[r].retain \in BOOLEAN
      BY DEF RebindTypeOK, PodsTypeOK, Volumes
    <3>4. rebind[r].retained \in BOOLEAN /\ rebind[r].org \in BOOLEAN
      BY <3>3
    <3> HIDE DEF State
    <3>5. CASE OnDataDownloadCompleted(n, r)
      BY <3>1, <3>2, <3>3, <3>5 DEF OnDataDownloadCompleted, BeginRebind,
         RebindSteps
    <3>6. CASE FinishRebind(n, r) \/ RebindFails(n, r)
      BY <3>1, <3>2, <3>6 DEF FinishRebind, RebindFails, NotRebinding,
         RebindSteps
    <3>7. CASE RebindStep(r)
      BY <3>1, <3>2, <3>4, <3>7
         DEF RebindStep, DeleteRestorePod, DeleteRestorePVC, DeleteRestorePV,
             CreateRebindPV, NameTargetPVC, ResetPVBinding, Next1, RebindSteps
    <3> QED
      BY <1>6, <3>5, <3>6, <3>7 DEF Rebinds
  <2> QED
    BY <2>1, <2>2, <2>3 DEF RebindTypeOK
<1>7. CASE WatchDelivers(n, r)
  BY <1>7 DEF WatchDelivers, RebindTypeOK, rebindVars, agentVars
<1> QED
  BY <1>4, <1>5, <1>6, <1>7 DEF Move

\* What users and pods do to the types.
LEMMA ElsewhereTypes ==
    ASSUME TypeOK, NEW r \in Requests, Elsewhere(r) PROVE TypeOK'
<1>1. AgentsTypeOK' /\ RebindTypeOK'
  BY DEF TypeOK, AgentsTypeOK, RebindTypeOK, Elsewhere, User, PodRuns,
     PodMishap, agentVars, rebindVars
<1>2. req[r] \in Object
  BY DEF TypeOK, RequestsTypeOK
<1>3. RequestsTypeOK'
  <2>1. CASE User(r)
    BY <1>2, <2>1, Objects DEF TypeOK, RequestsTypeOK, User, AskCancel, Delete,
       Write
  <2>2. CASE PodRuns(r) \/ PodMishap(r)
    BY <2>2 DEF TypeOK, RequestsTypeOK, PodRuns, PodMishap, Schedule,
       MicroServiceInit, RunCancelableDataPath, DataPathEnds, CollectPod,
       TouchPod, PodFails, requestVars
  <2> QED
    BY <2>1, <2>2 DEF Elsewhere
<1>4. PodsTypeOK'
  <2>1. CASE CollectPod(r)
    BY <2>1, CleanUpTypes DEF CollectPod
  <2>2. CASE User(r)
    BY <2>2 DEF TypeOK, PodsTypeOK, User, PodsSeeWrite
  <2>3. ASSUME NEW n \in Nodes, Schedule(r, n)
        PROVE  PodsTypeOK'
    BY <2>3 DEF TypeOK, PodsTypeOK, PodStates, Running, Schedule, PodUpdate
  <2>4. CASE \/ MicroServiceInit(r)
             \/ RunCancelableDataPath(r)
             \/ DataPathEnds(r)
             \/ PodMishap(r)
    BY <2>4 DEF TypeOK, PodsTypeOK, PodStates, Running, Ended,
       MicroServiceInit, RunCancelableDataPath, DataPathEnds, PodMishap,
       TouchPod, PodFails, PodUpdate
  <2> QED
    BY <2>1, <2>2, <2>3, <2>4 DEF Elsewhere, PodRuns
<1> QED
  BY <1>1, <1>3, <1>4 DEF TypeOK

\* A restart keeps the types.
LEMMA RestartTypes ==
    ASSUME TypeOK, NEW n \in Nodes, AgentRestart(n) PROVE TypeOK'
<1> USE DEF TypeOK, AgentRestart, Restart
<1>1. RequestsTypeOK'
  BY DEF RequestsTypeOK
<1>2. PodsTypeOK'
  BY DEF PodsTypeOK
<1>3. AgentsTypeOK'
  <2>1. OwnedBy(n) \subseteq Requests
    BY DEF OwnedBy, DataUploadsOf, DataDownloadsOf, PodVolumeBackupsOf,
       PodVolumeRestoresOf
  <2> QED
    BY <2>1, AgentAssumption DEF AgentsTypeOK, WorkStates, EventStates,
       TrackerStates
<1>4. RebindTypeOK'
  BY DEF RebindTypeOK, NotRebinding, Rebinding, RebindSteps
<1> QED
  BY <1>1, <1>2, <1>3, <1>4

-----------------------------------------------------------------------------
(***************************************************************************)
(* The invariant.                                                          *)
(***************************************************************************)

\* A restart keeps the invariant of every request.
LEMMA RestartKeeps ==
    ASSUME TypeOK, NEW n \in Nodes, AgentRestart(n),
           NEW r \in Requests, RequestInv(r)
    PROVE  RequestInv(r)'
BY NoneIsNoNode
   DEF TypeOK, RequestsTypeOK, PodsTypeOK, AgentsTypeOK, RebindTypeOK,
       AgentRestart, Restart, RequestInv, ExposerInv, PodInv, FreshInv, Fresh,
       FreshPhases, TrackerInv, VolumeInv, MovedInv, RestoredInv, At, Transfer,
       DataDownload, NotRebinding, Rebinding

\* The invariant holds at the start.
LEMMA InitMovement == Init => MovementInv
<1> SUFFICES ASSUME Init PROVE MovementInv
  OBVIOUS
<1>1. RequestsTypeOK
  BY MovementAssumption
     DEF Init, RequestsInit, RequestsTypeOK, Created, Of, Object, Phases
<1>2. PodsTypeOK
  BY DEF Init, PodsInit, PodsTypeOK, PodStates, Volume, Volumes
<1>3. AgentsTypeOK
  BY AgentAssumption
     DEF Init, AgentsInit, AgentsTypeOK, WorkStates, EventStates, TrackerStates
<1>4. RebindTypeOK
  BY DEF Init, RebindInit, RebindTypeOK, NotRebinding, Rebinding, RebindSteps
<1>5. ASSUME NEW r \in Requests
      PROVE  RequestInv(r)
  BY DEF Init, RequestsInit, PodsInit, AgentsInit, RebindInit, Created, Of,
     Volume, NotRebinding, Rebinding, RequestInv, ExposerInv, PodInv, FreshInv,
     Fresh, FreshPhases, TrackerInv, VolumeInv, MovedInv, RestoredInv, At
<1> QED
  BY <1>1, <1>2, <1>3, <1>4, <1>5 DEF TypeOK, MovementInv

\* Every step keeps the invariant.
LEMMA NextMovement == MovementInv /\ [Next]_vars => MovementInv'
<1> SUFFICES ASSUME MovementInv, [Next]_vars PROVE MovementInv'
  OBVIOUS
<1> USE DEF MovementInv
<1>1. CASE UNCHANGED vars
  BY <1>1 DEF vars, requestVars, podVars, agentVars, rebindVars, TypeOK,
     RequestsTypeOK, PodsTypeOK, AgentsTypeOK, RebindTypeOK, RequestInv,
     ExposerInv, PodInv, FreshInv, Fresh, TrackerInv, VolumeInv, MovedInv,
     RestoredInv, At, Transfer, DataDownload
<1>2. ASSUME NEW n \in Nodes, NEW r \in Requests, Move(n, r)
      PROVE  MovementInv'
  <2>1. TypeOK'
    BY <1>2, MoveTypesRequests, MoveTypesPods, MoveTypesAgents DEF TypeOK
  <2>2. RequestInv(r)'
    BY <1>2, MoveKeeps
  <2>3. ASSUME NEW s \in Requests \ {r}
        PROVE  RequestInv(s)'
    BY <1>2, MoveSame, SameKeeps
  <2> QED
    BY <2>1, <2>2, <2>3
<1>3. ASSUME NEW r \in Requests, Elsewhere(r)
      PROVE  MovementInv'
  <2>1. RequestInv(r)'
    BY <1>3, ElsewhereKeeps
  <2>2. ASSUME NEW s \in Requests \ {r}
        PROVE  RequestInv(s)'
    BY <1>3, ElsewhereSame, SameKeeps
  <2> QED
    BY <1>3, <2>1, <2>2, ElsewhereTypes
<1>4. ASSUME NEW n \in Nodes, AgentRestart(n)
      PROVE  MovementInv'
  BY <1>4, RestartTypes, RestartKeeps
<1> QED
  BY <1>1, <1>2, <1>3, <1>4, StepIsMove

\* The invariant of the requests and the node agents.
THEOREM MovementInductive == Spec => []MovementInv
BY InitMovement, NextMovement, PTL DEF Spec

\* What is completed has been moved, and its volume belongs to the target.
THEOREM CompletedMoved == Spec => []CompletedIsMoved
<1>1. MovementInv => CompletedIsMoved
  BY DEF MovementInv, RequestInv, MovedInv, RestoredInv, VolumeInv,
     CompletedIsMoved
<1> QED
  BY <1>1, MovementInductive, PTL

\* One node agent at a time exposes a request.
THEOREM ExposedOnce == Spec => []OneExposer
<1>1. ASSUME MovementInv, NEW r \in Requests
      PROVE  Cardinality({n \in Nodes :
                             work[n][r] \in {"accepting", "exposing"}}) <= 1
  <2> DEFINE E == {n \in Nodes : work[n][r] \in {"accepting", "exposing"}}
  <2>1. \A n \in E : E = {n}
    BY <1>1 DEF MovementInv, RequestInv, ExposerInv
  <2>2. E = {} \/ \E n \in E : E = {n}
    BY <2>1
  <2> HIDE DEF E
  <2>3. Cardinality(E) \in {0, 1}
    <3>1. CASE E = {}
      BY <3>1, FS_EmptySet
    <3>2. ASSUME NEW n \in E, E = {n}
          PROVE  Cardinality(E) = 1
      BY <3>2, FS_Singleton
    <3> QED
      BY <2>2, <3>1, <3>2
  <2> QED
    BY <2>3 DEF E
<1>2. MovementInv => OneExposer
  BY <1>1 DEF OneExposer
<1> QED
  BY <1>2, MovementInductive, PTL

\* A request that is final is not written over, except when its node has begun
\* to accept it.
LEMMA MoveStays ==
    ASSUME TypeOK, NEW n \in Nodes, NEW r \in Requests, Move(n, r),
           IsFinal(req[r])
    PROVE  \/ req'[r].phase \in {req[r].phase, "Gone"}
           \/ work[n][r] = "accepting"
<1> DEFINE Stays == req'[r].phase \in {req[r].phase, "Gone"}
<1> USE DEF TypeOK, RequestsTypeOK
<1>1. ASSUME NEW o, Write(r, o), o.phase = req[r].phase
      PROVE  Stays
  BY <1>1 DEF Write, Stored, InPhase, Of
<1>2. ASSUME UNCHANGED req
      PROVE  Stays
  BY <1>2
<1>3. ASSUME NEW o, RetriedWrite(n, r, IsFinal(cache[n][r]), o)
      PROVE  Stays
  BY <1>2, <1>3 DEF RetriedWrite, UpdateWithRetry, UpToDate
<1>4. ASSUME NEW declined, RetriedWrite(n, r, declined, Cancelled(req[r]))
      PROVE  Stays
  BY <1>1, <1>2, <1>4 DEF RetriedWrite, UpdateWithRetry, Cancelled, Of
<1>5. ~UpToDate(n, r) \/ ~Reconciles(n, r)
  BY DEF UpToDate, Reconciles, Active
<1> HIDE DEF Stays
<1>6. CASE Work(n, r)
  <2>1. CASE ReconcileFinalizer(n, r)
    <3>1. /\ \A present \in BOOLEAN :
                 Finalizer(req[r], present).phase = req[r].phase
          /\ Cancelled(req[r]).phase = req[r].phase
      BY DEF Finalizer, Cancelled, Of
    <3>2. \/ \E present \in BOOLEAN : Write(r, Finalizer(req[r], present))
          \/ Write(r, Cancelled(req[r]))
      BY <2>1
         DEF ReconcileFinalizer, AddFinalizer, CancelDeleted, RemoveFinalizer,
             WriteNow
    <3> QED
      BY <1>1, <3>1, <3>2 DEF Stays
  <2>2. CASE Ends(n, r)
    BY <1>5, <2>2 DEF Ends, EndExclusively, WriteNow
  <2>3. CASE Accepts(n, r)
    BY <1>2, <1>5, <2>3
       DEF Accepts, AcceptExclusively, BeginAccept, FinishAccept, Read,
           WriteNow, requestVars
  <2>4. CASE Creates(n, r) \/ Errs(n, r) \/ FinishCleaning(n, r)
             \/ Cancels(n, r) \/ Starts(n, r) \/ Stops(n, r)
    BY <1>2, <2>4
       DEF Creates, Errs, ErrorOut, FinishCleaning, Cancels, OnCancelled,
           Starts, Stops, CleansUp, requestVars
  <2>5. CASE UpdateStatusToFailed(n, r) \/ FinishCancelled(n, r)
    BY <1>3, <2>5 DEF UpdateStatusToFailed, FinishCancelled, Stays
  <2>6. CASE FinishStarting(n, r)
    BY <1>2, <1>3, <2>6 DEF FinishStarting, requestVars, Stays
  <2>7. CASE FinishStopping(n, r)
    BY <1>3, <2>7 DEF FinishStopping, Stays
  <2> QED
    BY <1>6, <2>1, <2>2, <2>3, <2>4, <2>5, <2>6, <2>7 DEF Work, Stays
<1>7. CASE Follow(n, r)
  BY <1>2, <1>3, <1>4, <1>7
     DEF Follow, FindForPod, FinishMarking, Prepares, FinishPreparing,
         CallsBack, Forget, FinishCallback, Resume, CleansUp, requestVars,
         Stays
<1>8. CASE Rebinds(n, r)
  BY <1>2, <1>8
     DEF Rebinds, OnDataDownloadCompleted, BeginRebind, FinishRebind,
         RebindFails, RebindStep, DeleteRestorePod, DeleteRestorePVC,
         DeleteRestorePV, CreateRebindPV, NameTargetPVC, ResetPVBinding,
         OnlyVolume, requestVars, Stays
<1>9. CASE WatchDelivers(n, r)
  BY <1>2, <1>9 DEF WatchDelivers, Deliver, Stays
<1> QED
  BY <1>6, <1>7, <1>8, <1>9 DEF Move

\* Users and pods leave a phase as it is.
LEMMA ElsewhereStays ==
    ASSUME TypeOK, NEW r \in Requests, Elsewhere(r)
    PROVE  req'[r].phase \in {req[r].phase, "Gone"}
<1> USE DEF TypeOK, RequestsTypeOK
<1>1. CASE User(r)
  BY <1>1 DEF User, AskCancel, Delete, Write, Stored, InPhase, Cancelled, Of
<1>2. CASE PodRuns(r) \/ PodMishap(r)
  BY <1>2 DEF PodRuns, PodMishap, Schedule, MicroServiceInit,
     RunCancelableDataPath, DataPathEnds, CollectPod, TouchPod, PodFails,
     requestVars
<1> QED
  BY <1>1, <1>2 DEF Elsewhere

\* A final phase is the last one of a data transfer, and of a pod volume request
\* that is not being accepted while it is cancelled.
THEOREM FinalPhaseStays == Spec => FinalStays
<1>1. ASSUME TypeOK, [Next]_vars, NEW r \in Requests, IsFinal(req[r])
      PROVE  \/ req'[r].phase \in {req[r].phase, "Gone"}
             \/ \E n \in Nodes : work[n][r] = "accepting"
  <2>1. CASE UNCHANGED vars
    BY <2>1 DEF vars, requestVars
  <2>2. ASSUME NEW n \in Nodes, NEW s \in Requests, Move(n, s)
        PROVE  \/ req'[r].phase \in {req[r].phase, "Gone"}
               \/ \E m \in Nodes : work[m][r] = "accepting"
    BY <1>1, <2>2, MoveStays, MoveSame DEF Same
  <2>3. ASSUME NEW s \in Requests, Elsewhere(s)
        PROVE  req'[r].phase \in {req[r].phase, "Gone"}
    BY <1>1, <2>3, ElsewhereStays, ElsewhereSame DEF Same
  <2>4. ASSUME NEW n \in Nodes, AgentRestart(n)
        PROVE  req'[r].phase \in {req[r].phase, "Gone"}
    BY <2>4 DEF AgentRestart, Restart
  <2> QED
    BY <1>1, <2>1, <2>2, <2>3, <2>4, StepIsMove
<1>2. MovementInv => TypeOK
  BY DEF MovementInv
<1>3. MovementInv /\ [Next]_vars =>
         [\A r \in Requests : IsFinal(req[r]) =>
             \/ req'[r].phase \in {req[r].phase, "Gone"}
             \/ \E n \in Nodes : work[n][r] = "accepting"]_vars
  BY <1>1, <1>2
<1> QED
  BY <1>3, MovementInductive, PTL DEF Spec, FinalStays

-----------------------------------------------------------------------------
(***************************************************************************)
(* Nothing left.  While no node agent has restarted and the agents are     *)
(* timely, a hosting pod is made only for a request that is accepted, and  *)
(* whoever makes a request final either has deleted the pod before, or is  *)
(* about to.                                                               *)
(***************************************************************************)
Undisturbed == Timely /\ restarts = 0

Leftover(r) == pod[r] # "none" \/ volume[r].pv = "restore"

\* Once a request is accepted, or ended, it is not new again.
NewInv(r) == req[r].phase = "New" => \A n \in Nodes : cache[n][r].phase = "New"

\* The node of a pod volume request has not exposed it yet.
AtHome(r) ==
    /\ ~Transfer(r)
    /\ \/ cache[home[r]][r].phase = "New"
       \/ work[home[r]][r] \in {"accepting", "exposing"}

HomeInv(r) == AtHome(r) => Fresh(r)

\* Nobody ends a request while a node exposes it.
AcceptedInv(r) ==
    \A n \in Nodes : work[n][r] = "exposing" => req[r].phase \in {"Accepted", "Gone"}

\* Only the node that was to expose a request may have failed to.
FailingInv(r) ==
    /\ Transfer(r) /\ (req[r].phase = "New" \/ \E n \in Nodes : work[n][r] = "exposing")
          => \A m \in Nodes : work[m][r] # "failing"
    /\ AtHome(r) => \A m \in Nodes \ {home[r]} : work[m][r] # "failing"

\* Who writes an outcome has cleaned up before.
CleanedInv(r) ==
    \A n \in Nodes :
        work[n][r] \in {"failing", "canceling"} \/ tracker[n][r] \in Final
            => ~Leftover(r)

\* What is left of a request that is final, a worker is about to delete.
CleaningInv(r) ==
    IsFinal(req[r]) /\ Leftover(r) => \E m \in Nodes : work[m][r] = "cleaning"

Tidy(r) ==
    /\ NewInv(r)
    /\ HomeInv(r)
    /\ AcceptedInv(r)
    /\ FailingInv(r)
    /\ CleanedInv(r)
    /\ CleaningInv(r)

TidyInv(r) == Undisturbed => Tidy(r)

\* The agents keep what is left of a request accounted for.
LEMMA MoveTidy ==
    ASSUME TypeOK, NEW n \in Nodes, NEW r \in Requests,
           RequestInv(r), TidyInv(r), Undisturbed, Move(n, r)
    PROVE  Tidy(r)'
<1>0. /\ Tidy(r) /\ Timely
      /\ ExposerInv(r) /\ FreshInv(r)
  BY DEF TidyInv, Undisturbed, RequestInv
<1> USE NoneIsNoNode DEF TypeOK, RequestsTypeOK, PodsTypeOK, AgentsTypeOK,
    RebindTypeOK, Object, Volumes, PodStates, WorkStates, EventStates,
    TrackerStates, RebindSteps, Phases, Final, Kinds, Running, Ended,
    ExposerInv, FreshInv, Fresh, FreshPhases,
    At, Transfer, DataDownload, UpToDate,
    Stored, InPhase, InPhaseOn, Cancelled, Finalizer, Of, Volume, Reconciles,
    Read, Active, IsFinal, Exists, Watches, GetExposed, Works, OnlyWork,
    OnlyEvent, OnlyTracker, WriteNow, RetriedWrite, UpdateWithRetry, Write,
    PodsSeeWrite, CleansUp, CleanUp, ClearPod, Put, requestVars, podVars,
    agentVars, rebindVars, Leftover, NewInv, AtHome, HomeInv, AcceptedInv,
    FailingInv, CleanedInv, CleaningInv, Tidy
<1>1. CASE Work(n, r) /\ UNCHANGED rebindVars
  <2>1. CASE ReconcileFinalizer(n, r)
    BY <1>0, <1>1, <2>1 DEF ReconcileFinalizer, AddFinalizer, CancelDeleted,
       RemoveFinalizer
  <2>2. CASE Ends(n, r)
    BY <1>0, <1>1, <2>2 DEF Ends, EndExclusively, DelayExpires, BeingExposed,
       PeekFails, Unrecoverable
  <2>3. CASE Accepts(n, r)
    <3>1. CASE Transfer(r) /\ AcceptExclusively(n, r)
      BY <1>0, <1>1, <3>1 DEF AcceptExclusively
    <3>2. CASE ~Transfer(r) /\ home[r] = n /\ BeginAccept(n, r)
      BY <1>0, <1>1, <3>2 DEF BeginAccept
    <3>3. ASSUME NEW m \in Nodes \cup {req[r].node}, ~Transfer(r),
                 FinishAccept(n, r, InPhaseOn(req[r], "Accepted", m))
          PROVE  Tidy(r)'
      BY <1>0, <1>1, <3>3 DEF FinishAccept
    <3> QED
      BY <2>3, <3>1, <3>2, <3>3 DEF Accepts
  <2>4. CASE Creates(n, r)
    BY <1>0, <1>1, <2>4 DEF Creates, Exposes, CreatePod
  <2>5. CASE Errs(n, r)
    BY <1>0, <1>1, <2>5 DEF Errs, Exposes, ErrorOut
  <2>6. CASE FinishCleaning(n, r)
    BY <1>0, <1>1, <2>6 DEF FinishCleaning
  <2>7. CASE UpdateStatusToFailed(n, r)
    BY <1>0, <1>1, <2>7 DEF UpdateStatusToFailed
  <2>8. CASE Cancels(n, r)
    BY <1>0, <1>1, <2>8 DEF Cancels, OnCancelled
  <2>9. CASE FinishCancelled(n, r)
    BY <1>0, <1>1, <2>9 DEF FinishCancelled
  <2>10. CASE Starts(n, r)
    BY <1>0, <1>1, <2>10 DEF Starts, WorkerFree
  <2>11. CASE FinishStarting(n, r)
    <3>1. CASE UNCHANGED tracker
      BY <1>0, <1>1, <2>11, <3>1 DEF FinishStarting
    <3>2. CASE tracker' = Put(tracker, n, r, "none")
      BY <1>0, <1>1, <2>11, <3>2 DEF FinishStarting
    <3> QED
      BY <2>11, <3>1, <3>2 DEF FinishStarting
  <2>12. CASE Stops(n, r)
    BY <1>0, <1>1, <2>12 DEF Stops, WorkerFree
  <2>13. CASE FinishStopping(n, r)
    BY <1>0, <1>1, <2>13 DEF FinishStopping
  <2> QED
    BY <1>1, <2>1, <2>2, <2>3, <2>4, <2>5, <2>6, <2>7, <2>8, <2>9, <2>10, <2>11,
       <2>12, <2>13
       DEF Work
<1>2. CASE Follow(n, r) /\ UNCHANGED rebindVars
  <2>1. CASE FindForPod(n, r)
    BY <1>0, <1>2, <2>1 DEF FindForPod, Unrecoverable
  <2>2. CASE FinishMarking(n, r)
    BY <1>0, <1>2, <2>2 DEF FinishMarking
  <2>3. CASE Prepares(n, r)
    BY <1>0, <1>2, <2>3 DEF Prepares, FinishPreparing
  <2>4. CASE CallsBack(n, r)
    BY <1>0, <1>2, <2>4 DEF CallsBack
  <2>5. CASE Forget(n, r)
    BY <1>0, <1>2, <2>5 DEF Forget
  <2>6. CASE FinishCallback(n, r)
    BY <1>0, <1>2, <2>6 DEF FinishCallback
  <2>7. CASE Resume(n, r)
    <3>1. CASE UNCHANGED tracker
      BY <1>0, <1>2, <2>7, <3>1 DEF Resume
    <3>2. CASE /\ tracker' = Put(tracker, n, r, "watching")
               /\ UNCHANGED <<requestVars, podVars>>
      BY <1>0, <1>2, <2>7, <3>2 DEF Resume
    <3> QED
      BY <2>7, <3>1, <3>2 DEF Resume
  <2> QED
    BY <1>2, <2>1, <2>2, <2>3, <2>4, <2>5, <2>6, <2>7 DEF Follow
<1>3. CASE Rebinds(n, r)
  <2> USE DEF SetVolume, Next1, OnlyVolume, Rebinding, NotRebinding
  <2>1. CASE OnDataDownloadCompleted(n, r)
    BY <1>0, <2>1 DEF OnDataDownloadCompleted, BeginRebind
  <2>2. CASE FinishRebind(n, r)
    BY <1>0, <2>2 DEF FinishRebind
  <2>3. CASE RebindFails(n, r)
    BY <1>0, <2>3 DEF RebindFails, Unbound
  <2>4. CASE tracker[n][r] = "rebinding" /\ RebindStep(r)
    <3>1. CASE DeleteRestorePod(r)
      BY <1>0, <2>4, <3>1 DEF DeleteRestorePod
    <3>2. CASE DeleteRestorePVC(r)
      BY <1>0, <2>4, <3>2 DEF DeleteRestorePVC
    <3>3. CASE DeleteRestorePV(r)
      BY <1>0, <2>4, <3>3 DEF DeleteRestorePV
    <3>4. CASE CreateRebindPV(r)
      BY <1>0, <2>4, <3>4 DEF CreateRebindPV
    <3>5. CASE NameTargetPVC(r)
      BY <1>0, <2>4, <3>5 DEF NameTargetPVC
    <3>6. CASE ResetPVBinding(r)
      BY <1>0, <2>4, <3>6 DEF ResetPVBinding
    <3> QED
      BY <2>4, <3>1, <3>2, <3>3, <3>4, <3>5, <3>6 DEF RebindStep
  <2> QED
    BY <1>3, <2>1, <2>2, <2>3, <2>4 DEF Rebinds
<1>4. CASE WatchDelivers(n, r)
  BY <1>0, <1>4 DEF WatchDelivers, Deliver
<1> QED
  BY <1>1, <1>2, <1>3, <1>4 DEF Move

\* What users and pods do leaves less of a request, never more.
LEMMA ElsewhereTidy ==
    ASSUME TypeOK, NEW r \in Requests,
           RequestInv(r), TidyInv(r), Undisturbed, Elsewhere(r)
    PROVE  Tidy(r)'
<1>1. Tidy(r)
  BY DEF TidyInv
<1> USE <1>1 DEF Tidy, TypeOK, RequestsTypeOK, PodsTypeOK, AgentsTypeOK, Object,
    Volumes, PodStates, Phases, Final, Running, Ended, Fresh, FreshPhases, At,
    Transfer, Stored, InPhase, Cancelled, Of, Volume, Active, IsFinal, Exists,
    podVars, Write, PodsSeeWrite, CleanUp, ClearPod, PodUpdate, requestVars,
    agentVars, rebindVars, Leftover, NewInv, AtHome, HomeInv, AcceptedInv,
    FailingInv, CleanedInv, CleaningInv
<1>2. CASE User(r)
  BY <1>2 DEF User, AskCancel, Delete
<1>3. CASE PodRuns(r)
  <2>1. ASSUME NEW n \in Nodes, Schedule(r, n)
        PROVE  Tidy(r)'
    BY <1>3, <2>1 DEF PodRuns, Schedule
  <2>2. CASE MicroServiceInit(r) \/ RunCancelableDataPath(r)
    BY <1>3, <2>2 DEF PodRuns, MicroServiceInit, RunCancelableDataPath
  <2>3. CASE DataPathEnds(r)
    BY <1>3, <2>3 DEF PodRuns, DataPathEnds
  <2>4. CASE CollectPod(r)
    BY <1>3, <2>4 DEF PodRuns, CollectPod
  <2> QED
    BY <1>3, <2>1, <2>2, <2>3, <2>4 DEF PodRuns
<1>4. CASE PodMishap(r)
  BY <1>4 DEF PodMishap, TouchPod, PodFails
<1> QED
  BY <1>2, <1>3, <1>4 DEF Elsewhere

\* The invariant of a request is about what Same compares.
LEMMA SameTidy ==
    ASSUME NEW s \in Requests, TypeOK, TypeOK', Tidy(s), Same(s) PROVE Tidy(s)'
<1> USE DEF TypeOK, RequestsTypeOK, Same, Tidy, Transfer
<1>1. NewInv(s)'
  BY DEF NewInv
<1>2. home[s] \in Nodes
  OBVIOUS
<1>3. AtHome(s)' => AtHome(s)
  BY <1>2 DEF AtHome
<1>4. Fresh(s) => Fresh(s)'
  BY DEF Fresh, At
<1>5. HomeInv(s)'
  BY <1>3, <1>4 DEF HomeInv
<1>6. AcceptedInv(s)'
  BY DEF AcceptedInv
<1>7. FailingInv(s)'
  BY <1>3 DEF FailingInv
<1>8. CleanedInv(s)'
  BY DEF CleanedInv, Leftover
<1>9. CleaningInv(s)'
  BY DEF CleaningInv, Leftover
<1> QED
  BY <1>1, <1>5, <1>6, <1>7, <1>8, <1>9

\* Only a restart counts as one.
LEMMA Undisturbing ==
    ASSUME TypeOK
    PROVE  /\ \A n \in Nodes, r \in Requests : Move(n, r) => UNCHANGED restarts
           /\ \A r \in Requests : Elsewhere(r) => UNCHANGED restarts
           /\ \A n \in Nodes : AgentRestart(n) => restarts' # 0
<1>1. ASSUME NEW n \in Nodes, NEW r \in Requests, Move(n, r)
      PROVE  UNCHANGED restarts
  <2>1. CASE Work(n, r)
    BY <2>1
       DEF Work, ReconcileFinalizer, AddFinalizer, CancelDeleted,
           RemoveFinalizer, Ends, EndExclusively, Accepts, AcceptExclusively,
           BeginAccept, FinishAccept, Creates, Errs, ErrorOut, FinishCleaning,
           UpdateStatusToFailed, Cancels, OnCancelled, FinishCancelled, Starts,
           FinishStarting, Stops, FinishStopping, OnlyWork, agentVars
  <2>2. CASE Follow(n, r)
    BY <2>2
       DEF Follow, FindForPod, FinishMarking, Prepares, FinishPreparing,
           CallsBack, Forget, FinishCallback, Resume, OnlyEvent, OnlyTracker
  <2>3. CASE Rebinds(n, r)
    BY <2>3
       DEF Rebinds, OnDataDownloadCompleted, BeginRebind, FinishRebind,
           RebindFails, RebindStep, DeleteRestorePod, DeleteRestorePVC,
           DeleteRestorePV, CreateRebindPV, NameTargetPVC, ResetPVBinding,
           OnlyVolume, OnlyTracker, agentVars
  <2> QED
    BY <1>1, <2>1, <2>2, <2>3 DEF Move, WatchDelivers, agentVars
<1>2. \A r \in Requests : Elsewhere(r) => UNCHANGED restarts
  BY DEF Elsewhere, User, PodRuns, PodMishap, agentVars
<1>3. \A n \in Nodes : AgentRestart(n) => restarts' # 0
  BY AgentAssumption DEF AgentRestart, Restart, TypeOK, AgentsTypeOK
<1> QED
  BY <1>1, <1>2, <1>3

\* Every step keeps what is left accounted for.
LEMMA NextTidy ==
    ASSUME MovementInv, MovementInv', [Next]_vars,
           \A r \in Requests : TidyInv(r)
    PROVE  \A r \in Requests : TidyInv(r)'
<1> SUFFICES ASSUME Undisturbed', NEW r \in Requests PROVE Tidy(r)'
  BY DEF TidyInv
<1>1. TypeOK /\ TypeOK' /\ RequestInv(r)
  BY DEF MovementInv
<1>2. CASE UNCHANGED vars
  <2>1. Undisturbed /\ Same(r)
    BY <1>2 DEF Undisturbed, vars, requestVars, podVars, agentVars, rebindVars,
       Same
  <2> QED
    BY <1>1, <2>1, SameTidy DEF TidyInv
<1>3. ASSUME NEW n \in Nodes, NEW s \in Requests, Move(n, s)
      PROVE  Tidy(r)'
  <2>1. Undisturbed
    BY <1>1, <1>3, Undisturbing DEF Undisturbed
  <2>2. CASE r = s
    BY <1>1, <1>3, <2>1, <2>2, MoveTidy
  <2>3. CASE r # s
    BY <1>1, <1>3, <2>1, <2>3, MoveSame, SameTidy DEF TidyInv
  <2> QED
    BY <2>2, <2>3
<1>4. ASSUME NEW s \in Requests, Elsewhere(s)
      PROVE  Tidy(r)'
  <2>1. Undisturbed
    BY <1>1, <1>4, Undisturbing DEF Undisturbed
  <2>2. CASE r = s
    BY <1>1, <1>4, <2>1, <2>2, ElsewhereTidy
  <2>3. CASE r # s
    BY <1>1, <1>4, <2>1, <2>3, ElsewhereSame, SameTidy DEF TidyInv
  <2> QED
    BY <2>2, <2>3
<1>5. ~\E n \in Nodes : AgentRestart(n)
  BY <1>1, Undisturbing DEF Undisturbed
<1> QED
  BY <1>2, <1>3, <1>4, <1>5, StepIsMove

\* The invariant of what is left of the requests.
THEOREM TidyInductive == Spec => [](\A r \in Requests : TidyInv(r))
<1>1. Init => \A r \in Requests : TidyInv(r)
  BY DEF Init, RequestsInit, PodsInit, AgentsInit, RebindInit, Created, Of,
     Volume, NotRebinding, Rebinding, TidyInv, Tidy, NewInv, HomeInv, Fresh,
     FreshPhases, At, AcceptedInv, FailingInv, CleanedInv, CleaningInv,
     IsFinal, Final, Transfer, AtHome, Leftover
<1>2. MovementInv /\ MovementInv' /\ [Next]_vars /\ (\A r \in Requests : TidyInv(r))
         => (\A r \in Requests : TidyInv(r))'
  BY NextTidy
<1> QED
  BY <1>1, <1>2, MovementInductive, PTL DEF Spec

\* When the node agents are timely and none of them has restarted, a request
\* that is final, and that nobody is busy with, has left nothing behind.
THEOREM FinalIsClean == Timely => (Spec => []NothingLeft)
<1> SUFFICES ASSUME Timely PROVE Spec => []NothingLeft
  OBVIOUS
<1>1. (\A r \in Requests : TidyInv(r)) => NothingLeft
  BY DEF TidyInv, Undisturbed, Tidy, CleaningInv, Leftover, NothingLeft, Busy
<1> QED
  BY <1>1, TidyInductive, PTL

=============================================================================
