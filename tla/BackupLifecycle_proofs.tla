------------------------ MODULE BackupLifecycle_proofs ------------------------
(***************************************************************************)
(* Proofs about BackupLifecycle, for any set of backups, operations and    *)
(* bounds: types, what the controllers know of the phase of the backup     *)
(* they work on, and from it that the phases follow the design and that a  *)
(* Completed backup is stored as a whole, with its operations over.        *)
(***************************************************************************)
EXTENDS BackupLifecycle, FiniteSetTheorems, SequenceTheorems, TLAPS

-----------------------------------------------------------------------------
(***************************************************************************)
(* Type correctness.                                                       *)
(***************************************************************************)
\* A worker that is not idle has something to work on.
Keys ==
    /\ bo.pc # "idle" => bo.key \in Backup
    /\ bf.pc # "idle" => bf.key \in Backup
    /\ bd.pc # "idle" => bd.req \in Request
    /\ sy.pc = "create" => sy.key \in Backup

\* What the backup controller, its uploads and the world around it keep.
BasicTypes ==
    ApiTypeOK /\ StoreTypeOK /\ ReconcilerTypeOK /\ UploadTypeOK

\* Storing an object keeps api and watch well typed (BackupApi!Store).
LEMMA StoreType ==
    ASSUME ApiTypeOK, NEW b \in Backup, NEW o \in Object, Store(b, o)
    PROVE  /\ api' \in [Backup -> Object]
           /\ watch' \in Seq(Change)
<1>1. [key |-> b, obj |-> o] \in Change
  BY DEF Change
<1>2. Append(watch, [key |-> b, obj |-> o]) \in Seq(Change)
  BY <1>1 DEF ApiTypeOK
<1> QED
  BY <1>2 DEF ApiTypeOK, Store

\* So does a patch, whether its caller gets an answer or an error.
LEMMA PatchType ==
    ASSUME ApiTypeOK, NEW b \in Backup, NEW o \in Object,
           PatchOk(b, o) \/ PatchError(b, o), UNCHANGED cache
    PROVE  ApiTypeOK'
<1>1. MaxFaults \in Nat
  BY ApiAssumption
<1>2. faults' \in 0 .. MaxFaults
  BY <1>1 DEF ApiTypeOK, PatchOk, PatchError
<1>3. /\ api' \in [Backup -> Object]
      /\ watch' \in Seq(Change)
  <2>1. CASE Store(b, o)
    BY <2>1, StoreType
  <2>2. CASE UNCHANGED <<api, watch>>
    BY <2>2 DEF ApiTypeOK
  <2> QED
    BY <2>1, <2>2 DEF PatchOk, PatchError
<1> QED
  BY <1>2, <1>3 DEF ApiTypeOK

\* A patch that changes the phase of an object, or nothing.
LEMMA PhaseObject ==
    ASSUME ApiTypeOK, NEW b \in Backup, NEW phase \in Phases
    PROVE  /\ [phase |-> phase, pos |-> api[b].pos] \in Object
           /\ api[b] \in Object
BY DEF ApiTypeOK, Object

\* A call to the bucket, or one that only fails, keeps the types.
LEMMA CallType ==
    ASSUME ApiTypeOK, StoreTypeOK, NEW b \in Backup, NEW dir \in Directory,
           \/ StoreOk(b, dir) \/ StoreError(b, dir) \/ ReadError
           \/ UNCHANGED <<faults, store>>,
           UNCHANGED <<api, watch, cache>>
    PROVE  ApiTypeOK' /\ StoreTypeOK'
<1>1. MaxFaults \in Nat
  BY ApiAssumption
<1>2. faults' \in 0 .. MaxFaults
  BY <1>1 DEF ApiTypeOK, StoreOk, StoreError, ReadError
<1>3. store' \in {store, [store EXCEPT ![b] = dir]}
  BY DEF StoreOk, StoreError, ReadError
<1> QED
  BY <1>2, <1>3 DEF ApiTypeOK, StoreTypeOK

\* The directories that the controllers write.
LEMMA Directories ==
    ASSUME StoreTypeOK, NEW b \in Backup
    PROVE  /\ \A phase \in Phases \cup {"none"} :
                 WithMeta(b, phase) \in Directory
           /\ \A c \in {"none", "initial", "final"} :
                 WithContents(b, c) \in Directory
           /\ \A ops \in Operations \cup {NoOps} : WithOps(b, ops) \in Directory
           /\ store[b] \in Directory
           /\ store[b].ops \in Operations \cup {NoOps}
           /\ Empty \in Directory
BY DEF StoreTypeOK, Directory, WithMeta, WithContents, WithOps, Empty

\* The steps of the backup controller.
LEMMA ReconcileTypes ==
    ASSUME BasicTypes, NEW b \in Backup, Reconcile(b)
    PROVE  BasicTypes'
<1> USE DEF BasicTypes
<1>1. CASE TakeBackup(b)
  BY <1>1 DEF TakeBackup, Reconcile, apiVars, uploadVars, ApiTypeOK,
     StoreTypeOK, ReconcilerTypeOK, UploadTypeOK, WorkerPc, Phases
<1>2. ASSUME NEW phase \in Verdicts, PatchStarted(b, phase)
      PROVE  BasicTypes'
  <2>1. phase \in Phases
    BY DEF Verdicts, Phases, TerminalPhases
  <2>2. ApiTypeOK'
    BY <1>2, <2>1, PhaseObject, PatchType DEF PatchStarted
  <2>3. ReconcilerTypeOK'
    BY <1>2, <2>1 DEF PatchStarted, ReconcilerTypeOK, WorkerPc, Idle, Phases
  <2> QED
    BY <2>2, <2>3 DEF Reconcile, uploadVars, StoreTypeOK, UploadTypeOK
<1>3. CASE TrackStarted(b)
  BY <1>3 DEF TrackStarted, Add, Reconcile, apiVars, uploadVars, ApiTypeOK,
     StoreTypeOK, ReconcilerTypeOK, UploadTypeOK, WorkerPc
<1>4. CASE PatchFinished(b)
  <2>1. bw[b].phase \in Phases
    BY DEF ReconcilerTypeOK
  <2>2. ApiTypeOK'
    BY <1>4, <2>1, PhaseObject, PatchType DEF PatchFinished
  <2>3. ReconcilerTypeOK'
    BY <1>4, <2>1 DEF PatchFinished, ReconcilerTypeOK, WorkerPc
  <2> QED
    BY <2>2, <2>3 DEF Reconcile, uploadVars, StoreTypeOK, UploadTypeOK
<1>5. CASE LeaveBackup(b)
  <2>1. ReconcilerTypeOK'
    BY <1>5 DEF LeaveBackup, ReconcilerTypeOK, Delete, AddPostProcessing,
       WorkerPc, Idle, Phases
  <2> QED
    BY <1>5, <2>1 DEF LeaveBackup, Reconcile, apiVars, uploadVars, ApiTypeOK,
       StoreTypeOK, UploadTypeOK
<1> QED
  BY <1>1, <1>2, <1>3, <1>4, <1>5 DEF Reconcile

\* What a poll makes of the operations of a backup.
LEMMA PolledType ==
    ASSUME NEW b \in Backup, NEW ops \in Operations, NEW late \in SUBSET Op
    PROVE  Polled(b, ops, late) \in Operations
BY DEF Polled, Operations, OpStatuses

LEMMA RunPhaseType ==
    ASSUME NEW fatal, NEW errors, NEW more
    PROVE  RunPhase(fatal, errors, more) \in PostPhases \cup {"Failed"}
BY DEF RunPhase, PostPhases

LEMMA UpIdleType ==
    UpIdle \in [pc : UpPc, phase : RunOutcomes \cup {"Failed"},
                ops : Operations \cup {NoOps}]
BY DEF UpIdle, UpPc

\* An upload that goes on.
LEMMA UpAtType ==
    ASSUME UploadTypeOK, NEW b \in Backup, UNCHANGED plugin,
           NEW pc \in UpPc, NEW phase \in RunOutcomes \cup {"Failed"},
           NEW ops \in Operations \cup {NoOps}, UpAt(b, pc, phase, ops)
    PROVE  UploadTypeOK'
BY DEF UpAt, UploadTypeOK

\* The steps of an upload.
LEMMA UploadTypes ==
    ASSUME BasicTypes, NEW b \in Backup, Upload(b)
    PROVE  BasicTypes'
<1> USE DEF BasicTypes
<1>1. /\ up[b] \in [pc : UpPc, phase : RunOutcomes \cup {"Failed"},
                    ops : Operations \cup {NoOps}]
      /\ RunOutcomes \cup {"Failed"} \subseteq Phases
  BY ReconcilerAssumption DEF UploadTypeOK, Phases, TerminalPhases
<1>2. \A phase \in RunOutcomes \cup {"Failed"} :
          WithMeta(b, phase) \in Directory
  BY <1>1, Directories
<1>3. CASE BackUp(b)
  <2>1. ApiTypeOK' /\ StoreTypeOK'
    BY <1>3, Directories, CallType DEF BackUp
  <2>2. PICK pc \in UpPc, phase \in RunOutcomes \cup {"Failed"},
              ops \in Operations \cup {NoOps} : UpAt(b, pc, phase, ops)
    <3>1. CASE UpAt(b, "ended", "Failed", NoOps)
      BY <3>1 DEF UpPc
    <3>2. ASSUME NEW late \in SUBSET Op, NEW phase \in RunOutcomes \cup {"Failed"},
                 UpAt(b, "metadata", phase,
                      Polled(b, [o \in Op |-> "new"], late))
          PROVE  \E pc \in UpPc, p \in RunOutcomes \cup {"Failed"},
                    ops \in Operations \cup {NoOps} : UpAt(b, pc, p, ops)
      <4>1. [o \in Op |-> "new"] \in Operations
        BY DEF Operations, OpStatuses
      <4>2. Polled(b, [o \in Op |-> "new"], late) \in Operations
        BY <4>1, PolledType
      <4> QED
        BY <3>2, <4>2 DEF UpPc
    <3> QED
      BY <1>3, <3>1, <3>2 DEF BackUp
  <2>3. UploadTypeOK'
    BY <1>3, <2>2 DEF BackUp, UpAt, UploadTypeOK
  <2> QED
    BY <1>3, <2>1, <2>3 DEF BackUp, reconcilerVars, ReconcilerTypeOK
<1>4. CASE PutMetadata(b)
  <2>1. ApiTypeOK' /\ StoreTypeOK'
    BY <1>1, <1>2, <1>4, CallType DEF PutMetadata
  <2>2. UpAt(b, "contents", up[b].phase, up[b].ops) => UploadTypeOK'
    BY <1>1, <1>4, UpAtType DEF PutMetadata, UpPc
  <2>3. UpAt(b, "ended", "Failed", up[b].ops) => UploadTypeOK'
    BY <1>1, <1>4, UpAtType DEF PutMetadata, UpPc
  <2> QED
    BY <1>4, <2>1, <2>2, <2>3 DEF PutMetadata, reconcilerVars, ReconcilerTypeOK
<1>5. CASE PutContents(b)
  <2>1. ApiTypeOK' /\ StoreTypeOK'
    BY <1>5, Directories, CallType DEF PutContents
  <2>2. UpAt(b, "lists", up[b].phase, up[b].ops) => UploadTypeOK'
    BY <1>1, <1>5, UpAtType DEF PutContents, UpPc
  <2>3. UpAt(b, "undoMetadata", "Failed", up[b].ops) => UploadTypeOK'
    BY <1>1, <1>5, UpAtType DEF PutContents, UpPc
  <2> QED
    BY <1>5, <2>1, <2>2, <2>3 DEF PutContents, reconcilerVars, ReconcilerTypeOK
<1>6. CASE PutLists(b)
  <2>1. ApiTypeOK' /\ StoreTypeOK'
    BY <1>1, <1>6, Directories, CallType DEF PutLists
  <2>2. UpAt(b, "ended", up[b].phase, up[b].ops) => UploadTypeOK'
    BY <1>1, <1>6, UpAtType DEF PutLists, UpPc
  <2>3. UpAt(b, "undoContents", "Failed", up[b].ops) => UploadTypeOK'
    BY <1>1, <1>6, UpAtType DEF PutLists, UpPc
  <2> QED
    BY <1>6, <2>1, <2>2, <2>3 DEF PutLists, reconcilerVars, ReconcilerTypeOK
<1>7. CASE UndoContents(b)
  <2>1. ApiTypeOK' /\ StoreTypeOK'
    BY <1>7, Directories, CallType DEF UndoContents
  <2> QED
    BY <1>1, <1>7, <2>1 DEF UndoContents, UpAt, UpPc, UploadTypeOK,
       reconcilerVars, ReconcilerTypeOK
<1>8. CASE UndoMetadata(b)
  <2>1. ApiTypeOK' /\ StoreTypeOK'
    BY <1>8, Directories, CallType DEF UndoMetadata
  <2> QED
    BY <1>1, <1>8, <2>1 DEF UndoMetadata, UpAt, UpPc, UploadTypeOK,
       reconcilerVars, ReconcilerTypeOK
<1>9. CASE BackedUp(b)
  <2>1. ReconcilerTypeOK'
    BY <1>1, <1>9 DEF BackedUp, RunBackup, ReconcilerTypeOK, WorkerPc
  <2> QED
    BY <1>9, <2>1, UpIdleType DEF BackedUp, RunBackup, apiVars, ApiTypeOK,
       StoreTypeOK, UploadTypeOK
<1> QED
  BY <1>3, <1>4, <1>5, <1>6, <1>7, <1>8, <1>9 DEF Upload

\* A plugin's operation ends.
LEMMA PluginTypes ==
    ASSUME BasicTypes, NEW b \in Backup, NEW o \in Op, PluginEnds(b, o)
    PROVE  BasicTypes'
BY DEF BasicTypes, PluginEnds, apiVars, reconcilerVars, ApiTypeOK,
   StoreTypeOK, ReconcilerTypeOK, UploadTypeOK, PluginStates

-----------------------------------------------------------------------------
\* An entry of the map, and the worker that handles it, are well typed.
LEMMA NoEntryType ==
    /\ NoEntry \in Entry
    /\ \A ops \in Operations \cup {NoOps} : Uploaded(ops) \in Entry
BY DEF NoEntry, Uploaded, Entry

\* The worker of the operations controller goes on with an entry.
LEMMA BoNextType ==
    ASSUME OperationsTypeOK, bo.key \in Backup, NEW pc \in BoPc,
           NEW entry \in Entry, opsMap' \in [Backup -> Entry],
           bo' = BoNext(pc, entry)
    PROVE  OperationsTypeOK' /\ bo'.key \in Backup
BY DEF BoNext, BoAt, OperationsTypeOK

LEMMA GiveUpType ==
    ASSUME OperationsTypeOK, bo.key \in Backup, UNCHANGED opsMap, bo' = GiveUp
    PROVE  OperationsTypeOK' /\ bo'.key \in Backup
BY DEF GiveUp, BoAt, OperationsTypeOK, BoPc

\* The steps of the operations controller.
LEMMA PollTypes ==
    ASSUME BasicTypes, OperationsTypeOK, bo.pc # "idle" => bo.key \in Backup,
           \/ \E b \in Backup : TakeWaiting(b) \/ DownloadOperations(b)
           \/ ReconcileOperations
    PROVE  /\ BasicTypes'
           /\ OperationsTypeOK'
           /\ bo'.pc # "idle" => bo'.key \in Backup
<1> DEFINE Goal == /\ BasicTypes'
                   /\ OperationsTypeOK'
                   /\ bo'.pc # "idle" => bo'.key \in Backup
<1> USE DEF BasicTypes
<1>1. ASSUME NEW b \in Backup, TakeWaiting(b) PROVE Goal
  <2>1. bo' = BoAt("poll", b, cache[b].phase, cache[b].phase, NoEntry, FALSE,
                   TRUE)
    BY <1>1 DEF TakeWaiting
  <2>2. cache[b].phase \in WaitingPhases
    BY <1>1 DEF TakeWaiting
  <2>3. OperationsTypeOK' /\ bo'.key \in Backup
    BY <1>1, <2>1, <2>2, NoEntryType DEF TakeWaiting, BoAt, OperationsTypeOK,
       BoPc, WaitingPhases, PostPhases
  <2> QED
    BY <1>1, <2>3 DEF TakeWaiting, apiVars, reconcilerVars, uploadVars,
       ApiTypeOK, StoreTypeOK, ReconcilerTypeOK, UploadTypeOK
<1>2. ASSUME NEW b \in Backup, DownloadOperations(b) PROVE Goal
  <2>1. opsMap[b] \in Entry /\ opsMap[b].ops \in Operations \cup {NoOps}
    BY DEF OperationsTypeOK, Entry
  <2>2. ApiTypeOK' /\ StoreTypeOK'
    BY <1>2, <2>1, Directories, CallType DEF DownloadOperations
  <2>3. OperationsTypeOK'
    BY <1>2, <2>1, NoEntryType DEF DownloadOperations, OperationsTypeOK
  <2> QED
    BY <1>2, <2>2, <2>3 DEF DownloadOperations, reconcilerVars, uploadVars,
       ReconcilerTypeOK, UploadTypeOK
<1>3. CASE LocationGone
  <2>1. OperationsTypeOK' /\ bo'.key \in Backup
    BY <1>3, NoEntryType DEF LocationGone, BoAt, OperationsTypeOK, BoPc
  <2> QED
    BY <1>3, <2>1 DEF LocationGone, apiVars, reconcilerVars, uploadVars,
       ApiTypeOK, StoreTypeOK, ReconcilerTypeOK, UploadTypeOK
<1>4. ASSUME NEW late \in SUBSET Op, Poll(late) PROVE Goal
  <2> DEFINE old == Known(bo.key)
             ops == IF old.ops = NoOps THEN NoOps
                    ELSE Polled(bo.key, old.ops, late)
             entry == [ops |-> ops,
                       changed |-> old.changed \/ ops # old.ops,
                       errs |-> old.errs \/ NewFailures(old.ops, ops)]
             phase == NextPhase(bo.phase, ops, entry.errs)
  <2>1. bo.key \in Backup
    BY <1>4 DEF Poll
  <2>2. old \in Entry
    BY <2>1, Directories, NoEntryType DEF Known, OperationsTypeOK
  <2>3. ops \in Operations \cup {NoOps}
    BY <2>1, <2>2, PolledType DEF Entry
  <2>4. entry \in Entry
    <3>1. (old.changed \/ ops # old.ops) \in BOOLEAN
      OBVIOUS
    <3>2. (old.errs \/ NewFailures(old.ops, ops)) \in BOOLEAN
      OBVIOUS
    <3> HIDE DEF ops, old
    <3> QED
      BY <2>3, <3>1, <3>2 DEF Entry
  <2>5. phase \in {"New", "PartiallyFailed"} \cup PostPhases
    BY DEF NextPhase, OperationsTypeOK, PostPhases
  <2>6. /\ opsMap' = [opsMap EXCEPT ![bo.key] = old]
        /\ \E pc \in {"putMetadata", "leave"}, changes \in BOOLEAN :
              bo' = BoAt(pc, bo.key, bo.was, phase, entry, changes, TRUE)
    <3> HIDE DEF entry
    <3>1. (ops # old.ops) \in BOOLEAN
      OBVIOUS
    <3>2. bo' = BoAt(IF entry.errs \/ phase \in FinalizingPhases
                     THEN "putMetadata" ELSE "leave",
                     bo.key, bo.was, phase, entry, ops # old.ops, TRUE)
      BY <1>4 DEF Poll, entry
    <3>3. opsMap' = [opsMap EXCEPT ![bo.key] = old]
      BY <1>4 DEF Poll
    <3> HIDE DEF phase, ops, old
    <3> QED
      BY <3>1, <3>2, <3>3
  <2>7. OperationsTypeOK' /\ bo'.key \in Backup
    <3> HIDE DEF entry, phase, ops, old
    <3> QED
      BY <2>1, <2>2, <2>4, <2>5, <2>6 DEF BoAt, OperationsTypeOK, BoPc
  <2> QED
    BY <1>4, <2>7 DEF Poll, apiVars, reconcilerVars, uploadVars,
       ApiTypeOK, StoreTypeOK, ReconcilerTypeOK, UploadTypeOK
<1>5. CASE PollError
  <2>1. bo.key \in Backup
    BY <1>5 DEF PollError
  <2>2. ApiTypeOK' /\ StoreTypeOK'
    BY <1>5, <2>1, Directories, CallType DEF PollError
  <2>3. OperationsTypeOK' /\ bo'.key \in Backup
    <3>1. [ops |-> NoOps, changed |-> FALSE, errs |-> TRUE] \in Entry
      BY DEF Entry
    <3> QED
      BY <1>5, <2>1, <3>1, BoNextType DEF PollError, BoPc, OperationsTypeOK
  <2> QED
    BY <1>5, <2>2, <2>3 DEF PollError, reconcilerVars, uploadVars,
       ReconcilerTypeOK, UploadTypeOK
<1>6. CASE PutPhase
  <2>1. bo.key \in Backup /\ bo.phase \in Phases /\ bo.entry \in Entry
    BY <1>6 DEF PutPhase, OperationsTypeOK, Phases, TerminalPhases
  <2>2. ApiTypeOK' /\ StoreTypeOK'
    BY <1>6, <2>1, Directories, CallType DEF PutPhase
  <2>3. OperationsTypeOK' /\ bo'.key \in Backup
    BY <1>6, <2>1, BoNextType, GiveUpType DEF PutPhase, BoPc, OperationsTypeOK
  <2> QED
    BY <1>6, <2>2, <2>3 DEF PutPhase, reconcilerVars, uploadVars,
       ReconcilerTypeOK, UploadTypeOK
<1>7. CASE PutOps
  <2>1. bo.key \in Backup /\ bo.entry.ops \in Operations \cup {NoOps}
    BY <1>7 DEF PutOps, OperationsTypeOK, Entry
  <2>2. Uploaded(bo.entry.ops) \in Entry /\ Uploaded(bo.entry.ops).ops = bo.entry.ops
    BY <2>1, NoEntryType DEF Uploaded
  <2>3. ApiTypeOK' /\ StoreTypeOK'
    BY <1>7, <2>1, <2>2, Directories, CallType DEF PutOps
  <2>4. OperationsTypeOK' /\ bo'.key \in Backup
    <3>1. CASE bo' = GiveUp /\ UNCHANGED opsMap
      BY <2>1, <3>1, GiveUpType
    <3>2. CASE /\ bo' = BoNext("patch", Uploaded(bo.entry.ops))
               /\ opsMap' = [opsMap EXCEPT ![bo.key] = Uploaded(bo.entry.ops)]
      <4>1. opsMap' \in [Backup -> Entry]
        BY <2>2, <3>2 DEF OperationsTypeOK
      <4> QED
        BY <2>1, <2>2, <3>2, <4>1, BoNextType DEF BoPc
    <3> QED
      BY <1>7, <3>1, <3>2 DEF PutOps
  <2> QED
    BY <1>7, <2>3, <2>4 DEF PutOps, reconcilerVars, uploadVars,
       ReconcilerTypeOK, UploadTypeOK
<1>8. CASE PatchPolled
  <2>1. bo.key \in Backup /\ bo.phase \in Phases /\ bo.entry \in Entry
    BY <1>8 DEF PatchPolled, OperationsTypeOK, Phases, TerminalPhases
  <2>2. ApiTypeOK'
    BY <1>8, <2>1, PhaseObject, PatchType DEF PatchPolled
  <2>3. OperationsTypeOK' /\ bo'.key \in Backup
    BY <1>8, <2>1, BoNextType, GiveUpType DEF PatchPolled, BoPc,
       OperationsTypeOK
  <2> QED
    BY <1>8, <2>2, <2>3 DEF PatchPolled, reconcilerVars, uploadVars,
       StoreTypeOK, ReconcilerTypeOK, UploadTypeOK
<1>9. CASE LeaveOperations
  <2>1. bo.entry \in Entry
    BY DEF OperationsTypeOK
  <2>2. opsMap' \in [Backup -> Entry]
    BY <1>9, <2>1, NoEntryType DEF LeaveOperations, OperationsTypeOK
  <2>3. OperationsTypeOK' /\ bo'.pc = "idle"
    BY <1>9, <2>2, NoEntryType DEF LeaveOperations, BoIdle, BoAt, BoPc,
       OperationsTypeOK
  <2> QED
    BY <1>9, <2>3 DEF LeaveOperations, apiVars, reconcilerVars, uploadVars,
       ApiTypeOK, StoreTypeOK, ReconcilerTypeOK, UploadTypeOK
<1> QED
  BY <1>1, <1>2, <1>3, <1>4, <1>5, <1>6, <1>7, <1>8, <1>9
     DEF ReconcileOperations

-----------------------------------------------------------------------------
\* The steps of the finalizer.
LEMMA FinalizeTypes ==
    ASSUME BasicTypes, OperationsTypeOK, FinalizerTypeOK,
           bf.pc # "idle" => bf.key \in Backup,
           (\E b \in Backup : TakeFinalizing(b)) \/ Finalize
    PROVE  /\ BasicTypes'
           /\ OperationsTypeOK'
           /\ FinalizerTypeOK'
           /\ UNCHANGED bo
           /\ bf'.pc # "idle" => bf'.key \in Backup
<1> DEFINE Goal == /\ BasicTypes'
                   /\ OperationsTypeOK'
                   /\ FinalizerTypeOK'
                   /\ UNCHANGED bo
                   /\ bf'.pc # "idle" => bf'.key \in Backup
<1> USE DEF BasicTypes
<1>1. ASSUME NEW b \in Backup, TakeFinalizing(b) PROVE Goal
  BY <1>1 DEF TakeFinalizing, BfAt, FinalPhase, FinalizerTypeOK, BfPc, apiVars,
     reconcilerVars, uploadVars, operationsVars, ApiTypeOK, StoreTypeOK,
     ReconcilerTypeOK, UploadTypeOK, OperationsTypeOK
<1>2. CASE Prepare
  <2>1. HasOps(bf.key) \in BOOLEAN
    BY DEF HasOps
  <2>2. FinalizerTypeOK' /\ bf'.key \in Backup
    BY <1>2, <2>1 DEF Prepare, BfAt, FinalizerTypeOK, BfPc
  <2> QED
    BY <1>2, <2>2 DEF Prepare, apiVars, reconcilerVars, uploadVars,
       operationsVars, ApiTypeOK, StoreTypeOK, ReconcilerTypeOK, UploadTypeOK,
       OperationsTypeOK
<1>3. CASE PrepareError
  <2>1. bf.key \in Backup
    BY <1>3 DEF PrepareError
  <2>2. ApiTypeOK' /\ StoreTypeOK'
    BY <1>3, <2>1, Directories, CallType DEF PrepareError
  <2>3. FinalizerTypeOK' /\ bf'.key \in Backup
    BY <1>3, <2>1 DEF PrepareError, Failing, BfAt, FinalizerTypeOK, BfPc
  <2> QED
    BY <1>3, <2>2, <2>3 DEF PrepareError, reconcilerVars, uploadVars,
       operationsVars, ReconcilerTypeOK, UploadTypeOK, OperationsTypeOK
<1>4. CASE PutFinalMetadata
  <2>1. bf.key \in Backup /\ bf.phase \in Phases
    BY <1>4 DEF PutFinalMetadata, FinalizerTypeOK, Phases, TerminalPhases
  <2>2. ApiTypeOK' /\ StoreTypeOK'
    BY <1>4, <2>1, Directories, CallType DEF PutFinalMetadata
  <2>3. FinalizerTypeOK' /\ bf'.key \in Backup
    BY <1>4, <2>1 DEF PutFinalMetadata, Failing, BfAt, FinalizerTypeOK, BfPc
  <2> QED
    BY <1>4, <2>2, <2>3 DEF PutFinalMetadata, reconcilerVars, uploadVars,
       operationsVars, ReconcilerTypeOK, UploadTypeOK, OperationsTypeOK
<1>5. CASE PutFinalContents
  <2>1. bf.key \in Backup
    BY <1>5 DEF PutFinalContents
  <2>2. ApiTypeOK' /\ StoreTypeOK'
    BY <1>5, <2>1, Directories, CallType DEF PutFinalContents
  <2>3. FinalizerTypeOK' /\ bf'.key \in Backup
    BY <1>5, <2>1 DEF PutFinalContents, Failing, BfAt, FinalizerTypeOK, BfPc
  <2> QED
    BY <1>5, <2>2, <2>3 DEF PutFinalContents, reconcilerVars, uploadVars,
       operationsVars, ReconcilerTypeOK, UploadTypeOK, OperationsTypeOK
<1>6. CASE TrackFinal
  <2>1. ReconcilerTypeOK'
    BY <1>6 DEF TrackFinal, Delete, ReconcilerTypeOK
  <2>2. FinalizerTypeOK' /\ bf'.key \in Backup
    BY <1>6 DEF TrackFinal, BfAt, FinalizerTypeOK, BfPc
  <2> QED
    BY <1>6, <2>1, <2>2 DEF TrackFinal, apiVars, uploadVars, operationsVars,
       ApiTypeOK, StoreTypeOK, UploadTypeOK, OperationsTypeOK
<1>7. CASE PatchFinal
  <2>1. bf.key \in Backup /\ bf.phase \in Phases
    BY <1>7 DEF PatchFinal, FinalizerTypeOK, Phases, TerminalPhases
  <2>2. ApiTypeOK'
    BY <1>7, <2>1, PhaseObject, PatchType DEF PatchFinal
  <2>3. FinalizerTypeOK' /\ (bf'.pc # "idle" => bf'.key \in Backup)
    <3>1. fkeys' \in SUBSET Backup
      BY <1>7, <2>1 DEF PatchFinal, FinalizerTypeOK
    <3>2. CASE bf' = BfIdle
      BY <3>1, <3>2 DEF BfIdle, BfAt, FinalizerTypeOK, BfPc
    <3>3. CASE UNCHANGED bf
      BY <2>1, <3>1, <3>3 DEF FinalizerTypeOK
    <3> QED
      BY <1>7, <3>2, <3>3 DEF PatchFinal
  <2> QED
    BY <1>7, <2>2, <2>3 DEF PatchFinal, reconcilerVars, uploadVars,
       operationsVars, StoreTypeOK, ReconcilerTypeOK, UploadTypeOK,
       OperationsTypeOK
<1> QED
  BY <1>1, <1>2, <1>3, <1>4, <1>5, <1>6, <1>7 DEF Finalize

-----------------------------------------------------------------------------
\* The worker of the deletion controller goes on.
LEMMA BdNextType ==
    ASSUME DeletionTypeOK, bd.req \in Request, req' \in [Request -> RequestPhases],
           NEW pc \in BdPc, NEW errs \in BOOLEAN, BdNext(pc, errs)
    PROVE  DeletionTypeOK' /\ bd'.req \in Request
BY DEF BdNext, BdAt, DeletionTypeOK

LEMMA BdIdleType ==
    ASSUME req' \in [Request -> RequestPhases], bd' = BdIdle
    PROVE  DeletionTypeOK' /\ bd'.pc = "idle"
BY DEF BdIdle, BdAt, DeletionTypeOK, BdPc

\* Requests that are patched or deleted.
LEMMA RequestType ==
    ASSUME ApiTypeOK, DeletionTypeOK, NEW phase \in RequestPhases,
           RequestOk(phase) \/ RequestError(phase)
    PROVE  /\ req' \in [Request -> RequestPhases]
           /\ faults' \in 0 .. MaxFaults
<1>1. MaxFaults \in Nat
  BY ApiAssumption
<1> QED
  BY <1>1 DEF RequestOk, RequestError, ApiTypeOK, DeletionTypeOK

LEMMA WithoutType ==
    ASSUME DeletionTypeOK, NEW gone
    PROVE  WithoutRequests(gone) \in [Request -> RequestPhases]
BY DEF WithoutRequests, DeletionTypeOK, RequestPhases

\* The steps of the deletion controller and of those who ask for deletions.
LEMMA DeletionTypes ==
    ASSUME ApiTypeOK, StoreTypeOK, ReconcilerTypeOK, DeletionTypeOK,
           bd.pc # "idle" => bd.req \in Request,
           \/ \E r \in Request :
                 CreateRequest(r) \/ TakeRequest(r) \/ ExpireRequest(r)
           \/ ReconcileDeletion
    PROVE  /\ ApiTypeOK'
           /\ StoreTypeOK'
           /\ ReconcilerTypeOK'
           /\ DeletionTypeOK'
           /\ bd'.pc # "idle" => bd'.req \in Request
<1> DEFINE Kept == ApiTypeOK' /\ StoreTypeOK' /\ ReconcilerTypeOK'
           Moved == /\ DeletionTypeOK'
                    /\ bd'.pc # "idle" => bd'.req \in Request
<1>1. ASSUME NEW r \in Request, CreateRequest(r) PROVE Kept /\ Moved
  BY <1>1 DEF CreateRequest, apiVars, reconcilerVars, ApiTypeOK, StoreTypeOK,
     ReconcilerTypeOK, DeletionTypeOK, RequestPhases
<1>2. ASSUME NEW r \in Request, TakeRequest(r) PROVE Kept /\ Moved
  <2>1. Target[r] \in Backup
    BY DeletionAssumption
  <2>2. ApiTypeOK' /\ StoreTypeOK'
    BY <1>2, <2>1, Directories, CallType DEF TakeRequest
  <2>3. req' \in [Request -> RequestPhases]
    BY <1>2, WithoutType DEF TakeRequest
  <2>4. Moved
    <3>1. CASE UNCHANGED bd
      BY <2>3, <3>1 DEF DeletionTypeOK
    <3>2. CASE bd' = BdAt(IF Contains(tracker, Target[r]) THEN "refuse"
                          ELSE "get", r, FALSE, {}, FALSE)
      BY <2>3, <3>2 DEF BdAt, DeletionTypeOK, BdPc
    <3> QED
      BY <1>2, <3>1, <3>2 DEF TakeRequest
  <2> QED
    BY <1>2, <2>2, <2>4 DEF TakeRequest, reconcilerVars, ReconcilerTypeOK
<1>3. ASSUME NEW r \in Request, ExpireRequest(r) PROVE Kept /\ Moved
  BY <1>3 DEF ExpireRequest, apiVars, reconcilerVars, ApiTypeOK, StoreTypeOK,
     ReconcilerTypeOK, DeletionTypeOK, RequestPhases
<1>4. ASSUME bd.pc # "idle", ReconcileDeletion PROVE Kept /\ Moved
  <2>1. bd.req \in Request /\ Target[bd.req] \in Backup
    BY <1>4, DeletionAssumption
  <2>2. req \in [Request -> RequestPhases]
    BY DEF DeletionTypeOK
  <2>3. CASE GetBackup
    <3>1. ApiTypeOK' /\ StoreTypeOK'
      BY <2>1, <2>3, Directories, CallType DEF GetBackup
    <3>2. Moved
      <4>1. (cache[Target[bd.req]].phase = "Deleting") \in BOOLEAN
        OBVIOUS
      <4>2. CASE bd' = BdAt("accept", bd.req,
                            cache[Target[bd.req]].phase = "Deleting", {}, FALSE)
        BY <2>1, <2>2, <2>3, <4>1, <4>2 DEF GetBackup, BdAt, DeletionTypeOK, BdPc
      <4>3. CASE bd' = BdAt("refuse", bd.req, FALSE, {}, FALSE)
        BY <2>1, <2>2, <2>3, <4>3 DEF GetBackup, BdAt, DeletionTypeOK, BdPc
      <4>4. CASE bd' = BdIdle
        BY <2>2, <2>3, <4>4, BdIdleType DEF GetBackup
      <4>5. CASE BdNext("refuse", FALSE)
        BY <2>1, <2>2, <2>3, <4>5, BdNextType DEF GetBackup, BdPc
      <4> QED
        BY <2>3, <4>2, <4>3, <4>4, <4>5 DEF GetBackup
    <3> QED
      BY <2>3, <3>1, <3>2 DEF GetBackup, reconcilerVars, ReconcilerTypeOK
  <2>4. CASE Refuse
    BY <2>4, RequestType, BdIdleType DEF Refuse, RequestPhases, reconcilerVars,
       ApiTypeOK, StoreTypeOK, ReconcilerTypeOK
  <2>5. CASE Accept
    <3>1. /\ req' \in [Request -> RequestPhases]
          /\ faults' \in 0 .. MaxFaults
      BY <2>5, RequestType DEF Accept, RequestPhases
    <3>2. Moved
      BY <2>1, <2>5, <3>1, BdIdleType, BdNextType DEF Accept, BdPc
    <3> QED
      BY <2>5, <3>1, <3>2 DEF Accept, reconcilerVars, ApiTypeOK, StoreTypeOK,
         ReconcilerTypeOK
  <2>6. CASE MarkDeleting
    <3>1. "Deleting" \in Phases
      BY DEF Phases
    <3>2. ApiTypeOK'
      BY <2>1, <2>6, <3>1, PhaseObject, PatchType DEF MarkDeleting
    <3>3. Moved
      BY <2>1, <2>2, <2>6, BdNextType DEF MarkDeleting, BdPc
    <3> QED
      BY <2>6, <3>2, <3>3 DEF MarkDeleting, reconcilerVars, StoreTypeOK,
         ReconcilerTypeOK
  <2>7. CASE CleanUp
    <3>1. ApiTypeOK' /\ StoreTypeOK'
      BY <2>1, <2>7, Directories, CallType DEF CleanUp
    <3>2. Moved
      BY <2>1, <2>2, <2>7, BdNextType DEF CleanUp, BdPc
    <3> QED
      BY <2>7, <3>1, <3>2 DEF CleanUp, reconcilerVars, ReconcilerTypeOK
  <2>8. CASE ListObjects
    <3>1. ApiTypeOK' /\ StoreTypeOK'
      BY <2>1, <2>8, Directories, CallType DEF ListObjects
    <3>2. Moved
      <4>1. CASE bd' = BdAt("objects", bd.req, bd.again,
                            Stored(Target[bd.req]), FALSE)
        <5>1. Stored(Target[bd.req]) \in SUBSET Parts
          BY DEF Stored
        <5> QED
          BY <2>1, <2>2, <2>8, <4>1, <5>1 DEF ListObjects, BdAt, DeletionTypeOK,
             BdPc
      <4>2. CASE BdNext("finish", TRUE)
        BY <2>1, <2>2, <2>8, <4>2, BdNextType DEF ListObjects, BdPc
      <4> QED
        BY <2>8, <4>1, <4>2 DEF ListObjects
    <3> QED
      BY <2>8, <3>1, <3>2 DEF ListObjects, reconcilerVars, ReconcilerTypeOK
  <2>9. ASSUME NEW part \in Parts, DeleteObject(part) PROVE Kept /\ Moved
    <3>1. Without(Target[bd.req], part) \in Directory
      BY <2>1, Directories DEF Without
    <3>2. ApiTypeOK' /\ StoreTypeOK'
      BY <2>1, <2>9, <3>1, CallType DEF DeleteObject
    <3>3. PICK errs \in BOOLEAN :
             bd' = BdAt("objects", bd.req, bd.again, bd.todo \ {part}, errs)
      BY <2>9 DEF DeleteObject, DeletionTypeOK
    <3>4. Moved
      BY <2>1, <2>2, <2>9, <3>3 DEF DeleteObject, BdAt, DeletionTypeOK, BdPc
    <3> QED
      BY <2>9, <3>2, <3>4 DEF DeleteObject, reconcilerVars, ReconcilerTypeOK
  <2>10. CASE ObjectsDone
    <3>1. ApiTypeOK' /\ StoreTypeOK'
      BY <2>1, <2>10, Directories, CallType DEF ObjectsDone
    <3>2. Moved
      <4>1. bd.errs \in BOOLEAN
        BY DEF DeletionTypeOK
      <4> QED
        BY <2>1, <2>2, <2>10, <4>1, BdNextType DEF ObjectsDone, BdPc
    <3> QED
      BY <2>10, <3>1, <3>2 DEF ObjectsDone, reconcilerVars, ReconcilerTypeOK
  <2>11. CASE DeleteBackup
    <3>1. Gone \in Object
      BY DEF Gone, Object
    <3>2. ApiTypeOK'
      BY <2>1, <2>11, <3>1, PatchType DEF DeleteBackup
    <3>3. Moved
      BY <2>1, <2>2, <2>11, BdNextType DEF DeleteBackup, BdPc
    <3> QED
      BY <2>11, <3>2, <3>3 DEF DeleteBackup, reconcilerVars, StoreTypeOK,
         ReconcilerTypeOK
  <2>12. CASE Finish
    <3>1. /\ req' \in [Request -> RequestPhases]
          /\ faults' \in 0 .. MaxFaults
      BY <2>12, RequestType DEF Finish, RequestPhases
    <3>2. Moved
      BY <2>1, <2>12, <3>1, BdIdleType, BdNextType DEF Finish, BdPc
    <3> QED
      BY <2>12, <3>1, <3>2 DEF Finish, reconcilerVars, ApiTypeOK, StoreTypeOK,
         ReconcilerTypeOK
  <2>13. CASE Sweep
    <3>1. req' \in [Request -> RequestPhases]
      BY <2>2, <2>13, WithoutType DEF Sweep
    <3>2. faults' \in 0 .. MaxFaults
      BY <2>13, ApiAssumption DEF Sweep, ApiTypeOK
    <3> QED
      BY <2>13, <3>1, <3>2, BdIdleType DEF Sweep, reconcilerVars, ApiTypeOK,
         StoreTypeOK, ReconcilerTypeOK
  <2> QED
    BY <1>4, <2>3, <2>4, <2>5, <2>6, <2>7, <2>8, <2>9, <2>10, <2>11, <2>12,
       <2>13 DEF ReconcileDeletion
<1>5. ReconcileDeletion => bd.pc # "idle"
  BY DEF ReconcileDeletion, GetBackup, Refuse, Accept, MarkDeleting, CleanUp,
     ListObjects, DeleteObject, ObjectsDone, DeleteBackup, Finish, Sweep
<1> QED
  BY <1>1, <1>2, <1>3, <1>4, <1>5

-----------------------------------------------------------------------------
\* The steps of the sync controller.
LEMMA SyncTypes ==
    ASSUME ApiTypeOK, StoreTypeOK, SyncTypeOK,
           sy.pc = "create" => sy.key \in Backup, Sync
    PROVE  /\ ApiTypeOK'
           /\ StoreTypeOK'
           /\ SyncTypeOK'
           /\ sy'.pc = "create" => sy'.key \in Backup
<1> DEFINE Moved == /\ SyncTypeOK'
                    /\ sy'.pc = "create" => sy'.key \in Backup
<1>1. \A b : Skip(b) => Moved
  BY DEF Skip, SyAt, SyncTypeOK, SyPc
<1>2. MaxFaults \in Nat
  BY ApiAssumption
<1>3. ReadError => StoreTypeOK' /\ faults' \in 0 .. MaxFaults
  BY <1>2 DEF ReadError, ApiTypeOK, StoreTypeOK
<1>4. CASE ListStore
  BY <1>4 DEF ListStore, ListBackups, SyAt, apiVars, ApiTypeOK, StoreTypeOK,
     SyncTypeOK, SyPc
<1>5. CASE ListCluster
  <2>1. Moved
    BY <1>5 DEF ListCluster, SyAt, SyncTypeOK, SyPc
  <2> QED
    BY <1>3, <1>5, <2>1 DEF ListCluster, ApiTypeOK, StoreTypeOK
<1>6. ASSUME NEW b \in Backup, CheckStored(b)
      PROVE  ApiTypeOK' /\ StoreTypeOK' /\ Moved
  <2>1. \A p \in {"Completed", "PartiallyFailed", "Failed"} :
            sy' = SyAt("create", sy.listed, sy.todo, b, p) => Moved
    BY DEF SyAt, SyncTypeOK, SyPc
  <2>2. Moved
    BY <1>1, <1>6, <2>1 DEF CheckStored
  <2> QED
    BY <1>3, <1>6, <2>2 DEF CheckStored, ApiTypeOK, StoreTypeOK
<1>7. CASE CreateSynced
  <2>1. sy.key \in Backup /\ [phase |-> sy.phase, pos |-> 0] \in Object
    BY <1>7 DEF CreateSynced, SyncTypeOK, Object, Phases, TerminalPhases
  <2>2. api' \in [Backup -> Object] /\ watch' \in Seq(Change)
    <3>1. CASE Store(sy.key, [phase |-> sy.phase, pos |-> 0])
      BY <2>1, <3>1, StoreType
    <3>2. CASE UNCHANGED <<api, watch>>
      BY <3>2 DEF ApiTypeOK
    <3> QED
      BY <1>7, <3>1, <3>2 DEF CreateSynced
  <2>3. faults' \in 0 .. MaxFaults
    BY <1>2, <1>7 DEF CreateSynced, ApiTypeOK
  <2>4. Moved
    BY <1>1, <1>7 DEF CreateSynced
  <2> QED
    BY <1>7, <2>2, <2>3, <2>4 DEF CreateSynced, ApiTypeOK, StoreTypeOK
<1>8. CASE ListOrphans
  <2>1. Moved
    BY <1>8 DEF ListOrphans, SyIdle, SyAt, SyncTypeOK, SyPc
  <2> QED
    BY <1>3, <1>8, <2>1 DEF ListOrphans, ApiTypeOK, StoreTypeOK
<1>9. ASSUME NEW b \in Backup, DeleteOrphan(b)
      PROVE  ApiTypeOK' /\ StoreTypeOK' /\ Moved
  <2>1. Gone \in Object
    BY DEF Gone, Object
  <2>2. ApiTypeOK'
    BY <1>9, <2>1, PatchType DEF DeleteOrphan
  <2> QED
    BY <1>9, <2>2 DEF DeleteOrphan, SyAt, StoreTypeOK, SyncTypeOK, SyPc
<1>10. CASE Synced
  BY <1>10 DEF Synced, SyIdle, SyAt, apiVars, ApiTypeOK, StoreTypeOK,
     SyncTypeOK, SyPc
<1> QED
  BY <1>4, <1>5, <1>6, <1>7, <1>8, <1>9, <1>10 DEF Sync

-----------------------------------------------------------------------------
TypeInv == TypeOK /\ Keys

\* The initial state is well typed.
LEMMA InitType == Init => TypeInv
<1> SUFFICES ASSUME Init PROVE TypeInv
  OBVIOUS
<1> USE DEF Init
<1>1. ApiTypeOK
  <2>1. Absent \in Object
    BY DEF Absent, Object
  <2>2. MaxFaults \in Nat
    BY ApiAssumption
  <2> QED
    BY <2>1, <2>2 DEF ApiInit, ApiTypeOK
<1>2. StoreTypeOK
  <2>1. {Empty} \cup [meta : Found, contents : {"initial"}, ops : {NoOps}]
            \subseteq Directory
    <3>1. Empty \in Directory
      BY DEF Empty, Directory
    <3>2. Found \subseteq Phases
      BY StoreAssumption DEF Phases, TerminalPhases
    <3>3. [meta : Found, contents : {"initial"}, ops : {NoOps}] \subseteq Directory
      BY <3>2 DEF Directory
    <3> QED
      BY <3>1, <3>3
  <2> QED
    BY <2>1 DEF StoreInit, StoreTypeOK
<1>3. ReconcilerTypeOK
  BY DEF ReconcilerInit, ReconcilerTypeOK, NewBackupTracker, Idle, WorkerPc,
     Phases
<1>4. UploadTypeOK
  BY UpIdleType DEF UploadInit, UploadTypeOK, PluginStates
<1>5. OperationsTypeOK /\ bo.pc = "idle"
  BY NoEntryType DEF OperationsInit, OperationsTypeOK, BoIdle, BoAt, BoPc
<1>6. FinalizerTypeOK /\ bf.pc = "idle"
  BY DEF FinalizerInit, FinalizerTypeOK, BfIdle, BfAt, BfPc
<1>7. DeletionTypeOK /\ bd.pc = "idle"
  BY DEF DeletionInit, DeletionTypeOK, BdIdle, BdAt, BdPc, RequestPhases
<1>8. SyncTypeOK /\ sy.pc = "idle"
  BY StoreAssumption DEF SyncInit, SyncTypeOK, SyIdle, SyAt, SyPc
<1>9. restarts \in 0 .. MaxRestarts
  BY LifecycleAssumption
<1> QED
  BY <1>1, <1>2, <1>3, <1>4, <1>5, <1>6, <1>7, <1>8, <1>9
     DEF TypeInv, TypeOK, Keys

\* What users, the queue and the informer do.
WorldStep ==
    \/ \E b \in Backup :
          \/ CreateBackup(b)
          \/ DeleteObjectOf(b)
          \/ EmptyDirectory(b)
          \/ LetIn(b)
          \/ Resync(b)
    \/ Deliver

LEMMA WorldTypes == TypeInv /\ WorldStep => TypeInv'
<1> SUFFICES ASSUME TypeInv, WorldStep PROVE TypeInv'
  OBVIOUS
<1> USE DEF TypeInv, TypeOK
<1> DEFINE Rest ==
      /\ UploadTypeOK' /\ OperationsTypeOK' /\ DeletionTypeOK'
      /\ SyncTypeOK' /\ Keys'
      /\ restarts' \in 0 .. MaxRestarts
<1>1. ASSUME UNCHANGED <<up, plugin, opsMap, bo, bf, req, bd, sy, restarts>>
      PROVE  Rest
  BY <1>1 DEF UploadTypeOK, OperationsTypeOK, DeletionTypeOK, SyncTypeOK, Keys
<1>2. ASSUME NEW b \in Backup, NEW o \in Object, Store(b, o),
             UNCHANGED <<cache, faults>>
      PROVE  ApiTypeOK'
  BY <1>2, StoreType DEF ApiTypeOK
<1>3. ASSUME NEW b \in Backup, CreateBackup(b) PROVE TypeInv'
  <2>1. [phase |-> "New", pos |-> 0] \in Object
    BY DEF Object, Phases
  <2>2. ApiTypeOK' /\ Rest
    BY <1>1, <1>2, <1>3, <2>1 DEF CreateBackup, controllerVars
  <2> QED
    BY <1>3, <2>2 DEF CreateBackup, controllerVars, StoreTypeOK,
       ReconcilerTypeOK, FinalizerTypeOK
<1>4. ASSUME NEW b \in Backup, DeleteObjectOf(b) PROVE TypeInv'
  <2>1. Gone \in Object
    BY DEF Gone, Object
  <2>2. ApiTypeOK' /\ Rest
    BY <1>1, <1>2, <1>4, <2>1 DEF DeleteObjectOf, controllerVars
  <2> QED
    BY <1>4, <2>2 DEF DeleteObjectOf, controllerVars, StoreTypeOK,
       ReconcilerTypeOK, FinalizerTypeOK
<1>5. ASSUME NEW b \in Backup, EmptyDirectory(b) PROVE TypeInv'
  <2>1. StoreTypeOK'
    BY <1>5, Directories DEF EmptyDirectory, StoreTypeOK
  <2>2. Rest
    BY <1>1, <1>5 DEF EmptyDirectory, controllerVars
  <2> QED
    BY <1>5, <2>1, <2>2 DEF EmptyDirectory, apiVars, controllerVars, ApiTypeOK,
       ReconcilerTypeOK, FinalizerTypeOK
<1>6. ASSUME NEW b \in Backup, LetIn(b) PROVE TypeInv'
  <2>1. [phase |-> "ReadyToStart", pos |-> 0] \in Object
    BY DEF Object, Phases
  <2>2. ApiTypeOK' /\ Rest
    BY <1>1, <1>2, <1>6, <2>1 DEF LetIn
  <2>3. ReconcilerTypeOK'
    BY <1>6 DEF LetIn, AddReadyToStart, ReconcilerTypeOK
  <2> QED
    BY <1>6, <2>2, <2>3 DEF LetIn, StoreTypeOK, FinalizerTypeOK
<1>7. ASSUME NEW b \in Backup, NEW old, NEW new, Notify(b, old, new)
      PROVE  StoreTypeOK' /\ ReconcilerTypeOK' /\ FinalizerTypeOK' /\ Rest
  <2>1. Rest
    BY <1>1, <1>7 DEF Notify
  <2> QED
    BY <1>7, <2>1 DEF Notify, BackupKeysOn, StoreTypeOK, ReconcilerTypeOK,
       FinalizerTypeOK
<1>8. ASSUME NEW b \in Backup, Resync(b) PROVE TypeInv'
  <2>1. ApiTypeOK'
    BY <1>8 DEF Resync, Notify, ApiTypeOK
  <2> QED
    BY <1>7, <1>8, <2>1 DEF Resync
<1>9. CASE Deliver
  <2>1. Head(watch) \in Change /\ Tail(watch) \in Seq(Change)
    BY <1>9, HeadTailProperties DEF Deliver, ApiTypeOK
  <2>2. Head(watch).key \in Backup /\ Head(watch).obj \in Object
    BY <2>1 DEF Change
  <2>3. ApiTypeOK'
    BY <1>9, <2>1, <2>2 DEF Deliver, Notify, ApiTypeOK
  <2> QED
    BY <1>7, <1>9, <2>2, <2>3 DEF Deliver
<1> QED
  BY <1>3, <1>4, <1>5, <1>6, <1>8, <1>9 DEF WorldStep

\* The server restarts.
LEMMA RestartTypes ==
    ASSUME TypeInv, NEW missed \in SUBSET Backup, Restart(missed)
    PROVE  TypeInv'
<1> USE DEF TypeInv, TypeOK
<1>1. restarts' \in 0 .. MaxRestarts
  BY LifecycleAssumption DEF Restart
<1>2. faults' \in 0 .. MaxFaults
  <2>1. Cardinality(missed) \in Nat
    BY ApiAssumption, FS_Subset, FS_CardinalityType
  <2> QED
    BY <2>1, ApiAssumption DEF Restart, MarkInProgressFailed, ApiTypeOK
<1>3. api' \in [Backup -> Object]
  <2>1. \A b \in Backup : [phase |-> "Failed", pos |-> api[b].pos] \in Object
    BY PhaseObject DEF Phases, TerminalPhases
  <2> QED
    BY <2>1 DEF Restart, MarkInProgressFailed, ApiTypeOK
<1>4. watch' \in Seq(Change) /\ cache' = api'
  BY DEF Restart, RelistCache
<1>5. ApiTypeOK'
  BY <1>2, <1>3, <1>4 DEF ApiTypeOK
<1>6. ReconcilerTypeOK'
  BY DEF Restart, ReconcilerTypeOK, NewBackupTracker, Idle, WorkerPc, Phases
<1>7. StoreTypeOK' /\ UploadTypeOK'
  BY UpIdleType DEF Restart, StoreTypeOK, UploadTypeOK
<1>8. OperationsTypeOK' /\ bo'.pc = "idle"
  BY NoEntryType DEF Restart, OperationsTypeOK, BoIdle, BoAt, BoPc
<1>9. FinalizerTypeOK' /\ bf'.pc = "idle"
  <2>1. fkeys' \in SUBSET Backup
    BY DEF Restart
  <2> QED
    BY <2>1 DEF Restart, FinalizerTypeOK, BfIdle, BfAt, BfPc
<1>10. DeletionTypeOK' /\ bd'.pc = "idle"
  BY BdIdleType DEF Restart, DeletionTypeOK
<1>11. SyncTypeOK' /\ sy'.pc = "idle"
  BY DEF Restart, SyncTypeOK, SyIdle, SyAt, SyPc
<1> QED
  BY <1>1, <1>5, <1>6, <1>7, <1>8, <1>9, <1>10, <1>11 DEF Keys

\* Every step keeps the types.
LEMMA NextType == TypeInv /\ [Next]_vars => TypeInv'
<1> SUFFICES ASSUME TypeInv, [Next]_vars PROVE TypeInv'
  OBVIOUS
<1> USE DEF TypeInv, TypeOK
<1>1. CASE WorldStep
  BY <1>1, WorldTypes
<1>2. ASSUME NEW b \in Backup,
             \/ BackupStep(Reconcile(b))
             \/ BackupStep(Upload(b))
             \/ BackupStep(\E o \in Op : PluginEnds(b, o))
      PROVE  TypeInv'
  <2>1. BasicTypes
    BY DEF BasicTypes
  <2>2. Reconcile(b) \/ Upload(b) \/ \E o \in Op : PluginEnds(b, o)
    BY <1>2 DEF BackupStep
  <2>3. BasicTypes'
    BY <2>1, <2>2, ReconcileTypes, UploadTypes, PluginTypes
  <2>4. UNCHANGED <<operationsVars, finalizerVars, deletionVars, sy, restarts>>
    BY <1>2 DEF BackupStep
  <2> QED
    BY <2>3, <2>4 DEF BasicTypes, operationsVars, finalizerVars, deletionVars,
       OperationsTypeOK, FinalizerTypeOK, DeletionTypeOK, SyncTypeOK, Keys
<1>3. CASE \/ \E b \in Backup : OperationsStep(TakeWaiting(b))
           \/ \E b \in MayDownload : OperationsStep(DownloadOperations(b))
           \/ OperationsStep(ReconcileOperations)
  <2>1. BasicTypes
    BY DEF BasicTypes
  <2>2. \/ \E b \in Backup : TakeWaiting(b) \/ DownloadOperations(b)
        \/ ReconcileOperations
    BY <1>3, LifecycleAssumption DEF OperationsStep
  <2>3. BasicTypes' /\ OperationsTypeOK' /\ (bo'.pc # "idle" => bo'.key \in Backup)
    BY <2>1, <2>2, PollTypes DEF Keys
  <2>4. UNCHANGED <<finalizerVars, deletionVars, sy, restarts>>
    BY <1>3 DEF OperationsStep
  <2> QED
    BY <2>3, <2>4 DEF BasicTypes, finalizerVars, deletionVars, FinalizerTypeOK,
       DeletionTypeOK, SyncTypeOK, Keys
<1>4. CASE \/ \E b \in Backup : FinalizerStep(TakeFinalizing(b))
           \/ FinalizerStep(Finalize)
  <2>1. BasicTypes
    BY DEF BasicTypes
  <2>2. (\E b \in Backup : TakeFinalizing(b)) \/ Finalize
    BY <1>4 DEF FinalizerStep
  <2>3. /\ BasicTypes' /\ OperationsTypeOK' /\ FinalizerTypeOK' /\ UNCHANGED bo
        /\ bf'.pc # "idle" => bf'.key \in Backup
    BY <2>1, <2>2, FinalizeTypes DEF Keys
  <2>4. UNCHANGED <<deletionVars, sy, restarts>>
    BY <1>4 DEF FinalizerStep
  <2> QED
    BY <2>3, <2>4 DEF BasicTypes, deletionVars, DeletionTypeOK, SyncTypeOK, Keys
<1>5. CASE \/ \E r \in Request :
                 \/ DeletionStep(CreateRequest(r))
                 \/ DeletionStep(TakeRequest(r))
                 \/ DeletionStep(ExpireRequest(r))
           \/ DeletionStep(ReconcileDeletion)
  <2>1. \/ \E r \in Request :
              CreateRequest(r) \/ TakeRequest(r) \/ ExpireRequest(r)
        \/ ReconcileDeletion
    BY <1>5 DEF DeletionStep
  <2>2. /\ ApiTypeOK' /\ StoreTypeOK' /\ ReconcilerTypeOK' /\ DeletionTypeOK'
        /\ bd'.pc # "idle" => bd'.req \in Request
    BY <2>1, DeletionTypes DEF Keys
  <2>3. UNCHANGED <<uploadVars, operationsVars, finalizerVars, sy, restarts>>
    BY <1>5 DEF DeletionStep
  <2> QED
    BY <2>2, <2>3 DEF uploadVars, operationsVars, finalizerVars, UploadTypeOK,
       OperationsTypeOK, FinalizerTypeOK, SyncTypeOK, Keys
<1>6. CASE SyncStep(Sync)
  <2>1. /\ ApiTypeOK' /\ StoreTypeOK' /\ SyncTypeOK'
        /\ sy'.pc = "create" => sy'.key \in Backup
    BY <1>6, SyncTypes DEF SyncStep, Keys
  <2>2. UNCHANGED <<reconcilerVars, uploadVars, operationsVars, finalizerVars,
                    deletionVars, restarts>>
    BY <1>6 DEF SyncStep
  <2> QED
    BY <2>1, <2>2 DEF reconcilerVars, uploadVars, operationsVars, finalizerVars,
       deletionVars, ReconcilerTypeOK, UploadTypeOK, OperationsTypeOK,
       FinalizerTypeOK, DeletionTypeOK, Keys
<1>7. ASSUME NEW missed \in SUBSET Backup, Restart(missed) PROVE TypeInv'
  BY <1>7, RestartTypes
<1>8. CASE UNCHANGED vars
  BY <1>8 DEF vars, controllerVars, ApiTypeOK, StoreTypeOK, ReconcilerTypeOK,
     UploadTypeOK, OperationsTypeOK, FinalizerTypeOK, DeletionTypeOK,
     SyncTypeOK, Keys
<1> QED
  BY <1>1, <1>2, <1>3, <1>4, <1>5, <1>6, <1>7, <1>8, LifecycleAssumption
     DEF Next, WorldStep

\* Type correctness: whatever calls fail, however often the server restarts
\* and whoever deletes, every controller's state stays well typed.
THEOREM TypeCorrect == Spec => []TypeOK
<1>1. Init => TypeInv
  BY InitType
<1>2. TypeInv /\ [Next]_vars => TypeInv'
  BY NextType
<1>3. TypeInv => TypeOK
  BY DEF TypeInv
<1> QED
  BY <1>1, <1>2, <1>3, PTL DEF Spec

-----------------------------------------------------------------------------
(***************************************************************************)
(* The cache: it is behind the API server by the changes under way to it.  *)
(***************************************************************************)
CacheBehind ==
    /\ \A b \in Backup :
          (\A i \in 1 .. Len(watch) : watch[i].key # b) => cache[b] = api[b]
    /\ \A i \in 1 .. Len(watch) :
          (\A j \in i + 1 .. Len(watch) : watch[j].key # watch[i].key) =>
              watch[i].obj = api[watch[i].key]

\* A cache that may be read is the API server's state, if reads are fresh.
LEMMA FreshCache ==
    ASSUME FreshReads, ApiTypeOK, CacheBehind, CanRead
    PROVE  cache = api
<1>1. watch = <<>>
  BY DEF CanRead
<1>2. \A b \in Backup : cache[b] = api[b]
  BY <1>1 DEF CacheBehind
<1> QED
  BY <1>2 DEF ApiTypeOK

\* A change that the API server stores is under way to the cache.
LEMMA StoreCache ==
    ASSUME ApiTypeOK, CacheBehind, NEW b \in Backup, NEW o \in Object,
           Store(b, o), UNCHANGED cache
    PROVE  CacheBehind'
<1> USE DEF ApiTypeOK
<1>1. api' = [api EXCEPT ![b] = o]
  BY DEF Store
<1>2. CASE o = api[b]
  BY <1>1, <1>2 DEF Store, CacheBehind
<1>3. CASE o # api[b]
  <2> DEFINE e == [key |-> b, obj |-> o]
  <2>1. e \in Change
    BY DEF Change
  <2>2. watch' = Append(watch, e)
    BY <1>3 DEF Store
  <2> HIDE DEF e
  <2>3. /\ Len(watch') = Len(watch) + 1
        /\ \A i \in 1 .. Len(watch) : watch'[i] = watch[i]
        /\ watch'[Len(watch) + 1] = e
        /\ Len(watch) \in Nat
    BY <2>1, <2>2, AppendProperties
  <2>4. ASSUME NEW c \in Backup, \A i \in 1 .. Len(watch') : watch'[i].key # c
        PROVE  cache'[c] = api'[c]
    <3>1. c # b
      BY <2>3, <2>4 DEF e
    <3>2. \A i \in 1 .. Len(watch) : watch[i].key # c
      BY <2>3, <2>4
    <3> QED
      BY <1>1, <3>1, <3>2 DEF CacheBehind
  <2>5. ASSUME NEW i \in 1 .. Len(watch'),
               \A j \in i + 1 .. Len(watch') : watch'[j].key # watch'[i].key
        PROVE  watch'[i].obj = api'[watch'[i].key]
    <3>1. CASE i = Len(watch) + 1
      BY <1>1, <2>3, <3>1 DEF e
    <3>2. CASE i \in 1 .. Len(watch)
      <4>1. watch[i].key # b
        <5>1. Len(watch) + 1 \in i + 1 .. Len(watch')
          BY <2>3, <3>2
        <5>2. watch'[Len(watch) + 1].key # watch'[i].key
          BY <2>5, <5>1
        <5> QED
          BY <2>3, <3>2, <5>2 DEF e
      <4>2. \A j \in i + 1 .. Len(watch) : watch[j].key # watch[i].key
        BY <2>3, <2>5, <3>2
      <4>3. watch[i].key \in Backup
        <5>1. watch[i] \in Change
          BY <3>2, ElementOfSeq
        <5> QED
          BY <5>1 DEF Change
      <4> QED
        BY <1>1, <2>3, <3>2, <4>1, <4>2, <4>3 DEF CacheBehind
    <3> QED
      BY <2>3, <3>1, <3>2
  <2> QED
    BY <2>4, <2>5 DEF CacheBehind
<1> QED
  BY <1>2, <1>3

\* So is one that comes with a patch.
LEMMA PatchCache ==
    ASSUME ApiTypeOK, CacheBehind, NEW b \in Backup, NEW o \in Object,
           PatchOk(b, o) \/ PatchError(b, o), UNCHANGED cache
    PROVE  CacheBehind'
<1>1. CASE Store(b, o)
  BY <1>1, StoreCache
<1>2. CASE UNCHANGED <<api, watch>>
  BY <1>2 DEF CacheBehind
<1> QED
  BY <1>1, <1>2 DEF PatchOk, PatchError

\* What the informer applies stays so.
LEMMA DeliverCache ==
    ASSUME ApiTypeOK, CacheBehind, Deliver PROVE CacheBehind'
<1> USE DEF ApiTypeOK
<1>1. /\ watch \in Seq(Change)
      /\ watch # <<>>
      /\ watch' = Tail(watch)
      /\ api' = api
      /\ cache' = [cache EXCEPT ![Head(watch).key] = Head(watch).obj]
  BY DEF Deliver, Notify
<1>2. /\ Len(watch') = Len(watch) - 1
      /\ \A i \in 1 .. Len(watch') : watch'[i] = watch[i + 1]
      /\ Len(watch) \in Nat \ {0}
      /\ Head(watch) = watch[1]
      /\ watch[1] \in Change
  BY <1>1, HeadTailProperties
<1>3. ASSUME NEW c \in Backup, \A i \in 1 .. Len(watch') : watch'[i].key # c
      PROVE  cache'[c] = api'[c]
  <2>1. \A i \in 2 .. Len(watch) : watch[i].key # c
    <3> TAKE i \in 2 .. Len(watch)
    <3>1. i - 1 \in 1 .. Len(watch') /\ watch'[i - 1] = watch[i]
      BY <1>2
    <3> QED
      BY <1>3, <3>1
  <2>2. CASE watch[1].key = c
    <3>1. watch[1].obj = api[watch[1].key]
      BY <1>2, <2>1, <2>2 DEF CacheBehind
    <3> QED
      BY <1>1, <1>2, <2>2, <3>1 DEF Change
  <2>3. CASE watch[1].key # c
    <3>1. cache[c] = api[c]
      BY <1>2, <2>1, <2>3 DEF CacheBehind
    <3> QED
      BY <1>1, <1>2, <2>3, <3>1
  <2> QED
    BY <2>2, <2>3
<1>4. ASSUME NEW i \in 1 .. Len(watch'),
             \A j \in i + 1 .. Len(watch') : watch'[j].key # watch'[i].key
      PROVE  watch'[i].obj = api'[watch'[i].key]
  <2>1. i + 1 \in 1 .. Len(watch) /\ watch'[i] = watch[i + 1]
    BY <1>2
  <2>2. \A j \in i + 2 .. Len(watch) : watch[j].key # watch[i + 1].key
    <3> TAKE j \in i + 2 .. Len(watch)
    <3>1. /\ j - 1 \in i + 1 .. Len(watch')
          /\ watch'[j - 1] = watch[j]
      BY <1>2
    <3> QED
      BY <1>4, <2>1, <3>1
  <2> QED
    BY <1>1, <2>1, <2>2 DEF CacheBehind
<1> QED
  BY <1>3, <1>4 DEF CacheBehind

\* Every step keeps the cache behind the API server by the changes under way.
LEMMA NextCache == TypeInv /\ CacheBehind /\ [Next]_vars => CacheBehind'
<1> SUFFICES ASSUME TypeInv, CacheBehind, [Next]_vars PROVE CacheBehind'
  OBVIOUS
<1> USE DEF TypeInv, TypeOK
<1>1. ASSUME UNCHANGED <<api, watch, cache>> PROVE CacheBehind'
  BY <1>1 DEF CacheBehind
<1>2. ASSUME NEW b \in Backup,
             \/ CreateBackup(b) \/ DeleteObjectOf(b) \/ EmptyDirectory(b)
             \/ LetIn(b) \/ Resync(b)
      PROVE  CacheBehind'
  <2>1. /\ [phase |-> "New", pos |-> 0] \in Object
        /\ [phase |-> "ReadyToStart", pos |-> 0] \in Object
        /\ Gone \in Object
    BY DEF Object, Phases, Gone
  <2> QED
    BY <1>1, <1>2, <2>1, StoreCache DEF CreateBackup, DeleteObjectOf, LetIn,
       EmptyDirectory, Resync, Notify, apiVars
<1>3. CASE Deliver
  BY <1>3, DeliverCache
<1>4. ASSUME NEW b \in Backup,
             Reconcile(b) \/ Upload(b) \/ \E o \in Op : PluginEnds(b, o)
      PROVE  CacheBehind'
  <2>1. ASSUME NEW phase \in Verdicts, PatchStarted(b, phase) PROVE CacheBehind'
    <3>1. phase \in Phases
      BY DEF Verdicts, Phases, TerminalPhases
    <3> QED
      BY <2>1, <3>1, PhaseObject, PatchCache DEF PatchStarted
  <2>2. CASE PatchFinished(b)
    <3>1. bw[b].phase \in Phases
      BY DEF ReconcilerTypeOK
    <3> QED
      BY <2>2, <3>1, PhaseObject, PatchCache DEF PatchFinished
  <2> QED
    BY <1>1, <1>4, <2>1, <2>2 DEF Reconcile, TakeBackup, TrackStarted,
       LeaveBackup, Upload, BackUp, PutMetadata, PutContents, PutLists,
       UndoContents, UndoMetadata, BackedUp, RunBackup, PluginEnds, apiVars
<1>5. CASE \/ \E b \in Backup : TakeWaiting(b) \/ DownloadOperations(b)
           \/ ReconcileOperations
  <2>1. CASE PatchPolled
    <3>1. bo.key \in Backup /\ bo.phase \in Phases
      BY <2>1 DEF PatchPolled, OperationsTypeOK, Keys, Phases, TerminalPhases
    <3> QED
      BY <2>1, <3>1, PhaseObject, PatchCache DEF PatchPolled
  <2> QED
    BY <1>1, <1>5, <2>1 DEF TakeWaiting, DownloadOperations,
       ReconcileOperations, LocationGone, Poll, PollError, PutPhase, PutOps,
       LeaveOperations, apiVars
<1>6. CASE (\E b \in Backup : TakeFinalizing(b)) \/ Finalize
  <2>1. CASE PatchFinal
    <3>1. bf.key \in Backup /\ bf.phase \in Phases
      BY <2>1 DEF PatchFinal, FinalizerTypeOK, Keys, Phases, TerminalPhases
    <3> QED
      BY <2>1, <3>1, PhaseObject, PatchCache DEF PatchFinal
  <2> QED
    BY <1>1, <1>6, <2>1 DEF TakeFinalizing, Finalize, Prepare, PrepareError,
       PutFinalMetadata, PutFinalContents, TrackFinal, apiVars
<1>7. CASE \/ \E r \in Request :
                 CreateRequest(r) \/ TakeRequest(r) \/ ExpireRequest(r)
           \/ ReconcileDeletion
  <2>1. CASE MarkDeleting
    <3>1. Target[bd.req] \in Backup /\ "Deleting" \in Phases
      BY <2>1, DeletionAssumption DEF MarkDeleting, Keys, Phases
    <3> QED
      BY <2>1, <3>1, PhaseObject, PatchCache DEF MarkDeleting
  <2>2. CASE DeleteBackup
    <3>1. Target[bd.req] \in Backup /\ Gone \in Object
      BY <2>2, DeletionAssumption DEF DeleteBackup, Keys, Gone, Object
    <3> QED
      BY <2>2, <3>1, PatchCache DEF DeleteBackup
  <2> QED
    BY <1>1, <1>7, <2>1, <2>2 DEF CreateRequest, TakeRequest, ExpireRequest,
       ReconcileDeletion, GetBackup, Refuse, Accept, CleanUp, ListObjects,
       DeleteObject, ObjectsDone, Finish, Sweep, apiVars
<1>8. CASE Sync
  <2>1. CASE CreateSynced
    <3>1. sy.key \in Backup /\ [phase |-> sy.phase, pos |-> 0] \in Object
      BY <2>1 DEF CreateSynced, Keys, SyncTypeOK, Object, Phases, TerminalPhases
    <3> QED
      BY <1>1, <2>1, <3>1, StoreCache DEF CreateSynced
  <2>2. ASSUME NEW b \in Backup, DeleteOrphan(b) PROVE CacheBehind'
    <3>1. Gone \in Object
      BY DEF Gone, Object
    <3> QED
      BY <2>2, <3>1, PatchCache DEF DeleteOrphan
  <2> QED
    BY <1>1, <1>8, <2>1, <2>2 DEF Sync, ListStore, ListCluster, CheckStored,
       ListOrphans, Synced, apiVars
<1>9. ASSUME NEW missed \in SUBSET Backup, Restart(missed) PROVE CacheBehind'
  <2>1. watch' = <<>> /\ cache' = api'
    BY <1>9 DEF Restart, RelistCache
  <2> QED
    BY <2>1 DEF CacheBehind
<1>10. CASE UNCHANGED vars
  BY <1>1, <1>10 DEF vars
<1> QED
  BY <1>2, <1>3, <1>4, <1>5, <1>6, <1>7, <1>8, <1>9, <1>10, LifecycleAssumption
     DEF Next, BackupStep, OperationsStep, FinalizerStep, DeletionStep, SyncStep

-----------------------------------------------------------------------------
(***************************************************************************)
(* What each controller knows of the phase of the backup it works on.  It  *)
(* has read that phase earlier; that it still holds when the controller    *)
(* patches the backup rests on the controllers taking backups in phases    *)
(* that no other of them writes, on fresh reads, on a patch that is        *)
(* reported as failed not having been applied, and on nobody deleting or   *)
(* recreating the object under way.                                        *)
(***************************************************************************)
Undisturbed == FreshReads /\ ~LostReplies /\ Request = {} /\ ~Syncing

Live(b) == api[b].phase # "Gone"

WorkerInv ==
    \A b \in Backup :
        /\ bw[b].pc = "prepared" => api[b].phase \in {"ReadyToStart", "Gone"}
        /\ bw[b].pc = "patched" =>
              /\ bw[b].phase \in Verdicts
              /\ api[b].phase \in {bw[b].phase, "Gone"}
        /\ bw[b].pc \in {"running", "finishing"} =>
              api[b].phase \in {"InProgress", "Gone"}
        /\ bw[b].pc = "finishing" => bw[b].phase \in PostPhases \cup {"Failed"}
        /\ up[b].pc # "idle" => bw[b].pc = "running"

Acting == {"poll", "putMetadata", "putOps", "patch"}

PollerInv ==
    /\ bo.pc # "idle" => bo.was \in WaitingPhases
    /\ bo.pc = "poll" => bo.phase = bo.was
    /\ bo.pc \in Acting =>
          /\ api[bo.key].phase \in {bo.was, "Gone"}
          /\ bo.phase \in Moves(bo.was) \cup {bo.was}

\* The finalizer has decided on a phase and not yet written it.
Deciding ==
    \/ bf.pc \notin {"idle", "patch"}
    \/ bf.pc = "patch" /\ bf.phase # "New"

DecisionInv ==
    Deciding /\ Live(bf.key) =>
        /\ api[bf.key].phase \in FinalizingPhases
        /\ bf.phase = FinalPhase(api[bf.key].phase)

\* Nobody asks for a deletion, nothing is synced.
Quiet == bd.pc = "idle" /\ sy.pc = "idle"

PhaseInv == WorkerInv /\ PollerInv /\ DecisionInv /\ Quiet

PhaseBasis == TypeInv /\ CacheBehind /\ PhaseInv

\* The moves of the design that the controllers make.
LEMMA MovesFacts ==
    /\ "New" \in Moves("Absent")
    /\ "ReadyToStart" \in Moves("New")
    /\ Verdicts \subseteq Moves("ReadyToStart")
    /\ PostPhases \cup {"Failed"} \subseteq Moves("InProgress")
    /\ \A w \in WaitingPhases : "PartiallyFailed" \in Moves(w)
    /\ \A p \in FinalizingPhases : FinalPhase(p) \in Moves(p)
<1> USE DEF Moves, Phases, PostPhases, TerminalPhases
<1>1. "New" \in Moves("Absent") /\ "ReadyToStart" \in Moves("New")
  OBVIOUS
<1>2. Verdicts \subseteq Moves("ReadyToStart")
  BY DEF Verdicts
<1>3. PostPhases \cup {"Failed"} \subseteq Moves("InProgress")
  OBVIOUS
<1>4. \A w \in WaitingPhases : "PartiallyFailed" \in Moves(w)
  BY DEF WaitingPhases
<1>5. \A p \in FinalizingPhases : FinalPhase(p) \in Moves(p)
  BY DEF FinalizingPhases, FinalPhase
<1> QED
  BY <1>1, <1>2, <1>3, <1>4, <1>5

\* So is what the operations controller makes of a phase.
LEMMA NextPhaseMoves ==
    ASSUME NEW w \in WaitingPhases, NEW ops, NEW errs
    PROVE  NextPhase(w, ops, errs) \in Moves(w) \cup {w}
BY DEF NextPhase, WaitingPhases, Moves, Phases, PostPhases, TerminalPhases

\* The steps of the backup controller.
LEMMA ReconcilePhases ==
    ASSUME Undisturbed, PhaseBasis, NEW b \in Backup, BackupStep(Reconcile(b))
    PROVE  PhaseInv' /\ PhasesMove
<1> USE DEF PhaseBasis, TypeInv, TypeOK, PhaseInv
<1>1. /\ api \in [Backup -> Object]
      /\ bw \in [Backup -> [pc : WorkerPc, phase : Phases]]
  BY DEF ApiTypeOK, ReconcilerTypeOK
<1>2. UNCHANGED <<up, bo, bf, bd, sy>>
  BY DEF BackupStep, Reconcile, uploadVars, operationsVars, finalizerVars,
     deletionVars
<1>3. bo.pc # "idle" => bo.key \in Backup
  BY DEF Keys
<1>4. CASE TakeBackup(b)
  <2>1. cache = api
    BY <1>4, FreshCache DEF Undisturbed, TakeBackup
  <2> QED
    BY <1>1, <1>2, <1>4, <2>1 DEF TakeBackup, apiVars, WorkerInv, PollerInv,
       DecisionInv, Deciding, Live, Quiet, PhasesMove
<1>5. ASSUME NEW phase \in Verdicts, PatchStarted(b, phase)
      PROVE  PhaseInv' /\ PhasesMove
  <2>1. phase \in {"InProgress", "FailedValidation"}
    BY DEF Verdicts
  <2>2. CASE UNCHANGED api
    BY <1>1, <1>2, <1>5, <2>2 DEF PatchStarted, PatchOk, Store, Exists, Idle, WorkerInv, PollerInv, DecisionInv,
       Deciding, Live, Quiet, PhasesMove
  <2>3. CASE /\ Exists(api[b])
             /\ api' = [api EXCEPT ![b] =
                           [phase |-> phase, pos |-> api[b].pos]]
             /\ bw' = [bw EXCEPT ![b] = [pc |-> "patched", phase |-> phase]]
    BY <1>1, <1>2, <1>3, <1>5, <2>1, <2>3, MovesFacts DEF PatchStarted, Exists,
       WorkerInv, PollerInv, DecisionInv, Deciding, Live, Quiet, PhasesMove,
       WaitingPhases, FinalizingPhases, Acting
  <2> QED
    BY <1>5, <2>2, <2>3 DEF PatchStarted, PatchOk, PatchError, Store,
       Undisturbed
<1>6. CASE TrackStarted(b)
  BY <1>1, <1>2, <1>6 DEF TrackStarted, apiVars, WorkerInv, PollerInv,
     DecisionInv, Deciding, Live, Quiet, PhasesMove, Verdicts
<1>7. CASE PatchFinished(b)
  <2>1. CASE UNCHANGED api
    BY <1>1, <1>2, <1>7, <2>1 DEF PatchFinished, WorkerInv, PollerInv,
       DecisionInv, Deciding, Live, Quiet, PhasesMove
  <2>2. CASE /\ Exists(api[b])
             /\ api' = [api EXCEPT ![b] =
                           [phase |-> bw[b].phase, pos |-> api[b].pos]]
             /\ bw' = [bw EXCEPT ![b] =
                           [pc |-> "leaving", phase |-> bw[b].phase]]
    BY <1>1, <1>2, <1>3, <1>7, <2>2, MovesFacts DEF PatchFinished, Exists,
       WorkerInv, PollerInv, DecisionInv, Deciding, Live, Quiet, PhasesMove,
       WaitingPhases, FinalizingPhases, Acting
  <2> QED
    BY <1>7, <2>1, <2>2 DEF PatchFinished, PatchOk, PatchError, Store,
       Undisturbed
<1>8. CASE LeaveBackup(b)
  BY <1>1, <1>2, <1>8 DEF LeaveBackup, apiVars, Idle, WorkerInv, PollerInv,
     DecisionInv, Deciding, Live, Quiet, PhasesMove
<1> QED
  BY <1>4, <1>5, <1>6, <1>7, <1>8 DEF BackupStep, Reconcile

\* The steps of an upload, and of the plugins.
LEMMA UploadPhases ==
    ASSUME PhaseBasis, NEW b \in Backup,
           BackupStep(Upload(b)) \/ BackupStep(\E o \in Op : PluginEnds(b, o))
    PROVE  PhaseInv' /\ PhasesMove
<1> USE DEF PhaseBasis, TypeInv, TypeOK, PhaseInv
<1>1. /\ bw \in [Backup -> [pc : WorkerPc, phase : Phases]]
      /\ up \in [Backup -> [pc : UpPc, phase : RunOutcomes \cup {"Failed"},
                            ops : Operations \cup {NoOps}]]
      /\ RunOutcomes \cup {"Failed"} \subseteq PostPhases \cup {"Failed"}
  BY ReconcilerAssumption DEF ReconcilerTypeOK, UploadTypeOK
<1>2. UNCHANGED <<api, bo, bf, bd, sy>>
  BY DEF BackupStep, Upload, BackUp, PutMetadata, PutContents, PutLists,
     UndoContents, UndoMetadata, BackedUp, RunBackup, PluginEnds, apiVars,
     operationsVars, finalizerVars, deletionVars
<1>3. WorkerInv'
  <2>1. CASE BackUp(b)
    BY <1>1, <1>2, <2>1 DEF BackUp, UpAt, reconcilerVars, WorkerInv
  <2>2. CASE BackedUp(b)
    <3>1. bw' = [bw EXCEPT ![b] = [pc |-> "finishing", phase |-> up[b].phase]]
      BY <2>2 DEF BackedUp, RunBackup
    <3>2. up' = [up EXCEPT ![b] = UpIdle] /\ UpIdle.pc = "idle"
      BY <2>2 DEF BackedUp, UpIdle
    <3>3. bw[b].pc = "running" /\ up[b].phase \in PostPhases \cup {"Failed"}
      BY <1>1, <2>2 DEF BackedUp, RunBackup
    <3> QED
      BY <1>1, <1>2, <3>1, <3>2, <3>3 DEF WorkerInv
  <2>3. CASE UNCHANGED <<bw, up>>
    BY <1>2, <2>3 DEF WorkerInv
  <2>4. ASSUME up[b].pc # "idle", UNCHANGED bw,
               \E pc \in UpPc : \E phase, ops : UpAt(b, pc, phase, ops)
        PROVE  WorkerInv'
    BY <1>1, <1>2, <2>4 DEF UpAt, WorkerInv
  <2> QED
    BY <2>1, <2>2, <2>3, <2>4 DEF BackupStep, Upload, PutMetadata, PutContents,
       PutLists, UndoContents, UndoMetadata, PluginEnds, reconcilerVars, UpPc
<1> QED
  BY <1>2, <1>3 DEF PollerInv, DecisionInv, Deciding, Live, Quiet, PhasesMove

\* The steps of the operations controller.
LEMMA PollPhases ==
    ASSUME Undisturbed, PhaseBasis,
           \/ \E b \in Backup : OperationsStep(TakeWaiting(b))
           \/ \E b \in Backup : OperationsStep(DownloadOperations(b))
           \/ OperationsStep(ReconcileOperations)
    PROVE  PhaseInv' /\ PhasesMove
<1> USE DEF PhaseBasis, TypeInv, TypeOK, PhaseInv
<1>1. /\ api \in [Backup -> Object]
      /\ bo.pc # "idle" => bo.key \in Backup
      /\ bf.pc # "idle" => bf.key \in Backup
  BY DEF ApiTypeOK, Keys
<1>2. UNCHANGED <<bw, up, bf, bd, sy>>
  BY DEF OperationsStep, TakeWaiting, DownloadOperations, ReconcileOperations,
     LocationGone, Poll, PollError, PutPhase, PutOps, PatchPolled,
     LeaveOperations, reconcilerVars, uploadVars, finalizerVars, deletionVars
<1>3. ASSUME UNCHANGED api, PollerInv' PROVE PhaseInv' /\ PhasesMove
  BY <1>2, <1>3 DEF WorkerInv, DecisionInv, Deciding, Live, Quiet, PhasesMove
<1>4. ASSUME NEW b \in Backup, TakeWaiting(b) PROVE PhaseInv' /\ PhasesMove
  <2>1. cache = api
    BY <1>4, FreshCache DEF Undisturbed, TakeWaiting
  <2> QED
    BY <1>3, <1>4, <2>1 DEF TakeWaiting, apiVars, BoAt, PollerInv
<1>5. ASSUME NEW b \in Backup, DownloadOperations(b)
      PROVE  PhaseInv' /\ PhasesMove
  BY <1>3, <1>5 DEF DownloadOperations, PollerInv
<1>6. CASE LocationGone
  BY <1>3, <1>6, MovesFacts DEF LocationGone, apiVars, BoAt, PollerInv, Acting
<1>7. ASSUME NEW late, Poll(late) PROVE PhaseInv' /\ PhasesMove
  <2>1. PICK pc, ops, errs, entry, changes :
           bo' = BoAt(pc, bo.key, bo.was, NextPhase(bo.phase, ops, errs),
                      entry, changes, TRUE)
    BY <1>7 DEF Poll
  <2>2. bo.pc = "poll" /\ UNCHANGED api
    BY <1>7 DEF Poll, apiVars
  <2>3. bo.was \in WaitingPhases /\ bo.phase = bo.was
    BY <2>2 DEF PollerInv
  <2>4. NextPhase(bo.phase, ops, errs) \in Moves(bo.was) \cup {bo.was}
    BY <2>3, NextPhaseMoves
  <2>5. bo'.pc \in {"putMetadata", "leave"}
    BY <1>7 DEF Poll, BoAt
  <2> QED
    BY <1>3, <2>1, <2>2, <2>3, <2>4, <2>5 DEF BoAt, PollerInv, Acting
<1>8. CASE PollError \/ PutPhase \/ PutOps
  BY <1>3, <1>8 DEF PollError, PutPhase, PutOps, BoNext, GiveUp, BoAt, PollerInv,
     Acting
<1>9. CASE PatchPolled
  <2>1. CASE UNCHANGED api
    BY <1>3, <1>9, <2>1 DEF PatchPolled, BoNext, GiveUp, BoAt, PollerInv, Acting
  <2>2. CASE /\ Exists(api[bo.key])
             /\ bo.phase # bo.was
             /\ api' = [api EXCEPT ![bo.key] =
                           [phase |-> bo.phase, pos |-> api[bo.key].pos]]
    <3>1. bo.key \in Backup /\ api[bo.key].phase = bo.was
      BY <1>1, <1>9, <2>2 DEF PatchPolled, Exists, PollerInv, Acting
    <3>2. bo.phase \in Moves(bo.was) /\ bo.was \in WaitingPhases
      BY <1>9, <2>2 DEF PatchPolled, PollerInv, Acting
    <3>3. bo'.pc = "leave" /\ bo'.was = bo.was
      BY <1>9 DEF PatchPolled, BoNext, GiveUp, BoAt
    <3> QED
      BY <1>1, <1>2, <2>2, <3>1, <3>2, <3>3 DEF WorkerInv, PollerInv, DecisionInv,
         Deciding, Live, Quiet, PhasesMove, WaitingPhases, FinalizingPhases,
         Acting, Verdicts
  <2> QED
    BY <1>1, <1>9, <2>1, <2>2 DEF PatchPolled, PatchOk, PatchError, Store,
       Undisturbed
<1>10. CASE LeaveOperations
  BY <1>3, <1>10 DEF LeaveOperations, apiVars, BoIdle, BoAt, PollerInv, Acting
<1> QED
  BY <1>4, <1>5, <1>6, <1>7, <1>8, <1>9, <1>10 DEF OperationsStep,
     ReconcileOperations

\* The steps of the finalizer.
LEMMA FinalizePhases ==
    ASSUME Undisturbed, PhaseBasis,
           \/ \E b \in Backup : FinalizerStep(TakeFinalizing(b))
           \/ FinalizerStep(Finalize)
    PROVE  PhaseInv' /\ PhasesMove
<1> USE DEF PhaseBasis, TypeInv, TypeOK, PhaseInv
<1>1. /\ api \in [Backup -> Object]
      /\ bo.pc # "idle" => bo.key \in Backup
      /\ bf.pc # "idle" => bf.key \in Backup
  BY DEF ApiTypeOK, Keys
<1>2. UNCHANGED <<bw, up, bo, bd, sy>>
  BY DEF FinalizerStep, TakeFinalizing, Finalize, Prepare, PrepareError,
     PutFinalMetadata, PutFinalContents, TrackFinal, PatchFinal,
     reconcilerVars, uploadVars, operationsVars, deletionVars
<1>3. ASSUME UNCHANGED api, DecisionInv' PROVE PhaseInv' /\ PhasesMove
  BY <1>2, <1>3 DEF WorkerInv, PollerInv, Quiet, PhasesMove
<1>4. ASSUME NEW b \in Backup, TakeFinalizing(b) PROVE PhaseInv' /\ PhasesMove
  <2>1. cache = api
    BY <1>4, FreshCache DEF Undisturbed, TakeFinalizing
  <2> QED
    BY <1>3, <1>4, <2>1 DEF TakeFinalizing, apiVars, BfAt, DecisionInv, Deciding,
       Live
<1>5. CASE Prepare \/ PrepareError \/ PutFinalMetadata \/ PutFinalContents
           \/ TrackFinal
  BY <1>3, <1>5 DEF Prepare, PrepareError, PutFinalMetadata, PutFinalContents,
     TrackFinal, Failing, apiVars, BfAt, DecisionInv, Deciding, Live
<1>6. CASE PatchFinal
  <2>1. CASE UNCHANGED api
    BY <1>3, <1>6, <2>1 DEF PatchFinal, BfIdle, BfAt, DecisionInv, Deciding, Live
  <2>2. CASE /\ Exists(api[bf.key])
             /\ bf.phase # "New"
             /\ bf' = BfIdle
             /\ api' = [api EXCEPT ![bf.key] =
                           [phase |-> bf.phase, pos |-> api[bf.key].pos]]
    <3>1. /\ bf.key \in Backup
          /\ api[bf.key].phase \in FinalizingPhases
          /\ bf.phase = FinalPhase(api[bf.key].phase)
      BY <1>1, <1>6, <2>2 DEF PatchFinal, Exists, DecisionInv, Deciding, Live
    <3>2. bf.phase \in Moves(api[bf.key].phase)
      BY <3>1, MovesFacts
    <3>3. bf'.pc = "idle"
      BY <2>2 DEF BfIdle, BfAt
    <3> QED
      BY <1>1, <1>2, <2>2, <3>1, <3>2, <3>3 DEF WorkerInv, PollerInv, DecisionInv,
         Deciding, Live, Quiet, PhasesMove, WaitingPhases, FinalizingPhases,
         Acting, Verdicts
  <2> QED
    BY <1>1, <1>6, <2>1, <2>2 DEF PatchFinal, PatchOk, PatchError, Store,
       Undisturbed
<1> QED
  BY <1>4, <1>5, <1>6 DEF FinalizerStep, Finalize

\* Users, the queue and the informer.
LEMMA WorldPhases ==
    ASSUME Undisturbed, PhaseBasis, WorldStep
    PROVE  PhaseInv' /\ PhasesMove
<1> USE DEF PhaseBasis, TypeInv, TypeOK, PhaseInv
<1>1. /\ api \in [Backup -> Object]
      /\ bo.pc # "idle" => bo.key \in Backup
      /\ bf.pc # "idle" => bf.key \in Backup
  BY DEF ApiTypeOK, Keys
<1>2. UNCHANGED <<bw, up, bo, bf, bd, sy>>
  BY DEF WorldStep, CreateBackup, DeleteObjectOf, EmptyDirectory, LetIn, Resync,
     Deliver, Notify, controllerVars
<1>3. CASE UNCHANGED api
  BY <1>2, <1>3 DEF WorkerInv, PollerInv, DecisionInv, Deciding, Live, Quiet,
     PhasesMove
<1>4. ASSUME NEW b \in Backup, api' = [api EXCEPT ![b] = Gone]
      PROVE  PhaseInv' /\ PhasesMove
  BY <1>1, <1>2, <1>4 DEF Gone, WorkerInv, PollerInv, DecisionInv, Deciding,
     Live, Quiet, PhasesMove
<1>5. ASSUME NEW b \in Backup, api[b].phase = "Absent",
             api' = [api EXCEPT ![b] = [phase |-> "New", pos |-> 0]]
      PROVE  PhaseInv' /\ PhasesMove
  BY <1>1, <1>2, <1>5, MovesFacts DEF WorkerInv, PollerInv, DecisionInv,
     Deciding, Live, Quiet, PhasesMove, Verdicts, WaitingPhases, Acting,
     FinalizingPhases
<1>6. ASSUME NEW b \in Backup, api[b].phase = "New",
             api' = [api EXCEPT ![b] = [phase |-> "ReadyToStart", pos |-> 0]]
      PROVE  PhaseInv' /\ PhasesMove
  BY <1>1, <1>2, <1>6, MovesFacts DEF WorkerInv, PollerInv, DecisionInv,
     Deciding, Live, Quiet, PhasesMove, Verdicts, WaitingPhases, Acting,
     FinalizingPhases
<1>7. ASSUME NEW b \in Backup, CreateBackup(b) PROVE PhaseInv' /\ PhasesMove
  <2>1. api[b].phase = "Absent"
    BY <1>7 DEF CreateBackup, Absent
  <2>2. api' = [api EXCEPT ![b] = [phase |-> "New", pos |-> 0]]
    BY <1>7 DEF CreateBackup, Store
  <2> QED
    BY <1>5, <2>1, <2>2
<1>8. ASSUME NEW b \in Backup, DeleteObjectOf(b) PROVE PhaseInv' /\ PhasesMove
  BY <1>4, <1>8 DEF DeleteObjectOf, Store
<1>9. ASSUME NEW b \in Backup, LetIn(b) PROVE PhaseInv' /\ PhasesMove
  BY <1>6, <1>9 DEF LetIn, Store
<1>10. ASSUME NEW b \in Backup, EmptyDirectory(b) \/ Resync(b) \/ Deliver
       PROVE  UNCHANGED api
  BY <1>10 DEF EmptyDirectory, Resync, Deliver, Notify, apiVars
<1>11. Deliver => UNCHANGED api
  BY DEF Deliver, Notify
<1> QED
  BY <1>3, <1>7, <1>8, <1>9, <1>10, <1>11 DEF WorldStep

\* The server restarts.
LEMMA RestartPhases ==
    ASSUME PhaseBasis, NEW missed, Restart(missed)
    PROVE  PhaseInv' /\ PhasesMove
<1>1. /\ \A b \in Backup : bw'[b].pc = "idle" /\ up'[b].pc = "idle"
      /\ bo'.pc = "idle" /\ bf'.pc = "idle" /\ bd'.pc = "idle" /\ sy'.pc = "idle"
  BY DEF Restart, Idle, UpIdle, BoIdle, BoAt, BfIdle, BfAt, BdIdle, BdAt,
     SyIdle, SyAt
<1>2. \A b \in Backup :
          \/ api'[b] = api[b]
          \/ api[b].phase = "InProgress" /\ api'[b].phase = "Failed"
  BY DEF Restart, MarkInProgressFailed
<1>3. PhasesMove
  BY <1>2, MovesFacts DEF PhasesMove
<1> QED
  BY <1>1, <1>3 DEF PhaseInv, WorkerInv, PollerInv, DecisionInv, Deciding,
     Quiet, Acting

\* The steps there are while nobody asks for a deletion and nothing is synced.
LEMMA Steps ==
    ASSUME Undisturbed, PhaseBasis, [Next]_vars
    PROVE  \/ WorldStep
           \/ \E b \in Backup :
                 \/ BackupStep(Reconcile(b))
                 \/ BackupStep(Upload(b))
                 \/ BackupStep(\E o \in Op : PluginEnds(b, o))
           \/ \E b \in Backup : OperationsStep(TakeWaiting(b))
           \/ \E b \in Backup : OperationsStep(DownloadOperations(b))
           \/ OperationsStep(ReconcileOperations)
           \/ \E b \in Backup : FinalizerStep(TakeFinalizing(b))
           \/ FinalizerStep(Finalize)
           \/ \E missed \in SUBSET Backup : Restart(missed)
           \/ UNCHANGED vars
<1>1. ASSUME SyncStep(Sync) PROVE FALSE
  BY <1>1 DEF SyncStep, Sync, ListStore, ListCluster, CheckStored, CreateSynced,
     ListOrphans, DeleteOrphan, Synced, Undisturbed, PhaseBasis, PhaseInv, Quiet
<1>2. ASSUME DeletionStep(ReconcileDeletion) PROVE FALSE
  BY <1>2 DEF DeletionStep, ReconcileDeletion, GetBackup, Refuse, Accept,
     MarkDeleting, CleanUp, ListObjects, DeleteObject, ObjectsDone,
     DeleteBackup, Finish, Sweep, PhaseBasis, PhaseInv, Quiet
<1> QED
  BY <1>1, <1>2, LifecycleAssumption DEF Next, WorldStep, Undisturbed

\* Every step.
LEMMA NextPhases ==
    Undisturbed /\ PhaseBasis /\ [Next]_vars => PhaseInv' /\ [PhasesMove]_vars
<1> SUFFICES ASSUME Undisturbed, PhaseBasis, [Next]_vars
             PROVE  PhaseInv' /\ [PhasesMove]_vars
  OBVIOUS
<1>1. CASE UNCHANGED vars
  BY <1>1 DEF vars, controllerVars, PhaseBasis, PhaseInv, WorkerInv, PollerInv,
     DecisionInv, Deciding, Live, Quiet
<1>2. ASSUME NEW b \in Backup,
             \/ BackupStep(Reconcile(b))
             \/ BackupStep(Upload(b))
             \/ BackupStep(\E o \in Op : PluginEnds(b, o))
      PROVE  PhaseInv' /\ PhasesMove
  BY <1>2, ReconcilePhases, UploadPhases
<1> QED
  BY <1>1, <1>2, Steps, WorldPhases, PollPhases, FinalizePhases, RestartPhases

\* Initially no controller works on any backup.
LEMMA InitPhases == Init => CacheBehind /\ PhaseInv
<1> SUFFICES ASSUME Init PROVE CacheBehind /\ PhaseInv
  OBVIOUS
<1> USE DEF Init
<1>1. CacheBehind
  BY DEF ApiInit, CacheBehind
<1> QED
  BY <1>1 DEF ReconcilerInit, UploadInit, OperationsInit, FinalizerInit,
     DeletionInit, SyncInit, Idle, UpIdle, BoIdle, BoAt, BfIdle, BfAt, BdIdle,
     BdAt, SyIdle, SyAt, PhaseInv, WorkerInv, PollerInv, DecisionInv, Deciding,
     Quiet, Acting

\* Whatever controller is about to patch a backup knows the phase it is in.
THEOREM PhasesInductive == Undisturbed => (Spec => []PhaseBasis)
<1> SUFFICES ASSUME Undisturbed PROVE Spec => []PhaseBasis
  OBVIOUS
<1>1. Init => PhaseBasis
  BY InitType, InitPhases DEF PhaseBasis
<1>2. PhaseBasis /\ [Next]_vars => PhaseBasis'
  BY NextType, NextCache, NextPhases DEF PhaseBasis
<1> QED
  BY <1>1, <1>2, PTL DEF Spec

\* The phases move as the design draws them: no patch, made from a phase
\* read earlier, moves a backup anywhere else, whatever calls fail and
\* whenever the server restarts.
THEOREM Design == Undisturbed => (Spec => PhasesFollowDesign)
<1> SUFFICES ASSUME Undisturbed PROVE Spec => PhasesFollowDesign
  OBVIOUS
<1>1. Spec => []PhaseBasis
  BY PhasesInductive
<1>2. PhaseBasis /\ [Next]_vars => [PhasesMove]_vars
  BY NextPhases
<1> QED
  BY <1>1, <1>2, PTL DEF Spec, PhasesFollowDesign

-----------------------------------------------------------------------------
(***************************************************************************)
(* What the steps of each controller do to the phases.                     *)
(***************************************************************************)
\* Calls that fail are counted.
NoFewerFaults == faults' = 0 => faults = 0

LEMMA FaultsGrow == TypeInv /\ faults' = faults + 1 => NoFewerFaults
BY DEF TypeInv, TypeOK, ApiTypeOK, NoFewerFaults

\* Users and the queue.
LEMMA WorldMoves ==
    ASSUME TypeInv, WorldStep
    PROVE  /\ UNCHANGED <<bw, up, plugin, opsMap, bo, bf, faults, restarts>>
           /\ \/ UNCHANGED store
              \/ \E b \in MayEmpty : /\ UNCHANGED api
                                     /\ store' = [store EXCEPT ![b] = Empty]
           /\ \A c \in Backup :
                 \/ api'[c].phase \in {api[c].phase, "Gone"}
                 \/ /\ api[c].phase \in {"Absent", "New"}
                    /\ api'[c].phase \in {"New", "ReadyToStart"}
<1> DEFINE Goal ==
      /\ UNCHANGED <<bw, up, plugin, opsMap, bo, bf, faults, restarts>>
      /\ \/ UNCHANGED store
         \/ \E b \in MayEmpty : /\ UNCHANGED api
                                /\ store' = [store EXCEPT ![b] = Empty]
      /\ \A c \in Backup :
            \/ api'[c].phase \in {api[c].phase, "Gone"}
            \/ /\ api[c].phase \in {"Absent", "New"}
               /\ api'[c].phase \in {"New", "ReadyToStart"}
<1>1. api \in [Backup -> Object]
  BY DEF TypeInv, TypeOK, ApiTypeOK
<1>2. ASSUME NEW b \in Backup, CreateBackup(b) PROVE Goal
  <2>1. api[b].phase = "Absent"
    BY <1>2 DEF CreateBackup, Absent
  <2> QED
    BY <1>1, <1>2, <2>1 DEF CreateBackup, Store, controllerVars
<1>3. ASSUME NEW b \in Backup, DeleteObjectOf(b) PROVE Goal
  BY <1>1, <1>3 DEF DeleteObjectOf, Store, Gone, controllerVars
<1>4. ASSUME NEW b \in Backup, EmptyDirectory(b) PROVE Goal
  BY <1>4 DEF EmptyDirectory, apiVars, controllerVars
<1>5. ASSUME NEW b \in Backup, LetIn(b) PROVE Goal
  BY <1>1, <1>5 DEF LetIn, Store
<1>6. ASSUME NEW b \in Backup, Resync(b) \/ Deliver PROVE Goal
  BY <1>6 DEF Resync, Deliver, Notify
<1>7. CASE Deliver
  BY <1>7 DEF Deliver, Notify
<1> QED
  BY <1>2, <1>3, <1>4, <1>5, <1>6, <1>7 DEF WorldStep

\* The backup controller.
LEMMA ReconcileMoves ==
    ASSUME Undisturbed, PhaseBasis, NEW b \in Backup, BackupStep(Reconcile(b))
    PROVE  /\ UNCHANGED <<store, up, plugin, opsMap, bo, bf, restarts>>
           /\ NoFewerFaults
           /\ \A c \in Backup :
                 \/ /\ api'[c].phase = api[c].phase
                    /\ bw'[c].pc = "finishing" => bw'[c] = bw[c]
                 \/ /\ api[c].phase = "ReadyToStart"
                    /\ api'[c].phase \in Verdicts
                    /\ bw[c].pc = "prepared"
                    /\ bw'[c].pc = "patched"
                 \/ /\ api[c].phase = "InProgress"
                    /\ bw[c].pc = "finishing"
                    /\ api'[c].phase = bw[c].phase
                    /\ bw'[c].pc = "leaving"
<1> USE DEF PhaseBasis, TypeInv, TypeOK, PhaseInv
<1> DEFINE Goal ==
      \A c \in Backup :
         \/ /\ api'[c].phase = api[c].phase
            /\ bw'[c].pc = "finishing" => bw'[c] = bw[c]
         \/ /\ api[c].phase = "ReadyToStart"
            /\ api'[c].phase \in Verdicts
            /\ bw[c].pc = "prepared"
            /\ bw'[c].pc = "patched"
         \/ /\ api[c].phase = "InProgress"
            /\ bw[c].pc = "finishing"
            /\ api'[c].phase = bw[c].phase
            /\ bw'[c].pc = "leaving"
<1>1. /\ api \in [Backup -> Object]
      /\ bw \in [Backup -> [pc : WorkerPc, phase : Phases]]
  BY DEF ApiTypeOK, ReconcilerTypeOK
<1>2. UNCHANGED <<store, up, plugin, opsMap, bo, bf, restarts>>
  BY DEF BackupStep, Reconcile, uploadVars, operationsVars, finalizerVars
<1>3. NoFewerFaults
  <2>1. faults' \in {faults, faults + 1}
    BY DEF BackupStep, Reconcile, TakeBackup, PatchStarted, TrackStarted,
       PatchFinished, LeaveBackup, PatchOk, PatchError, apiVars
  <2> QED
    BY <2>1, FaultsGrow DEF NoFewerFaults
<1>4. ASSUME TakeBackup(b) \/ TrackStarted(b) \/ LeaveBackup(b) PROVE Goal
  BY <1>1, <1>4 DEF TakeBackup, TrackStarted, LeaveBackup, Idle, apiVars
<1>5. ASSUME NEW phase \in Verdicts, PatchStarted(b, phase) PROVE Goal
  <2>1. CASE UNCHANGED api
    BY <1>1, <1>5, <2>1 DEF PatchStarted, Idle
  <2>2. CASE /\ Exists(api[b])
             /\ api' = [api EXCEPT ![b] =
                           [phase |-> phase, pos |-> api[b].pos]]
             /\ bw' = [bw EXCEPT ![b] = [pc |-> "patched", phase |-> phase]]
    BY <1>1, <1>5, <2>2 DEF PatchStarted, Exists, WorkerInv
  <2> QED
    BY <1>5, <2>1, <2>2 DEF PatchStarted, PatchOk, PatchError, Store,
       Undisturbed
<1>6. ASSUME PatchFinished(b) PROVE Goal
  <2>1. CASE UNCHANGED api
    BY <1>1, <1>6, <2>1 DEF PatchFinished
  <2>2. CASE /\ Exists(api[b])
             /\ api' = [api EXCEPT ![b] =
                           [phase |-> bw[b].phase, pos |-> api[b].pos]]
             /\ bw' = [bw EXCEPT ![b] =
                           [pc |-> "leaving", phase |-> bw[b].phase]]
    BY <1>1, <1>6, <2>2 DEF PatchFinished, Exists, WorkerInv
  <2> QED
    BY <1>6, <2>1, <2>2 DEF PatchFinished, PatchOk, PatchError, Store,
       Undisturbed
<1>7. Goal
  BY <1>4, <1>5, <1>6 DEF BackupStep, Reconcile
<1> QED
  BY <1>2, <1>3, <1>7

\* The operations controller.
LEMMA PollMoves ==
    ASSUME Undisturbed, PhaseBasis,
           \/ \E b \in Backup : OperationsStep(TakeWaiting(b))
           \/ \E b \in Backup : OperationsStep(DownloadOperations(b))
           \/ OperationsStep(ReconcileOperations)
    PROVE  /\ UNCHANGED <<bw, up, plugin, bf, restarts>>
           /\ NoFewerFaults
           /\ \A c \in Backup :
                 \/ api'[c].phase = api[c].phase
                 \/ /\ PatchPolled
                    /\ bo' = BoNext("leave", bo.entry)
                    /\ c = bo.key
                    /\ api[c].phase = bo.was
                    /\ api'[c].phase = bo.phase
                    /\ bo.phase # bo.was
<1> USE DEF PhaseBasis, TypeInv, TypeOK, PhaseInv
<1>1. /\ api \in [Backup -> Object]
      /\ bo.pc # "idle" => bo.key \in Backup
  BY DEF ApiTypeOK, Keys
<1>2. UNCHANGED <<bw, up, plugin, bf, restarts>>
  BY DEF OperationsStep, TakeWaiting, DownloadOperations, ReconcileOperations,
     LocationGone, Poll, PollError, PutPhase, PutOps, PatchPolled,
     LeaveOperations, reconcilerVars, uploadVars, finalizerVars
<1>3. NoFewerFaults
  <2>1. faults' \in {faults, faults + 1}
    BY DEF OperationsStep, TakeWaiting, DownloadOperations,
       ReconcileOperations, LocationGone, Poll, PollError, PutPhase, PutOps,
       PatchPolled, LeaveOperations, StoreOk, StoreError, ReadError, PatchOk,
       PatchError, apiVars
  <2> QED
    BY <2>1, FaultsGrow DEF NoFewerFaults
<1>4. CASE PatchPolled
  <2>1. CASE UNCHANGED api
    BY <1>2, <1>3, <2>1
  <2>2. CASE /\ Exists(api[bo.key])
             /\ bo.phase # bo.was
             /\ bo' = BoNext("leave", bo.entry)
             /\ api' = [api EXCEPT ![bo.key] =
                           [phase |-> bo.phase, pos |-> api[bo.key].pos]]
    <3>1. bo.key \in Backup /\ api[bo.key].phase = bo.was
      BY <1>1, <1>4, <2>2 DEF PatchPolled, Exists, PollerInv, Acting
    <3> QED
      BY <1>1, <1>2, <1>3, <1>4, <2>2, <3>1
  <2> QED
    BY <1>1, <1>4, <2>1, <2>2 DEF PatchPolled, PatchOk, PatchError, Store,
       Undisturbed
<1>5. CASE UNCHANGED api
  BY <1>2, <1>3, <1>5
<1> QED
  BY <1>4, <1>5 DEF OperationsStep, TakeWaiting, DownloadOperations,
     ReconcileOperations, LocationGone, Poll, PollError, PutPhase, PutOps,
     LeaveOperations, apiVars

\* The finalizer.
LEMMA FinalizeMoves ==
    ASSUME Undisturbed, PhaseBasis,
           \/ \E b \in Backup : FinalizerStep(TakeFinalizing(b))
           \/ FinalizerStep(Finalize)
    PROVE  /\ UNCHANGED <<bw, up, plugin, opsMap, bo, restarts>>
           /\ NoFewerFaults
           /\ \A c \in Backup :
                 \/ api'[c].phase = api[c].phase
                 \/ /\ PatchFinal
                    /\ bf' = BfIdle
                    /\ Deciding
                    /\ c = bf.key
                    /\ api[c].phase \in FinalizingPhases
                    /\ api'[c].phase = bf.phase
<1> USE DEF PhaseBasis, TypeInv, TypeOK, PhaseInv
<1>1. /\ api \in [Backup -> Object]
      /\ bf.pc # "idle" => bf.key \in Backup
  BY DEF ApiTypeOK, Keys
<1>2. UNCHANGED <<bw, up, plugin, opsMap, bo, restarts>>
  BY DEF FinalizerStep, TakeFinalizing, Finalize, Prepare, PrepareError,
     PutFinalMetadata, PutFinalContents, TrackFinal, PatchFinal,
     reconcilerVars, uploadVars, operationsVars
<1>3. NoFewerFaults
  <2>1. faults' \in {faults, faults + 1}
    BY DEF FinalizerStep, TakeFinalizing, Finalize, Prepare, PrepareError,
       PutFinalMetadata, PutFinalContents, TrackFinal, PatchFinal, StoreOk,
       StoreError, ReadError, PatchOk, PatchError, apiVars
  <2> QED
    BY <2>1, FaultsGrow DEF NoFewerFaults
<1>4. CASE PatchFinal
  <2>1. CASE UNCHANGED api
    BY <1>2, <1>3, <2>1
  <2>2. CASE /\ Exists(api[bf.key])
             /\ bf.phase # "New"
             /\ bf' = BfIdle
             /\ api' = [api EXCEPT ![bf.key] =
                           [phase |-> bf.phase, pos |-> api[bf.key].pos]]
    <3>1. Deciding /\ bf.key \in Backup
      BY <1>1, <1>4, <2>2 DEF PatchFinal, Deciding
    <3>2. api[bf.key].phase \in FinalizingPhases
      BY <2>2, <3>1 DEF Exists, DecisionInv, Live
    <3> QED
      BY <1>1, <1>2, <1>3, <1>4, <2>2, <3>1, <3>2
  <2> QED
    BY <1>1, <1>4, <2>1, <2>2 DEF PatchFinal, PatchOk, PatchError, Store,
       Undisturbed
<1>5. CASE UNCHANGED api
  BY <1>2, <1>3, <1>5
<1> QED
  BY <1>4, <1>5 DEF FinalizerStep, TakeFinalizing, Finalize, Prepare,
     PrepareError, PutFinalMetadata, PutFinalContents, TrackFinal, apiVars

\* The server that restarts.
LEMMA RestartMoves ==
    ASSUME TypeInv, NEW missed \in SUBSET Backup, Restart(missed)
    PROVE  /\ UNCHANGED <<store, plugin>>
           /\ restarts' # 0
           /\ opsMap' = [b \in Backup |-> NoEntry]
           /\ bo'.pc = "idle" /\ bf'.pc = "idle"
           /\ \A b \in Backup : bw'[b].pc = "idle" /\ up'[b] = UpIdle
           /\ \A b \in Backup :
                 \/ api'[b].phase = api[b].phase
                 \/ api'[b].phase = "Failed"
<1>1. restarts' # 0
  BY LifecycleAssumption DEF Restart, TypeInv, TypeOK
<1> QED
  BY <1>1 DEF Restart, MarkInProgressFailed, Idle, BoIdle, BoAt, BfIdle, BfAt

-----------------------------------------------------------------------------
(***************************************************************************)
(* The map of operations: what it has to tell, it has to tell of a backup  *)
(* that still waits for its operations, or has been given up.              *)
(***************************************************************************)
Early == {"Absent", "New", "ReadyToStart", "InProgress"}

Dirty(entry) == entry.changed \/ entry.errs

MapInv ==
    /\ \A b \in Backup :
          /\ api[b].phase \in Early => opsMap[b] = NoEntry
          /\ Live(b) /\ Dirty(opsMap[b]) =>
                api[b].phase \in WaitingPhases \cup {"PartiallyFailed"}
    /\ bo.pc # "idle" => api[bo.key].phase \notin Early
    /\ bo.pc = "patch" => ~Dirty(bo.entry)
    /\ bo.pc = "patch" /\ bo.phase # "PartiallyFailed" =>
          ~Dirty(opsMap[bo.key])
    /\ bo.pc = "leave" /\ Dirty(bo.entry) /\ Live(bo.key) =>
          api[bo.key].phase = bo.was

LEMMA UploadedClean ==
    /\ \A ops : ~Dirty(Uploaded(ops)) /\ Uploaded(ops).ops = ops
    /\ ~Dirty(NoEntry) /\ NoEntry.ops = NoOps
BY DEF Dirty, Uploaded, NoEntry

\* The steps of the operations controller.
LEMMA PollMap ==
    ASSUME Undisturbed, PhaseBasis, PhaseBasis', MapInv,
           \/ \E b \in Backup : OperationsStep(TakeWaiting(b))
           \/ \E b \in Backup : OperationsStep(DownloadOperations(b))
           \/ OperationsStep(ReconcileOperations)
    PROVE  MapInv'
<1> USE DEF PhaseBasis, TypeInv, TypeOK, PhaseInv
<1>1. /\ opsMap \in [Backup -> Entry]
      /\ bo.pc # "idle" => bo.key \in Backup
  BY DEF OperationsTypeOK, Keys
<1>2. WaitingPhases \cap Early = {} /\ "PartiallyFailed" \notin Early
      /\ "Gone" \notin Early
  BY DEF WaitingPhases, Early
<1>3. \A w \in WaitingPhases : Moves(w) \cap Early = {}
  BY DEF Moves, Phases, PostPhases, TerminalPhases, WaitingPhases, Early
<1>4. ASSUME NEW b \in Backup, TakeWaiting(b) PROVE MapInv'
  <2>1. cache = api
    BY <1>4, FreshCache DEF Undisturbed, TakeWaiting
  <2> QED
    BY <1>2, <1>4, <2>1 DEF TakeWaiting, apiVars, BoAt, MapInv, Live
<1>5. ASSUME NEW b \in Backup, DownloadOperations(b) PROVE MapInv'
  <2>1. api' = api /\ bo' = bo
    BY <1>5 DEF DownloadOperations
  <2>2. CASE UNCHANGED opsMap
    BY <2>1, <2>2 DEF MapInv, Live
  <2>3. CASE opsMap' = [opsMap EXCEPT ![b] = Uploaded(opsMap[b].ops)]
    <3>1. api[b].phase \notin Early
      BY <1>5, UploadedClean DEF DownloadOperations, MapInv, Dirty
    <3> QED
      BY <1>1, <2>1, <2>3, <3>1, UploadedClean DEF MapInv, Live
  <2> QED
    BY <1>5, <2>2, <2>3 DEF DownloadOperations
<1>6. CASE LocationGone
  BY <1>6, UploadedClean DEF LocationGone, apiVars, BoAt, MapInv, Live
<1>7. ASSUME NEW late, Poll(late) PROVE MapInv'
  <2>1. /\ bo.pc = "poll"
        /\ bo.key \in Backup
        /\ api[bo.key].phase \in {bo.was, "Gone"}
        /\ bo.was \in WaitingPhases
    BY <1>1, <1>7 DEF Poll, PollerInv, Acting
  <2>2. /\ UNCHANGED api
        /\ opsMap' = [opsMap EXCEPT ![bo.key] = Known(bo.key)]
        /\ bo'.pc \in {"putMetadata", "leave"}
        /\ bo'.key = bo.key
        /\ bo'.was = bo.was
    BY <1>7 DEF Poll, BoAt, apiVars
  <2> QED
    BY <1>1, <1>2, <2>1, <2>2 DEF MapInv, Live
<1>8. CASE PollError \/ PutPhase
  <2>1. /\ UNCHANGED <<api, opsMap>>
        /\ bo'.key = bo.key
        /\ bo'.was = bo.was
        /\ bo'.pc \in {"putMetadata", "putOps", "leave"}
        /\ bo.pc \in {"poll", "putMetadata"}
    BY <1>8 DEF PollError, PutPhase, BoNext, GiveUp, BoAt
  <2> QED
    BY <2>1 DEF MapInv, Live, PollerInv, Acting
<1>9. CASE PutOps
  <2>1. /\ UNCHANGED api
        /\ bo'.key = bo.key
        /\ bo'.was = bo.was
        /\ bo.pc = "putOps"
    BY <1>9 DEF PutOps, BoNext, GiveUp, BoAt
  <2>2. CASE bo' = GiveUp /\ UNCHANGED opsMap
    BY <2>1, <2>2 DEF GiveUp, BoAt, MapInv, Live, PollerInv, Acting
  <2>3. CASE /\ bo' = BoNext("patch", Uploaded(bo.entry.ops))
             /\ opsMap' = [opsMap EXCEPT ![bo.key] = Uploaded(bo.entry.ops)]
    BY <1>1, <2>1, <2>3, UploadedClean DEF BoNext, BoAt, MapInv, Live
  <2> QED
    BY <1>9, <2>2, <2>3 DEF PutOps
<1>10. CASE PatchPolled
  <2>1. /\ UNCHANGED opsMap
        /\ bo'.key = bo.key
        /\ bo'.was = bo.was
        /\ bo'.entry = bo.entry
        /\ bo'.pc = "leave"
        /\ bo.pc = "patch"
    BY <1>10 DEF PatchPolled, BoNext, GiveUp, BoAt
  <2>2. \A c \in Backup :
           \/ api'[c].phase = api[c].phase
           \/ /\ c = bo.key
              /\ api[c].phase = bo.was
              /\ api'[c].phase = bo.phase
              /\ bo.phase # bo.was
    BY PollMoves
  <2>3. bo.was \in WaitingPhases /\ bo.phase \in Moves(bo.was) \cup {bo.was}
    BY <2>1 DEF PollerInv, Acting
  <2> QED
    BY <1>1, <1>3, <2>1, <2>2, <2>3 DEF MapInv, Live
<1>11. CASE LeaveOperations
  <2>1. /\ UNCHANGED api
        /\ bo'.pc = "idle"
        /\ bo.pc = "leave"
        /\ bo.was \in WaitingPhases
        /\ bo.key \in Backup
    BY <1>1, <1>11 DEF LeaveOperations, BoIdle, BoAt, apiVars, PollerInv
  <2>2. \/ UNCHANGED opsMap
        \/ opsMap' = [opsMap EXCEPT ![bo.key] = NoEntry]
        \/ opsMap' = [opsMap EXCEPT ![bo.key] = bo.entry]
    BY <1>11 DEF LeaveOperations
  <2> QED
    BY <1>1, <2>1, <2>2, UploadedClean DEF MapInv, Live
<1> QED
  BY <1>4, <1>5, <1>6, <1>7, <1>8, <1>9, <1>10, <1>11 DEF OperationsStep,
     ReconcileOperations

\* A step of another controller.
LEMMA OtherMap ==
    ASSUME PhaseBasis, MapInv, UNCHANGED <<opsMap, bo>>,
           \A c \in Backup :
              \/ api'[c].phase \in {api[c].phase, "Gone"}
              \/ /\ api[c].phase \in Early
                 /\ api'[c].phase # "Gone"
              \/ /\ api[c].phase \in FinalizingPhases
                 /\ api'[c].phase \in {"Completed", "PartiallyFailed"}
    PROVE  MapInv'
<1>1. bo.pc # "idle" => bo.key \in Backup
  BY DEF PhaseBasis, TypeInv, Keys
<1>2. bo.pc # "idle" => bo.was \in WaitingPhases
  BY DEF PhaseBasis, PhaseInv, PollerInv
<1>3. \A b \in Backup : Dirty(opsMap[b]) => opsMap[b] # NoEntry
  BY UploadedClean
<1> QED
  BY <1>1, <1>2, <1>3 DEF MapInv, Live, Early, FinalizingPhases, WaitingPhases

\* Every step.
LEMMA NextMap ==
    ASSUME Undisturbed, PhaseBasis, PhaseBasis', MapInv, [Next]_vars
    PROVE  MapInv'
<1>1. CASE WorldStep
  BY <1>1, WorldMoves, OtherMap DEF PhaseBasis, Early
<1>2. ASSUME NEW b \in Backup, BackupStep(Reconcile(b)) PROVE MapInv'
  <2>1. \A c \in Backup : bw[c].pc = "finishing" =>
            bw[c].phase \in PostPhases \cup {"Failed"}
    BY DEF PhaseBasis, PhaseInv, WorkerInv
  <2> QED
    BY <1>2, <2>1, ReconcileMoves, OtherMap DEF Early, Verdicts, PostPhases
<1>3. ASSUME NEW b \in Backup,
             \/ BackupStep(Upload(b))
             \/ BackupStep(\E o \in Op : PluginEnds(b, o))
      PROVE  MapInv'
  BY <1>3, OtherMap DEF BackupStep, Upload, BackUp, PutMetadata, PutContents,
     PutLists, UndoContents, UndoMetadata, BackedUp, RunBackup, PluginEnds,
     apiVars, operationsVars
<1>4. CASE \/ \E b \in Backup : OperationsStep(TakeWaiting(b))
           \/ \E b \in Backup : OperationsStep(DownloadOperations(b))
           \/ OperationsStep(ReconcileOperations)
  BY <1>4, PollMap
<1>5. CASE \/ \E b \in Backup : FinalizerStep(TakeFinalizing(b))
           \/ FinalizerStep(Finalize)
  <2>1. \A c \in Backup : Deciding /\ c = bf.key /\ api[c].phase \in FinalizingPhases
            => bf.phase \in {"Completed", "PartiallyFailed"}
    BY DEF PhaseBasis, PhaseInv, DecisionInv, Live, FinalizingPhases, FinalPhase
  <2> QED
    BY <1>5, <2>1, FinalizeMoves, OtherMap
<1>6. ASSUME NEW missed \in SUBSET Backup, Restart(missed) PROVE MapInv'
  BY <1>6, RestartMoves, UploadedClean DEF PhaseBasis, MapInv, Live
<1>7. CASE UNCHANGED vars
  BY <1>7, OtherMap DEF vars, controllerVars
<1> QED
  BY <1>1, <1>2, <1>3, <1>4, <1>5, <1>6, <1>7, Steps

-----------------------------------------------------------------------------
(***************************************************************************)
(* Operations that are recorded as completed have completed.               *)
(***************************************************************************)
Honest(b, ops) == \A o \in Op : ops[o] = "completed" => plugin[b][o] = "ok"

HonestInv ==
    /\ \A b \in Backup :
          /\ Honest(b, store[b].ops)
          /\ Honest(b, opsMap[b].ops)
          /\ Honest(b, up[b].ops)
    /\ bo.pc # "idle" => Honest(bo.key, bo.entry.ops)

\* Nothing recorded, nothing claimed; a poll claims only what it has seen.
LEMMA NoOpsHonest == \A b : Honest(b, NoOps)
BY DEF Honest, NoOps

LEMMA PolledHonest ==
    ASSUME NEW b, NEW ops, NEW late, Honest(b, ops)
    PROVE  Honest(b, Polled(b, ops, late))
BY DEF Honest, Polled

\* The objects of a directory that a write leaves alone.
LEMMA DirectoryParts ==
    /\ \A b, phase : /\ WithMeta(b, phase).meta = phase
                     /\ WithMeta(b, phase).ops = store[b].ops
                     /\ WithMeta(b, phase).contents = store[b].contents
    /\ \A b, c : /\ WithContents(b, c).ops = store[b].ops
                 /\ WithContents(b, c).meta = store[b].meta
                 /\ WithContents(b, c).contents = c
    /\ \A b, ops : /\ WithOps(b, ops).ops = ops
                   /\ WithOps(b, ops).meta = store[b].meta
                   /\ WithOps(b, ops).contents = store[b].contents
    /\ Empty.ops = NoOps
BY DEF WithMeta, WithContents, WithOps, Empty

\* An upload changes one directory, by one call.
LEMMA UploadMoves ==
    ASSUME PhaseBasis, NEW b \in Backup, BackupStep(Upload(b))
    PROVE  /\ UNCHANGED <<api, plugin, opsMap, bo, bf, restarts>>
           /\ NoFewerFaults
           /\ bw[b].pc = "running"
           /\ \A c \in Backup \ {b} : /\ store'[c] = store[c]
                                      /\ up'[c] = up[c]
                                      /\ bw'[c] = bw[c]
<1> USE DEF PhaseBasis, TypeInv, TypeOK
<1>1. /\ store \in [Backup -> Directory]
      /\ bw \in [Backup -> [pc : WorkerPc, phase : Phases]]
      /\ up \in [Backup -> [pc : UpPc, phase : RunOutcomes \cup {"Failed"},
                            ops : Operations \cup {NoOps}]]
  BY DEF StoreTypeOK, ReconcilerTypeOK, UploadTypeOK
<1>2. UNCHANGED <<api, plugin, opsMap, bo, bf, restarts>>
  BY DEF BackupStep, Upload, BackUp, PutMetadata, PutContents, PutLists,
     UndoContents, UndoMetadata, BackedUp, RunBackup, apiVars, operationsVars,
     finalizerVars
<1>3. NoFewerFaults
  <2>1. faults' \in {faults, faults + 1}
    BY DEF BackupStep, Upload, BackUp, PutMetadata, PutContents, PutLists,
       UndoContents, UndoMetadata, BackedUp, RunBackup, StoreOk, StoreError,
       ReadError, apiVars
  <2> QED
    BY <2>1, FaultsGrow DEF NoFewerFaults
<1>4. bw[b].pc = "running"
  <2>1. up[b].pc # "idle" => bw[b].pc = "running"
    BY DEF PhaseInv, WorkerInv
  <2> QED
    BY <2>1 DEF BackupStep, Upload, BackUp, PutMetadata, PutContents, PutLists,
       UndoContents, UndoMetadata, BackedUp
<1>5. \A c \in Backup \ {b} : store'[c] = store[c]
  BY <1>1 DEF BackupStep, Upload, BackUp, PutMetadata, PutContents, PutLists,
     UndoContents, UndoMetadata, BackedUp, StoreOk, StoreError, ReadError
<1>6. \A c \in Backup \ {b} : bw'[c] = bw[c]
  BY <1>1 DEF BackupStep, Upload, BackUp, PutMetadata, PutContents, PutLists,
     UndoContents, UndoMetadata, BackedUp, RunBackup, reconcilerVars
<1>7. \A c \in Backup \ {b} : up'[c] = up[c]
  <2>1. BackUp(b) => \E pc, phase, ops : UpAt(b, pc, phase, ops)
    BY DEF BackUp
  <2> QED
    BY <1>1, <2>1 DEF BackupStep, Upload, UpAt, PutMetadata, PutContents,
       PutLists, UndoContents, UndoMetadata, BackedUp
<1> QED
  BY <1>2, <1>3, <1>4, <1>5, <1>6, <1>7

LEMMA UploadHonest ==
    ASSUME PhaseBasis, HonestInv, NEW b \in Backup, BackupStep(Upload(b))
    PROVE  HonestInv'
<1> USE DEF PhaseBasis, TypeInv, TypeOK
<1>1. /\ store \in [Backup -> Directory]
      /\ up \in [Backup -> [pc : UpPc, phase : RunOutcomes \cup {"Failed"},
                            ops : Operations \cup {NoOps}]]
  BY DEF StoreTypeOK, UploadTypeOK
<1>3. UNCHANGED plugin
  BY UploadMoves
<1>4. store'[b].ops \in {store[b].ops, up[b].ops}
  BY <1>1, DirectoryParts DEF BackupStep, Upload, BackUp, PutMetadata,
     PutContents, PutLists, UndoContents, UndoMetadata, BackedUp, StoreOk,
     StoreError, ReadError
<1>5. \/ up'[b].ops \in {up[b].ops, NoOps}
      \/ \E late : up'[b].ops = Polled(b, [o \in Op |-> "new"], late)
  <2>1. CASE BackUp(b)
    BY <1>1, <2>1 DEF BackUp, UpAt
  <2> QED
    BY <1>1, <2>1 DEF BackupStep, Upload, UpAt, PutMetadata, PutContents,
       PutLists, UndoContents, UndoMetadata, BackedUp, UpIdle
<1>6. Honest(b, [o \in Op |-> "new"])
  BY DEF Honest
<1>7. /\ Honest(b, store'[b].ops)
      /\ Honest(b, up'[b].ops)
  BY <1>4, <1>5, <1>6, NoOpsHonest, PolledHonest DEF HonestInv
<1>8. \A c \in Backup :
         /\ Honest(c, store'[c].ops)
         /\ Honest(c, up'[c].ops)
         /\ Honest(c, opsMap'[c].ops)
  BY <1>7, UploadMoves DEF HonestInv
<1> QED
  BY <1>3, <1>8, UploadMoves DEF HonestInv, Honest

LEMMA PollHonest ==
    ASSUME Undisturbed, PhaseBasis, HonestInv,
           \/ \E b \in Backup : OperationsStep(TakeWaiting(b))
           \/ \E b \in Backup : OperationsStep(DownloadOperations(b))
           \/ OperationsStep(ReconcileOperations)
    PROVE  HonestInv'
<1> USE DEF PhaseBasis, TypeInv, TypeOK
<1>1. /\ store \in [Backup -> Directory]
      /\ opsMap \in [Backup -> Entry]
      /\ bo.pc # "idle" => bo.key \in Backup
  BY DEF StoreTypeOK, OperationsTypeOK, Keys
<1>2. UNCHANGED <<plugin, up>>
  BY PollMoves
<1> DEFINE Kept ==
      /\ \A c \in Backup : /\ Honest(c, store'[c].ops)
                           /\ Honest(c, opsMap'[c].ops)
      /\ bo'.pc # "idle" => Honest(bo'.key, bo'.entry.ops)
<1>3. ASSUME NEW b \in Backup, TakeWaiting(b) PROVE Kept
  BY <1>3, NoOpsHonest, UploadedClean DEF TakeWaiting, BoAt, HonestInv
<1>4. ASSUME NEW b \in Backup, DownloadOperations(b) PROVE Kept
  <2>1. /\ store'[b].ops \in {store[b].ops, opsMap[b].ops}
        /\ \A c \in Backup \ {b} : store'[c] = store[c]
    BY <1>1, <1>4, DirectoryParts DEF DownloadOperations, StoreOk, StoreError
  <2>2. \A c \in Backup : opsMap'[c].ops = opsMap[c].ops
    BY <1>1, <1>4, UploadedClean DEF DownloadOperations
  <2> QED
    BY <1>4, <2>1, <2>2 DEF DownloadOperations, HonestInv
<1>5. ASSUME LocationGone PROVE Kept
  BY <1>5, NoOpsHonest, UploadedClean DEF LocationGone, BoAt, HonestInv
<1>6. ASSUME NEW late, Poll(late) PROVE Kept
  <2>1. bo.key \in Backup
    BY <1>1, <1>6 DEF Poll
  <2>2. Honest(bo.key, Known(bo.key).ops)
    BY <2>1, UploadedClean DEF Known, HonestInv
  <2>3. \A c \in Backup : Honest(c, opsMap'[c].ops)
    BY <1>1, <1>6, <2>1, <2>2 DEF Poll, HonestInv
  <2>4. /\ bo'.key = bo.key
        /\ bo'.entry.ops \in {NoOps, Polled(bo.key, Known(bo.key).ops, late)}
    BY <1>6 DEF Poll, BoAt
  <2>5. Honest(bo.key, bo'.entry.ops)
    BY <2>1, <2>2, <2>4, NoOpsHonest, PolledHonest
  <2>6. UNCHANGED store
    BY <1>6 DEF Poll
  <2> QED
    BY <2>3, <2>4, <2>5, <2>6 DEF HonestInv
<1>7. ASSUME PollError PROVE Kept
  BY <1>7, NoOpsHonest DEF PollError, ReadError, BoNext, BoAt, HonestInv
<1>8. ASSUME PutPhase PROVE Kept
  <2>1. \A c \in Backup : store'[c].ops = store[c].ops
    BY <1>1, <1>8, DirectoryParts DEF PutPhase, StoreOk, StoreError
  <2>2. bo'.key = bo.key /\ bo'.entry = bo.entry /\ bo.pc # "idle"
    BY <1>8 DEF PutPhase, BoNext, GiveUp, BoAt
  <2> QED
    BY <1>8, <2>1, <2>2 DEF PutPhase, HonestInv
<1>9. ASSUME PutOps PROVE Kept
  <2>1. bo.key \in Backup /\ Honest(bo.key, bo.entry.ops)
    BY <1>1, <1>9 DEF PutOps, HonestInv
  <2>2. /\ \A c \in Backup \ {bo.key} : store'[c] = store[c]
        /\ store'[bo.key].ops \in {store[bo.key].ops, bo.entry.ops}
    BY <1>1, <1>9, <2>1, DirectoryParts, UploadedClean DEF PutOps, StoreOk,
       StoreError
  <2>3. \A c \in Backup : \/ opsMap'[c] = opsMap[c]
                          \/ c = bo.key /\ opsMap'[c].ops = bo.entry.ops
    BY <1>1, <1>9, <2>1, UploadedClean DEF PutOps
  <2>4. bo'.key = bo.key /\ bo'.entry.ops = bo.entry.ops
    BY <1>9, UploadedClean DEF PutOps, BoNext, GiveUp, BoAt
  <2> QED
    BY <2>1, <2>2, <2>3, <2>4 DEF HonestInv
<1>10. ASSUME PatchPolled PROVE Kept
  BY <1>10 DEF PatchPolled, BoNext, GiveUp, BoAt, HonestInv
<1>11. ASSUME LeaveOperations PROVE Kept
  <2>1. bo.key \in Backup /\ Honest(bo.key, bo.entry.ops) /\ bo'.pc = "idle"
    BY <1>1, <1>11 DEF LeaveOperations, BoIdle, BoAt, HonestInv
  <2>2. \A c \in Backup : \/ opsMap'[c] \in {opsMap[c], NoEntry}
                          \/ c = bo.key /\ opsMap'[c] = bo.entry
    BY <1>1, <1>11, <2>1 DEF LeaveOperations
  <2> QED
    BY <1>11, <2>1, <2>2, NoOpsHonest, UploadedClean DEF LeaveOperations,
       HonestInv
<1>12. Kept
  BY <1>3, <1>4, <1>5, <1>6, <1>7, <1>8, <1>9, <1>10, <1>11 DEF OperationsStep,
     ReconcileOperations
<1> QED
  BY <1>2, <1>12 DEF HonestInv, Honest

LEMMA NextHonest ==
    ASSUME Undisturbed, PhaseBasis, HonestInv, [Next]_vars
    PROVE  HonestInv'
<1> USE DEF PhaseBasis, TypeInv, TypeOK
<1>1. /\ store \in [Backup -> Directory]
      /\ plugin \in [Backup -> [Op -> PluginStates]]
      /\ bo.pc # "idle" => bo.key \in Backup
      /\ bf.pc # "idle" => bf.key \in Backup
  BY DEF StoreTypeOK, UploadTypeOK, Keys
<1>2. ASSUME UNCHANGED <<plugin, up, opsMap, bo>>,
             \A c \in Backup : store'[c].ops \in {store[c].ops, NoOps}
      PROVE  HonestInv'
  <2>1. \A c \in Backup : Honest(c, store'[c].ops)
    BY <1>2, NoOpsHonest DEF HonestInv
  <2> QED
    BY <1>2, <2>1 DEF HonestInv, Honest
<1>3. CASE WorldStep
  <2>1. \A c \in Backup : store'[c].ops \in {store[c].ops, NoOps}
    BY <1>1, <1>3, WorldMoves, DirectoryParts
  <2> QED
    BY <1>2, <1>3, <2>1, WorldMoves
<1>4. ASSUME NEW b \in Backup, BackupStep(Reconcile(b)) PROVE HonestInv'
  BY <1>2, <1>4, ReconcileMoves
<1>5. ASSUME NEW b \in Backup, NEW o \in Op, BackupStep(PluginEnds(b, o))
      PROVE  HonestInv'
  <2>1. \A c \in Backup, p \in Op :
            plugin[c][p] = "ok" => plugin'[c][p] = "ok"
    BY <1>1, <1>5 DEF BackupStep, PluginEnds
  <2>2. UNCHANGED <<store, up, opsMap, bo>>
    BY <1>5 DEF BackupStep, PluginEnds, operationsVars
  <2> QED
    BY <1>1, <2>1, <2>2 DEF HonestInv, Honest
<1>6. CASE \/ \E b \in Backup : FinalizerStep(TakeFinalizing(b))
           \/ FinalizerStep(Finalize)
  <2>1. \A c \in Backup : store'[c].ops = store[c].ops
    <3>1. CASE PutFinalMetadata
      BY <1>1, <3>1, DirectoryParts DEF PutFinalMetadata, StoreOk, StoreError
    <3>2. CASE PutFinalContents
      BY <1>1, <3>2, DirectoryParts DEF PutFinalContents, StoreOk, StoreError
    <3>3. CASE UNCHANGED store
      BY <3>3
    <3> QED
      BY <1>6, <3>1, <3>2, <3>3 DEF FinalizerStep, TakeFinalizing, Finalize,
         Prepare, PrepareError, TrackFinal, PatchFinal, ReadError
  <2> QED
    BY <1>2, <1>6, <2>1, FinalizeMoves
<1>7. ASSUME NEW missed \in SUBSET Backup, Restart(missed) PROVE HonestInv'
  <2>1. \A c \in Backup : up'[c].ops = NoOps /\ opsMap'[c].ops = NoOps
    BY <1>7, RestartMoves, UploadedClean DEF UpIdle
  <2>2. bo'.pc = "idle" /\ UNCHANGED <<store, plugin>>
    BY <1>7, RestartMoves
  <2>3. \A c \in Backup : /\ Honest(c, up'[c].ops)
                          /\ Honest(c, opsMap'[c].ops)
                          /\ Honest(c, store[c].ops)
    BY <2>1, NoOpsHonest DEF HonestInv
  <2> QED
    BY <2>2, <2>3 DEF HonestInv, Honest
<1>8. CASE UNCHANGED vars
  BY <1>8 DEF vars, controllerVars, HonestInv, Honest
<1>9. ASSUME NEW b \in Backup, BackupStep(\E o \in Op : PluginEnds(b, o))
      PROVE  \E o \in Op : BackupStep(PluginEnds(b, o))
  BY <1>9 DEF BackupStep
<1> QED
  BY <1>3, <1>4, <1>5, <1>6, <1>7, <1>8, <1>9, Steps, UploadHonest, PollHonest


-----------------------------------------------------------------------------
(***************************************************************************)
(* Operations that are over: from the moment a controller decides that a   *)
(* backup may be finalized, what is recorded, or about to be recorded, of  *)
(* its operations has none that still runs.                                *)
(***************************************************************************)
Over(b) == ~InProgressOps(store[b].ops)

\* An upload with such a phase, before, after it has written the operations.
UploadOver ==
    \A b \in Backup : api[b].phase = "InProgress" =>
        /\ up[b].pc # "idle" /\ up[b].phase \in FinalizingPhases =>
              ~InProgressOps(up[b].ops)
        /\ up[b].pc = "ended" /\ up[b].phase \in FinalizingPhases => Over(b)
        /\ bw[b].pc = "finishing" /\ bw[b].phase \in FinalizingPhases => Over(b)

SettledOver ==
    \A b \in Backup :
        api[b].phase \in FinalizingPhases \cup {"Completed"} => Over(b)

\* The operations controller with such a phase: it writes no operations if
\* it knows of none, which must then be true.
PollOver ==
    bo.pc \in Acting /\ bo.phase \in FinalizingPhases /\ Live(bo.key) =>
        /\ bo.pc = "patch" => Over(bo.key)
        /\ bo.pc # "patch" =>
              /\ ~InProgressOps(bo.entry.ops)
              /\ bo.entry.ops = NoOps =>
                    store[bo.key].ops = NoOps /\ opsMap[bo.key].ops = NoOps

OverInv == UploadOver /\ SettledOver /\ PollOver

OverBasis == PhaseBasis /\ MapInv /\ HonestInv /\ OverInv

LEMMA NoOpsOver == ~InProgressOps(NoOps)
BY DEF InProgressOps, NoOps

\* Polling operations does not make them none.
LEMMA PolledIsOps ==
    ASSUME NEW b, NEW ops \in Operations, NEW late,
           Polled(b, ops, late) = NoOps
    PROVE  ops = NoOps
<1>1. ASSUME NEW o \in Op PROVE FALSE
  <2>1. ops[o] \in OpStatuses
    BY DEF Operations
  <2>2. Polled(b, ops, late)[o] # "none"
    BY <2>1 DEF Polled, OpStatuses
  <2>3. NoOps[o] = "none"
    BY DEF NoOps
  <2> QED
    BY <2>2, <2>3
<1> QED
  BY <1>1 DEF Operations, NoOps

\* Backups are finalized only when no operation is left.
LEMMA NextPhaseOver ==
    ASSUME NEW w \in WaitingPhases, NEW ops, NEW errs,
           NextPhase(w, ops, errs) \in FinalizingPhases
    PROVE  ~InProgressOps(ops)
BY DEF NextPhase, WaitingPhases, FinalizingPhases

\* Users, the queue and the backup controller.
LEMMA WorldOver ==
    ASSUME PhaseBasis, OverInv, WorldStep
    PROVE  OverInv'
<1> USE DEF PhaseBasis, TypeInv, TypeOK
<1>1. /\ store \in [Backup -> Directory]
      /\ bo.pc # "idle" => bo.key \in Backup
      /\ MayEmpty \subseteq Backup
  BY LifecycleAssumption DEF StoreTypeOK, Keys
<1>2. \A c \in Backup : store'[c].ops \in {store[c].ops, NoOps}
  BY <1>1, WorldMoves, DirectoryParts
<1>3. \A c \in Backup : Over(c) => ~InProgressOps(store'[c].ops)
  BY <1>2, NoOpsOver DEF Over
<1>4. UNCHANGED <<bw, up, opsMap, bo>>
  BY WorldMoves
<1>5. \A c \in Backup :
         /\ api'[c].phase \in FinalizingPhases \cup {"Completed", "InProgress"}
               => api'[c].phase = api[c].phase
         /\ bo.pc \in Acting /\ bo.key = c /\ api'[c].phase # "Gone"
               => api'[c].phase = api[c].phase
  <2>1. \A c \in Backup :
           \/ api'[c].phase \in {api[c].phase, "Gone"}
           \/ /\ api[c].phase \in {"Absent", "New"}
              /\ api'[c].phase \in {"New", "ReadyToStart"}
    BY WorldMoves
  <2>2. bo.pc \in Acting => api[bo.key].phase \in WaitingPhases \cup {"Gone"}
    BY DEF PhaseInv, PollerInv, Acting
  <2> QED
    BY <2>1, <2>2 DEF FinalizingPhases, WaitingPhases
<1>6. UploadOver'
  BY <1>3, <1>4, <1>5 DEF OverInv, UploadOver, Over
<1>7. SettledOver'
  BY <1>3, <1>5 DEF OverInv, SettledOver, Over
<1>8. PollOver'
  <2>1. bo.pc \in Acting => bo.key \in Backup /\ (Live(bo.key)' => Live(bo.key))
    BY <1>1, <1>4, <1>5 DEF Acting, Live
  <2> QED
    BY <1>1, <1>2, <1>3, <1>4, <2>1 DEF OverInv, PollOver, Over, Acting
<1> QED
  BY <1>6, <1>7, <1>8 DEF OverInv

LEMMA ReconcileOver ==
    ASSUME Undisturbed, PhaseBasis, OverInv, NEW b \in Backup,
           BackupStep(Reconcile(b))
    PROVE  OverInv'
<1>1. bo.pc \in Acting =>
          bo.key \in Backup /\ api[bo.key].phase \in WaitingPhases \cup {"Gone"}
  BY DEF PhaseBasis, TypeInv, Keys, PhaseInv, PollerInv, Acting
<1>2. UNCHANGED <<store, up, opsMap, bo>>
  BY ReconcileMoves
<1>3. \A c \in Backup :
         \/ /\ api'[c].phase = api[c].phase
            /\ bw'[c].pc = "finishing" => bw'[c] = bw[c]
         \/ /\ api[c].phase = "ReadyToStart"
            /\ api'[c].phase \in Verdicts
            /\ bw[c].pc = "prepared"
            /\ bw'[c].pc = "patched"
         \/ /\ api[c].phase = "InProgress"
            /\ bw[c].pc = "finishing"
            /\ api'[c].phase = bw[c].phase
            /\ bw'[c].pc = "leaving"
  BY ReconcileMoves
<1>4. \A c \in Backup : /\ up[c].pc # "idle" => bw[c].pc = "running"
                        /\ bw[c].pc = "finishing" =>
                              bw[c].phase \in PostPhases \cup {"Failed"}
  BY DEF PhaseBasis, PhaseInv, WorkerInv
<1>5. UploadOver'
  BY <1>2, <1>3, <1>4 DEF OverInv, UploadOver, Over, PostPhases
<1>6. SettledOver'
  BY <1>2, <1>3, <1>4 DEF OverInv, UploadOver, SettledOver, Over, PostPhases,
     Verdicts, FinalizingPhases
<1>7. PollOver'
  <2>1. bo.pc \in Acting => (Live(bo.key)' => Live(bo.key))
    BY <1>1, <1>2, <1>3 DEF Live, WaitingPhases
  <2> QED
    BY <1>2, <2>1 DEF OverInv, PollOver, Over
<1> QED
  BY <1>5, <1>6, <1>7 DEF OverInv

\* An upload, step by step.
LEMMA UploadOverStep ==
    ASSUME PhaseBasis, OverInv, NEW b \in Backup, BackupStep(Upload(b))
    PROVE  OverInv'
<1> USE DEF PhaseBasis, TypeInv, TypeOK
<1>1. /\ store \in [Backup -> Directory]
      /\ bw \in [Backup -> [pc : WorkerPc, phase : Phases]]
      /\ up \in [Backup -> [pc : UpPc, phase : RunOutcomes \cup {"Failed"},
                            ops : Operations \cup {NoOps}]]
  BY DEF StoreTypeOK, ReconcilerTypeOK, UploadTypeOK
<1>2. /\ UNCHANGED <<api, opsMap, bo>>
      /\ bw[b].pc = "running"
      /\ \A c \in Backup \ {b} : /\ store'[c] = store[c]
                                 /\ up'[c] = up[c]
                                 /\ bw'[c] = bw[c]
  BY UploadMoves
<1>3. api[b].phase \in {"InProgress", "Gone"}
  BY <1>2 DEF PhaseInv, WorkerInv
<1>4. bo.pc \in Acting =>
          /\ bo.key \in Backup
          /\ api[bo.key].phase \in WaitingPhases \cup {"Gone"}
  BY DEF Keys, PhaseInv, PollerInv, Acting
<1>5. SettledOver'
  BY <1>2, <1>3 DEF OverInv, SettledOver, Over, FinalizingPhases
<1>6. PollOver'
  <2>1. bo.pc \in Acting /\ Live(bo.key) => bo.key # b
    BY <1>3, <1>4 DEF Live, WaitingPhases
  <2> QED
    BY <1>2, <1>4, <2>1 DEF OverInv, PollOver, Over, Live
<1> DEFINE Goal ==
      api[b].phase = "InProgress" =>
        /\ up'[b].pc # "idle" /\ up'[b].phase \in FinalizingPhases =>
              ~InProgressOps(up'[b].ops)
        /\ up'[b].pc = "ended" /\ up'[b].phase \in FinalizingPhases =>
              ~InProgressOps(store'[b].ops)
        /\ bw'[b].pc = "finishing" /\ bw'[b].phase \in FinalizingPhases =>
              ~InProgressOps(store'[b].ops)
<1>7. ASSUME BackUp(b) PROVE Goal
  <2>1. bw'[b].pc = "running"
    BY <1>2, <1>7 DEF BackUp, reconcilerVars
  <2>2. \/ \E phase, ops : /\ UpAt(b, "metadata", phase, ops)
                           /\ phase \in FinalizingPhases => ~InProgressOps(ops)
        \/ UpAt(b, "ended", "Failed", NoOps)
    BY <1>7 DEF BackUp, RunPhase, FinalizingPhases
  <2> QED
    BY <1>1, <2>1, <2>2 DEF UpAt, FinalizingPhases
<1>8. ASSUME PutMetadata(b) \/ PutContents(b) \/ UndoContents(b)
             \/ UndoMetadata(b)
      PROVE  Goal
  <2>1. bw'[b].pc = "running" /\ up[b].pc # "idle"
    BY <1>2, <1>8 DEF PutMetadata, PutContents, UndoContents, UndoMetadata,
       reconcilerVars
  <2>2. \/ \E pc \in {"contents", "lists"} : UpAt(b, pc, up[b].phase, up[b].ops)
        \/ \E pc \in UpPc : UpAt(b, pc, "Failed", up[b].ops)
    BY <1>8 DEF PutMetadata, PutContents, UndoContents, UndoMetadata, UpPc
  <2> QED
    BY <1>1, <2>1, <2>2 DEF UpAt, FinalizingPhases, OverInv, UploadOver
<1>9. ASSUME PutLists(b) PROVE Goal
  <2>1. bw'[b].pc = "running" /\ up[b].pc = "lists"
    BY <1>2, <1>9 DEF PutLists, reconcilerVars
  <2>2. \/ /\ UpAt(b, "ended", up[b].phase, up[b].ops)
           /\ store'[b].ops = up[b].ops
        \/ UpAt(b, "undoContents", "Failed", up[b].ops)
    BY <1>1, <1>9, DirectoryParts DEF PutLists, StoreOk
  <2> QED
    BY <1>1, <2>1, <2>2 DEF UpAt, FinalizingPhases, OverInv, UploadOver
<1>10. ASSUME BackedUp(b) PROVE Goal
  <2>1. up'[b].pc = "idle" /\ up[b].pc = "ended" /\ bw'[b].phase = up[b].phase
    BY <1>1, <1>10 DEF BackedUp, RunBackup, UpIdle
  <2> QED
    BY <1>10, <2>1 DEF BackedUp, OverInv, UploadOver, Over
<1>11. Goal
  BY <1>7, <1>8, <1>9, <1>10 DEF BackupStep, Upload
<1>12. UploadOver'
  BY <1>2, <1>11 DEF OverInv, UploadOver, Over
<1> QED
  BY <1>5, <1>6, <1>12 DEF OverInv

\* The operations controller polls, records and only then patches.
LEMMA PollOverStep ==
    ASSUME Undisturbed, PhaseBasis, MapInv, OverInv,
           \/ \E b \in Backup : OperationsStep(TakeWaiting(b))
           \/ \E b \in Backup : OperationsStep(DownloadOperations(b))
           \/ OperationsStep(ReconcileOperations)
    PROVE  OverInv'
<1> USE DEF PhaseBasis, TypeInv, TypeOK
<1>1. /\ store \in [Backup -> Directory]
      /\ opsMap \in [Backup -> Entry]
      /\ bo.pc # "idle" => bo.key \in Backup
  BY DEF StoreTypeOK, OperationsTypeOK, Keys
<1>2. UNCHANGED <<bw, up>>
  BY PollMoves
<1>3. bo.pc # "idle" => bo.was \in WaitingPhases
  BY DEF PhaseInv, PollerInv
<1>4. bo.pc \in Acting => api[bo.key].phase \in {bo.was, "Gone"}
  BY DEF PhaseInv, PollerInv
<1>5. ASSUME UNCHANGED <<api, store>>, PollOver' PROVE OverInv'
  BY <1>2, <1>5 DEF OverInv, UploadOver, SettledOver, Over
<1>6. ASSUME NEW b \in Backup, TakeWaiting(b) PROVE OverInv'
  <2>1. /\ bo'.phase \in WaitingPhases
        /\ UNCHANGED <<api, store>>
    BY <1>6 DEF TakeWaiting, BoAt, apiVars
  <2> QED
    BY <1>5, <2>1 DEF PollOver, WaitingPhases, FinalizingPhases
<1>7. ASSUME NEW b \in Backup, DownloadOperations(b) PROVE OverInv'
  <2>1. /\ UNCHANGED <<api, bo>>
        /\ Dirty(opsMap[b])
    BY <1>7 DEF DownloadOperations, Dirty
  <2>2. /\ store'[b].ops \in {store[b].ops, opsMap[b].ops}
        /\ \A c \in Backup \ {b} : store'[c] = store[c]
    BY <1>1, <1>7, DirectoryParts DEF DownloadOperations, StoreOk, StoreError
  <2>3. \A c \in Backup : opsMap'[c].ops = opsMap[c].ops
    BY <1>1, <1>7, UploadedClean DEF DownloadOperations
  <2>4. api[b].phase \in WaitingPhases \cup {"PartiallyFailed", "Gone"}
    BY <2>1 DEF MapInv, Live
  <2>5. UploadOver'
    BY <1>2, <2>1, <2>2, <2>4 DEF OverInv, UploadOver, Over, WaitingPhases
  <2>6. SettledOver'
    BY <2>1, <2>2, <2>4 DEF OverInv, SettledOver, Over, WaitingPhases,
       FinalizingPhases
  <2>7. PollOver'
    <3>1. bo.pc = "patch" /\ bo.phase \in FinalizingPhases => bo.key # b
      BY <2>1 DEF MapInv, FinalizingPhases
    <3> QED
      BY <1>1, <2>1, <2>2, <2>3, <3>1 DEF OverInv, PollOver, Over, Live, Acting
  <2> QED
    BY <2>5, <2>6, <2>7 DEF OverInv
<1>8. CASE LocationGone
  <2>1. /\ bo'.phase = "PartiallyFailed"
        /\ UNCHANGED <<api, store>>
    BY <1>8 DEF LocationGone, BoAt, apiVars
  <2> QED
    BY <1>5, <2>1 DEF PollOver, FinalizingPhases
<1>9. ASSUME NEW late, Poll(late) PROVE OverInv'
  <2> DEFINE key == bo.key
             old == Known(key)
             ops == IF old.ops = NoOps THEN NoOps ELSE Polled(key, old.ops, late)
  <2>1. /\ UNCHANGED <<api, store>>
        /\ bo.pc = "poll"
        /\ key \in Backup
        /\ bo.phase \in WaitingPhases
        /\ bo'.key = key
        /\ bo'.pc # "patch"
        /\ bo'.entry.ops = ops
        /\ opsMap' = [opsMap EXCEPT ![key] = old]
        /\ \E errs : bo'.phase = NextPhase(bo.phase, ops, errs)
    BY <1>1, <1>3, <1>9 DEF Poll, BoAt, apiVars, PhaseInv, PollerInv
  <2>2. bo'.phase \in FinalizingPhases => ~InProgressOps(ops)
    BY <2>1, NextPhaseOver
  <2>3. old.ops = NoOps => store[key].ops = NoOps
    BY UploadedClean DEF Known
  <2>4. opsMap'[key].ops = old.ops
    BY <1>1, <2>1
  <2>5. old.ops \in Operations \cup {NoOps}
    BY <1>1, <2>1, UploadedClean DEF Known, Directory, Entry
  <2>6. ops = NoOps => old.ops = NoOps
    BY <2>5, PolledIsOps
  <2> HIDE DEF key, old, ops
  <2>7. PollOver'
    BY <2>1, <2>2, <2>3, <2>4, <2>6 DEF PollOver, key
  <2> QED
    BY <1>5, <2>1, <2>7
<1>10. CASE PollError
  <2>1. bo'.phase \in WaitingPhases /\ UNCHANGED <<api, store>>
    BY <1>3, <1>10 DEF PollError, ReadError, BoNext, BoAt, PhaseInv, PollerInv
  <2> QED
    BY <1>5, <2>1 DEF PollOver, WaitingPhases, FinalizingPhases
<1>11. CASE PutPhase
  <2>1. /\ UNCHANGED <<api, opsMap>>
        /\ bo.pc = "putMetadata"
        /\ bo'.pc \in {"putOps", "leave"}
        /\ bo'.key = bo.key
        /\ bo'.phase = bo.phase
        /\ bo'.entry = bo.entry
    BY <1>11 DEF PutPhase, BoNext, GiveUp, BoAt
  <2>2. \A c \in Backup : store'[c].ops = store[c].ops
    BY <1>1, <1>11, DirectoryParts DEF PutPhase, StoreOk, StoreError
  <2>3. UploadOver' /\ SettledOver'
    BY <1>2, <2>1, <2>2 DEF OverInv, UploadOver, SettledOver, Over
  <2>4. PollOver'
    BY <1>1, <2>1, <2>2 DEF OverInv, PollOver, Over, Live, Acting
  <2> QED
    BY <2>3, <2>4 DEF OverInv
<1>12. CASE PutOps
  <2>1. /\ UNCHANGED api
        /\ bo.pc = "putOps"
        /\ bo.key \in Backup
        /\ api[bo.key].phase \in WaitingPhases \cup {"Gone"}
        /\ bo'.key = bo.key
        /\ bo'.phase = bo.phase
        /\ bo'.pc \in {"patch", "leave"}
    BY <1>1, <1>3, <1>4, <1>12 DEF PutOps, BoNext, GiveUp, BoAt, Acting
  <2>2. /\ \A c \in Backup \ {bo.key} : store'[c] = store[c]
        /\ bo'.pc = "patch" =>
              store'[bo.key].ops = IF bo.entry.ops = NoOps
                                   THEN store[bo.key].ops ELSE bo.entry.ops
    BY <1>1, <1>12, <2>1, DirectoryParts, UploadedClean DEF PutOps, StoreOk,
       StoreError, GiveUp, BoAt
  <2>3. UploadOver' /\ SettledOver'
    BY <1>2, <2>1, <2>2 DEF OverInv, UploadOver, SettledOver, Over,
       WaitingPhases, FinalizingPhases
  <2>4. PollOver'
    BY <2>1, <2>2, NoOpsOver DEF OverInv, PollOver, Over, Live, Acting
  <2> QED
    BY <2>3, <2>4 DEF OverInv
<1>13. CASE PatchPolled
  <2>1. /\ UNCHANGED store
        /\ bo.pc = "patch"
        /\ bo.key \in Backup
        /\ bo.phase \in Moves(bo.was) \cup {bo.was}
        /\ bo.was \in WaitingPhases
        /\ bo'.pc = "leave"
    BY <1>1, <1>3, <1>13 DEF PatchPolled, BoNext, GiveUp, BoAt, Acting,
       PhaseInv, PollerInv
  <2>2. \A c \in Backup :
           \/ api'[c].phase = api[c].phase
           \/ /\ c = bo.key
              /\ api[c].phase = bo.was
              /\ api'[c].phase = bo.phase
    BY PollMoves
  <2>3. bo.phase \notin {"InProgress", "Completed"}
    BY <2>1 DEF Moves, WaitingPhases
  <2>4. bo.phase \in FinalizingPhases /\ api[bo.key].phase = bo.was =>
            Over(bo.key)
    BY <2>1 DEF OverInv, PollOver, Live, WaitingPhases, Acting
  <2>5. UploadOver' /\ SettledOver'
    BY <1>2, <2>1, <2>2, <2>3, <2>4 DEF OverInv, UploadOver, SettledOver, Over
  <2>6. PollOver'
    BY <2>1 DEF PollOver, Acting
  <2> QED
    BY <2>5, <2>6 DEF OverInv
<1>14. CASE LeaveOperations
  <2>1. bo'.pc = "idle" /\ UNCHANGED <<api, store>>
    BY <1>14 DEF LeaveOperations, BoIdle, BoAt, apiVars
  <2> QED
    BY <1>5, <2>1 DEF PollOver, Acting
<1> QED
  BY <1>6, <1>7, <1>8, <1>9, <1>10, <1>11, <1>12, <1>13, <1>14
     DEF OperationsStep, ReconcileOperations

\* The finalizer rewrites the metadata and the contents only.
LEMMA FinalizeKeepsOps ==
    ASSUME PhaseBasis,
           \/ \E b \in Backup : FinalizerStep(TakeFinalizing(b))
           \/ FinalizerStep(Finalize)
    PROVE  \A c \in Backup : store'[c].ops = store[c].ops
<1>1. store \in [Backup -> Directory]
  BY DEF PhaseBasis, TypeInv, TypeOK, StoreTypeOK
<1>2. CASE PutFinalMetadata
  BY <1>1, <1>2, DirectoryParts DEF PutFinalMetadata, StoreOk, StoreError
<1>3. CASE PutFinalContents
  BY <1>1, <1>3, DirectoryParts DEF PutFinalContents, StoreOk, StoreError
<1>4. CASE UNCHANGED store
  BY <1>4
<1> QED
  BY <1>2, <1>3, <1>4 DEF FinalizerStep, TakeFinalizing, Finalize, Prepare,
     PrepareError, TrackFinal, PatchFinal, ReadError

LEMMA FinalizeOver ==
    ASSUME Undisturbed, PhaseBasis, OverInv,
           \/ \E b \in Backup : FinalizerStep(TakeFinalizing(b))
           \/ FinalizerStep(Finalize)
    PROVE  OverInv'
<1>1. bo.pc \in Acting =>
          bo.key \in Backup /\ api[bo.key].phase \in WaitingPhases \cup {"Gone"}
  BY DEF PhaseBasis, TypeInv, Keys, PhaseInv, PollerInv, Acting
<1>2. UNCHANGED <<bw, up, opsMap, bo>>
  BY FinalizeMoves
<1>3. \A c \in Backup : store'[c].ops = store[c].ops
  BY FinalizeKeepsOps
<1>4. \A c \in Backup :
         \/ api'[c].phase = api[c].phase
         \/ /\ api[c].phase \in FinalizingPhases
            /\ api'[c].phase \in {"Completed", "PartiallyFailed"}
  <2>1. \A c \in Backup :
           Deciding /\ c = bf.key /\ api[c].phase \in FinalizingPhases
             => bf.phase \in {"Completed", "PartiallyFailed"}
    BY DEF PhaseBasis, PhaseInv, DecisionInv, Live, FinalizingPhases, FinalPhase
  <2> QED
    BY <2>1, FinalizeMoves
<1>5. UploadOver' /\ SettledOver'
  BY <1>2, <1>3, <1>4 DEF OverInv, UploadOver, SettledOver, Over
<1>6. PollOver'
  <2>1. bo.pc \in Acting => (Live(bo.key)' => Live(bo.key))
    BY <1>1, <1>2, <1>4 DEF Live, WaitingPhases, FinalizingPhases
  <2> QED
    BY <1>1, <1>2, <1>3, <2>1 DEF OverInv, PollOver, Over
<1> QED
  BY <1>5, <1>6 DEF OverInv

\* Every step.
LEMMA NextOver ==
    ASSUME Undisturbed, PhaseBasis, MapInv, OverInv, [Next]_vars
    PROVE  OverInv'
<1>1. ASSUME NEW b \in Backup, BackupStep(\E o \in Op : PluginEnds(b, o))
      PROVE  OverInv'
  <2>1. UNCHANGED <<api, bw, up, store, opsMap, bo>>
    BY <1>1 DEF BackupStep, PluginEnds, apiVars, reconcilerVars, operationsVars
  <2> QED
    BY <2>1 DEF OverInv, UploadOver, SettledOver, PollOver, Over, Live
<1>2. ASSUME NEW missed \in SUBSET Backup, Restart(missed) PROVE OverInv'
  <2>1. TypeInv
    BY DEF PhaseBasis
  <2>2. /\ UNCHANGED store
        /\ bo'.pc = "idle"
        /\ \A b \in Backup : bw'[b].pc = "idle" /\ up'[b].pc = "idle"
        /\ \A b \in Backup : \/ api'[b].phase = api[b].phase
                             \/ api'[b].phase = "Failed"
    BY <1>2, <2>1, RestartMoves DEF UpIdle
  <2> QED
    BY <2>2 DEF OverInv, UploadOver, SettledOver, PollOver, Over, Acting,
       FinalizingPhases
<1>3. CASE UNCHANGED vars
  BY <1>3 DEF vars, controllerVars, OverInv, UploadOver, SettledOver, PollOver,
     Over, Live
<1> QED
  BY <1>1, <1>2, <1>3, Steps, WorldOver, ReconcileOver, UploadOverStep,
     PollOverStep, FinalizeOver

\* Initially nothing is recorded of any operation.
LEMMA InitOver == Init => MapInv /\ HonestInv /\ OverInv
<1> SUFFICES ASSUME Init PROVE MapInv /\ HonestInv /\ OverInv
  OBVIOUS
<1> USE DEF Init
<1>1. /\ \A b \in Backup : /\ api[b].phase = "Absent"
                           /\ up[b].ops = NoOps
                           /\ store[b].ops = NoOps
                           /\ opsMap[b] = NoEntry
      /\ bo.pc = "idle"
  BY DEF ApiInit, Absent, UploadInit, UpIdle, OperationsInit, BoIdle, BoAt,
     StoreInit, Empty
<1>2. MapInv
  BY <1>1, UploadedClean DEF MapInv
<1>3. HonestInv
  BY <1>1, NoOpsHonest, UploadedClean DEF HonestInv
<1>4. OverInv
  BY <1>1 DEF OverInv, UploadOver, SettledOver, PollOver, FinalizingPhases,
     Acting
<1> QED
  BY <1>2, <1>3, <1>4

\* Whoever lets a backup be finalized has seen its operations end.
THEOREM OverInductive == Undisturbed => (Spec => []OverBasis)
<1> SUFFICES ASSUME Undisturbed PROVE Spec => []OverBasis
  OBVIOUS
<1>1. Init => OverBasis
  BY InitType, InitPhases, InitOver DEF OverBasis, PhaseBasis
<1>2. OverBasis /\ [Next]_vars => OverBasis'
  <2> SUFFICES ASSUME OverBasis, [Next]_vars PROVE OverBasis'
    OBVIOUS
  <2>1. PhaseBasis'
    BY NextType, NextCache, NextPhases DEF OverBasis, PhaseBasis
  <2> QED
    BY <2>1, NextMap, NextHonest, NextOver DEF OverBasis
<1> QED
  BY <1>1, <1>2, PTL DEF Spec

\* A backup that is finalized, or Completed, has no operation recorded as
\* running, and those recorded as completed have completed: neither the
\* controller that uploads it nor the one that polls it lets it go too early,
\* whatever calls fail and whenever the server restarts.
THEOREM OperationsEnd == Undisturbed => (Spec => []NoUnfinishedOperations)
<1> SUFFICES ASSUME Undisturbed PROVE Spec => []NoUnfinishedOperations
  OBVIOUS
<1>1. Spec => []OverBasis
  BY OverInductive
<1>2. OverBasis => NoUnfinishedOperations
  BY DEF OverBasis, OverInv, SettledOver, Over, HonestInv, Honest,
     NoUnfinishedOperations
<1> QED
  BY <1>1, <1>2, PTL

-----------------------------------------------------------------------------
(***************************************************************************)
(* What is in the store when a backup is Completed.  Nobody may have       *)
(* emptied the directory (MayEmpty): the program cannot help that.         *)
(***************************************************************************)
Contents(b) == IF HasOps(b) THEN "final" ELSE "initial"

\* An upload that has not failed has written the contents ...
UploadStored ==
    \A b \in Backup :
        /\ api[b].phase = "InProgress"
        /\ \/ up[b].pc = "lists"
           \/ up[b].pc = "ended" /\ up[b].phase # "Failed"
           \/ bw[b].pc = "finishing" /\ bw[b].phase # "Failed"
        => store[b].contents = "initial"

\* ... which stay until the finalizer rewrites them ...
PhaseStored ==
    \A b \in Backup :
        /\ api[b].phase \in WaitingPhases => store[b].contents = "initial"
        /\ api[b].phase \in FinalizingPhases =>
              store[b].contents \in {"initial", Contents(b)}
        /\ api[b].phase = "Completed" =>
              store[b].meta = "Completed" /\ store[b].contents = Contents(b)

\* ... as it does before it patches the backup, if there are operations.
FinalStored ==
    Deciding /\ Live(bf.key) /\ bf.pc # "prepare" =>
        /\ bf.ops = HasOps(bf.key)
        /\ bf.pc = "putContents" => bf.ops
        /\ bf.pc # "putMetadata" => store[bf.key].meta = bf.phase
        /\ bf.pc \in {"track", "patch"} =>
              store[bf.key].contents = Contents(bf.key)

StoredInv == UploadStored /\ PhaseStored /\ FinalStored

StoredBasis == PhaseBasis /\ MapInv /\ StoredInv

\* A step that leaves the directories of the backups that are being
\* finalized, or are Completed, alone.
LEMMA FinalStoredKept ==
    ASSUME PhaseBasis, StoredInv, UNCHANGED bf,
           \A c \in Backup :
               /\ api'[c].phase # "Gone" => api[c].phase # "Gone"
               /\ api[c].phase \in FinalizingPhases => store'[c] = store[c]
    PROVE  FinalStored'
<1>1. bf.pc # "idle" => bf.key \in Backup
  BY DEF PhaseBasis, TypeInv, TypeOK, Keys
<1>2. Deciding => bf.pc # "idle"
  BY DEF Deciding
<1>3. Deciding /\ Live(bf.key) => api[bf.key].phase \in FinalizingPhases
  BY DEF PhaseBasis, PhaseInv, DecisionInv
<1>4. Deciding' = Deciding
  BY DEF Deciding
<1>5. Deciding /\ Live(bf.key)' =>
         Live(bf.key) /\ store'[bf.key] = store[bf.key]
  BY <1>1, <1>2, <1>3 DEF Live
<1> QED
  BY <1>4, <1>5 DEF StoredInv, FinalStored, Contents, HasOps

\* Users, the queue and the backup controller.
LEMMA WorldStored ==
    ASSUME PhaseBasis, StoredInv, MayEmpty = {}, WorldStep
    PROVE  StoredInv'
<1>1. TypeInv
  BY DEF PhaseBasis
<1>2. /\ UNCHANGED <<bw, up, bf, store>>
      /\ \A c \in Backup :
            \/ api'[c].phase \in {api[c].phase, "Gone"}
            \/ /\ api[c].phase \in {"Absent", "New"}
               /\ api'[c].phase \in {"New", "ReadyToStart"}
  BY <1>1, WorldMoves
<1>3. UploadStored' /\ PhaseStored'
  BY <1>2 DEF StoredInv, UploadStored, PhaseStored, Contents, HasOps,
     WaitingPhases, FinalizingPhases
<1>4. FinalStored'
  BY <1>2, FinalStoredKept
<1> QED
  BY <1>3, <1>4 DEF StoredInv

LEMMA ReconcileStored ==
    ASSUME Undisturbed, PhaseBasis, StoredInv, NEW b \in Backup,
           BackupStep(Reconcile(b))
    PROVE  StoredInv'
<1>1. UNCHANGED <<store, up, bf>>
  BY ReconcileMoves
<1>2. \A c \in Backup :
         \/ /\ api'[c].phase = api[c].phase
            /\ bw'[c].pc = "finishing" => bw'[c] = bw[c]
         \/ /\ api[c].phase = "ReadyToStart"
            /\ api'[c].phase \in Verdicts
            /\ bw[c].pc = "prepared"
            /\ bw'[c].pc = "patched"
         \/ /\ api[c].phase = "InProgress"
            /\ bw[c].pc = "finishing"
            /\ api'[c].phase = bw[c].phase
            /\ bw'[c].pc = "leaving"
  BY ReconcileMoves
<1>3. \A c \in Backup : /\ up[c].pc # "idle" => bw[c].pc = "running"
                        /\ bw[c].pc = "finishing" =>
                              bw[c].phase \in PostPhases \cup {"Failed"}
  BY DEF PhaseBasis, PhaseInv, WorkerInv
<1>4. UploadStored'
  BY <1>1, <1>2, <1>3 DEF StoredInv, UploadStored, PostPhases
<1>5. PhaseStored'
  <2>1. \A c \in Backup :
           \/ api'[c].phase = api[c].phase
           \/ api'[c].phase \in {"InProgress", "FailedValidation", "Failed"}
           \/ api'[c].phase \in PostPhases /\ store[c].contents = "initial"
    BY <1>2, <1>3 DEF StoredInv, UploadStored, Verdicts
  <2> QED
    BY <1>1, <2>1 DEF StoredInv, PhaseStored, Contents, HasOps, PostPhases,
       WaitingPhases, FinalizingPhases
<1>6. FinalStored'
  BY <1>1, <1>2, FinalStoredKept
<1> QED
  BY <1>4, <1>5, <1>6 DEF StoredInv

\* An upload, step by step.
LEMMA UploadStoredStep ==
    ASSUME PhaseBasis, StoredInv, NEW b \in Backup, BackupStep(Upload(b))
    PROVE  StoredInv'
<1> USE DEF PhaseBasis, TypeInv, TypeOK
<1>1. /\ store \in [Backup -> Directory]
      /\ bw \in [Backup -> [pc : WorkerPc, phase : Phases]]
      /\ up \in [Backup -> [pc : UpPc, phase : RunOutcomes \cup {"Failed"},
                            ops : Operations \cup {NoOps}]]
  BY DEF StoreTypeOK, ReconcilerTypeOK, UploadTypeOK
<1>2. /\ UNCHANGED <<api, bf>>
      /\ bw[b].pc = "running"
      /\ \A c \in Backup \ {b} : /\ store'[c] = store[c]
                                 /\ up'[c] = up[c]
                                 /\ bw'[c] = bw[c]
  BY UploadMoves
<1>3. api[b].phase \in {"InProgress", "Gone"}
  BY <1>2 DEF PhaseInv, WorkerInv
<1>4. PhaseStored'
  BY <1>2, <1>3 DEF StoredInv, PhaseStored, Contents, HasOps, FinalizingPhases,
     WaitingPhases
<1>5. FinalStored'
  BY <1>2, <1>3, FinalStoredKept DEF FinalizingPhases
<1> DEFINE Goal ==
        /\ api[b].phase = "InProgress"
        /\ \/ up'[b].pc = "lists"
           \/ up'[b].pc = "ended" /\ up'[b].phase # "Failed"
           \/ bw'[b].pc = "finishing" /\ bw'[b].phase # "Failed"
        => store'[b].contents = "initial"
<1>6. ASSUME BackUp(b) PROVE Goal
  <2>1. bw'[b].pc = "running"
    BY <1>2, <1>6 DEF BackUp, reconcilerVars
  <2>2. \/ \E phase, ops : UpAt(b, "metadata", phase, ops)
        \/ UpAt(b, "ended", "Failed", NoOps)
    BY <1>6 DEF BackUp
  <2> QED
    BY <1>1, <2>1, <2>2 DEF UpAt
<1>7. ASSUME PutMetadata(b) \/ UndoContents(b) \/ UndoMetadata(b) PROVE Goal
  <2>1. bw'[b].pc = "running"
    BY <1>2, <1>7 DEF PutMetadata, UndoContents, UndoMetadata, reconcilerVars
  <2>2. \/ UpAt(b, "contents", up[b].phase, up[b].ops)
        \/ \E pc \in {"ended", "undoMetadata"} : UpAt(b, pc, "Failed", up[b].ops)
    BY <1>7 DEF PutMetadata, UndoContents, UndoMetadata
  <2> QED
    BY <1>1, <2>1, <2>2 DEF UpAt
<1>8. ASSUME PutContents(b) PROVE Goal
  <2>1. bw'[b].pc = "running"
    BY <1>2, <1>8 DEF PutContents, reconcilerVars
  <2>2. \/ /\ UpAt(b, "lists", up[b].phase, up[b].ops)
           /\ store'[b].contents = "initial"
        \/ UpAt(b, "undoMetadata", "Failed", up[b].ops)
    BY <1>1, <1>8, DirectoryParts DEF PutContents, StoreOk
  <2> QED
    BY <1>1, <2>1, <2>2 DEF UpAt
<1>9. ASSUME PutLists(b) PROVE Goal
  <2>1. bw'[b].pc = "running" /\ up[b].pc = "lists"
    BY <1>2, <1>9 DEF PutLists, reconcilerVars
  <2>2. \/ /\ UpAt(b, "ended", up[b].phase, up[b].ops)
           /\ store'[b].contents = store[b].contents
        \/ UpAt(b, "undoContents", "Failed", up[b].ops)
    BY <1>1, <1>9, DirectoryParts DEF PutLists, StoreOk
  <2> QED
    BY <1>1, <2>1, <2>2 DEF UpAt, StoredInv, UploadStored
<1>10. ASSUME BackedUp(b) PROVE Goal
  <2>1. up'[b].pc = "idle" /\ up[b].pc = "ended" /\ bw'[b].phase = up[b].phase
    BY <1>1, <1>10 DEF BackedUp, RunBackup, UpIdle
  <2> QED
    BY <1>10, <2>1 DEF BackedUp, StoredInv, UploadStored
<1>11. Goal
  BY <1>6, <1>7, <1>8, <1>9, <1>10 DEF BackupStep, Upload
<1>12. UploadStored'
  BY <1>2, <1>11 DEF StoredInv, UploadStored
<1> QED
  BY <1>4, <1>5, <1>12 DEF StoredInv

\* The operations controller writes metadata and operations, of backups
\* that still wait or have been given up.
LEMMA PollWrites ==
    ASSUME Undisturbed, PhaseBasis, MapInv,
           \/ \E b \in Backup : OperationsStep(TakeWaiting(b))
           \/ \E b \in Backup : OperationsStep(DownloadOperations(b))
           \/ OperationsStep(ReconcileOperations)
    PROVE  \A c \in Backup :
              /\ store'[c].contents = store[c].contents
              /\ \/ store'[c] = store[c]
                 \/ api[c].phase \in
                       WaitingPhases \cup {"PartiallyFailed", "Gone"}
<1> USE DEF PhaseBasis, TypeInv, TypeOK
<1>1. /\ store \in [Backup -> Directory]
      /\ bo.pc # "idle" => bo.key \in Backup
      /\ bo.pc \in Acting =>
            api[bo.key].phase \in WaitingPhases \cup {"Gone"}
  BY DEF StoreTypeOK, Keys, PhaseInv, PollerInv, Acting
<1> DEFINE Goal ==
      \A c \in Backup :
          /\ store'[c].contents = store[c].contents
          /\ \/ store'[c] = store[c]
             \/ api[c].phase \in WaitingPhases \cup {"PartiallyFailed", "Gone"}
<1>2. ASSUME NEW b \in Backup, DownloadOperations(b) PROVE Goal
  <2>1. api[b].phase \in WaitingPhases \cup {"PartiallyFailed", "Gone"}
    BY <1>2 DEF DownloadOperations, MapInv, Live, Dirty
  <2> QED
    BY <1>1, <1>2, <2>1, DirectoryParts DEF DownloadOperations, StoreOk,
       StoreError
<1>3. ASSUME PutPhase PROVE Goal
  BY <1>1, <1>3, DirectoryParts DEF PutPhase, StoreOk, StoreError, Acting
<1>4. ASSUME PutOps PROVE Goal
  BY <1>1, <1>4, DirectoryParts DEF PutOps, StoreOk, StoreError, Acting
<1>5. Goal
  BY <1>2, <1>3, <1>4 DEF OperationsStep, TakeWaiting, ReconcileOperations,
     LocationGone, Poll, PollError, ReadError, PatchPolled, LeaveOperations
<1> QED
  BY <1>5

LEMMA PollStored ==
    ASSUME Undisturbed, PhaseBasis, MapInv, StoredInv,
           \/ \E b \in Backup : OperationsStep(TakeWaiting(b))
           \/ \E b \in Backup : OperationsStep(DownloadOperations(b))
           \/ OperationsStep(ReconcileOperations)
    PROVE  StoredInv'
<1>1. UNCHANGED <<bw, up, bf>>
  BY PollMoves
<1>2. \A c \in Backup :
         \/ api'[c].phase = api[c].phase
         \/ /\ api[c].phase \in WaitingPhases
            /\ api'[c].phase \notin {"InProgress", "Completed", "Gone"}
  <2>1. \A c \in Backup :
           \/ api'[c].phase = api[c].phase
           \/ /\ PatchPolled
              /\ api[c].phase = bo.was
              /\ api'[c].phase = bo.phase
              /\ bo.phase # bo.was
    BY PollMoves
  <2>2. PatchPolled => /\ bo.was \in WaitingPhases
                       /\ bo.phase \in Moves(bo.was) \cup {bo.was}
    BY DEF PatchPolled, PhaseBasis, PhaseInv, PollerInv, Acting
  <2>3. \A w \in WaitingPhases : \A p \in Moves(w) :
            p \notin {"InProgress", "Completed", "Gone"}
    BY DEF Moves, WaitingPhases, Phases, PostPhases, TerminalPhases
  <2> QED
    BY <2>1, <2>2, <2>3
<1>3. \A c \in Backup :
         /\ store'[c].contents = store[c].contents
         /\ \/ store'[c] = store[c]
            \/ api[c].phase \in WaitingPhases \cup {"PartiallyFailed", "Gone"}
  BY PollWrites
<1>4. UploadStored'
  BY <1>1, <1>2, <1>3 DEF StoredInv, UploadStored
<1>5. PhaseStored'
  BY <1>2, <1>3 DEF StoredInv, PhaseStored, Contents, HasOps, WaitingPhases,
     FinalizingPhases
<1>6. FinalStored'
  BY <1>1, <1>2, <1>3, FinalStoredKept DEF FinalizingPhases, WaitingPhases
<1> QED
  BY <1>4, <1>5, <1>6 DEF StoredInv

\* The finalizer, step by step.
LEMMA FinalizeStored ==
    ASSUME Undisturbed, PhaseBasis, StoredInv,
           \/ \E b \in Backup : FinalizerStep(TakeFinalizing(b))
           \/ FinalizerStep(Finalize)
    PROVE  StoredInv'
<1> USE DEF PhaseBasis, TypeInv, TypeOK
<1>1. /\ store \in [Backup -> Directory]
      /\ bf.pc # "idle" => bf.key \in Backup
      /\ Deciding /\ Live(bf.key) => api[bf.key].phase \in FinalizingPhases
  BY DEF StoreTypeOK, Keys, PhaseInv, DecisionInv
<1>2. UNCHANGED <<bw, up>>
  BY FinalizeMoves
<1>3. ASSUME UNCHANGED api,
             \A c \in Backup :
                \/ store'[c] = store[c]
                \/ /\ api[c].phase \in FinalizingPhases \cup {"Gone"}
                   /\ store'[c].ops = store[c].ops
                   /\ store'[c].contents \in {store[c].contents, Contents(c)}
      PROVE  UploadStored' /\ PhaseStored'
  BY <1>2, <1>3 DEF StoredInv, UploadStored, PhaseStored, Contents, HasOps,
     WaitingPhases, FinalizingPhases
<1>4. ASSUME NEW b \in Backup, TakeFinalizing(b) PROVE StoredInv'
  <2>1. UNCHANGED <<api, store>>
    BY <1>4 DEF TakeFinalizing, apiVars
  <2>2. bf' = bf \/ bf'.pc = "prepare"
    BY <1>4 DEF TakeFinalizing, BfAt
  <2>3. FinalStored'
    BY <2>1, <2>2 DEF StoredInv, FinalStored, Deciding, Live, Contents, HasOps
  <2> QED
    BY <1>3, <2>1, <2>3 DEF StoredInv
<1>5. CASE Prepare
  <2>1. UNCHANGED <<api, store>>
    BY <1>5 DEF Prepare, apiVars
  <2>2. bf' = BfAt("putMetadata", bf.key, bf.phase, HasOps(bf.key))
    BY <1>5 DEF Prepare
  <2>3. FinalStored'
    BY <2>1, <2>2 DEF FinalStored, BfAt, HasOps
  <2> QED
    BY <1>3, <2>1, <2>3 DEF StoredInv
<1>6. ASSUME bf' = Failing PROVE FinalStored'
  BY <1>6 DEF Failing, BfAt, FinalStored, Deciding
<1>7. CASE PrepareError
  <2>1. UNCHANGED <<api, store>> /\ bf' = Failing
    BY <1>7 DEF PrepareError, ReadError
  <2> QED
    BY <1>3, <1>6, <2>1 DEF StoredInv
<1>8. CASE PutFinalMetadata
  <2>1. /\ UNCHANGED api
        /\ bf.pc = "putMetadata"
        /\ bf.key \in Backup
        /\ Deciding
    BY <1>1, <1>8 DEF PutFinalMetadata, Deciding
  <2>2. /\ \A c \in Backup \ {bf.key} : store'[c] = store[c]
        /\ store'[bf.key].ops = store[bf.key].ops
        /\ store'[bf.key].contents = store[bf.key].contents
    BY <1>1, <1>8, <2>1, DirectoryParts DEF PutFinalMetadata, StoreOk, StoreError
  <2>3. UploadStored' /\ PhaseStored'
    BY <1>1, <1>3, <2>1, <2>2 DEF Live
  <2>4. ASSUME bf' # Failing PROVE FinalStored'
    <3>1. /\ bf' = BfAt(IF bf.ops THEN "putContents" ELSE "track",
                        bf.key, bf.phase, bf.ops)
          /\ store'[bf.key].meta = bf.phase
      BY <1>1, <1>8, <2>1, <2>4, DirectoryParts DEF PutFinalMetadata, StoreOk
    <3>2. ASSUME Live(bf.key)
          PROVE  /\ bf.ops = HasOps(bf.key)
                 /\ store[bf.key].contents \in {"initial", Contents(bf.key)}
      BY <1>1, <2>1, <3>2 DEF StoredInv, FinalStored, PhaseStored
    <3>3. CASE bf.ops
      BY <2>1, <2>2, <3>1, <3>2, <3>3 DEF FinalStored, BfAt, HasOps, Live
    <3>4. CASE ~bf.ops
      BY <2>1, <2>2, <3>1, <3>2, <3>4 DEF FinalStored, BfAt, HasOps, Live,
         Contents
    <3> QED
      BY <3>3, <3>4
  <2> QED
    BY <1>6, <2>3, <2>4 DEF StoredInv
<1>9. CASE PutFinalContents
  <2>1. /\ UNCHANGED api
        /\ bf.pc = "putContents"
        /\ bf.key \in Backup
        /\ Deciding
    BY <1>1, <1>9 DEF PutFinalContents, Deciding
  <2>2. /\ \A c \in Backup \ {bf.key} : store'[c] = store[c]
        /\ store'[bf.key].ops = store[bf.key].ops
        /\ store'[bf.key].meta = store[bf.key].meta
        /\ store'[bf.key].contents \in {store[bf.key].contents, "final"}
        /\ \/ bf' = Failing
           \/ /\ bf' = BfAt("track", bf.key, bf.phase, bf.ops)
              /\ store'[bf.key].contents = "final"
    BY <1>1, <1>9, <2>1, DirectoryParts DEF PutFinalContents, StoreOk, StoreError
  <2>3. Live(bf.key) => /\ bf.ops
                        /\ bf.ops = HasOps(bf.key)
                        /\ store[bf.key].meta = bf.phase
    BY <2>1 DEF StoredInv, FinalStored
  <2>4. Live(bf.key) => Contents(bf.key) = "final"
    BY <2>3 DEF Contents
  <2>5. \A c \in Backup :
           \/ store'[c] = store[c]
           \/ /\ api[c].phase \in FinalizingPhases \cup {"Gone"}
              /\ store'[c].ops = store[c].ops
              /\ \/ api[c].phase = "Gone"
                 \/ store'[c].contents \in {store[c].contents, Contents(c)}
    BY <1>1, <2>1, <2>2, <2>4 DEF Live
  <2>6. UploadStored' /\ PhaseStored'
    BY <1>2, <2>1, <2>5 DEF StoredInv, UploadStored, PhaseStored, Contents,
       HasOps, WaitingPhases, FinalizingPhases
  <2>7. ASSUME bf' # Failing PROVE FinalStored'
    <3>1. HasOps(bf.key)' = HasOps(bf.key)
      BY <2>2, <2>7 DEF HasOps, BfAt
    <3> QED
      BY <2>1, <2>2, <2>3, <2>7, <3>1 DEF FinalStored, BfAt, Live, Contents
  <2> QED
    BY <1>6, <2>6, <2>7 DEF StoredInv
<1>10. CASE TrackFinal
  <2>1. /\ UNCHANGED <<api, store>>
        /\ bf.pc = "track"
        /\ bf' = BfAt("patch", bf.key, bf.phase, bf.ops)
    BY <1>10 DEF TrackFinal, apiVars
  <2>2. FinalStored'
    BY <2>1 DEF StoredInv, FinalStored, Deciding, Live, Contents, HasOps, BfAt
  <2> QED
    BY <1>3, <2>1, <2>2 DEF StoredInv
<1>11. CASE PatchFinal
  <2>1. UNCHANGED store /\ bf.pc = "patch"
    BY <1>11 DEF PatchFinal
  <2>2. \A c \in Backup :
           \/ api'[c].phase = api[c].phase
           \/ /\ bf' = BfIdle
              /\ Deciding
              /\ c = bf.key
              /\ api[c].phase \in FinalizingPhases
              /\ api'[c].phase = bf.phase
    BY FinalizeMoves
  <2>3. \A c \in Backup :
           Deciding /\ c = bf.key /\ api[c].phase \in FinalizingPhases =>
              /\ bf.phase \in {"Completed", "PartiallyFailed"}
              /\ store[c].meta = bf.phase
              /\ store[c].contents = Contents(c)
    BY <2>1 DEF PhaseInv, DecisionInv, Live, FinalizingPhases, FinalPhase,
       StoredInv, FinalStored
  <2>4. UploadStored'
    BY <1>2, <2>1, <2>2, <2>3 DEF StoredInv, UploadStored
  <2>5. PhaseStored'
    BY <2>1, <2>2, <2>3 DEF StoredInv, PhaseStored, Contents, HasOps,
       WaitingPhases, FinalizingPhases
  <2>6. ASSUME bf' = BfIdle PROVE FinalStored'
    BY <2>6 DEF BfIdle, BfAt, FinalStored, Deciding
  <2>7. ASSUME bf' = bf, bf # BfIdle PROVE FinalStored'
    <3>1. \A c \in Backup : api'[c].phase = api[c].phase
      BY <2>2, <2>7
    <3> QED
      BY <2>1, <2>7, <3>1, FinalStoredKept
  <2>8. bf' \in {bf, BfIdle}
    BY <1>11 DEF PatchFinal
  <2> QED
    BY <2>4, <2>5, <2>6, <2>7, <2>8 DEF StoredInv
<1> QED
  BY <1>4, <1>5, <1>7, <1>8, <1>9, <1>10, <1>11 DEF FinalizerStep, Finalize

\* Every step.
LEMMA NextStored ==
    ASSUME Undisturbed, MayEmpty = {}, PhaseBasis, MapInv, StoredInv,
           [Next]_vars
    PROVE  StoredInv'
<1>1. ASSUME UNCHANGED <<api, bw, up, store, bf>> PROVE StoredInv'
  BY <1>1 DEF StoredInv, UploadStored, PhaseStored, FinalStored, Deciding,
     Live, Contents, HasOps
<1>2. ASSUME NEW b \in Backup, BackupStep(\E o \in Op : PluginEnds(b, o))
      PROVE  StoredInv'
  BY <1>1, <1>2 DEF BackupStep, PluginEnds, apiVars, reconcilerVars,
     finalizerVars
<1>3. ASSUME NEW missed \in SUBSET Backup, Restart(missed) PROVE StoredInv'
  <2>1. TypeInv
    BY DEF PhaseBasis
  <2>2. /\ UNCHANGED store
        /\ bf'.pc = "idle"
        /\ \A b \in Backup : bw'[b].pc = "idle" /\ up'[b].pc = "idle"
        /\ \A b \in Backup : \/ api'[b].phase = api[b].phase
                             \/ api'[b].phase = "Failed"
    BY <1>3, <2>1, RestartMoves DEF UpIdle
  <2> QED
    BY <2>2 DEF StoredInv, UploadStored, PhaseStored, FinalStored, Deciding,
       Contents, HasOps, WaitingPhases, FinalizingPhases
<1>4. CASE UNCHANGED vars
  BY <1>1, <1>4 DEF vars, controllerVars
<1> QED
  BY <1>2, <1>3, <1>4, Steps, WorldStored, ReconcileStored, UploadStoredStep,
     PollStored, FinalizeStored

\* What is in the store fits the phase, and the finalizer's place.
THEOREM StoredInductive ==
    Undisturbed /\ MayEmpty = {} => (Spec => []StoredBasis)
<1> SUFFICES ASSUME Undisturbed, MayEmpty = {} PROVE Spec => []StoredBasis
  OBVIOUS
<1>1. Init => StoredBasis
  <2> SUFFICES ASSUME Init PROVE StoredBasis
    OBVIOUS
  <2>1. \A b \in Backup : api[b].phase = "Absent"
    BY DEF Init, ApiInit, Absent
  <2>2. bf.pc = "idle"
    BY DEF Init, FinalizerInit, BfIdle, BfAt
  <2>3. StoredInv
    BY <2>1, <2>2 DEF StoredInv, UploadStored, PhaseStored, FinalStored,
       Deciding, WaitingPhases, FinalizingPhases
  <2> QED
    BY <2>3, InitType, InitPhases, InitOver DEF StoredBasis, PhaseBasis
<1>2. StoredBasis /\ [Next]_vars => StoredBasis'
  <2> SUFFICES ASSUME StoredBasis, [Next]_vars PROVE StoredBasis'
    OBVIOUS
  <2>1. PhaseBasis'
    BY NextType, NextCache, NextPhases DEF StoredBasis, PhaseBasis
  <2> QED
    BY <2>1, NextMap, NextStored DEF StoredBasis
<1> QED
  BY <1>1, <1>2, PTL DEF Spec

\* A backup that is Completed is in the store, with that phase in its
\* metadata and with the contents it should have: the finalizer patches it
\* last, and no upload or poll that overlaps it takes anything back.
THEOREM CompletedBackupsStored ==
    Undisturbed /\ MayEmpty = {} => (Spec => []CompletedIsStored)
<1> SUFFICES ASSUME Undisturbed, MayEmpty = {}
             PROVE  Spec => []CompletedIsStored
  OBVIOUS
<1>1. Spec => []StoredBasis
  BY StoredInductive
<1>2. StoredBasis => CompletedIsStored
  BY DEF StoredBasis, StoredInv, PhaseStored, Contents, CompletedIsStored
<1> QED
  BY <1>1, <1>2, PTL

-----------------------------------------------------------------------------
(***************************************************************************)
(* While no call fails and the server does not restart, a failure that the *)
(* controllers have recorded, in the store or in their map, is on its way  *)
(* to the backup's phase.                                                  *)
(***************************************************************************)
NoneFailed(ops) == \A o \in Op : ops[o] # "failed"

GoodPhases == {"WaitingForPluginOperations", "Finalizing", "Completed"}

UploadTells ==
    \A b \in Backup : api[b].phase = "InProgress" =>
        /\ up[b].pc # "idle" /\ up[b].phase \in GoodPhases =>
              NoneFailed(up[b].ops)
        /\ up[b].pc = "ended" /\ up[b].phase \in GoodPhases =>
              NoneFailed(store[b].ops)
        /\ bw[b].pc = "finishing" /\ bw[b].phase \in GoodPhases =>
              NoneFailed(store[b].ops)

\* The next patch tells of the failure, if none has done so.
PhaseTells ==
    \A b \in Backup : api[b].phase \in GoodPhases =>
        \/ NoneFailed(store[b].ops) /\ NoneFailed(opsMap[b].ops)
        \/ bo.key = b /\ bo.pc = "patch" /\ bo.phase \notin GoodPhases

PollTells ==
    bo.pc # "idle" /\ Live(bo.key) =>
        /\ bo.phase \in GoodPhases => NoneFailed(bo.entry.ops)
        /\ bo.pc = "leave" /\ api[bo.key].phase \in GoodPhases =>
              bo.phase \in GoodPhases
        /\ api[bo.key].phase \in GoodPhases => bo.was \in GoodPhases

Tells == UploadTells /\ PhaseTells /\ PollTells

TellInv == faults = 0 /\ restarts = 0 => Tells

TellBasis == PhaseBasis /\ MapInv /\ TellInv

LEMMA NoOpsTell == NoneFailed(NoOps)
BY DEF NoneFailed, NoOps

\* Polling finds failures only of operations that were running.
LEMMA PolledTells ==
    ASSUME NEW b, NEW ops, NEW late, NoneFailed(ops),
           ~NewFailures(ops, Polled(b, ops, late))
    PROVE  NoneFailed(Polled(b, ops, late))
BY DEF NoneFailed, NewFailures, Polled

\* A backup never moves back into a phase that tells of no failure.
LEMMA GoodMoves ==
    /\ \A w \in WaitingPhases : \A p \in Moves(w) \cup {w} :
          p \in GoodPhases => w \in GoodPhases
    /\ \A errs, ops : \A w \in WaitingPhases :
          /\ errs => NextPhase(w, ops, errs) \notin GoodPhases
          /\ ~errs /\ w \in GoodPhases =>
                NextPhase(w, ops, errs) \in GoodPhases
    /\ GoodPhases \cap WaitingPhases = {"WaitingForPluginOperations"}
BY DEF GoodPhases, WaitingPhases, Moves, NextPhase

\* A step of which the operations controller has no part.
LEMMA OtherTells ==
    ASSUME PhaseBasis, MapInv, Tells,
           UNCHANGED <<opsMap, bo>>,
           \A c \in Backup : api[c].phase \in GoodPhases =>
               store'[c].ops \in {store[c].ops, NoOps},
           \A c \in Backup : api'[c].phase \in GoodPhases =>
               \/ api[c].phase \in GoodPhases
               \/ /\ api[c].phase \in Early
                  /\ NoneFailed(store'[c].ops),
           \A c \in Backup : api[c].phase = "Gone" => api'[c].phase = "Gone"
    PROVE  PhaseTells' /\ PollTells'
<1>1. bo.pc # "idle" => bo.key \in Backup /\ api[bo.key].phase \notin Early
  BY DEF PhaseBasis, TypeInv, Keys, MapInv
<1>2. PhaseTells'
  <2> SUFFICES ASSUME NEW c \in Backup, api'[c].phase \in GoodPhases
               PROVE  \/ NoneFailed(store'[c].ops) /\ NoneFailed(opsMap[c].ops)
                      \/ /\ bo.key = c
                         /\ bo.pc = "patch"
                         /\ bo.phase \notin GoodPhases
    BY DEF PhaseTells
  <2>1. CASE api[c].phase \in GoodPhases
    BY <2>1, NoOpsTell DEF Tells, PhaseTells
  <2>2. CASE api[c].phase \in Early /\ NoneFailed(store'[c].ops)
    <3>1. opsMap[c].ops = NoOps
      BY <2>2, UploadedClean DEF MapInv
    <3> QED
      BY <2>2, <3>1, NoOpsTell
  <2> QED
    BY <2>1, <2>2
<1>3. PollTells'
  BY <1>1 DEF Tells, PollTells, Live
<1> QED
  BY <1>2, <1>3

LEMMA WorldTells ==
    ASSUME PhaseBasis, MapInv, Tells, WorldStep
    PROVE  Tells'
<1>1. TypeInv /\ store \in [Backup -> Directory] /\ MayEmpty \subseteq Backup
  BY LifecycleAssumption DEF PhaseBasis, TypeInv, TypeOK, StoreTypeOK
<1>2. /\ UNCHANGED <<bw, up, opsMap, bo>>
      /\ \A c \in Backup :
            \/ api'[c].phase \in {api[c].phase, "Gone"}
            \/ /\ api[c].phase \in {"Absent", "New"}
               /\ api'[c].phase \in {"New", "ReadyToStart"}
  BY <1>1, WorldMoves
<1>3. \A c \in Backup : store'[c].ops \in {store[c].ops, NoOps}
  BY <1>1, WorldMoves, DirectoryParts
<1>4. UploadTells'
  BY <1>2, <1>3, NoOpsTell DEF Tells, UploadTells
<1>5. PhaseTells' /\ PollTells'
  BY <1>2, <1>3, OtherTells DEF GoodPhases
<1> QED
  BY <1>4, <1>5 DEF Tells

LEMMA ReconcileTells ==
    ASSUME Undisturbed, PhaseBasis, MapInv, Tells, NEW b \in Backup,
           BackupStep(Reconcile(b))
    PROVE  Tells'
<1>1. UNCHANGED <<store, up, opsMap, bo>>
  BY ReconcileMoves
<1>2. \A c \in Backup :
         \/ /\ api'[c].phase = api[c].phase
            /\ bw'[c].pc = "finishing" => bw'[c] = bw[c]
         \/ /\ api[c].phase = "ReadyToStart"
            /\ api'[c].phase \in Verdicts
            /\ bw[c].pc = "prepared"
            /\ bw'[c].pc = "patched"
         \/ /\ api[c].phase = "InProgress"
            /\ bw[c].pc = "finishing"
            /\ api'[c].phase = bw[c].phase
            /\ bw'[c].pc = "leaving"
  BY ReconcileMoves
<1>3. \A c \in Backup : /\ up[c].pc # "idle" => bw[c].pc = "running"
                        /\ bw[c].pc = "finishing" =>
                              bw[c].phase \in PostPhases \cup {"Failed"}
  BY DEF PhaseBasis, PhaseInv, WorkerInv
<1>4. UploadTells'
  BY <1>1, <1>2, <1>3 DEF Tells, UploadTells, PostPhases
<1>5. PhaseTells' /\ PollTells'
  <2>1. \A c \in Backup : api'[c].phase \in GoodPhases =>
           \/ api[c].phase \in GoodPhases
           \/ api[c].phase \in Early /\ NoneFailed(store'[c].ops)
    BY <1>1, <1>2 DEF Tells, UploadTells, Verdicts, GoodPhases, Early
  <2> QED
    BY <1>1, <1>2, <2>1, OtherTells
<1> QED
  BY <1>4, <1>5 DEF Tells

\* An upload, step by step.
LEMMA UploadTellsStep ==
    ASSUME PhaseBasis, MapInv, Tells, NEW b \in Backup, BackupStep(Upload(b))
    PROVE  Tells'
<1> USE DEF PhaseBasis, TypeInv, TypeOK
<1>1. /\ store \in [Backup -> Directory]
      /\ bw \in [Backup -> [pc : WorkerPc, phase : Phases]]
      /\ up \in [Backup -> [pc : UpPc, phase : RunOutcomes \cup {"Failed"},
                            ops : Operations \cup {NoOps}]]
  BY DEF StoreTypeOK, ReconcilerTypeOK, UploadTypeOK
<1>2. /\ UNCHANGED <<api, opsMap, bo>>
      /\ bw[b].pc = "running"
      /\ \A c \in Backup \ {b} : /\ store'[c] = store[c]
                                 /\ up'[c] = up[c]
                                 /\ bw'[c] = bw[c]
  BY UploadMoves
<1>3. api[b].phase \in {"InProgress", "Gone"}
  BY <1>2 DEF PhaseInv, WorkerInv
<1>4. PhaseTells' /\ PollTells'
  BY <1>2, <1>3, OtherTells DEF GoodPhases
<1> DEFINE Goal ==
      api[b].phase = "InProgress" =>
        /\ up'[b].pc # "idle" /\ up'[b].phase \in GoodPhases =>
              NoneFailed(up'[b].ops)
        /\ up'[b].pc = "ended" /\ up'[b].phase \in GoodPhases =>
              NoneFailed(store'[b].ops)
        /\ bw'[b].pc = "finishing" /\ bw'[b].phase \in GoodPhases =>
              NoneFailed(store'[b].ops)
<1>5. ASSUME BackUp(b) PROVE Goal
  <2>1. bw'[b].pc = "running"
    BY <1>2, <1>5 DEF BackUp, reconcilerVars
  <2>2. \/ \E phase, ops : /\ UpAt(b, "metadata", phase, ops)
                           /\ phase \in GoodPhases => NoneFailed(ops)
        \/ UpAt(b, "ended", "Failed", NoOps)
    BY <1>5 DEF BackUp, RunPhase, GoodPhases, NoneFailed
  <2> QED
    BY <1>1, <2>1, <2>2 DEF UpAt, GoodPhases
<1>6. ASSUME PutMetadata(b) \/ PutContents(b) \/ UndoContents(b)
             \/ UndoMetadata(b)
      PROVE  Goal
  <2>1. bw'[b].pc = "running" /\ up[b].pc # "idle"
    BY <1>2, <1>6 DEF PutMetadata, PutContents, UndoContents, UndoMetadata,
       reconcilerVars
  <2>2. \/ \E pc \in {"contents", "lists"} : UpAt(b, pc, up[b].phase, up[b].ops)
        \/ \E pc \in UpPc : UpAt(b, pc, "Failed", up[b].ops)
    BY <1>6 DEF PutMetadata, PutContents, UndoContents, UndoMetadata, UpPc
  <2> QED
    BY <1>1, <2>1, <2>2 DEF UpAt, GoodPhases, Tells, UploadTells
<1>7. ASSUME PutLists(b) PROVE Goal
  <2>1. bw'[b].pc = "running" /\ up[b].pc = "lists"
    BY <1>2, <1>7 DEF PutLists, reconcilerVars
  <2>2. \/ /\ UpAt(b, "ended", up[b].phase, up[b].ops)
           /\ store'[b].ops = up[b].ops
        \/ UpAt(b, "undoContents", "Failed", up[b].ops)
    BY <1>1, <1>7, DirectoryParts DEF PutLists, StoreOk
  <2> QED
    BY <1>1, <2>1, <2>2 DEF UpAt, GoodPhases, Tells, UploadTells
<1>8. ASSUME BackedUp(b) PROVE Goal
  <2>1. up'[b].pc = "idle" /\ up[b].pc = "ended" /\ bw'[b].phase = up[b].phase
    BY <1>1, <1>8 DEF BackedUp, RunBackup, UpIdle
  <2> QED
    BY <1>8, <2>1 DEF BackedUp, Tells, UploadTells
<1>9. Goal
  BY <1>5, <1>6, <1>7, <1>8 DEF BackupStep, Upload
<1>10. UploadTells'
  BY <1>2, <1>9 DEF Tells, UploadTells
<1> QED
  BY <1>4, <1>10 DEF Tells

\* The operations controller, in steps in which no call fails.
LEMMA PollTellsStep ==
    ASSUME Undisturbed, PhaseBasis, MapInv, Tells, faults' = 0, faults = 0,
           \/ \E b \in Backup : OperationsStep(TakeWaiting(b))
           \/ \E b \in Backup : OperationsStep(DownloadOperations(b))
           \/ OperationsStep(ReconcileOperations)
    PROVE  Tells'
<1> USE DEF PhaseBasis, TypeInv, TypeOK
<1>1. /\ store \in [Backup -> Directory]
      /\ opsMap \in [Backup -> Entry]
      /\ bo.pc # "idle" => bo.key \in Backup
      /\ bo.pc # "idle" => bo.was \in WaitingPhases
      /\ bo.pc \in Acting => /\ api[bo.key].phase \in {bo.was, "Gone"}
                             /\ bo.phase \in Moves(bo.was) \cup {bo.was}
  BY DEF StoreTypeOK, OperationsTypeOK, Keys, PhaseInv, PollerInv
<1>2. UNCHANGED <<bw, up>>
  BY PollMoves
<1>3. ASSUME \A c \in Backup :
                \/ store'[c].ops = store[c].ops
                \/ api[c].phase # "InProgress",
             \A c \in Backup : api'[c].phase = "InProgress" =>
                api[c].phase = "InProgress"
      PROVE  UploadTells'
  BY <1>2, <1>3 DEF Tells, UploadTells
<1>4. ASSUME UNCHANGED api,
             \A c \in Backup : store'[c].ops = store[c].ops,
             \A c \in Backup :
                \/ opsMap'[c].ops = opsMap[c].ops
                \/ api[c].phase \in GoodPhases => NoneFailed(opsMap'[c].ops),
             bo.pc # "patch"
      PROVE  UploadTells' /\ PhaseTells'
  BY <1>2, <1>4 DEF Tells, UploadTells, PhaseTells
<1>5. ASSUME NEW b \in Backup, TakeWaiting(b) PROVE Tells'
  <2>1. cache = api
    BY <1>5, FreshCache DEF Undisturbed, TakeWaiting
  <2>2. UNCHANGED <<api, store, opsMap>> /\ bo.pc = "idle"
    BY <1>5 DEF TakeWaiting, apiVars
  <2>3. /\ bo'.key = b
        /\ bo'.was = api[b].phase
        /\ bo'.pc = "poll"
        /\ bo'.entry.ops = NoOps
    BY <1>5, <2>1, UploadedClean DEF TakeWaiting, BoAt
  <2>4. PollTells'
    BY <2>2, <2>3, NoOpsTell DEF PollTells
  <2> QED
    BY <1>4, <2>2, <2>4 DEF Tells
<1>6. ASSUME NEW b \in Backup, DownloadOperations(b) PROVE Tells'
  <2>1. UNCHANGED <<api, bo>> /\ Dirty(opsMap[b])
    BY <1>6 DEF DownloadOperations, Dirty
  <2>2. /\ store'[b].ops \in {store[b].ops, opsMap[b].ops}
        /\ \A c \in Backup \ {b} : store'[c] = store[c]
    BY <1>1, <1>6, DirectoryParts DEF DownloadOperations, StoreOk, StoreError
  <2>3. \A c \in Backup : opsMap'[c].ops = opsMap[c].ops
    BY <1>1, <1>6, UploadedClean DEF DownloadOperations
  <2>4. api[b].phase # "InProgress"
    BY <2>1 DEF MapInv, Live, WaitingPhases
  <2>5. UploadTells'
    BY <1>3, <2>1, <2>2, <2>4
  <2>6. PhaseTells'
    BY <2>1, <2>2, <2>3 DEF Tells, PhaseTells
  <2>7. PollTells'
    BY <2>1 DEF Tells, PollTells, Live
  <2> QED
    BY <2>5, <2>6, <2>7 DEF Tells
<1>7. CASE LocationGone
  <2>1. /\ UNCHANGED <<api, store, opsMap>>
        /\ bo.pc = "poll"
        /\ bo'.pc = "patch"
        /\ bo'.key = bo.key
        /\ bo'.was = bo.was
        /\ bo'.phase = "PartiallyFailed"
    BY <1>7 DEF LocationGone, BoAt, apiVars
  <2>2. PollTells'
    BY <2>1 DEF Tells, PollTells, Live, GoodPhases
  <2> QED
    BY <1>4, <2>1, <2>2 DEF Tells
<1>8. ASSUME NEW late, Poll(late) PROVE Tells'
  <2> DEFINE key == bo.key
             old == Known(key)
             ops == IF old.ops = NoOps THEN NoOps ELSE Polled(key, old.ops, late)
             errs == old.errs \/ NewFailures(old.ops, ops)
  <2>1. /\ UNCHANGED <<api, store>>
        /\ bo.pc = "poll"
        /\ key \in Backup
        /\ bo.phase = bo.was
        /\ bo.was \in WaitingPhases
        /\ api[key].phase \in {bo.was, "Gone"}
    BY <1>1, <1>8 DEF Poll, apiVars, PhaseInv, PollerInv, Acting
  <2>2. /\ bo'.key = key
        /\ bo'.was = bo.was
        /\ bo'.entry.ops = ops
        /\ opsMap' = [opsMap EXCEPT ![key] = old]
        /\ bo'.phase = NextPhase(bo.phase, ops, errs)
        /\ errs => bo'.pc # "leave"
    BY <1>8 DEF Poll, BoAt
  <2>3. api[key].phase \in GoodPhases => NoneFailed(old.ops)
    BY <2>1, UploadedClean DEF Known, Tells, PhaseTells
  <2>4. NoneFailed(old.ops) /\ ~errs => NoneFailed(ops)
    BY NoOpsTell, PolledTells
  <2> HIDE DEF key, old, ops, errs
  <2>5. bo'.phase \in GoodPhases => ~errs /\ bo.was \in GoodPhases
    <3>1. bo'.phase \in Moves(bo.was) \cup {bo.was}
      BY <2>1, <2>2, NextPhaseMoves
    <3> QED
      BY <2>1, <2>2, <3>1, GoodMoves
  <2>6. PollTells'
    <3> SUFFICES ASSUME Live(key)
                 PROVE  /\ bo'.phase \in GoodPhases => NoneFailed(ops)
                        /\ bo'.pc = "leave" /\ api[key].phase \in GoodPhases =>
                              bo'.phase \in GoodPhases
                        /\ api[key].phase \in GoodPhases =>
                              bo.was \in GoodPhases
      BY <2>1, <2>2 DEF PollTells, Live
    <3>1. api[key].phase = bo.was
      BY <2>1 DEF Live
    <3> QED
      BY <2>1, <2>2, <2>3, <2>4, <2>5, <3>1, GoodMoves
  <2>7. opsMap'[key].ops = old.ops /\ \A c \in Backup \ {key} : opsMap'[c] = opsMap[c]
    BY <1>1, <2>1, <2>2
  <2> QED
    BY <1>4, <2>1, <2>3, <2>6, <2>7 DEF Tells
<1>9. CASE PollError
  BY <1>9 DEF PollError, ReadError
<1>10. CASE PutPhase
  <2>1. /\ UNCHANGED <<api, opsMap>>
        /\ bo.pc = "putMetadata"
        /\ bo' = BoNext("putOps", bo.entry)
    BY <1>10 DEF PutPhase, StoreError
  <2>2. \A c \in Backup : store'[c].ops = store[c].ops
    BY <1>1, <1>10, DirectoryParts DEF PutPhase, StoreOk, StoreError
  <2>3. PollTells'
    BY <2>1 DEF Tells, PollTells, Live, BoNext, BoAt
  <2> QED
    BY <1>4, <2>1, <2>2, <2>3 DEF Tells
<1>11. CASE PutOps
  <2>1. /\ UNCHANGED api
        /\ bo.pc = "putOps"
        /\ bo.key \in Backup
        /\ api[bo.key].phase \in {bo.was, "Gone"}
        /\ bo.phase \in Moves(bo.was) \cup {bo.was}
        /\ bo.was \in WaitingPhases
        /\ opsMap' = [opsMap EXCEPT ![bo.key] = Uploaded(bo.entry.ops)]
        /\ bo' = BoNext("patch", Uploaded(bo.entry.ops))
    BY <1>1, <1>11 DEF PutOps, StoreError, Acting
  <2>2. /\ bo'.pc = "patch"
        /\ bo'.key = bo.key
        /\ bo'.was = bo.was
        /\ bo'.phase = bo.phase
        /\ bo'.entry.ops = bo.entry.ops
    BY <2>1, UploadedClean DEF BoNext, BoAt
  <2>3. /\ \A c \in Backup \ {bo.key} : store'[c] = store[c]
        /\ store'[bo.key].ops \in {store[bo.key].ops, bo.entry.ops}
    BY <1>1, <1>11, <2>1, DirectoryParts, UploadedClean DEF PutOps, StoreOk,
       StoreError
  <2>4. UploadTells'
    BY <1>3, <2>1, <2>3 DEF WaitingPhases
  <2>5. PollTells'
    BY <2>1, <2>2 DEF Tells, PollTells, Live
  <2>6. ASSUME api[bo.key].phase \in GoodPhases
        PROVE  NoneFailed(store[bo.key].ops) /\ Live(bo.key)
    BY <2>1, <2>6 DEF Tells, PhaseTells, Live, GoodPhases
  <2>7. PhaseTells'
    <3> SUFFICES ASSUME NEW c \in Backup, api[c].phase \in GoodPhases
                 PROVE  \/ /\ NoneFailed(store'[c].ops)
                           /\ NoneFailed(opsMap'[c].ops)
                        \/ bo.key = c /\ bo.phase \notin GoodPhases
      BY <2>1, <2>2 DEF PhaseTells
    <3>1. CASE c # bo.key
      BY <1>1, <2>1, <2>3, <3>1 DEF Tells, PhaseTells
    <3>2. CASE c = bo.key /\ bo.phase \in GoodPhases
      <4>1. NoneFailed(bo.entry.ops)
        BY <2>1, <2>6, <3>2 DEF Tells, PollTells
      <4>2. opsMap'[c].ops = bo.entry.ops
        BY <1>1, <2>1, <3>2, UploadedClean
      <4> QED
        BY <2>3, <2>6, <3>2, <4>1, <4>2
    <3> QED
      BY <3>1, <3>2
  <2> QED
    BY <2>4, <2>5, <2>7 DEF Tells
<1>12. CASE PatchPolled
  <2>1. /\ UNCHANGED <<store, opsMap>>
        /\ bo.pc = "patch"
        /\ bo.key \in Backup
        /\ api[bo.key].phase \in {bo.was, "Gone"}
        /\ bo.phase \in Moves(bo.was) \cup {bo.was}
        /\ bo.was \in WaitingPhases
    BY <1>1, <1>12 DEF PatchPolled, Acting
  <2>2. /\ bo'.pc = "leave"
        /\ bo'.key = bo.key
        /\ bo'.was = bo.was
        /\ bo'.phase = bo.phase
        /\ bo'.entry = bo.entry
    BY <1>12 DEF PatchPolled, BoNext, GiveUp, BoAt
  <2>3. \A c \in Backup \ {bo.key} : api'[c].phase = api[c].phase
    BY PollMoves
  <2>4. api[bo.key].phase = bo.was => api'[bo.key].phase = bo.phase
    <3>1. api \in [Backup -> Object]
      BY DEF ApiTypeOK
    <3>2. api[bo.key].phase = bo.was => Exists(api[bo.key])
      BY <2>1 DEF Exists, WaitingPhases
    <3>3. CASE PatchOk(bo.key, IF bo.phase = bo.was THEN api[bo.key]
                               ELSE [phase |-> bo.phase,
                                     pos |-> api[bo.key].pos])
      BY <2>1, <3>1, <3>3 DEF PatchOk, Store
    <3>4. CASE PatchError(bo.key, IF bo.phase = bo.was THEN api[bo.key]
                                  ELSE [phase |-> bo.phase,
                                        pos |-> api[bo.key].pos])
      BY <3>2, <3>4 DEF PatchError
    <3> QED
      BY <1>12, <3>3, <3>4 DEF PatchPolled
  <2>5. api[bo.key].phase = "Gone" => api'[bo.key].phase = "Gone"
    <3>1. "Gone" \notin WaitingPhases
      BY DEF WaitingPhases
    <3> QED
      BY <2>1, <3>1, PollMoves
  <2>6. bo.phase # "InProgress"
    BY <2>1 DEF Moves, WaitingPhases
  <2>7. bo.phase \in GoodPhases => bo.was \in GoodPhases
    BY <2>1, GoodMoves
  <2>8. UploadTells'
    BY <1>3, <2>1, <2>3, <2>4, <2>5, <2>6
  <2>9. PollTells'
    BY <2>1, <2>2, <2>4, <2>5, <2>7 DEF Tells, PollTells, Live, GoodPhases
  <2>10. PhaseTells'
    <3> SUFFICES ASSUME NEW c \in Backup, api'[c].phase \in GoodPhases
                 PROVE  NoneFailed(store[c].ops) /\ NoneFailed(opsMap[c].ops)
      BY <2>1 DEF PhaseTells
    <3>1. CASE c # bo.key
      BY <2>3, <3>1 DEF Tells, PhaseTells
    <3>2. CASE c = bo.key
      <4>1. bo.phase \in GoodPhases /\ api[c].phase \in GoodPhases
        BY <2>1, <2>4, <2>5, <2>7, <3>2 DEF GoodPhases
      <4> QED
        BY <4>1 DEF Tells, PhaseTells
    <3> QED
      BY <3>1, <3>2
  <2> QED
    BY <2>8, <2>9, <2>10 DEF Tells
<1>13. CASE LeaveOperations
  <2>1. /\ UNCHANGED <<api, store>>
        /\ bo'.pc = "idle"
        /\ bo.pc = "leave"
        /\ bo.key \in Backup
    BY <1>1, <1>13 DEF LeaveOperations, BoIdle, BoAt, apiVars
  <2>2. \/ UNCHANGED opsMap
        \/ opsMap' = [opsMap EXCEPT ![bo.key] = NoEntry]
        \/ opsMap' = [opsMap EXCEPT ![bo.key] = bo.entry]
    BY <1>13 DEF LeaveOperations
  <2>3. api[bo.key].phase \in GoodPhases => NoneFailed(bo.entry.ops)
    BY <2>1 DEF Tells, PollTells, Live, GoodPhases
  <2>4. \A c \in Backup :
           \/ opsMap'[c].ops = opsMap[c].ops
           \/ api[c].phase \in GoodPhases => NoneFailed(opsMap'[c].ops)
    BY <1>1, <2>1, <2>2, <2>3, NoOpsTell, UploadedClean
  <2>5. PollTells'
    BY <2>1 DEF PollTells
  <2> QED
    BY <1>4, <2>1, <2>4, <2>5 DEF Tells
<1> QED
  BY <1>5, <1>6, <1>7, <1>8, <1>9, <1>10, <1>11, <1>12, <1>13
     DEF OperationsStep, ReconcileOperations

LEMMA FinalizeTells ==
    ASSUME Undisturbed, PhaseBasis, MapInv, Tells,
           \/ \E b \in Backup : FinalizerStep(TakeFinalizing(b))
           \/ FinalizerStep(Finalize)
    PROVE  Tells'
<1>1. UNCHANGED <<bw, up, opsMap, bo>>
  BY FinalizeMoves
<1>2. \A c \in Backup : store'[c].ops = store[c].ops
  BY FinalizeKeepsOps
<1>3. \A c \in Backup :
         \/ api'[c].phase = api[c].phase
         \/ /\ api[c].phase \in FinalizingPhases
            /\ api'[c].phase = FinalPhase(api[c].phase)
  <2>1. \A c \in Backup :
           Deciding /\ c = bf.key /\ api[c].phase \in FinalizingPhases
             => bf.phase = FinalPhase(api[c].phase)
    BY DEF PhaseBasis, PhaseInv, DecisionInv, Live, FinalizingPhases
  <2> QED
    BY <2>1, FinalizeMoves
<1>4. UploadTells'
  BY <1>1, <1>2, <1>3 DEF Tells, UploadTells, FinalPhase
<1>5. PhaseTells' /\ PollTells'
  BY <1>1, <1>2, <1>3, OtherTells DEF GoodPhases, FinalPhase, FinalizingPhases
<1> QED
  BY <1>4, <1>5 DEF Tells

\* Every step.
LEMMA NextTells ==
    ASSUME Undisturbed, PhaseBasis, MapInv, TellInv, [Next]_vars
    PROVE  TellInv'
<1> SUFFICES ASSUME faults' = 0, restarts' = 0 PROVE Tells'
  BY DEF TellInv
<1>1. ASSUME NEW missed \in SUBSET Backup, Restart(missed) PROVE Tells'
  BY <1>1, RestartMoves DEF PhaseBasis
<1>2. ASSUME faults = 0, UNCHANGED restarts PROVE Tells
  BY <1>2 DEF TellInv
<1>3. ASSUME Tells, UNCHANGED <<api, bw, up, store, opsMap, bo>> PROVE Tells'
  BY <1>3 DEF Tells, UploadTells, PhaseTells, PollTells, Live
<1>4. CASE WorldStep
  <2>1. TypeInv
    BY DEF PhaseBasis
  <2> QED
    BY <1>2, <1>4, <2>1, WorldMoves, WorldTells
<1>5. ASSUME NEW b \in Backup, BackupStep(Reconcile(b)) PROVE Tells'
  BY <1>2, <1>5, ReconcileMoves, ReconcileTells DEF NoFewerFaults
<1>6. ASSUME NEW b \in Backup, BackupStep(Upload(b)) PROVE Tells'
  BY <1>2, <1>6, UploadMoves, UploadTellsStep DEF NoFewerFaults
<1>7. ASSUME NEW b \in Backup, BackupStep(\E o \in Op : PluginEnds(b, o))
      PROVE  Tells'
  <2>1. UNCHANGED <<api, bw, up, store, opsMap, bo, faults, restarts>>
    BY <1>7 DEF BackupStep, PluginEnds, apiVars, reconcilerVars, operationsVars
  <2> QED
    BY <1>2, <1>3, <2>1
<1>8. CASE \/ \E b \in Backup : OperationsStep(TakeWaiting(b))
           \/ \E b \in Backup : OperationsStep(DownloadOperations(b))
           \/ OperationsStep(ReconcileOperations)
  BY <1>2, <1>8, PollMoves, PollTellsStep DEF NoFewerFaults
<1>9. CASE \/ \E b \in Backup : FinalizerStep(TakeFinalizing(b))
           \/ FinalizerStep(Finalize)
  BY <1>2, <1>9, FinalizeMoves, FinalizeTells DEF NoFewerFaults
<1>10. CASE UNCHANGED vars
  <2>1. UNCHANGED <<api, bw, up, store, opsMap, bo, faults, restarts>>
    BY <1>10 DEF vars, controllerVars
  <2> QED
    BY <1>2, <1>3, <2>1
<1> QED
  BY <1>1, <1>4, <1>5, <1>6, <1>7, <1>8, <1>9, <1>10, Steps

\* A failure that is recorded is told, or will be by the next patch.
THEOREM TellInductive == Undisturbed => (Spec => []TellBasis)
<1> SUFFICES ASSUME Undisturbed PROVE Spec => []TellBasis
  OBVIOUS
<1>1. Init => TellBasis
  <2> SUFFICES ASSUME Init PROVE TellBasis
    OBVIOUS
  <2>1. \A b \in Backup : api[b].phase = "Absent"
    BY DEF Init, ApiInit, Absent
  <2>2. bo.pc = "idle"
    BY DEF Init, OperationsInit, BoIdle, BoAt
  <2>3. TellInv
    BY <2>1, <2>2 DEF TellInv, Tells, UploadTells, PhaseTells, PollTells,
       GoodPhases
  <2> QED
    BY <2>3, InitType, InitPhases, InitOver DEF TellBasis, PhaseBasis
<1>2. TellBasis /\ [Next]_vars => TellBasis'
  <2> SUFFICES ASSUME TellBasis, [Next]_vars PROVE TellBasis'
    OBVIOUS
  <2>1. PhaseBasis'
    BY NextType, NextCache, NextPhases DEF TellBasis, PhaseBasis
  <2> QED
    BY <2>1, NextMap, NextTells DEF TellBasis
<1> QED
  BY <1>1, <1>2, PTL DEF Spec

\* While no call fails and the server does not restart, a backup of which an
\* operation has failed is not Completed: the poll that finds the failure
\* writes it to the phase before it lets the backup go, and a download of
\* the operations in between takes nothing away.
THEOREM FailuresShow ==
    Undisturbed => (Spec => []FailuresShowUndisturbed)
<1> SUFFICES ASSUME Undisturbed PROVE Spec => []FailuresShowUndisturbed
  OBVIOUS
<1>1. Spec => []TellBasis
  BY TellInductive
<1>2. TellBasis => FailuresShowUndisturbed
  <2> SUFFICES ASSUME TellBasis, faults = 0, restarts = 0,
                      NEW b \in Backup, api[b].phase = "Completed"
               PROVE  NoneFailed(store[b].ops)
    BY DEF FailuresShowUndisturbed, FailedOperationsShow, NoneFailed
  <2>1. ~(bo.key = b /\ bo.pc = "patch")
    BY DEF TellBasis, PhaseBasis, PhaseInv, PollerInv, Acting, WaitingPhases
  <2> QED
    BY <2>1 DEF TellBasis, TellInv, Tells, PhaseTells, GoodPhases
<1> QED
  BY <1>1, <1>2, PTL
=============================================================================
