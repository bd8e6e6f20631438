------------------------- MODULE BackupQueue_proofs -------------------------
(***************************************************************************)
(* Proofs about BackupQueue, for any set of backups, namespaces and        *)
(* bounds: types, exclusion, what a step does to the objects, the order of *)
(* the queue, the limit on running backups and the refinement of           *)
(* BackupAdmission.                                                        *)
(***************************************************************************)
EXTENDS BackupQueue, FiniteSetTheorems, SequenceTheorems, TLAPS

(***************************************************************************)
(* What a write to the API server preserves.                               *)
(***************************************************************************)

\* Storing an object keeps api and watch well typed (BackupApi!Store).
LEMMA StoreType ==
    ASSUME ApiTypeOK, NEW b \in Backup, NEW o \in Object, Store(b, o)
    PROVE  /\ api' \in [Backup -> Object]
           /\ watch' \in Seq(Change)
<1>1. [key |-> b, obj |-> o] \in Change
  BY DEF Change
<1>2. Append(watch, [key |-> b, obj |-> o]) \in Seq(Change)
  BY <1>1 DEF ApiTypeOK
<1> QED
  BY <1>2 DEF ApiTypeOK, Store

\* So does a patch, whether its caller gets an answer or an error.
LEMMA PatchType ==
    ASSUME ApiTypeOK, NEW b \in Backup, NEW o \in Object,
           PatchOk(b, o) \/ PatchError(b, o), UNCHANGED cache
    PROVE  ApiTypeOK'
<1>1. MaxFaults \in Nat
  BY ApiAssumption
<1>2. faults' \in 0 .. MaxFaults
  BY <1>1 DEF ApiTypeOK, PatchOk, PatchError
<1>3. /\ api' \in [Backup -> Object]
      /\ watch' \in Seq(Change)
  <2>1. CASE Store(b, o)
    BY <2>1, StoreType
  <2>2. CASE UNCHANGED <<api, watch>>
    BY <2>2 DEF ApiTypeOK
  <2> QED
    BY <2>1, <2>2 DEF PatchOk, PatchError
<1> QED
  BY <1>2, <1>3 DEF ApiTypeOK

-----------------------------------------------------------------------------
(***************************************************************************)
(* Type correctness.                                                       *)
(***************************************************************************)

\* An idle queue worker is a queue worker.
LEMMA QIdleType == QIdle \in QueueWorker /\ QIdle.pc = "idle"
BY DEF QIdle, At, Unseen, QueueWorker, QueuePc

\* An idle worker of the backup controller is well typed.
LEMMA IdleType == Idle \in [pc : WorkerPc, phase : Phases]
BY DEF Idle, WorkerPc, Phases

\* The initial state is well typed.
LEMMA InitType == Init => TypeOK
<1> SUFFICES ASSUME Init PROVE TypeOK
  OBVIOUS
<1>1. ApiTypeOK
  <2>1. Absent \in Object
    BY DEF Absent, Object
  <2>2. MaxFaults \in Nat
    BY ApiAssumption
  <2> QED
    BY <2>1, <2>2 DEF Init, ApiInit, ApiTypeOK
<1>2. ReconcilerTypeOK
  BY IdleType DEF Init, ReconcilerInit, ReconcilerTypeOK, NewBackupTracker
<1>3. MaxRestarts \in Nat
  BY QueueAssumption
<1> QED
  BY <1>1, <1>2, <1>3, QIdleType DEF Init, TypeOK

\* The steps of the queue worker.
LEMMA ReconcileQueueType == TypeOK /\ ReconcileQueue => TypeOK'
<1> SUFFICES ASSUME TypeOK, ReconcileQueue PROVE TypeOK'
  OBVIOUS
<1> USE DEF TypeOK
<1>1. CASE ListForNew
  <2>1. PICK m \in {0} \cup {cache[b].pos : b \in Backup} :
           q' = At("enqueue", q.key, m + 1, {}, Unseen, 1)
    BY <1>1 DEF ListForNew
  <2>2. m + 1 \in Nat
    BY <2>1 DEF ApiTypeOK, Object
  <2>3. q' \in QueueWorker /\ q'.key \in Backup
    BY <1>1, <2>1, <2>2 DEF ListForNew, At, Unseen, QueueWorker, QueuePc
  <2> QED
    BY <1>1, <2>3 DEF ListForNew, apiVars, reconcilerVars, ApiTypeOK,
       ReconcilerTypeOK
<1>2. CASE ListForQueued
  <2>1. [b \in Backup |-> IF b \in OrderedQueued(cache) \ {q.key}
                          THEN cache[b].pos ELSE 0] \in [Backup -> Nat]
    BY DEF ApiTypeOK, Object
  <2>2. OrderedQueued(cache) \ {q.key} \in SUBSET Backup
    BY DEF OrderedQueued, Listed
  <2>3. q' \in QueueWorker /\ (q'.pc # "idle" => q'.key \in Backup)
    BY <1>2, <2>1, <2>2, QIdleType DEF ListForQueued, At, QueueWorker, QueuePc
  <2> QED
    BY <1>2, <2>3 DEF ListForQueued, apiVars, reconcilerVars, ApiTypeOK,
       ReconcilerTypeOK
<1>3. CASE ListError
  <2>1. faults' \in 0 .. MaxFaults
    BY <1>3, ApiAssumption DEF ListError, ApiTypeOK
  <2> QED
    BY <1>3, <2>1, QIdleType DEF ListError, reconcilerVars, ApiTypeOK,
       ReconcilerTypeOK
<1>4. CASE Enqueue
  <2>1. q.key \in Backup
    BY <1>4 DEF Enqueue
  <2>2. [phase |-> "Queued", pos |-> q.pos] \in Object
    BY DEF QueueWorker, Object, Phases
  <2>3. ApiTypeOK'
    BY <1>4, <2>1, <2>2, PatchType DEF Enqueue
  <2> QED
    BY <1>4, <2>1, <2>3, QIdleType DEF Enqueue, reconcilerVars,
       ReconcilerTypeOK
<1>5. CASE Admit
  BY <1>5 DEF Admit, At, AddReadyToStart, apiVars, ApiTypeOK, ReconcilerTypeOK,
     QueueWorker, QueuePc
<1>6. CASE Dequeue
  <2>1. q.key \in Backup
    BY <1>6 DEF Dequeue
  <2>2. [phase |-> "ReadyToStart", pos |-> 0] \in Object
    BY DEF Object, Phases
  <2>3. ApiTypeOK'
    BY <1>6, <2>1, <2>2, PatchType DEF Dequeue
  <2>4. ReconcilerTypeOK'
    BY <1>6 DEF Dequeue, Delete, ReconcilerTypeOK
  <2>5. q' \in QueueWorker /\ (q'.pc # "idle" => q'.key \in Backup)
    BY <1>6, <2>1, QIdleType DEF Dequeue, At, QueueWorker, QueuePc
  <2> QED
    BY <1>6, <2>1, <2>3, <2>4, <2>5 DEF Dequeue
<1>7. ASSUME NEW b \in Backup, Renumber(b) PROVE TypeOK'
  <2>1. [phase |-> api[b].phase, pos |-> q.next] \in Object /\ api[b] \in Object
    BY DEF QueueWorker, ApiTypeOK, Object
  <2>2. ApiTypeOK'
    BY <1>7, <2>1, PatchType DEF Renumber
  <2>3. q' \in QueueWorker /\ (q'.pc # "idle" => q'.key \in Backup)
    BY <1>7, QIdleType DEF Renumber, At, QueueWorker, QueuePc
  <2> QED
    BY <1>7, <2>2, <2>3 DEF Renumber, reconcilerVars, ReconcilerTypeOK
<1>8. CASE RenumberDone
  BY <1>8, QIdleType DEF RenumberDone, apiVars, reconcilerVars, ApiTypeOK,
     ReconcilerTypeOK
<1> QED
  BY <1>1, <1>2, <1>3, <1>4, <1>5, <1>6, <1>7, <1>8 DEF ReconcileQueue

\* The steps of the backup controller's workers.
LEMMA ReconcileBackupType ==
    ASSUME TypeOK, NEW b \in Backup, ReconcileBackup(b),
           UNCHANGED <<qkeys, q, restarts>>
    PROVE  TypeOK'
<1> USE DEF TypeOK
<1>1. SUFFICES ApiTypeOK' /\ ReconcilerTypeOK'
  OBVIOUS
<1>2. CASE TakeBackup(b)
  BY <1>2 DEF TakeBackup, apiVars, ApiTypeOK, ReconcilerTypeOK, WorkerPc,
     Phases
<1>3. ASSUME NEW phase \in {"InProgress", "FailedValidation"},
             PatchStarted(b, phase)
      PROVE  ApiTypeOK' /\ ReconcilerTypeOK'
  <2>1. [phase |-> phase, pos |-> api[b].pos] \in Object
    BY DEF ApiTypeOK, Object, Phases, TerminalPhases
  <2>2. ApiTypeOK'
    BY <1>3, <2>1, PatchType DEF PatchStarted
  <2>3. ReconcilerTypeOK'
    BY <1>3, IdleType DEF PatchStarted, ReconcilerTypeOK, WorkerPc, Phases,
       TerminalPhases
  <2> QED
    BY <2>2, <2>3
<1>4. CASE TrackStarted(b)
  BY <1>4 DEF TrackStarted, Add, apiVars, ApiTypeOK, ReconcilerTypeOK,
     WorkerPc
<1>5. ASSUME NEW phase \in RunOutcomes, RunBackup(b, phase)
      PROVE  ApiTypeOK' /\ ReconcilerTypeOK'
  <2>1. phase \in Phases
    BY ReconcilerAssumption DEF Phases, TerminalPhases
  <2> QED
    BY <1>5, <2>1 DEF RunBackup, apiVars, ApiTypeOK, ReconcilerTypeOK,
       WorkerPc
<1>6. CASE PatchFinished(b)
  <2>1. [phase |-> bw[b].phase, pos |-> api[b].pos] \in Object
    BY DEF ApiTypeOK, ReconcilerTypeOK, Object
  <2>2. ApiTypeOK'
    BY <1>6, <2>1, PatchType DEF PatchFinished
  <2>3. ReconcilerTypeOK'
    BY <1>6 DEF PatchFinished, ReconcilerTypeOK, WorkerPc
  <2> QED
    BY <2>2, <2>3
<1>7. CASE LeaveBackup(b)
  BY <1>7, IdleType DEF LeaveBackup, Delete, AddPostProcessing, apiVars,
     ApiTypeOK, ReconcilerTypeOK
<1> QED
  BY <1>2, <1>3, <1>4, <1>5, <1>6, <1>7 DEF ReconcileBackup, WorkOn, Verdicts

\* A take of a queue key, the events, the users and the restart.
LEMMA OtherType ==
    ASSUME TypeOK,
           \/ \E b \in Backup : TakeKey(b)
           \/ Deliver
           \/ \E b \in Backup : Resync(b)
           \/ PeriodicEnqueue
           \/ \E b \in Backup : CreateBackup(b)
           \/ \E b \in MayDelete : DeleteBackup(b)
           \/ \E missed \in SUBSET {b \in Backup : api[b].phase = "InProgress"} :
                 Restart(missed)
    PROVE  TypeOK'
<1> USE DEF TypeOK
<1>1. ASSUME NEW b \in Backup, TakeKey(b) PROVE TypeOK'
  <2>1. cache[b].pos \in Nat
    BY DEF ApiTypeOK, Object
  <2>2. q' \in QueueWorker /\ (q'.pc # "idle" => q'.key \in Backup)
    BY <1>1, <2>1 DEF TakeKey, At, Unseen, QueueWorker, QueuePc
  <2> QED
    BY <1>1, <2>2 DEF TakeKey, apiVars, reconcilerVars, ApiTypeOK,
       ReconcilerTypeOK
<1>2. CASE Deliver
  <2>1. Head(watch) \in Change /\ Tail(watch) \in Seq(Change)
    BY <1>2, HeadTailProperties DEF Deliver, ApiTypeOK
  <2>2. ApiTypeOK'
    BY <1>2, <2>1 DEF Deliver, ApiTypeOK, Change
  <2>3. qkeys' \in SUBSET Backup /\ bkeys' \in SUBSET Backup
    BY <1>2, <2>1 DEF Deliver, QueueKeysOn, BackupKeysOn, OrderedQueued,
       Listed, Change, ReconcilerTypeOK
  <2> QED
    BY <1>2, <2>2, <2>3 DEF Deliver, ReconcilerTypeOK
<1>3. ASSUME NEW b \in Backup, Resync(b) PROVE TypeOK'
  <2>1. qkeys' \in SUBSET Backup /\ bkeys' \in SUBSET Backup
    BY <1>3 DEF Resync, QueueKeysOn, BackupKeysOn, OrderedQueued, Listed,
       ReconcilerTypeOK
  <2> QED
    BY <1>3, <2>1 DEF Resync, apiVars, ApiTypeOK, ReconcilerTypeOK
<1>4. CASE PeriodicEnqueue
  BY <1>4 DEF PeriodicEnqueue, OrderedQueued, Listed, apiVars,
     reconcilerVars, ApiTypeOK, ReconcilerTypeOK
<1>5. ASSUME NEW b \in Backup, NEW o \in Object, Store(b, o),
             UNCHANGED <<cache, faults, reconcilerVars, qkeys, q, restarts>>
      PROVE  TypeOK'
  <2>1. ApiTypeOK'
    BY <1>5, StoreType DEF ApiTypeOK
  <2> QED
    BY <1>5, <2>1 DEF reconcilerVars, ReconcilerTypeOK
<1>6. ASSUME NEW b \in Backup, CreateBackup(b) PROVE TypeOK'
  <2>1. [phase |-> "New", pos |-> 0] \in Object
    BY DEF Object, Phases
  <2> QED
    BY <1>5, <1>6, <2>1 DEF CreateBackup
<1>7. ASSUME NEW b \in MayDelete, DeleteBackup(b) PROVE TypeOK'
  <2>1. Gone \in Object
    BY DEF Gone, Object
  <2>2. b \in Backup
    BY QueueAssumption
  <2> QED
    BY <1>5, <1>7, <2>1, <2>2 DEF DeleteBackup
<1>8. ASSUME NEW missed \in SUBSET {b \in Backup : api[b].phase = "InProgress"},
             Restart(missed)
      PROVE  TypeOK'
  <2>1. IsFiniteSet(missed)
    BY ApiAssumption, FS_Subset
  <2>2. Cardinality(missed) \in Nat
    BY <2>1, FS_CardinalityType
  <2>3. faults' \in 0 .. MaxFaults
    BY <1>8, <2>2, ApiAssumption DEF Restart, MarkInProgressFailed, ApiTypeOK
  <2>4. restarts' \in 0 .. MaxRestarts
    BY <1>8, QueueAssumption DEF Restart
  <2>5. api' \in [Backup -> Object]
    BY <1>8 DEF Restart, MarkInProgressFailed, ApiTypeOK, Object, Phases,
       TerminalPhases
  <2>6. watch' \in Seq(Change) /\ cache' = api'
    BY <1>8 DEF Restart, RelistCache
  <2>7. ReconcilerTypeOK'
    BY <1>8, IdleType DEF Restart, NewBackupTracker, ReconcilerTypeOK
  <2>8. qkeys' \in SUBSET Backup /\ q' = QIdle
    BY <1>8 DEF Restart
  <2> QED
    BY <2>3, <2>4, <2>5, <2>6, <2>7, <2>8, QIdleType DEF ApiTypeOK
<1> QED
  BY <1>1, <1>2, <1>3, <1>4, <1>6, <1>7, <1>8

\* Every step keeps the types.
LEMMA NextType == TypeOK /\ [Next]_vars => TypeOK'
<1> SUFFICES ASSUME TypeOK, [Next]_vars PROVE TypeOK'
  OBVIOUS
<1>1. CASE UNCHANGED vars
  BY <1>1 DEF vars, TypeOK, ApiTypeOK, ReconcilerTypeOK
<1>2. CASE Next
  BY <1>2, ReconcileQueueType, ReconcileBackupType, OtherType DEF Next
<1> QED
  BY <1>1, <1>2

\* Every variable of the queue and of the backup controller keeps its type,
\* whatever the workers, the users, lost calls and restarts do.
THEOREM TypeCorrect == Spec => []TypeOK
<1>1. QED
  BY InitType, NextType, PTL DEF Spec

-----------------------------------------------------------------------------
(***************************************************************************)
(* The cache.                                                              *)
(***************************************************************************)

\* A cache that may be read is the API server's state, if reads are fresh.
LEMMA FreshCache ==
    ASSUME FreshReads, TypeOK, CacheBehind, CanRead
    PROVE  cache = api
<1>1. watch = <<>>
  BY DEF CanRead
<1>2. \A b \in Backup : cache[b] = api[b]
  BY <1>1 DEF CacheBehind
<1> QED
  BY <1>2 DEF TypeOK, ApiTypeOK

\* A change that the API server stores is under way to the cache.
LEMMA StoreCache ==
    ASSUME TypeOK, CacheBehind, NEW b \in Backup, NEW o \in Object,
           Store(b, o), UNCHANGED cache
    PROVE  CacheBehind'
<1> USE DEF TypeOK, ApiTypeOK
<1>1. api' = [api EXCEPT ![b] = o]
  BY DEF Store
<1>2. CASE o = api[b]
  BY <1>1, <1>2 DEF Store, CacheBehind
<1>3. CASE o # api[b]
  <2> DEFINE e == [key |-> b, obj |-> o]
  <2>1. e \in Change
    BY DEF Change
  <2>2. watch' = Append(watch, e)
    BY <1>3 DEF Store
  <2> HIDE DEF e
  <2>3. /\ Len(watch') = Len(watch) + 1
        /\ \A i \in 1 .. Len(watch) : watch'[i] = watch[i]
        /\ watch'[Len(watch) + 1] = e
        /\ Len(watch) \in Nat
    BY <2>1, <2>2, AppendProperties
  <2>4. ASSUME NEW c \in Backup, \A i \in 1 .. Len(watch') : watch'[i].key # c
        PROVE  cache'[c] = api'[c]
    <3>1. c # b
      BY <2>3, <2>4 DEF e
    <3>2. \A i \in 1 .. Len(watch) : watch[i].key # c
      BY <2>3, <2>4
    <3> QED
      BY <1>1, <3>1, <3>2 DEF CacheBehind
  <2>5. ASSUME NEW i \in 1 .. Len(watch'),
               \A j \in i + 1 .. Len(watch') : watch'[j].key # watch'[i].key
        PROVE  watch'[i].obj = api'[watch'[i].key]
    <3>1. CASE i = Len(watch) + 1
      BY <1>1, <2>3, <3>1 DEF e
    <3>2. CASE i \in 1 .. Len(watch)
      <4>1. watch[i].key # b
        <5>1. Len(watch) + 1 \in i + 1 .. Len(watch')
          BY <2>3, <3>2
        <5>2. watch'[Len(watch) + 1].key # watch'[i].key
          BY <2>5, <5>1
        <5> QED
          BY <2>3, <3>2, <5>2 DEF e
      <4>2. \A j \in i + 1 .. Len(watch) : watch[j].key # watch[i].key
        BY <2>3, <2>5, <3>2
      <4>3. watch[i].key \in Backup
        <5>1. watch[i] \in Change
          BY <3>2, ElementOfSeq
        <5> QED
          BY <5>1 DEF Change
      <4> QED
        BY <1>1, <2>3, <3>2, <4>1, <4>2, <4>3 DEF CacheBehind
    <3> QED
      BY <2>3, <3>1, <3>2
  <2> QED
    BY <2>4, <2>5 DEF CacheBehind
<1> QED
  BY <1>2, <1>3

\* What the informer applies stays so.
LEMMA DeliverCache == TypeOK /\ CacheBehind /\ Deliver => CacheBehind'
<1> SUFFICES ASSUME TypeOK, CacheBehind, Deliver PROVE CacheBehind'
  OBVIOUS
<1> USE DEF TypeOK, ApiTypeOK
<1>1. /\ watch \in Seq(Change)
      /\ watch # <<>>
      /\ watch' = Tail(watch)
      /\ api' = api
      /\ cache' = [cache EXCEPT ![Head(watch).key] = Head(watch).obj]
  BY DEF Deliver
<1>2. /\ Len(watch') = Len(watch) - 1
      /\ \A i \in 1 .. Len(watch') : watch'[i] = watch[i + 1]
      /\ Len(watch) \in Nat \ {0}
      /\ Head(watch) = watch[1]
      /\ watch[1] \in Change
  BY <1>1, HeadTailProperties
<1>3. ASSUME NEW c \in Backup, \A i \in 1 .. Len(watch') : watch'[i].key # c
      PROVE  cache'[c] = api'[c]
  <2>1. \A i \in 2 .. Len(watch) : watch[i].key # c
    <3> TAKE i \in 2 .. Len(watch)
    <3>1. i - 1 \in 1 .. Len(watch') /\ watch'[i - 1] = watch[i]
      BY <1>2
    <3> QED
      BY <1>3, <3>1
  <2>2. CASE watch[1].key = c
    <3>1. watch[1].obj = api[watch[1].key]
      BY <1>2, <2>1, <2>2 DEF CacheBehind
    <3> QED
      BY <1>1, <1>2, <2>2, <3>1 DEF Change
  <2>3. CASE watch[1].key # c
    <3>1. cache[c] = api[c]
      BY <1>2, <2>1, <2>3 DEF CacheBehind
    <3> QED
      BY <1>1, <1>2, <2>3, <3>1
  <2> QED
    BY <2>2, <2>3
<1>4. ASSUME NEW i \in 1 .. Len(watch'),
             \A j \in i + 1 .. Len(watch') : watch'[j].key # watch'[i].key
      PROVE  watch'[i].obj = api'[watch'[i].key]
  <2>1. i + 1 \in 1 .. Len(watch) /\ watch'[i] = watch[i + 1]
    BY <1>2
  <2>2. \A j \in i + 2 .. Len(watch) : watch[j].key # watch[i + 1].key
    <3> TAKE j \in i + 2 .. Len(watch)
    <3>1. /\ j - 1 \in i + 1 .. Len(watch')
          /\ watch'[j - 1] = watch[j]
      BY <1>2
    <3> QED
      BY <1>4, <2>1, <3>1
  <2> QED
    BY <1>1, <2>1, <2>2 DEF CacheBehind
<1> QED
  BY <1>3, <1>4 DEF CacheBehind

-----------------------------------------------------------------------------
(***************************************************************************)
(* Exclusion: what every step keeps, apart from the cache.                 *)
(***************************************************************************)
Kept == PosInv /\ DeciderInv /\ RenumberInv /\ WorkerInv /\ NoConflictingActive

\* What a patch can have done to the objects.
LEMMA PatchApi ==
    ASSUME NEW b \in Backup, NEW o, PatchOk(b, o) \/ PatchError(b, o)
    PROVE  \/ UNCHANGED api
           \/ Exists(api[b]) /\ api' = [api EXCEPT ![b] = o]
BY DEF PatchOk, PatchError, Store

\* The invariant holds when nothing has happened yet.
LEMMA InitExclusion == Init => ExclusionInv
<1> SUFFICES ASSUME Init PROVE ExclusionInv
  OBVIOUS
<1>1. \A b \in Backup : api[b] = Absent /\ cache[b] = api[b]
  BY DEF Init, ApiInit
<1>2. watch = <<>> /\ bw = [b \in Backup |-> Idle] /\ q = QIdle
  BY DEF Init, ApiInit, ReconcilerInit
<1>3. CacheBehind
  BY <1>1, <1>2 DEF CacheBehind
<1>4. PosInv /\ NoConflictingActive
  BY <1>1 DEF PosInv, NoConflictingActive, Active, ActivePhases, Absent
<1>5. DeciderInv /\ RenumberInv
  BY <1>2 DEF DeciderInv, RenumberInv, QIdle, At
<1>6. WorkerInv
  BY <1>2 DEF WorkerInv, Idle
<1> QED
  BY <1>3, <1>4, <1>5, <1>6 DEF ExclusionInv

\* The queue worker takes a key.
LEMMA TakeKeyKept ==
    ASSUME FreshReads, TypeOK, CacheBehind, Kept, NEW b \in Backup, TakeKey(b)
    PROVE  Kept'
<1>1. cache = api
  BY FreshCache DEF TakeKey
<1>2. api' = api /\ bw' = bw
  BY DEF TakeKey, apiVars, reconcilerVars
<1>3. PosInv' /\ WorkerInv' /\ NoConflictingActive'
  BY <1>2 DEF Kept, PosInv, WorkerInv, NoConflictingActive, Active
<1>4. q.pc = "idle"
  BY DEF TakeKey
<1>5. DeciderInv'
  BY <1>1, <1>2, <1>4 DEF TakeKey, At, DeciderInv, Active
<1>6. RenumberInv'
  BY <1>2, <1>4 DEF TakeKey, At, Kept, RenumberInv
<1> QED
  BY <1>3, <1>5, <1>6 DEF Kept

\* It decides: a new backup goes behind the others, a queued one goes ahead
\* only if it overlaps with no running one.
LEMMA ListKept ==
    ASSUME FreshReads, TypeOK, CacheBehind, Kept,
           ListForNew \/ ListForQueued \/ ListError
    PROVE  Kept'
<1>1. api' = api /\ bw' = bw
  BY DEF ListForNew, ListForQueued, ListError, apiVars, reconcilerVars
<1>2. PosInv' /\ WorkerInv' /\ NoConflictingActive'
  BY <1>1 DEF Kept, PosInv, WorkerInv, NoConflictingActive, Active
<1>3. ASSUME q' = QIdle PROVE DeciderInv' /\ RenumberInv'
  BY <1>3 DEF QIdle, At, DeciderInv, RenumberInv
<1>4. CASE ListForNew
  <2>1. PICK m \in {0} \cup {cache[b].pos : b \in Backup} :
           q' = At("enqueue", q.key, m + 1, {}, Unseen, 1)
    BY <1>4 DEF ListForNew
  <2>2. m \in Nat
    BY <2>1 DEF TypeOK, ApiTypeOK, Object
  <2>3. RenumberInv'
    BY <2>1, <2>2 DEF At, RenumberInv
  <2>4. DeciderInv'
    BY <1>1, <1>4, <2>1 DEF ListForNew, At, Kept, DeciderInv, Active
  <2> QED
    BY <1>2, <2>3, <2>4 DEF Kept
<1>5. ASSUME ListForQueued, Runnable(cache, q.key, q.pos)
      PROVE  DeciderInv' /\ RenumberInv'
  <2>1. cache = api
    BY <1>5, FreshCache DEF ListForQueued
  <2> DEFINE todo == OrderedQueued(cache) \ {q.key}
             seen == [b \in Backup |-> IF b \in todo THEN cache[b].pos ELSE 0]
  <2>2. q' = At("admit", q.key, q.pos, todo, seen, 1)
    BY <1>5 DEF ListForQueued
  <2>3. \A b \in todo : api[b].phase = "Queued" /\ api[b].pos = seen[b]
    BY <2>1 DEF OrderedQueued, Listed
  <2>4. q.key \notin todo
    OBVIOUS
  <2>5. ~Conflicts(cache, q.key, q.pos, EarlierThan(cache, q.pos))
    BY <1>5 DEF Runnable
  <2>6. ASSUME api[q.key].phase # "Gone", NEW r \in Backup, Active(r)
        PROVE  ~Overlap(q.key, r)
    <3>1. q.key \in Backup /\ q.pc = "listQueued"
      BY <1>5 DEF ListForQueued, TypeOK
    <3>2. api[q.key].phase = "Queued" /\ api[q.key].pos = q.pos
      BY <2>6, <3>1 DEF Kept, DeciderInv
    <3>3. q.pos > 0
      BY <3>1, <3>2 DEF Kept, PosInv
    <3>4. api[r].phase # "Queued" /\ api[r].pos = 0
      BY <2>6 DEF Active, ActivePhases, Kept, PosInv, TypeOK, ApiTypeOK, Object
    <3>5. r \in EarlierThan(cache, q.pos)
      BY <2>1, <2>6, <3>3, <3>4 DEF EarlierThan, Listed, Active
    <3> QED
      BY <2>1, <2>5, <3>4, <3>5 DEF Conflicts
  <2> HIDE DEF todo, seen
  <2>7. DeciderInv'
    BY <1>1, <1>5, <2>2, <2>6 DEF ListForQueued, At, Kept, DeciderInv, Active
  <2>8. RenumberInv'
    BY <1>1, <2>2, <2>3, <2>4 DEF At, RenumberInv
  <2> QED
    BY <2>7, <2>8
<1> QED
  BY <1>2, <1>3, <1>4, <1>5 DEF ListForQueued, ListError, Kept

\* A step that touches neither the objects nor a worker.
LEMMA UnchangedKept ==
    ASSUME Kept, UNCHANGED <<api, bw, q>>
    PROVE  Kept'
BY DEF Kept, PosInv, DeciderInv, RenumberInv, WorkerInv, NoConflictingActive,
   Active

\* It patches a new backup to Queued.
LEMMA EnqueueKept ==
    ASSUME TypeOK, Kept, Enqueue
    PROVE  Kept'
<1> DEFINE queued == [phase |-> "Queued", pos |-> q.pos]
<1>1. q.key \in Backup /\ q.pc = "enqueue" /\ q' = QIdle /\ bw' = bw
  BY DEF Enqueue, TypeOK, reconcilerVars
<1>2. DeciderInv' /\ RenumberInv'
  BY <1>1 DEF QIdle, At, DeciderInv, RenumberInv
<1>3. CASE UNCHANGED api
  BY <1>1, <1>2, <1>3 DEF Kept, PosInv, WorkerInv, NoConflictingActive, Active
<1>4. CASE Exists(api[q.key]) /\ api' = [api EXCEPT ![q.key] = queued]
  <2>1. api[q.key].phase = "New" /\ q.pos > 0
    BY <1>1, <1>4 DEF Exists, Kept, DeciderInv, RenumberInv
  <2>2. \A b \in Backup : api'[b] = IF b = q.key THEN queued ELSE api[b]
    BY <1>4 DEF TypeOK, ApiTypeOK
  <2>3. PosInv'
    BY <2>1, <2>2 DEF Kept, PosInv
  <2>4. WorkerInv'
    BY <1>1, <2>1, <2>2, ReconcilerAssumption
       DEF Kept, WorkerInv, PostPhases
  <2>5. NoConflictingActive'
    BY <2>2 DEF Kept, NoConflictingActive, Active, ActivePhases
  <2> QED
    BY <1>2, <2>3, <2>4, <2>5 DEF Kept
<1> QED
  BY <1>1, <1>3, <1>4, PatchApi DEF Enqueue

\* It counts the backup it is about to dequeue.
LEMMA AdmitKept ==
    ASSUME TypeOK, Kept, Admit
    PROVE  Kept'
<1>1. /\ api' = api
      /\ bw' = bw
      /\ q.pc = "admit"
      /\ q' = At("dequeue", q.key, q.pos, q.todo, q.seen, 1)
  BY DEF Admit, apiVars
<1>2. DeciderInv' /\ RenumberInv'
  BY <1>1 DEF At, Kept, DeciderInv, RenumberInv, Active
<1> QED
  BY <1>1, <1>2 DEF Kept, PosInv, WorkerInv, NoConflictingActive, Active

\* It makes the backup ReadyToStart: none that overlaps with it is active.
LEMMA DequeueKept ==
    ASSUME TypeOK, Kept, Dequeue
    PROVE  Kept'
<1> DEFINE dequeued == [phase |-> "ReadyToStart", pos |-> 0]
<1>1. q.key \in Backup /\ q.pc = "dequeue" /\ bw' = bw
  BY DEF Dequeue, TypeOK
<1>2. \/ q' = QIdle
      \/ q' = At("renumber", q.key, 0, q.todo, q.seen, 1)
  BY DEF Dequeue
<1>3. DeciderInv'
  BY <1>2 DEF QIdle, At, DeciderInv
<1>4. CASE UNCHANGED api
  <2>1. RenumberInv'
    BY <1>1, <1>2, <1>4 DEF QIdle, At, Kept, RenumberInv
  <2> QED
    BY <1>1, <1>3, <1>4, <2>1 DEF Kept, PosInv, WorkerInv,
       NoConflictingActive, Active
<1>5. CASE Exists(api[q.key]) /\ api' = [api EXCEPT ![q.key] = dequeued]
  <2>1. /\ api[q.key].phase = "Queued"
        /\ \A r \in Backup : Active(r) => ~Overlap(q.key, r)
    BY <1>1, <1>5 DEF Exists, Kept, DeciderInv
  <2>2. \A b \in Backup : api'[b] = IF b = q.key THEN dequeued ELSE api[b]
    BY <1>5 DEF TypeOK, ApiTypeOK
  <2>3. PosInv'
    BY <2>2 DEF Kept, PosInv
  <2>4. RenumberInv'
    <3>1. \A b \in q.todo : b \in Backup /\ b # q.key
      BY <1>1 DEF TypeOK, QueueWorker, Kept, RenumberInv
    <3> QED
      BY <1>1, <1>2, <2>2, <3>1 DEF QIdle, At, Kept, RenumberInv
  <2>5. WorkerInv'
    BY <1>1, <2>1, <2>2, ReconcilerAssumption
       DEF Kept, WorkerInv, PostPhases
  <2>6. \A b1, b2 \in Backup : Overlap(b1, b2) => Overlap(b2, b1)
    BY DEF Overlap
  <2>7. NoConflictingActive'
    BY <1>1, <2>1, <2>2, <2>6 DEF Kept, NoConflictingActive, Active
  <2> QED
    BY <1>3, <2>3, <2>4, <2>5, <2>7 DEF Kept
<1> QED
  BY <1>1, <1>4, <1>5, PatchApi DEF Dequeue

\* It moves a queued backup up.
LEMMA RenumberKept ==
    ASSUME TypeOK, Kept, NEW b \in Backup, Renumber(b)
    PROVE  Kept'
<1> DEFINE moved == IF q.seen[b] = q.next THEN api[b]
                    ELSE [phase |-> api[b].phase, pos |-> q.next]
<1>1. q.pc = "renumber" /\ b \in q.todo /\ bw' = bw
  BY DEF Renumber, reconcilerVars
<1>2. \/ q' = QIdle
      \/ q' = At("renumber", q.key, 0, q.todo \ {b}, q.seen, q.next + 1)
  BY DEF Renumber
<1>3. q.next \in Nat /\ q.todo \subseteq Backup /\ q.next > 0
  BY DEF TypeOK, QueueWorker, Kept, RenumberInv
<1>4. DeciderInv'
  BY <1>2 DEF QIdle, At, DeciderInv
<1>5. CASE UNCHANGED api
  <2>1. RenumberInv'
    BY <1>1, <1>2, <1>3, <1>5 DEF QIdle, At, Kept, RenumberInv
  <2> QED
    BY <1>1, <1>4, <1>5, <2>1 DEF Kept, PosInv, WorkerInv,
       NoConflictingActive, Active
<1>6. CASE Exists(api[b]) /\ api' = [api EXCEPT ![b] = moved]
  <2>1. api[b].phase = "Queued"
    BY <1>1, <1>6 DEF Exists, Kept, RenumberInv
  <2>2. \A c \in Backup : /\ api'[c].phase = api[c].phase
                          /\ c # b => api'[c] = api[c]
    BY <1>6 DEF TypeOK, ApiTypeOK
  <2>3. moved.pos > 0
    BY <1>3, <2>1 DEF Kept, PosInv
  <2>4. PosInv'
    BY <1>6, <2>1, <2>2, <2>3 DEF Kept, PosInv, TypeOK, ApiTypeOK
  <2>5. RenumberInv'
    BY <1>1, <1>2, <1>3, <2>2 DEF QIdle, At, Kept, RenumberInv
  <2>6. WorkerInv' /\ NoConflictingActive'
    BY <1>1, <2>2 DEF Kept, WorkerInv, NoConflictingActive, Active
  <2> QED
    BY <1>4, <2>4, <2>5, <2>6 DEF Kept
<1> QED
  BY <1>5, <1>6, PatchApi DEF Renumber

\* A worker of the backup controller changes a backup's phase, from
\* ReadyToStart on, and no position.
LEMMA PhaseKept ==
    ASSUME TypeOK, Kept, NEW b \in Backup, NEW phase \in Phases, q' = q,
           phase # "Queued",
           api[b].phase \notin {"New", "Queued"},
           \/ UNCHANGED api
           \/ /\ Exists(api[b])
              /\ api' = [api EXCEPT ![b] = [phase |-> phase,
                                            pos |-> api[b].pos]],
           phase \in ActivePhases => Active(b) \/ UNCHANGED api
    PROVE  PosInv' /\ DeciderInv' /\ RenumberInv' /\ NoConflictingActive'
<1>1. CASE UNCHANGED api
  BY <1>1 DEF Kept, PosInv, DeciderInv, RenumberInv, NoConflictingActive,
     Active
<1>2. CASE /\ Exists(api[b])
           /\ api' = [api EXCEPT ![b] = [phase |-> phase, pos |-> api[b].pos]]
           /\ phase \in ActivePhases => Active(b)
  <2>1. /\ \A c \in Backup : c # b => api'[c] = api[c]
        /\ api'[b].phase = phase
        /\ api'[b].pos = api[b].pos
    BY <1>2 DEF TypeOK, ApiTypeOK
  <2>2. PosInv'
    BY <2>1 DEF Kept, PosInv
  <2>3. \A c \in Backup : Active(c)' => Active(c)
    BY <1>2, <2>1 DEF Active
  <2>4. DeciderInv'
    <3>1. /\ q.pc \in {"listNew", "enqueue"} => q.key # b
          /\ q.pc \in {"listQueued", "admit", "dequeue"} => q.key # b
      BY <1>2 DEF Exists, Kept, DeciderInv
    <3> QED
      BY <2>1, <2>3, <3>1 DEF Kept, DeciderInv
  <2>5. RenumberInv'
    <3>1. q.pc \in {"admit", "dequeue", "renumber"} => b \notin q.todo
      BY <1>2 DEF Exists, Kept, RenumberInv
    <3>2. \A c \in q.todo : c \in Backup
      BY DEF TypeOK, QueueWorker
    <3> QED
      BY <2>1, <3>1, <3>2 DEF Kept, RenumberInv
  <2>6. NoConflictingActive'
    BY <2>3 DEF Kept, NoConflictingActive
  <2> QED
    BY <2>2, <2>4, <2>5, <2>6
<1> QED
  BY <1>1, <1>2

\* The backup controller's workers keep the invariant.
LEMMA WorkerKept ==
    ASSUME FreshReads, TypeOK, CacheBehind, Kept, NEW b \in Backup,
           ReconcileBackup(b), UNCHANGED <<qkeys, q, restarts>>
    PROVE  Kept'
<1> USE DEF TypeOK, ApiTypeOK, ReconcilerTypeOK
<1>1. CASE TakeBackup(b)
  <2>1. cache = api /\ api' = api
    BY <1>1, FreshCache DEF TakeBackup, apiVars
  <2>2. WorkerInv'
    BY <1>1, <2>1 DEF TakeBackup, Kept, WorkerInv
  <2> QED
    BY <2>1, <2>2 DEF Kept, PosInv, DeciderInv, RenumberInv,
       NoConflictingActive, Active
<1>2. ASSUME NEW phase \in {"InProgress", "FailedValidation"},
             PatchStarted(b, phase)
      PROVE  Kept'
  <2> DEFINE started == [phase |-> phase, pos |-> api[b].pos]
  <2>1. bw[b].pc = "prepared"
    BY <1>2 DEF PatchStarted
  <2>2. \/ UNCHANGED api
        \/ Exists(api[b]) /\ api' = [api EXCEPT ![b] = started]
    BY <1>2, PatchApi DEF PatchStarted
  <2>3. Exists(api[b]) => api[b].phase = "ReadyToStart"
    BY <2>1 DEF Exists, Kept, WorkerInv
  <2>4. PosInv' /\ DeciderInv' /\ RenumberInv' /\ NoConflictingActive'
    <3>1. phase \in Phases
      BY DEF Phases, TerminalPhases
    <3>2. api[b].phase \notin {"New", "Queued"}
      BY <2>3 DEF Exists
    <3>3. phase \in ActivePhases => Active(b) \/ UNCHANGED api
      BY <2>2, <2>3 DEF Active, ActivePhases
    <3> QED
      BY <2>2, <3>1, <3>2, <3>3, PhaseKept
  <2>5. WorkerInv'
    <3>1. \A c \in Backup \ {b} : api'[c] = api[c] /\ bw'[c] = bw[c]
      BY <1>2, <2>2 DEF PatchStarted
    <3>2. CASE bw' = [bw EXCEPT ![b] = Idle]
      BY <3>1, <3>2 DEF Idle, Kept, WorkerInv
    <3>3. CASE /\ PatchOk(b, started)
               /\ bw' = [bw EXCEPT ![b] = [pc |-> "patched",
                                           phase |-> phase]]
      <4>1. api'[b].phase = phase
        BY <3>3 DEF PatchOk, Store
      <4> QED
        BY <3>1, <3>3, <4>1 DEF Kept, WorkerInv
    <3> QED
      BY <1>2, <3>2, <3>3 DEF PatchStarted
  <2> QED
    BY <2>4, <2>5 DEF Kept
<1>3. CASE TrackStarted(b)
  BY <1>3 DEF TrackStarted, apiVars, Kept, PosInv, DeciderInv, RenumberInv,
     WorkerInv, NoConflictingActive, Active
<1>4. ASSUME NEW phase \in RunOutcomes, RunBackup(b, phase)
      PROVE  Kept'
  BY <1>4 DEF RunBackup, apiVars, Kept, PosInv, DeciderInv, RenumberInv,
     WorkerInv, NoConflictingActive, Active
<1>5. CASE PatchFinished(b)
  <2> DEFINE finished == [phase |-> bw[b].phase, pos |-> api[b].pos]
             left == [bw EXCEPT ![b] = [pc |-> "leaving", phase |-> bw[b].phase]]
  <2>1. bw[b].pc = "finishing"
    BY <1>5 DEF PatchFinished
  <2>2. \/ UNCHANGED api
        \/ Exists(api[b]) /\ api' = [api EXCEPT ![b] = finished]
    BY <1>5, PatchApi DEF PatchFinished
  <2>3. Exists(api[b]) =>
           /\ api[b].phase \in {"InProgress", bw[b].phase}
           /\ bw[b].phase \in PostPhases \cup {"Failed"}
    BY <2>1, ReconcilerAssumption DEF Exists, Kept, WorkerInv
  <2>4. PosInv' /\ DeciderInv' /\ RenumberInv' /\ NoConflictingActive'
    <3>1. CASE UNCHANGED api
      BY <1>5, <3>1 DEF Kept, PosInv, DeciderInv, RenumberInv,
         NoConflictingActive, Active
    <3>2. CASE Exists(api[b]) /\ api' = [api EXCEPT ![b] = finished]
      BY <2>3, <3>2, PhaseKept DEF PostPhases, ActivePhases
    <3> QED
      BY <2>2, <3>1, <3>2
  <2>5. WorkerInv'
    <3>1. \A c \in Backup \ {b} : api'[c] = api[c] /\ bw'[c] = bw[c]
      BY <1>5, <2>2 DEF PatchFinished
    <3>2. bw' \in {bw, left}
      BY <1>5 DEF PatchFinished
    <3>3. api'[b].phase \in {api[b].phase, bw[b].phase}
      BY <2>2
    <3>4. api'[b].phase = "Gone" <=> api[b].phase = "Gone"
      BY <2>2, <2>3 DEF Exists, PostPhases
    <3> QED
      BY <2>1, <3>1, <3>2, <3>3, <3>4 DEF Kept, WorkerInv
  <2> QED
    BY <2>4, <2>5 DEF Kept
<1>6. CASE LeaveBackup(b)
  BY <1>6 DEF LeaveBackup, Idle, apiVars, Kept, PosInv, DeciderInv,
     RenumberInv, WorkerInv, NoConflictingActive, Active
<1> QED
  BY <1>1, <1>2, <1>3, <1>4, <1>5, <1>6 DEF ReconcileBackup, WorkOn, Verdicts

\* A user creates or deletes a backup.
LEMMA UserKept ==
    ASSUME TypeOK, Kept, NEW b \in Backup, CreateBackup(b) \/ DeleteBackup(b)
    PROVE  Kept'
<1>1. bw' = bw /\ q' = q
  BY DEF CreateBackup, DeleteBackup, reconcilerVars
<1>2. PICK o \in {[phase |-> "New", pos |-> 0], Gone} :
         /\ Store(b, o)
         /\ o.phase = "New" => api[b] = Absent
  BY DEF CreateBackup, DeleteBackup, Gone
<1>3. /\ \A c \in Backup : c # b => api'[c] = api[c]
      /\ api'[b] = o
      /\ o.pos = 0
      /\ o.phase \in {"New", "Gone"}
  BY <1>2 DEF Store, TypeOK, ApiTypeOK, Gone
<1>4. PosInv'
  BY <1>3 DEF Kept, PosInv
<1>5. \A c \in Backup : Active(c)' => Active(c)
  BY <1>3 DEF Active, ActivePhases
<1>6. api'[b].phase # "Gone" => api[b].phase = "Absent"
  BY <1>2, <1>3 DEF Absent
<1>7. DeciderInv'
  BY <1>1, <1>3, <1>5, <1>6 DEF Kept, DeciderInv
<1>8. RenumberInv'
  <2>1. \A c \in q.todo : c \in Backup
    BY DEF TypeOK, QueueWorker
  <2> QED
    BY <1>1, <1>3, <1>6, <2>1 DEF Kept, RenumberInv
<1>9. WorkerInv'
  BY <1>1, <1>3, <1>6, ReconcilerAssumption DEF Kept, WorkerInv, PostPhases
<1>10. NoConflictingActive'
  BY <1>5 DEF Kept, NoConflictingActive
<1> QED
  BY <1>4, <1>7, <1>8, <1>9, <1>10 DEF Kept

\* The server restarts: backups only leave InProgress.
LEMMA RestartKept ==
    ASSUME TypeOK, Kept,
           NEW missed \in SUBSET {b \in Backup : api[b].phase = "InProgress"},
           Restart(missed)
    PROVE  Kept' /\ CacheBehind'
<1>1. /\ q' = QIdle
      /\ bw' = [b \in Backup |-> Idle]
      /\ cache' = api'
      /\ watch' = <<>>
  BY DEF Restart, RelistCache
<1>2. \A b \in Backup :
         \/ api'[b] = api[b]
         \/ /\ api[b].phase = "InProgress"
            /\ api'[b] = [phase |-> "Failed", pos |-> api[b].pos]
  BY DEF Restart, MarkInProgressFailed, TypeOK, ApiTypeOK
<1>3. CacheBehind'
  BY <1>1 DEF CacheBehind
<1>4. PosInv'
  <2>1. ASSUME NEW b \in Backup
        PROVE  (api'[b].phase = "Queued") <=> (api'[b].pos > 0)
    <3>1. (api[b].phase = "Queued") <=> (api[b].pos > 0)
      BY DEF Kept, PosInv
    <3>2. CASE api'[b] = api[b]
      BY <3>1, <3>2
    <3>3. CASE /\ api[b].phase = "InProgress"
               /\ api'[b] = [phase |-> "Failed", pos |-> api[b].pos]
      <4>1. api'[b].phase = "Failed" /\ api'[b].pos = api[b].pos
        BY <3>3
      <4> QED
        BY <3>1, <3>3, <4>1
    <3> QED
      BY <1>2, <3>2, <3>3
  <2> QED
    BY <2>1 DEF PosInv
<1>5. DeciderInv' /\ RenumberInv'
  BY <1>1 DEF QIdle, At, DeciderInv, RenumberInv
<1>6. WorkerInv'
  BY <1>1 DEF Idle, WorkerInv
<1>7. NoConflictingActive'
  BY <1>2 DEF Kept, NoConflictingActive, Active, ActivePhases
<1> QED
  BY <1>3, <1>4, <1>5, <1>6, <1>7 DEF Kept

\* The cache keeps up, whichever step changes an object.
LEMMA PatchCache ==
    ASSUME TypeOK, CacheBehind, NEW b \in Backup, NEW o \in Object,
           PatchOk(b, o) \/ PatchError(b, o), UNCHANGED cache
    PROVE  CacheBehind'
<1>1. Store(b, o) \/ UNCHANGED <<api, watch>>
  BY DEF PatchOk, PatchError
<1>2. CASE UNCHANGED <<api, watch>>
  BY <1>2 DEF CacheBehind
<1> QED
  BY <1>1, <1>2, StoreCache

\* The queue worker's steps keep the cache behind the API server.
LEMMA QueueCache == TypeOK /\ CacheBehind /\ ReconcileQueue => CacheBehind'
<1> SUFFICES ASSUME TypeOK, CacheBehind, ReconcileQueue PROVE CacheBehind'
  OBVIOUS
<1>1. CASE Enqueue
  <2>1. q.key \in Backup
    BY <1>1 DEF Enqueue, TypeOK
  <2>2. [phase |-> "Queued", pos |-> q.pos] \in Object
    BY DEF TypeOK, QueueWorker, Object, Phases
  <2> QED
    BY <1>1, <2>1, <2>2, PatchCache DEF Enqueue
<1>2. CASE Dequeue
  <2>1. q.key \in Backup
    BY <1>2 DEF Dequeue, TypeOK
  <2>2. [phase |-> "ReadyToStart", pos |-> 0] \in Object
    BY DEF Object, Phases
  <2> QED
    BY <1>2, <2>1, <2>2, PatchCache DEF Dequeue
<1>3. ASSUME NEW b \in Backup, Renumber(b) PROVE CacheBehind'
  <2>1. [phase |-> api[b].phase, pos |-> q.next] \in Object /\ api[b] \in Object
    BY DEF TypeOK, QueueWorker, ApiTypeOK, Object
  <2> QED
    BY <1>3, <2>1, PatchCache DEF Renumber
<1>4. CASE ListForNew \/ ListForQueued \/ ListError \/ Admit \/ RenumberDone
  BY <1>4 DEF ListForNew, ListForQueued, ListError, Admit, RenumberDone,
     apiVars, CacheBehind
<1> QED
  BY <1>1, <1>2, <1>3, <1>4 DEF ReconcileQueue

\* So do the steps of the backup controller's workers.
LEMMA WorkerCache ==
    ASSUME TypeOK, CacheBehind, NEW b \in Backup, ReconcileBackup(b)
    PROVE  CacheBehind'
<1>1. ASSUME NEW phase \in {"InProgress", "FailedValidation"},
             PatchStarted(b, phase)
      PROVE  CacheBehind'
  <2>1. [phase |-> phase, pos |-> api[b].pos] \in Object
    BY DEF TypeOK, ApiTypeOK, Object, Phases, TerminalPhases
  <2> QED
    BY <1>1, <2>1, PatchCache DEF PatchStarted
<1>2. CASE PatchFinished(b)
  <2>1. [phase |-> bw[b].phase, pos |-> api[b].pos] \in Object
    BY DEF TypeOK, ApiTypeOK, ReconcilerTypeOK, Object
  <2> QED
    BY <1>2, <2>1, PatchCache DEF PatchFinished
<1>3. CASE \/ TakeBackup(b) \/ TrackStarted(b) \/ LeaveBackup(b)
           \/ \E phase \in RunOutcomes : RunBackup(b, phase)
  BY <1>3 DEF TakeBackup, TrackStarted, LeaveBackup, RunBackup, apiVars,
     CacheBehind
<1> QED
  BY <1>1, <1>2, <1>3 DEF ReconcileBackup, WorkOn, Verdicts

\* Every step keeps the invariant, if reads are fresh.
LEMMA NextExclusion ==
    ASSUME FreshReads, TypeOK, ExclusionInv, [Next]_vars
    PROVE  ExclusionInv'
<1> USE DEF ExclusionInv
<1>1. CacheBehind /\ Kept
  BY DEF Kept
<1> SUFFICES CacheBehind' /\ Kept'
  BY DEF Kept
<1>2. ASSUME UNCHANGED <<api, watch, cache, bw, q>>
      PROVE  CacheBehind' /\ Kept'
  BY <1>1, <1>2, UnchangedKept DEF CacheBehind
<1>3. ASSUME NEW b \in Backup, TakeKey(b) PROVE CacheBehind' /\ Kept'
  BY <1>1, <1>3, TakeKeyKept DEF TakeKey, apiVars, CacheBehind
<1>4. CASE ReconcileQueue
  <2>1. CASE RenumberDone
    <3>1. /\ api' = api
          /\ bw' = bw
          /\ q' = QIdle
      BY <2>1 DEF RenumberDone, apiVars, reconcilerVars
    <3>2. DeciderInv' /\ RenumberInv'
      BY <3>1 DEF QIdle, At, DeciderInv, RenumberInv
    <3>3. Kept'
      BY <1>1, <3>1, <3>2 DEF Kept, PosInv, WorkerInv, NoConflictingActive,
         Active
    <3> QED
      BY <1>1, <1>4, <3>3, QueueCache
  <2> QED
    BY <1>1, <1>4, <2>1, QueueCache, ListKept, EnqueueKept, AdmitKept,
       DequeueKept, RenumberKept DEF ReconcileQueue
<1>5. ASSUME NEW b \in Backup, ReconcileBackup(b),
             UNCHANGED <<qkeys, q, restarts>>
      PROVE  CacheBehind' /\ Kept'
  BY <1>1, <1>5, WorkerCache, WorkerKept
<1>6. CASE Deliver
  BY <1>1, <1>6, DeliverCache, UnchangedKept DEF Deliver
<1>7. ASSUME NEW b \in Backup, CreateBackup(b) \/ DeleteBackup(b)
      PROVE  CacheBehind' /\ Kept'
  <2>1. /\ [phase |-> "New", pos |-> 0] \in Object
        /\ Gone \in Object
    BY DEF Gone, Object, Phases
  <2>2. CacheBehind'
    BY <1>1, <1>7, <2>1, StoreCache DEF CreateBackup, DeleteBackup
  <2> QED
    BY <1>1, <1>7, <2>2, UserKept
<1>8. CASE \/ \E b \in Backup : Resync(b)
           \/ PeriodicEnqueue
           \/ UNCHANGED vars
  BY <1>2, <1>8 DEF Resync, PeriodicEnqueue, apiVars, reconcilerVars, vars
<1>9. ASSUME NEW missed \in SUBSET {b \in Backup : api[b].phase = "InProgress"},
             Restart(missed)
      PROVE  CacheBehind' /\ Kept'
  BY <1>1, <1>9, RestartKept
<1> QED
  BY <1>3, <1>4, <1>5, <1>6, <1>7, <1>8, <1>9, QueueAssumption DEF Next

\* If the controllers read a cache that has caught up, the inductive
\* invariant holds of every state.
THEOREM ExclusionInductive == FreshReads => (Spec => []ExclusionInv)
<1>1. SUFFICES ASSUME FreshReads PROVE Spec => []ExclusionInv
  OBVIOUS
<1>2. TypeOK /\ ExclusionInv /\ [Next]_vars => ExclusionInv'
  BY <1>1, NextExclusion
<1> QED
  BY <1>2, InitExclusion, TypeCorrect, PTL DEF Spec

\* Then two backups that share a namespace are never both ReadyToStart or
\* InProgress: not after lost calls, deletions or restarts either.
THEOREM Exclusion == FreshReads => (Spec => []NoConflictingActive)
<1>1. ExclusionInv => NoConflictingActive
  BY DEF ExclusionInv
<1> QED
  BY <1>1, ExclusionInductive, PTL

-----------------------------------------------------------------------------
(***************************************************************************)
(* What one step does to the objects.                                      *)
(***************************************************************************)

\* The changes of one object: a user creates or deletes it, the queue
\* controller queues, dequeues or moves it, the backup controller starts or
\* ends the backup.
MayBecome(b, o) ==
    \/ api[b] = Absent /\ o.phase = "New"
    \/ Exists(api[b]) /\ o = Gone
    \/ api[b].phase = "New" /\ o.phase = "Queued"
    \/ api[b].phase = "Queued" /\ o.phase = "Queued"
    \/ /\ q.pc = "dequeue"
       /\ b = q.key
       /\ api[b].phase = "Queued"
       /\ o = [phase |-> "ReadyToStart", pos |-> 0]
    \/ /\ api[b].phase = "ReadyToStart"
       /\ o.phase \in {"InProgress", "FailedValidation"}
    \/ api[b].phase = "InProgress" /\ o.phase \in RunOutcomes
    \/ api[b].phase = o.phase

OneChanges(b, o) == MayBecome(b, o) /\ api' = [api EXCEPT ![b] = o]

\* A restart fails backups that were InProgress.
SomeFail ==
    \A b \in Backup :
        \/ api'[b] = api[b]
        \/ api[b].phase = "InProgress" /\ api'[b].phase = "Failed"

\* Every step changes no object, or one, or is a restart.
LEMMA StepEffect ==
    ASSUME FreshReads, TypeOK, ExclusionInv, [Next]_vars
    PROVE  \/ UNCHANGED api
           \/ \E b \in Backup, o \in Object : OneChanges(b, o)
           \/ SomeFail
<1> USE DEF ExclusionInv
<1>1. CASE \/ UNCHANGED vars
           \/ \E b \in Backup : TakeKey(b)
           \/ Deliver
           \/ \E b \in Backup : Resync(b)
           \/ PeriodicEnqueue
  BY <1>1 DEF vars, TakeKey, Deliver, Resync, PeriodicEnqueue, apiVars
<1>2. CASE ListForNew \/ ListForQueued \/ ListError \/ Admit \/ RenumberDone
  BY <1>2 DEF ListForNew, ListForQueued, ListError, Admit, RenumberDone, apiVars
<1>3. CASE Enqueue
  <2> DEFINE o == [phase |-> "Queued", pos |-> q.pos]
  <2>1. q.key \in Backup /\ o \in Object
    BY <1>3 DEF Enqueue, TypeOK, QueueWorker, Object, Phases
  <2>2. Exists(api[q.key]) => api[q.key].phase = "New"
    BY <1>3, <2>1 DEF Enqueue, Exists, DeciderInv
  <2>3. UNCHANGED api \/ (Exists(api[q.key]) /\ api' = [api EXCEPT ![q.key] = o])
    BY <1>3, <2>1, PatchApi DEF Enqueue
  <2>4. Exists(api[q.key]) => MayBecome(q.key, o)
    BY <2>2 DEF MayBecome
  <2> HIDE DEF o
  <2> QED
    BY <2>1, <2>3, <2>4 DEF OneChanges
<1>4. CASE Dequeue
  <2> DEFINE o == [phase |-> "ReadyToStart", pos |-> 0]
  <2>1. q.key \in Backup /\ o \in Object
    BY <1>4 DEF Dequeue, TypeOK, Object, Phases
  <2>2. Exists(api[q.key]) => api[q.key].phase = "Queued"
    BY <1>4, <2>1 DEF Dequeue, Exists, DeciderInv
  <2>3. UNCHANGED api \/ (Exists(api[q.key]) /\ api' = [api EXCEPT ![q.key] = o])
    BY <1>4, <2>1, PatchApi DEF Dequeue
  <2>4. Exists(api[q.key]) => MayBecome(q.key, o)
    BY <1>4, <2>2 DEF Dequeue, MayBecome
  <2> HIDE DEF o
  <2> QED
    BY <2>1, <2>3, <2>4 DEF OneChanges
<1>5. ASSUME NEW b \in Backup, Renumber(b)
      PROVE  UNCHANGED api \/ \E o \in Object : OneChanges(b, o)
  <2> DEFINE o == IF q.seen[b] = q.next THEN api[b]
                  ELSE [phase |-> api[b].phase, pos |-> q.next]
  <2>1. o \in Object /\ o.phase = api[b].phase
    BY DEF TypeOK, QueueWorker, ApiTypeOK, Object
  <2>2. UNCHANGED api \/ api' = [api EXCEPT ![b] = o]
    BY <1>5, PatchApi DEF Renumber
  <2> HIDE DEF o
  <2> QED
    BY <2>1, <2>2 DEF OneChanges, MayBecome
<1>6. ASSUME NEW b \in Backup, ReconcileBackup(b)
      PROVE  UNCHANGED api \/ \E o \in Object : OneChanges(b, o)
  <2>1. CASE \/ TakeBackup(b) \/ TrackStarted(b) \/ LeaveBackup(b)
             \/ \E phase \in RunOutcomes : RunBackup(b, phase)
    BY <2>1 DEF TakeBackup, TrackStarted, LeaveBackup, RunBackup, apiVars
  <2>2. ASSUME NEW phase \in {"InProgress", "FailedValidation"},
               PatchStarted(b, phase)
        PROVE  UNCHANGED api \/ \E o \in Object : OneChanges(b, o)
    <3> DEFINE o == [phase |-> phase, pos |-> api[b].pos]
    <3>1. o \in Object
      BY DEF TypeOK, ApiTypeOK, Object, Phases, TerminalPhases
    <3>2. Exists(api[b]) => MayBecome(b, o)
      BY <2>2 DEF PatchStarted, Exists, WorkerInv, MayBecome
    <3>3. UNCHANGED api \/ (Exists(api[b]) /\ api' = [api EXCEPT ![b] = o])
      BY <2>2, PatchApi DEF PatchStarted
    <3> HIDE DEF o
    <3> QED
      BY <3>1, <3>2, <3>3 DEF OneChanges
  <2>3. CASE PatchFinished(b)
    <3> DEFINE o == [phase |-> bw[b].phase, pos |-> api[b].pos]
    <3>1. o \in Object
      BY DEF TypeOK, ApiTypeOK, ReconcilerTypeOK, Object
    <3>2. Exists(api[b]) => MayBecome(b, o)
      BY <2>3 DEF PatchFinished, Exists, WorkerInv, MayBecome
    <3>3. UNCHANGED api \/ (Exists(api[b]) /\ api' = [api EXCEPT ![b] = o])
      BY <2>3, PatchApi DEF PatchFinished
    <3> HIDE DEF o
    <3> QED
      BY <3>1, <3>2, <3>3 DEF OneChanges
  <2> QED
    BY <1>6, <2>1, <2>2, <2>3 DEF ReconcileBackup, WorkOn, Verdicts
<1>7. ASSUME NEW b \in Backup, CreateBackup(b) \/ DeleteBackup(b)
      PROVE  \E o \in Object : OneChanges(b, o)
  <2>1. [phase |-> "New", pos |-> 0] \in Object /\ Gone \in Object
    BY DEF Gone, Object, Phases
  <2> QED
    BY <1>7, <2>1 DEF CreateBackup, DeleteBackup, Store, OneChanges, MayBecome
<1>8. ASSUME NEW missed \in SUBSET {b \in Backup : api[b].phase = "InProgress"},
             Restart(missed)
      PROVE  SomeFail
  BY <1>8 DEF Restart, MarkInProgressFailed, SomeFail
<1>9. MayDelete \subseteq Backup
  BY QueueAssumption
<1> QED
  BY <1>1, <1>2, <1>3, <1>4, <1>5, <1>6, <1>7, <1>8, <1>9
     DEF Next, ReconcileQueue

\* The three facts every proof below starts from hold all along.
Basis == TypeOK /\ ExclusionInv

LEMMA BasisInvariant == FreshReads => (Spec => []Basis)
<1> SUFFICES ASSUME FreshReads PROVE Spec => []Basis
  OBVIOUS
<1>1. Init => Basis
  BY InitType, InitExclusion DEF Basis
<1>2. Basis /\ [Next]_vars => Basis'
  BY NextType, NextExclusion DEF Basis
<1> QED
  BY <1>1, <1>2, PTL DEF Spec

-----------------------------------------------------------------------------
(***************************************************************************)
(* Phases.                                                                 *)
(***************************************************************************)

\* The age of each phase: the seven sets of Life are disjoint.
LEMMA Ages ==
    /\ Age["Absent"] = 1
    /\ Age["New"] = 2
    /\ Age["Queued"] = 3
    /\ Age["ReadyToStart"] = 4
    /\ Age["InProgress"] = 5
    /\ \A phase \in PostPhases : Age[phase] = 6
    /\ \A phase \in TerminalPhases \cup {"Deleting", "Gone"} : Age[phase] = 7
<1> DEFINE In(phase, i) == i \in 1 .. 7 /\ phase \in Life[i]
<1>1. ASSUME NEW phase \in Phases \cup {"Absent", "Gone"}, NEW i \in 1 .. 7,
             In(phase, i), \A j \in 1 .. 7 : In(phase, j) => j = i
      PROVE  Age[phase] = i
  BY <1>1 DEF Age
<1>2. /\ Life[1] = {"Absent"}
      /\ Life[2] = {"New"}
      /\ Life[3] = {"Queued"}
      /\ Life[4] = {"ReadyToStart"}
      /\ Life[5] = {"InProgress"}
      /\ Life[6] = PostPhases
      /\ Life[7] = TerminalPhases \cup {"Deleting", "Gone"}
  BY DEF Life
<1>3. \A i \in 1 .. 7 : i \in {1, 2, 3, 4, 5, 6, 7}
  OBVIOUS
<1>4. ASSUME NEW phase \in Phases \cup {"Absent", "Gone"}
      PROVE  /\ In(phase, 1) <=> phase = "Absent"
             /\ In(phase, 2) <=> phase = "New"
             /\ In(phase, 3) <=> phase = "Queued"
             /\ In(phase, 4) <=> phase = "ReadyToStart"
             /\ In(phase, 5) <=> phase = "InProgress"
             /\ In(phase, 6) <=> phase \in PostPhases
             /\ In(phase, 7) <=> phase \in TerminalPhases \cup {"Deleting", "Gone"}
  BY <1>2
<1> HIDE DEF In
<1>5. Age["Absent"] = 1
  BY <1>1, <1>3, <1>4 DEF PostPhases, TerminalPhases
<1>6. Age["New"] = 2 /\ Age["Queued"] = 3
  BY <1>1, <1>3, <1>4 DEF Phases, PostPhases, TerminalPhases
<1>7. Age["ReadyToStart"] = 4 /\ Age["InProgress"] = 5
  BY <1>1, <1>3, <1>4 DEF Phases, PostPhases, TerminalPhases
<1>8. ASSUME NEW phase \in PostPhases PROVE Age[phase] = 6
  BY <1>1, <1>3, <1>4 DEF Phases, PostPhases, TerminalPhases
<1>9. ASSUME NEW phase \in TerminalPhases \cup {"Deleting", "Gone"}
      PROVE  Age[phase] = 7
  BY <1>1, <1>3, <1>4 DEF Phases, PostPhases, TerminalPhases
<1> QED
  BY <1>5, <1>6, <1>7, <1>8, <1>9

\* A backup only moves forward in its life.
LEMMA ForwardStep ==
    ASSUME FreshReads, Basis, [Next]_vars, NEW b \in Backup
    PROVE  Age[api[b].phase] <= Age[api'[b].phase]
<1> DEFINE was == api[b].phase
           is == api'[b].phase
<1> SUFFICES Age[was] <= Age[is]
  OBVIOUS
<1>1. was \in Phases \cup {"Absent", "Gone"}
  BY DEF Basis, TypeOK, ApiTypeOK, Object
<1>2. \/ was = is
      \/ was = "Absent" /\ is = "New"
      \/ is = "Gone"
      \/ was = "New" /\ is = "Queued"
      \/ was = "Queued" /\ is = "ReadyToStart"
      \/ was = "ReadyToStart" /\ is \in {"InProgress", "FailedValidation"}
      \/ was = "InProgress" /\ is \in RunOutcomes \cup {"Failed"}
  <2>1. ASSUME NEW c \in Backup, NEW o \in Object, OneChanges(c, o), b = c
        PROVE  is = o.phase /\ MayBecome(b, o)
    BY <2>1 DEF OneChanges, Basis, TypeOK, ApiTypeOK
  <2>2. ASSUME NEW c \in Backup, NEW o \in Object, OneChanges(c, o), b # c
        PROVE  is = was
    BY <2>2 DEF OneChanges, Basis, TypeOK, ApiTypeOK
  <2> QED
    BY <2>1, <2>2, StepEffect DEF Basis, MayBecome, Absent, Gone, SomeFail
<1> HIDE DEF was, is
<1>3. Age[was] \in 1 .. 7
  BY <1>1, Ages DEF Phases
<1>4. CASE was = "Absent" /\ is = "New"
  BY <1>4, Ages
<1>5. CASE is = "Gone"
  BY <1>3, <1>5, Ages
<1>6. CASE \/ was = "New" /\ is = "Queued"
           \/ was = "Queued" /\ is = "ReadyToStart"
  BY <1>6, Ages
<1>7. CASE was = "ReadyToStart" /\ is \in {"InProgress", "FailedValidation"}
  BY <1>7, Ages DEF TerminalPhases
<1>8. CASE was = "InProgress" /\ is \in RunOutcomes \cup {"Failed"}
  <2>1. is \in PostPhases \/ is \in TerminalPhases
    BY <1>8, ReconcilerAssumption DEF TerminalPhases
  <2> QED
    BY <1>8, <2>1, Ages
<1>9. CASE was = is
  BY <1>3, <1>9
<1> QED
  BY <1>2, <1>4, <1>5, <1>6, <1>7, <1>8, <1>9, Zenon

\* No backup ever returns to a phase it has left: it is queued, dequeued and
\* run at most once, although patches may be lost or applied twice.
THEOREM Forward == FreshReads => (Spec => PhasesGoForward)
<1> SUFFICES ASSUME FreshReads PROVE Spec => PhasesGoForward
  OBVIOUS
<1>1. Basis /\ [Next]_vars =>
         [\A b \in Backup : Age[api[b].phase] <= Age[api'[b].phase]]_vars
  BY ForwardStep
<1> QED
  BY <1>1, BasisInvariant, PTL DEF Spec, PhasesGoForward

-----------------------------------------------------------------------------
(***************************************************************************)
(* The refinement of BackupAdmission.                                      *)
(***************************************************************************)
StageOf == [b \in Backup |-> Stage(api[b].phase)]

\* The stages of the phases.
LEMMA Stages ==
    /\ Stage("Absent") = "absent"
    /\ Stage("New") = "waiting" /\ Stage("Queued") = "waiting"
    /\ Stage("ReadyToStart") = "running" /\ Stage("InProgress") = "running"
    /\ \A phase \in PostPhases \cup TerminalPhases \cup {"Gone", "Deleting"} :
          Stage(phase) = "over"
    /\ \A phase \in Phases \cup {"Absent", "Gone"} :
          /\ Stage(phase) = "running" <=> phase \in ActivePhases
          /\ Stage(phase) \in {"absent", "waiting", "running", "over"}
BY DEF Stage, ActivePhases, PostPhases, TerminalPhases

\* Every step is one of the abstract specification's, or none of its concern.
LEMMA AdmissionStep ==
    ASSUME FreshReads, Basis, [Next]_vars
    PROVE  [Admission!StageNext]_StageOf
<1> USE DEF Basis, TypeOK, ApiTypeOK, Object, StageOf
<1>1. CASE UNCHANGED api
  BY <1>1
<1>2. ASSUME NEW b \in Backup, NEW o \in Object, OneChanges(b, o)
      PROVE  [Admission!StageNext]_StageOf
  <2>1. StageOf' = [StageOf EXCEPT ![b] = Stage(o.phase)]
    BY <1>2 DEF OneChanges
  <2>2. CASE Stage(o.phase) = Stage(api[b].phase)
    <3>1. \A c \in Backup : Stage(api'[c].phase) = Stage(api[c].phase)
      BY <1>2, <2>2 DEF OneChanges
    <3> QED
      BY <3>1
  <2>3. CASE api[b] = Absent /\ o.phase = "New"
    <3>1. Stage(api[b].phase) = "absent" /\ Stage(o.phase) = "waiting"
      BY <2>3, Stages DEF Absent
    <3>2. Admission!Submit(b)
      BY <2>1, <3>1 DEF Admission!Submit
    <3> QED
      BY <3>2 DEF Admission!StageNext
  <2>4. CASE /\ q.pc = "dequeue" /\ b = q.key
             /\ api[b].phase = "Queued"
             /\ o.phase = "ReadyToStart"
    <3>1. \A r \in Backup : Active(r) => ~Overlap(b, r)
      BY <2>4 DEF ExclusionInv, DeciderInv
    <3>2. \A r \in Backup : StageOf[r] = "running" => NsOf[b] \cap NsOf[r] = {}
      BY <3>1, Stages DEF Active, Overlap
    <3>3. Admission!LetIn(b)
      BY <2>1, <2>4, <3>2, Stages DEF Admission!LetIn
    <3> QED
      BY <3>3 DEF Admission!StageNext
  <2>5. CASE /\ StageOf[b] \in {"waiting", "running"}
             /\ Stage(o.phase) = "over"
    <3>1. Admission!Leave({b})
      BY <2>1, <2>5 DEF Admission!Leave
    <3> QED
      BY <3>1 DEF Admission!StageNext
  <2>6. MayBecome(b, o)
    BY <1>2 DEF OneChanges
  <2>7. Exists(api[b]) => StageOf[b] \in {"waiting", "running", "over"}
    BY Stages DEF Exists, Stage
  <2>8. \A phase \in RunOutcomes : Stage(phase) = "over"
    BY ReconcilerAssumption, Stages DEF TerminalPhases
  <2> QED
    BY <2>2, <2>3, <2>4, <2>5, <2>6, <2>7, <2>8, Stages
       DEF MayBecome, Gone, TerminalPhases
<1>3. CASE SomeFail
  <2> DEFINE S == {b \in Backup : api'[b] # api[b]}
  <2>1. \A b \in S : StageOf[b] = "running" /\ Stage(api'[b].phase) = "over"
    BY <1>3, Stages DEF SomeFail, TerminalPhases
  <2>2. StageOf' = [b \in Backup |-> IF b \in S THEN "over" ELSE StageOf[b]]
    BY <2>1
  <2>3. Admission!Leave(S)
    BY <2>1, <2>2 DEF Admission!Leave
  <2> QED
    BY <2>3 DEF Admission!StageNext
<1> QED
  BY <1>1, <1>2, <1>3, StepEffect

\* The controllers implement the promise of the queue: a backup is let in
\* only when nothing that runs shares a namespace with it, and once.
THEOREM Refinement == FreshReads => (Spec => ImplementsAdmission)
<1> SUFFICES ASSUME FreshReads PROVE Spec => ImplementsAdmission
  OBVIOUS
<1>1. Init => Admission!StageInit
  BY DEF Init, ApiInit, Absent, Stage, Admission!StageInit
<1>2. Basis /\ [Next]_vars => [Admission!StageNext]_StageOf
  BY AdmissionStep
<1> QED
  BY <1>1, <1>2, BasisInvariant, PTL
     DEF Spec, ImplementsAdmission, Admission!StageSpec, StageOf

-----------------------------------------------------------------------------
(***************************************************************************)
(* The order of the queue.                                                 *)
(***************************************************************************)
InQueue(b) == api[b].phase = "Queued"

\* A new backup goes behind all the queued ones.
BehindInv ==
    q.pc = "enqueue" =>
        \A b \in Backup : InQueue(b) => api[b].pos < q.pos

\* The worker's list of those to renumber leaves none out.
TodoInv ==
    q.pc \in {"admit", "dequeue"} =>
        \A b \in Backup : InQueue(b) => b = q.key \/ b \in q.todo

\* The positions handed out so far are taken, and by nobody else.
HandedOutInv ==
    q.pc = "renumber" =>
        \A b \in Backup : InQueue(b) =>
            /\ b \in q.todo => api[b].pos >= q.next
            /\ b \notin q.todo => api[b].pos < q.next

DistinctInv ==
    \A b1, b2 \in Backup :
        InQueue(b1) /\ InQueue(b2) /\ b1 # b2 => api[b1].pos # api[b2].pos

\* Nothing ahead of the backup to dequeue shares a namespace with it.
AheadInv ==
    \A b \in Backup :
        /\ q.pc \in {"admit", "dequeue"}
        /\ b = q.key
        /\ api[b].phase # "Gone"
        => \A e \in Backup :
              InQueue(e) /\ api[e].pos < q.pos => ~Overlap(b, e)

OrderInv == BehindInv /\ TodoInv /\ HandedOutInv /\ DistinctInv /\ AheadInv

\* The worker that stops has no more to answer for than distinct positions.
LEMMA OrderIdle ==
    ASSUME q' = QIdle, DistinctInv'
    PROVE  OrderInv'
BY DEF QIdle, At, OrderInv, BehindInv, TodoInv, HandedOutInv, AheadInv

\* What leaves the queue, or never enters it, does not disturb the order.
LEMMA OrderFewer ==
    ASSUME OrderInv,
           \A b \in Backup :
              /\ InQueue(b)' => InQueue(b) /\ api'[b].pos = api[b].pos
              /\ api[b].phase = "Gone" => api'[b].phase = "Gone"
    PROVE  /\ DistinctInv'
           /\ q' = q => OrderInv'
<1>1. DistinctInv'
  BY DEF OrderInv, DistinctInv
<1>2. ASSUME q' = q PROVE OrderInv'
  <2>1. BehindInv' /\ TodoInv' /\ HandedOutInv'
    BY <1>2 DEF OrderInv, BehindInv, TodoInv, HandedOutInv
  <2>2. AheadInv'
    BY <1>2 DEF OrderInv, AheadInv
  <2> QED
    BY <1>1, <2>1, <2>2 DEF OrderInv
<1> QED
  BY <1>1, <1>2

\* The worker reads and decides: no object changes.
LEMMA OrderDecided ==
    ASSUME FreshReads, Basis, OrderInv,
           \/ \E b \in Backup : TakeKey(b)
           \/ ListForNew \/ ListForQueued \/ ListError
           \/ Admit \/ RenumberDone
    PROVE  OrderInv'
<1> USE DEF Basis, ExclusionInv
<1>1. api' = api
  BY DEF TakeKey, ListForNew, ListForQueued, ListError, Admit, RenumberDone,
     apiVars
<1>2. DistinctInv'
  BY <1>1 DEF OrderInv, DistinctInv, InQueue
<1>3. ASSUME NEW b \in Backup, TakeKey(b) PROVE OrderInv'
  <2>1. q'.pc \in {"idle", "listNew", "listQueued"}
    BY <1>3 DEF TakeKey, At
  <2> QED
    BY <1>2, <2>1 DEF OrderInv, BehindInv, TodoInv, HandedOutInv, AheadInv
<1>4. CASE ListForNew
  <2>1. cache = api
    BY <1>4, FreshCache DEF ListForNew
  <2>2. PICK m \in {0} \cup {cache[b].pos : b \in Backup} :
           /\ IsMaxQueuePosition(cache, m)
           /\ q' = At("enqueue", q.key, m + 1, {}, Unseen, 1)
    BY <1>4 DEF ListForNew
  <2>3. q'.pc = "enqueue" /\ q'.pos = m + 1
    BY <2>2 DEF At
  <2>4. BehindInv'
    <3>1. m \in Nat
      BY <2>2 DEF TypeOK, ApiTypeOK, Object
    <3>2. \A b \in Backup : InQueue(b) => api[b].pos <= m
      BY <2>1, <2>2 DEF IsMaxQueuePosition, OrderedQueued, Listed, InQueue
    <3>3. \A b \in Backup : api[b].pos \in Nat
      BY DEF TypeOK, ApiTypeOK, Object
    <3> QED
      BY <1>1, <2>3, <3>1, <3>2, <3>3 DEF BehindInv, InQueue
  <2> QED
    BY <1>2, <2>3, <2>4 DEF OrderInv, TodoInv, HandedOutInv, AheadInv
<1>5. ASSUME ListForQueued, q' # QIdle PROVE OrderInv'
  <2>1. cache = api
    BY <1>5, FreshCache DEF ListForQueued
  <2>2. /\ Runnable(cache, q.key, q.pos)
        /\ q'.pc = "admit"
        /\ q'.key = q.key
        /\ q'.pos = q.pos
        /\ q'.todo = OrderedQueued(cache) \ {q.key}
    BY <1>5 DEF ListForQueued, At
  <2>3. TodoInv'
    BY <1>1, <2>1, <2>2 DEF TodoInv, OrderedQueued, Listed, InQueue
  <2>4. AheadInv'
    <3>1. ~Conflicts(cache, q.key, q.pos, EarlierThan(cache, q.pos))
      BY <2>2 DEF Runnable
    <3>2. \A e \in Backup :
             InQueue(e) /\ api[e].pos < q.pos => ~Overlap(q.key, e)
      BY <2>1, <3>1 DEF Conflicts, EarlierThan, Listed, InQueue
    <3> QED
      BY <1>1, <2>2, <3>2 DEF AheadInv, InQueue
  <2> QED
    BY <1>2, <2>2, <2>3, <2>4 DEF OrderInv, BehindInv, HandedOutInv
<1>6. CASE Admit
  <2>1. /\ q.pc = "admit"
        /\ q'.pc = "dequeue"
        /\ q'.key = q.key
        /\ q'.pos = q.pos
        /\ q'.todo = q.todo
    BY <1>6 DEF Admit, At
  <2> QED
    BY <1>1, <1>2, <2>1 DEF OrderInv, BehindInv, TodoInv, HandedOutInv,
       AheadInv, InQueue
<1>7. CASE q' = QIdle
  BY <1>2, <1>7, OrderIdle
<1> QED
  BY <1>3, <1>4, <1>5, <1>6, <1>7 DEF ListError, RenumberDone

\* A new backup enters the queue behind all the others.
LEMMA OrderEnqueue ==
    ASSUME Basis, OrderInv, Enqueue
    PROVE  OrderInv'
<1> DEFINE o == [phase |-> "Queued", pos |-> q.pos]
<1>1. q.key \in Backup /\ q.pc = "enqueue" /\ q' = QIdle
  BY DEF Enqueue, Basis, TypeOK
<1>2. UNCHANGED api \/ (Exists(api[q.key]) /\ api' = [api EXCEPT ![q.key] = o])
  BY <1>1, PatchApi DEF Enqueue
<1>3. \A b \in Backup : InQueue(b) => api[b].pos < q.pos
  BY <1>1 DEF OrderInv, BehindInv
<1>4. \A b \in Backup : api[b].pos \in Nat
  BY DEF Basis, TypeOK, ApiTypeOK, Object
<1>5. q.pos \in Nat
  BY DEF Basis, TypeOK, QueueWorker
<1>6. \/ UNCHANGED api
      \/ \A b \in Backup : api'[b] = IF b = q.key THEN o ELSE api[b]
  BY <1>1, <1>2 DEF Basis, TypeOK, ApiTypeOK
<1>7. DistinctInv'
  BY <1>3, <1>4, <1>5, <1>6 DEF OrderInv, DistinctInv, InQueue
<1> QED
  BY <1>1, <1>7, OrderIdle

\* A backup that is dequeued leaves no gap that the renumbering forgets.
LEMMA OrderDequeue ==
    ASSUME Basis, OrderInv, Dequeue
    PROVE  OrderInv'
<1> DEFINE o == [phase |-> "ReadyToStart", pos |-> 0]
<1> USE DEF Basis
<1>1. q.key \in Backup /\ q.pc = "dequeue"
  BY DEF Dequeue, TypeOK
<1>2. UNCHANGED api \/ (Exists(api[q.key]) /\ api' = [api EXCEPT ![q.key] = o])
  BY <1>1, PatchApi DEF Dequeue
<1>3. \A b \in Backup : api'[b] = api[b] \/ (b = q.key /\ api'[b] = o)
  BY <1>1, <1>2 DEF TypeOK, ApiTypeOK
<1>4. \A b \in Backup : InQueue(b)' => InQueue(b) /\ api'[b].pos = api[b].pos
  BY <1>3 DEF InQueue
<1>5. DistinctInv'
  BY <1>4 DEF OrderInv, DistinctInv
<1>6. CASE q' = QIdle
  BY <1>5, <1>6, OrderIdle
<1>7. CASE /\ PatchOk(q.key, o)
           /\ q' = At("renumber", q.key, 0, q.todo, q.seen, 1)
  <2>1. api' = [api EXCEPT ![q.key] = o]
    BY <1>7 DEF PatchOk, Store
  <2>2. q'.pc = "renumber" /\ q'.todo = q.todo /\ q'.next = 1
    BY <1>7 DEF At
  <2>3. api'[q.key].phase # "Queued"
    BY <1>1, <2>1 DEF TypeOK, ApiTypeOK
  <2>4. ASSUME NEW b \in Backup, InQueue(b)'
        PROVE  b \in q.todo /\ api'[b].pos >= 1
    <3>1. b \in q.todo
      BY <1>1, <1>4, <2>3, <2>4 DEF OrderInv, TodoInv, InQueue
    <3>2. api[b].pos > 0 /\ api[b].pos \in Nat
      BY <1>4, <2>4 DEF ExclusionInv, PosInv, InQueue, TypeOK, ApiTypeOK, Object
    <3> QED
      BY <1>4, <2>4, <3>1, <3>2
  <2>5. HandedOutInv'
    BY <2>2, <2>4 DEF HandedOutInv
  <2> QED
    BY <1>5, <2>2, <2>5 DEF OrderInv, BehindInv, TodoInv, AheadInv
<1> QED
  BY <1>6, <1>7 DEF Dequeue

\* A backup that is moved up takes a position nobody has.
LEMMA OrderRenumber ==
    ASSUME Basis, OrderInv, NEW b \in Backup, Renumber(b)
    PROVE  OrderInv'
<1> DEFINE moved == IF q.seen[b] = q.next THEN api[b]
                    ELSE [phase |-> api[b].phase, pos |-> q.next]
<1> USE DEF Basis
<1>1. /\ q.pc = "renumber"
      /\ b \in q.todo
      /\ \A e \in q.todo : q.seen[b] <= q.seen[e]
  BY DEF Renumber
<1>2. /\ q.next \in Nat
      /\ \A e \in Backup : api[e].pos \in Nat
      /\ \A e \in q.todo : e \in Backup /\ q.seen[e] \in Nat
  BY DEF TypeOK, QueueWorker, ApiTypeOK, Object
<1>3. \A e \in q.todo : InQueue(e) => api[e].pos = q.seen[e]
  BY <1>1, <1>2 DEF ExclusionInv, RenumberInv, InQueue
<1>4. ASSUME NEW e \in Backup, InQueue(e), InQueue(b), e # b
      PROVE  IF e \in q.todo THEN api[e].pos > q.next ELSE api[e].pos < q.next
  <2>1. CASE e \in q.todo
    <3>1. api[b].pos <= api[e].pos /\ api[b].pos # api[e].pos
      BY <1>1, <1>3, <1>4, <2>1 DEF OrderInv, DistinctInv
    <3>2. api[b].pos >= q.next
      BY <1>1, <1>4 DEF OrderInv, HandedOutInv
    <3> QED
      BY <1>2, <2>1, <3>1, <3>2
  <2>2. CASE e \notin q.todo
    BY <1>1, <1>4, <2>2 DEF OrderInv, HandedOutInv
  <2> QED
    BY <2>1, <2>2
<1>5. CASE Exists(api[b]) /\ api' = [api EXCEPT ![b] = moved]
  <2>1. InQueue(b)
    BY <1>1, <1>5 DEF Exists, ExclusionInv, RenumberInv, InQueue
  <2>2. \A e \in Backup : e # b => api'[e] = api[e]
    BY <1>5 DEF TypeOK, ApiTypeOK
  <2>3. InQueue(b)' /\ api'[b].pos = q.next
    BY <1>1, <1>3, <1>5, <2>1 DEF InQueue, TypeOK, ApiTypeOK
  <2>4. \A e \in Backup : InQueue(e)' <=> InQueue(e)
    BY <2>1, <2>2, <2>3 DEF InQueue
  <2>5. ASSUME NEW e \in Backup, InQueue(e)', e # b
        PROVE  IF e \in q.todo THEN api'[e].pos > q.next
                               ELSE api'[e].pos < q.next
    BY <1>4, <2>1, <2>2, <2>4, <2>5
  <2>6. DistinctInv'
    <3>1. ASSUME NEW b1 \in Backup, NEW b2 \in Backup, InQueue(b1)',
                 InQueue(b2)', b1 # b2
          PROVE  api'[b1].pos # api'[b2].pos
      <4>1. CASE b1 # b /\ b2 # b
        BY <2>2, <2>4, <3>1, <4>1 DEF OrderInv, DistinctInv
      <4>2. ASSUME NEW e \in Backup, InQueue(e)', e # b
            PROVE  api'[e].pos # api'[b].pos
        BY <1>2, <2>2, <2>3, <2>5, <4>2
      <4> QED
        BY <3>1, <4>1, <4>2
    <3> QED
      BY <3>1 DEF DistinctInv
  <2>7. ASSUME q' = At("renumber", q.key, 0, q.todo \ {b}, q.seen, q.next + 1)
        PROVE  OrderInv'
    <3>1. /\ q'.pc = "renumber"
          /\ q'.todo = q.todo \ {b}
          /\ q'.next = q.next + 1
      BY <2>7 DEF At
    <3>2. HandedOutInv'
      <4>1. ASSUME NEW e \in Backup, InQueue(e)'
            PROVE  /\ e \in q.todo \ {b} => api'[e].pos >= q.next + 1
                   /\ e \notin q.todo \ {b} => api'[e].pos < q.next + 1
        <5>1. CASE e = b
          BY <1>2, <2>3, <5>1
        <5>2. CASE e # b
          BY <1>2, <2>2, <2>5, <4>1, <5>2
        <5> QED
          BY <5>1, <5>2
      <4> QED
        BY <3>1, <4>1 DEF HandedOutInv
    <3> QED
      BY <2>6, <3>1, <3>2 DEF OrderInv, BehindInv, TodoInv, AheadInv
  <2> QED
    BY <2>6, <2>7, OrderIdle DEF Renumber
<1>6. CASE UNCHANGED api
  <2>1. DistinctInv'
    BY <1>6 DEF OrderInv, DistinctInv, InQueue
  <2>2. CASE q' = QIdle
    BY <2>1, <2>2, OrderIdle
  <2>3. CASE PatchOk(b, moved)
    BY <1>5, <2>3 DEF PatchOk, Store
  <2> QED
    BY <2>2, <2>3 DEF Renumber
<1> QED
  BY <1>5, <1>6, PatchApi DEF Renumber

\* The backup controller and the users put no backup into the queue, change
\* no position in it and bring no deleted backup back.
LEMMA LeavesQueue ==
    ASSUME Basis, NEW b \in Backup,
           ReconcileBackup(b) \/ CreateBackup(b) \/ DeleteBackup(b),
           NEW c \in Backup
    PROVE  /\ InQueue(c)' => InQueue(c) /\ api'[c].pos = api[c].pos
           /\ api[c].phase = "Gone" => api'[c].phase = "Gone"
<1> USE DEF Basis, TypeOK, ApiTypeOK, ReconcilerTypeOK, InQueue
<1>1. ASSUME \/ TakeBackup(b) \/ TrackStarted(b) \/ LeaveBackup(b)
             \/ \E phase \in RunOutcomes : RunBackup(b, phase)
      PROVE  api' = api
  BY <1>1 DEF TakeBackup, TrackStarted, LeaveBackup, RunBackup, apiVars
<1>2. ASSUME NEW phase \in {"InProgress", "FailedValidation"},
             PatchStarted(b, phase)
      PROVE  \/ api'[c] = api[c]
             \/ Exists(api[c]) /\ api'[c].phase = phase
  BY <1>2, PatchApi DEF PatchStarted
<1>3. ASSUME PatchFinished(b)
      PROVE  \/ api'[c] = api[c]
             \/ Exists(api[c]) /\ api'[c].phase \in RunOutcomes
  <2>1. Exists(api[b]) => bw[b].phase \in RunOutcomes
    BY <1>3 DEF PatchFinished, ExclusionInv, WorkerInv, Exists
  <2>2. \/ UNCHANGED api
        \/ /\ Exists(api[b])
           /\ api' = [api EXCEPT ![b] = [phase |-> bw[b].phase,
                                         pos |-> api[b].pos]]
    BY <1>3, PatchApi DEF PatchFinished
  <2> QED
    BY <2>1, <2>2
<1>4. "Queued" \notin RunOutcomes
  BY ReconcilerAssumption DEF PostPhases
<1>5. CASE CreateBackup(b) \/ DeleteBackup(b)
  <2>1. PICK o \in {[phase |-> "New", pos |-> 0], Gone} :
           /\ Store(b, o)
           /\ o.phase = "New" => api[b] = Absent
    BY <1>5 DEF CreateBackup, DeleteBackup, Gone
  <2>2. /\ api'[c] = IF c = b THEN o ELSE api[c]
        /\ o.phase \in {"New", "Gone"}
    BY <2>1 DEF Store, Gone
  <2> QED
    BY <2>1, <2>2 DEF Absent
<1>6. CASE ReconcileBackup(b)
  <2>1. \/ api'[c] = api[c]
        \/ /\ Exists(api[c])
           /\ api'[c].phase \in {"InProgress", "FailedValidation"} \cup RunOutcomes
    BY <1>1, <1>2, <1>3, <1>6 DEF ReconcileBackup, WorkOn, Verdicts
  <2> QED
    BY <1>4, <2>1 DEF Exists
<1> QED
  BY <1>5, <1>6

\* Every step keeps the order.
LEMMA NextOrder ==
    ASSUME FreshReads, Basis, OrderInv, [Next]_vars
    PROVE  OrderInv'
<1>1. ASSUME UNCHANGED <<api, q>> PROVE OrderInv'
  BY <1>1 DEF OrderInv, BehindInv, TodoInv, HandedOutInv, DistinctInv,
     AheadInv, InQueue
<1>2. CASE \/ UNCHANGED vars
           \/ Deliver
           \/ \E b \in Backup : Resync(b)
           \/ PeriodicEnqueue
  BY <1>1, <1>2 DEF vars, Deliver, Resync, PeriodicEnqueue, apiVars
<1>3. CASE (\E b \in Backup : TakeKey(b)) \/ ReconcileQueue
  BY <1>3, OrderDecided, OrderEnqueue, OrderDequeue, OrderRenumber
     DEF ReconcileQueue
<1>4. ASSUME NEW b \in Backup,
             \/ ReconcileBackup(b) /\ q' = q
             \/ CreateBackup(b)
             \/ DeleteBackup(b)
      PROVE  OrderInv'
  <2>1. q' = q
    BY <1>4 DEF CreateBackup, DeleteBackup
  <2>2. \A c \in Backup :
           /\ InQueue(c)' => InQueue(c) /\ api'[c].pos = api[c].pos
           /\ api[c].phase = "Gone" => api'[c].phase = "Gone"
    BY <1>4, LeavesQueue
  <2> QED
    BY <2>1, <2>2, OrderFewer
<1>5. ASSUME NEW missed \in SUBSET {b \in Backup : api[b].phase = "InProgress"},
             Restart(missed)
      PROVE  OrderInv'
  <2>1. q' = QIdle
    BY <1>5 DEF Restart
  <2>2. \A c \in Backup :
           /\ InQueue(c)' => InQueue(c) /\ api'[c].pos = api[c].pos
           /\ api[c].phase = "Gone" => api'[c].phase = "Gone"
    BY <1>5 DEF Restart, MarkInProgressFailed, InQueue
  <2> QED
    BY <2>1, <2>2, OrderFewer, OrderIdle
<1>6. MayDelete \subseteq Backup
  BY QueueAssumption
<1> QED
  BY <1>2, <1>3, <1>4, <1>5, <1>6 DEF Next

\* The positions of the queue and the decisions based on them stay in order
\* through every reconciliation that stops halfway.
THEOREM OrderInductive == FreshReads => (Spec => [](Basis /\ OrderInv))
<1> SUFFICES ASSUME FreshReads PROVE Spec => [](Basis /\ OrderInv)
  OBVIOUS
<1>1. Init => OrderInv
  <2>1. Init => \A b \in Backup : ~InQueue(b)
    BY DEF Init, ApiInit, Absent, InQueue
  <2>2. Init => q.pc = "idle"
    BY DEF Init, QIdle, At
  <2> QED
    BY <2>1, <2>2 DEF OrderInv, BehindInv, TodoInv, HandedOutInv, DistinctInv,
       AheadInv
<1>2. Basis /\ OrderInv /\ [Next]_vars => OrderInv'
  BY NextOrder
<1> QED
  BY <1>1, <1>2, BasisInvariant, PTL DEF Spec

\* Queued backups have distinct positions from 1 on and running ones have
\* position 0, between any two patches of a renumbering too.
THEOREM Positions == FreshReads => (Spec => []QueuePositions)
<1> SUFFICES ASSUME FreshReads PROVE Spec => []QueuePositions
  OBVIOUS
<1>1. Basis /\ OrderInv => QueuePositions
  <2> SUFFICES ASSUME Basis, OrderInv PROVE QueuePositions
    OBVIOUS
  <2>1. \A b \in Backup : /\ api[b].pos \in Nat
                          /\ (api[b].phase = "Queued") <=> (api[b].pos > 0)
    BY DEF Basis, TypeOK, ApiTypeOK, Object, ExclusionInv, PosInv
  <2> QED
    BY <2>1 DEF QueuePositions, OrderInv, DistinctInv, InQueue, Active,
       ActivePhases
<1> QED
  BY <1>1, OrderInductive, PTL

\* A backup is dequeued only when nothing ahead of it shares a namespace
\* with it, so that later backups do not overtake it for ever.
THEOREM InOrder == FreshReads => (Spec => StartsInOrder)
<1> SUFFICES ASSUME FreshReads PROVE Spec => StartsInOrder
  OBVIOUS
<1>1. ASSUME Basis, OrderInv, [Next]_vars, NEW b \in Backup, NEW e \in Backup,
             api[b].phase = "Queued", api'[b].phase = "ReadyToStart",
             api[e].phase = "Queued", api[e].pos < api[b].pos
      PROVE  ~Overlap(b, e)
  <2>1. q.pc = "dequeue" /\ b = q.key
    <3>1. ASSUME NEW c \in Backup, NEW o \in Object, OneChanges(c, o)
          PROVE  b = c /\ o.phase = "ReadyToStart"
      BY <1>1, <3>1 DEF OneChanges, Basis, TypeOK, ApiTypeOK
    <3>2. ~SomeFail /\ api' # api
      BY <1>1 DEF SomeFail
    <3>3. PICK o \in Object : OneChanges(b, o) /\ o.phase = "ReadyToStart"
      BY <1>1, <3>1, <3>2, StepEffect DEF Basis
    <3> QED
      BY <1>1, <3>3, ReconcilerAssumption
         DEF OneChanges, MayBecome, Absent, Gone, PostPhases
  <2>2. api[b].pos = q.pos
    BY <1>1, <2>1 DEF Basis, ExclusionInv, DeciderInv
  <2> QED
    BY <1>1, <2>1, <2>2 DEF OrderInv, AheadInv, InQueue
<1>2. Basis /\ OrderInv /\ [Next]_vars =>
         [\A b \in Backup :
             api[b].phase = "Queued" /\ api'[b].phase = "ReadyToStart" =>
                 \A e \in Backup :
                     api[e].phase = "Queued" /\ api[e].pos < api[b].pos =>
                         ~Overlap(b, e)]_vars
  BY <1>1
<1> QED
  BY <1>2, OrderInductive, PTL DEF Spec, StartsInOrder

-----------------------------------------------------------------------------
(***************************************************************************)
(* The limit on running backups, until a call fails or the server starts   *)
(* again.                                                                  *)
(***************************************************************************)
Calm == restarts = 0 /\ faults = 0

Tracked == tracker.ready \cup tracker.inProgress

Done(b) == api[b].phase \in PostPhases \cup TerminalPhases \cup {"Gone"}

\* The tracker knows every backup that runs or is about to.
TrackedInv ==
    \A b \in Backup :
        Active(b) \/ bw[b].pc \in {"prepared", "patched"} => b \in Tracked

\* The tracker forgets a backup only when it is done.
LeavingInv == \A b \in Backup : bw[b].pc = "leaving" => Done(b)

\* No worker is at a backup the queue worker is about to dequeue.
UntouchedInv ==
    \A b \in Backup :
        q.pc \in {"listQueued", "admit", "dequeue"} /\ b = q.key =>
            /\ bw[b].pc = "idle"
            /\ q.pc = "dequeue" => b \in Tracked

\* The worker has seen that there is room before it adds one more.
CountInv ==
    /\ RunningCount(tracker) <= ConcurrentBackups
    /\ q.pc = "admit" => RunningCount(tracker) < ConcurrentBackups

LimitInv == Calm => TrackedInv /\ LeavingInv /\ UntouchedInv /\ CountInv

\* The tracker's sets are finite, and so is what is counted.
LEMMA CountType ==
    ASSUME TypeOK
    PROVE  /\ IsFiniteSet(tracker.ready) /\ IsFiniteSet(tracker.inProgress)
           /\ Cardinality(tracker.ready) \in Nat
           /\ Cardinality(tracker.inProgress) \in Nat
           /\ RunningCount(tracker) \in Nat
           /\ ConcurrentBackups \in Nat
<1>1. tracker.ready \in SUBSET Backup /\ tracker.inProgress \in SUBSET Backup
  BY DEF TypeOK, ReconcilerTypeOK
<1>2. IsFiniteSet(tracker.ready) /\ IsFiniteSet(tracker.inProgress)
  BY <1>1, ApiAssumption, FS_Subset
<1>3. /\ Cardinality(tracker.ready) \in Nat
      /\ Cardinality(tracker.inProgress) \in Nat
  BY <1>2, FS_CardinalityType
<1> QED
  BY <1>2, <1>3, ReconcilerAssumption DEF RunningCount

\* What is counted is a number after a step, too.
LEMMA NextCount ==
    ASSUME TypeOK, Next
    PROVE  RunningCount(tracker') \in Nat
<1>1. TypeOK'
  BY NextType
<1>2. tracker'.ready \in SUBSET Backup /\ tracker'.inProgress \in SUBSET Backup
  BY <1>1 DEF TypeOK, ReconcilerTypeOK
<1>3. IsFiniteSet(tracker'.ready) /\ IsFiniteSet(tracker'.inProgress)
  BY <1>2, ApiAssumption, FS_Subset
<1>4. /\ Cardinality(tracker'.ready) \in Nat
      /\ Cardinality(tracker'.inProgress) \in Nat
  BY <1>3, FS_CardinalityType
<1> QED
  BY <1>4 DEF RunningCount

\* The tracker's updates: only AddReadyToStart adds to what is counted.
LEMMA TrackerCount ==
    ASSUME TypeOK, NEW b \in Backup
    PROVE  /\ RunningCount(AddReadyToStart(tracker, b))
                 <= RunningCount(tracker) + 1
           /\ b \in Tracked => RunningCount(Add(tracker, b))
                 <= RunningCount(tracker)
           /\ RunningCount(AddPostProcessing(tracker, b))
                 <= RunningCount(tracker)
           /\ RunningCount(Delete(tracker, b)) <= RunningCount(tracker)
<1> DEFINE R == tracker.ready
           P == tracker.inProgress
<1>1. /\ IsFiniteSet(R) /\ IsFiniteSet(P)
      /\ Cardinality(R) \in Nat /\ Cardinality(P) \in Nat
  BY CountType
<1> HIDE DEF R, P
<1>2. /\ Cardinality(R \cup {b}) = IF b \in R THEN Cardinality(R)
                                   ELSE Cardinality(R) + 1
      /\ Cardinality(P \cup {b}) = IF b \in P THEN Cardinality(P)
                                   ELSE Cardinality(P) + 1
  BY <1>1, FS_AddElement
<1>3. /\ Cardinality(R \ {b}) = IF b \in R THEN Cardinality(R) - 1
                                ELSE Cardinality(R)
      /\ Cardinality(P \ {b}) = IF b \in P THEN Cardinality(P) - 1
                                ELSE Cardinality(P)
  BY <1>1, FS_RemoveElement
<1>4. RunningCount(tracker) = Cardinality(P) + Cardinality(R)
  BY DEF RunningCount, R, P
<1>5. RunningCount(AddReadyToStart(tracker, b))
         = Cardinality(P) + Cardinality(R \cup {b})
  BY DEF RunningCount, AddReadyToStart, R, P
<1>6. RunningCount(Add(tracker, b))
         = Cardinality(P \cup {b}) + Cardinality(R \ {b})
  BY DEF RunningCount, Add, R, P
<1>7. RunningCount(AddPostProcessing(tracker, b))
         = Cardinality(P \ {b}) + Cardinality(R \ {b})
  BY DEF RunningCount, AddPostProcessing, R, P
<1>8. RunningCount(Delete(tracker, b))
         = Cardinality(P \ {b}) + Cardinality(R \ {b})
  BY DEF RunningCount, Delete, R, P
<1>9. b \in Tracked <=> b \in R \/ b \in P
  BY DEF Tracked, R, P
<1>10. RunningCount(AddReadyToStart(tracker, b)) <= RunningCount(tracker) + 1
  BY <1>1, <1>2, <1>4, <1>5
<1>11. b \in Tracked => RunningCount(Add(tracker, b)) <= RunningCount(tracker)
  BY <1>1, <1>2, <1>3, <1>4, <1>6, <1>9
<1>12. /\ RunningCount(AddPostProcessing(tracker, b)) <= RunningCount(tracker)
       /\ RunningCount(Delete(tracker, b)) <= RunningCount(tracker)
  BY <1>1, <1>3, <1>4, <1>7, <1>8
<1> QED
  BY <1>10, <1>11, <1>12

\* Without failures, a patch fails only because its object is gone.
LEMMA CalmPatch ==
    ASSUME TypeOK, faults' = 0, NEW b \in Backup, NEW o, PatchError(b, o)
    PROVE  ~Exists(api[b]) /\ api' = api
<1>1. faults \in Nat
  BY ApiAssumption DEF TypeOK, ApiTypeOK
<1> QED
  BY <1>1 DEF PatchError

\* What is done stays done, and a backup becomes active by being dequeued.
LEMMA ActiveStep ==
    ASSUME FreshReads, Basis, Next, NEW b \in Backup
    PROVE  /\ Done(b) => Done(b)'
           /\ Active(b)' => Active(b) \/ (q.pc = "dequeue" /\ b = q.key)
<1>1. CASE UNCHANGED api
  BY <1>1 DEF Done, Active
<1>2. ASSUME NEW c \in Backup, NEW o \in Object, OneChanges(c, o)
      PROVE  /\ Done(b) => Done(b)'
             /\ Active(b)' => Active(b) \/ (q.pc = "dequeue" /\ b = q.key)
  <2>1. api'[b] = IF b = c THEN o ELSE api[b]
    BY <1>2 DEF OneChanges, Basis, TypeOK, ApiTypeOK
  <2>2. CASE b # c
    BY <2>1, <2>2 DEF Done, Active
  <2>3. CASE b = c
    <3>1. MayBecome(b, o)
      BY <1>2, <2>3 DEF OneChanges
    <3>2. Done(b) => Done(b)'
      BY <2>1, <2>3, <3>1 DEF Done, MayBecome, Absent, Gone, PostPhases,
         TerminalPhases
    <3>3. Active(b)' => Active(b) \/ (q.pc = "dequeue" /\ b = q.key)
      BY <2>1, <2>3, <3>1, ReconcilerAssumption
         DEF Active, ActivePhases, MayBecome, Gone, PostPhases
    <3> QED
      BY <3>2, <3>3
  <2> QED
    BY <2>2, <2>3
<1>3. CASE SomeFail
  BY <1>3 DEF SomeFail, Done, Active, ActivePhases, PostPhases, TerminalPhases
<1> QED
  BY <1>1, <1>2, <1>3, StepEffect DEF Basis

\* Steps that leave the tracker and the workers alone and start nothing.
LEMMA LimitSame ==
    ASSUME FreshReads, Basis, Next,
           TrackedInv, LeavingInv, UntouchedInv, CountInv,
           UNCHANGED <<tracker, bw>>,
           q.pc # "dequeue",
           q' = q \/ q'.pc \notin {"listQueued", "admit", "dequeue"}
    PROVE  TrackedInv' /\ LeavingInv' /\ UntouchedInv' /\ CountInv'
<1>1. TrackedInv' /\ LeavingInv'
  BY ActiveStep DEF TrackedInv, LeavingInv, Tracked
<1>2. UntouchedInv'
  BY DEF UntouchedInv, Tracked
<1>3. CountInv'
  BY DEF CountInv
<1> QED
  BY <1>1, <1>2, <1>3

\* A count that falls stays within the limit.
LEMMA CountFalls ==
    ASSUME TypeOK, Next, CountInv,
           RunningCount(tracker') <= RunningCount(tracker),
           q' = q \/ q'.pc # "admit"
    PROVE  CountInv'
<1>1. RunningCount(tracker) \in Nat /\ ConcurrentBackups \in Nat
  BY CountType
<1>2. RunningCount(tracker') \in Nat
  BY NextCount
<1> QED
  BY <1>1, <1>2 DEF CountInv

\* The queue worker's steps.
LEMMA LimitQueue ==
    ASSUME FreshReads, Basis, Next, Calm', ReconcileQueue,
           TrackedInv, LeavingInv, UntouchedInv, CountInv
    PROVE  TrackedInv' /\ LeavingInv' /\ UntouchedInv' /\ CountInv'
<1> USE DEF Basis
<1>1. CASE ListForNew \/ ListError \/ RenumberDone
  BY <1>1, LimitSame
     DEF ListForNew, ListError, RenumberDone, reconcilerVars, QIdle, At
<1>2. CASE ListForQueued
  <2>1. UNCHANGED <<api, tracker, bw>> /\ q.pc = "listQueued"
    BY <1>2 DEF ListForQueued, apiVars, reconcilerVars
  <2>2. CASE q' = QIdle
    BY <2>1, <2>2, LimitSame DEF QIdle, At
  <2>3. CASE /\ Runnable(cache, q.key, q.pos)
             /\ q'.pc = "admit"
             /\ q'.key = q.key
    <3>1. TrackedInv' /\ LeavingInv'
      BY <2>1 DEF TrackedInv, LeavingInv, Tracked, Done, Active
    <3>2. UntouchedInv'
      BY <2>1, <2>3 DEF UntouchedInv, Tracked
    <3>3. CountInv'
      BY <2>1, <2>3 DEF Runnable, CountInv
    <3> QED
      BY <3>1, <3>2, <3>3
  <2> QED
    BY <1>2, <2>2, <2>3 DEF ListForQueued, At
<1>3. CASE Enqueue
  BY <1>3, LimitSame DEF Enqueue, reconcilerVars, QIdle, At
<1>4. CASE Admit
  <2>1. /\ UNCHANGED <<api, bw>>
        /\ q.pc = "admit"
        /\ q'.pc = "dequeue"
        /\ q'.key = q.key
        /\ q.key \in Backup
        /\ tracker' = AddReadyToStart(tracker, q.key)
    BY <1>4 DEF Admit, apiVars, At, TypeOK
  <2>2. Tracked' = Tracked \cup {q.key}
    BY <2>1 DEF Tracked, AddReadyToStart
  <2>3. TrackedInv' /\ LeavingInv'
    BY <2>1, <2>2 DEF TrackedInv, LeavingInv, Done, Active
  <2>4. UntouchedInv'
    BY <2>1, <2>2 DEF UntouchedInv
  <2>5. CountInv'
    <3>1. /\ RunningCount(tracker) < ConcurrentBackups
          /\ RunningCount(tracker') <= RunningCount(tracker) + 1
      BY <2>1, TrackerCount DEF CountInv
    <3>2. /\ RunningCount(tracker) \in Nat
          /\ ConcurrentBackups \in Nat
      BY CountType
    <3>3. RunningCount(tracker') \in Nat
      BY NextCount
    <3> QED
      BY <2>1, <3>1, <3>2, <3>3 DEF CountInv
  <2> QED
    BY <2>3, <2>4, <2>5
<1>5. CASE Dequeue
  <2> DEFINE o == [phase |-> "ReadyToStart", pos |-> 0]
  <2>1. /\ q.pc = "dequeue"
        /\ q.key \in Backup
        /\ bw[q.key].pc = "idle"
        /\ q.key \in Tracked
        /\ UNCHANGED bw
    BY <1>5 DEF Dequeue, TypeOK, UntouchedInv
  <2>2. q'.pc \in {"idle", "renumber"}
    BY <1>5 DEF Dequeue, QIdle, At
  <2>3. LeavingInv'
    BY <2>1, ActiveStep DEF LeavingInv
  <2>4. UntouchedInv'
    BY <2>2 DEF UntouchedInv
  <2>5. CASE PatchOk(q.key, o) /\ UNCHANGED tracker
    <3>1. TrackedInv'
      BY <2>1, <2>5, ActiveStep DEF TrackedInv, Tracked
    <3>2. CountInv'
      BY <2>2, <2>5 DEF CountInv
    <3> QED
      BY <2>3, <2>4, <3>1, <3>2
  <2>6. CASE PatchError(q.key, o) /\ tracker' = Delete(tracker, q.key)
    <3>1. ~Exists(api[q.key]) /\ api' = api
      BY <2>1, <2>6, CalmPatch DEF Calm
    <3>2. ~Active(q.key)
      BY <3>1 DEF Active, ActivePhases, Exists
    <3>3. Tracked' = Tracked \ {q.key}
      BY <2>6 DEF Tracked, Delete
    <3>4. TrackedInv'
      BY <2>1, <3>1, <3>2, <3>3 DEF TrackedInv, Active
    <3>5. CountInv'
      BY <2>1, <2>2, <2>6, TrackerCount, CountFalls
    <3> QED
      BY <2>3, <2>4, <3>4, <3>5
  <2> QED
    BY <1>5, <2>5, <2>6 DEF Dequeue
<1>6. ASSUME NEW b \in Backup, Renumber(b)
      PROVE  TrackedInv' /\ LeavingInv' /\ UntouchedInv' /\ CountInv'
  BY <1>6, LimitSame DEF Renumber, reconcilerVars, QIdle, At
<1> QED
  BY <1>1, <1>2, <1>3, <1>4, <1>5, <1>6 DEF ReconcileQueue

\* The backup controller's workers.
LEMMA LimitWorker ==
    ASSUME FreshReads, Basis, Next, Calm', NEW b \in Backup,
           ReconcileBackup(b), q' = q,
           TrackedInv, LeavingInv, UntouchedInv, CountInv
    PROVE  TrackedInv' /\ LeavingInv' /\ UntouchedInv' /\ CountInv'
<1> USE DEF Basis, TypeOK, ReconcilerTypeOK
<1>1. q.pc # "dequeue" \/ b # q.key \/ bw[b].pc = "idle"
  BY DEF UntouchedInv
<1>2. /\ \A c \in Backup : Done(c) => Done(c)'
      /\ \A c \in Backup :
            Active(c)' => Active(c) \/ (q.pc = "dequeue" /\ c = q.key)
  BY ActiveStep
<1>3. \A c \in Backup : Active(c)' => c \in Tracked
  BY <1>2 DEF TrackedInv, UntouchedInv
<1>4. CASE TakeBackup(b)
  <2>1. cache = api /\ UNCHANGED <<api, tracker>>
    BY <1>4, FreshCache DEF TakeBackup, apiVars, ExclusionInv
  <2>2. /\ \A c \in Backup \ {b} : bw'[c] = bw[c]
        /\ bw'[b] = bw[b] \/ (api[b].phase = "ReadyToStart"
                                /\ bw'[b].pc = "prepared")
    BY <1>4, <2>1 DEF TakeBackup
  <2>3. TrackedInv'
    BY <2>1, <2>2 DEF TrackedInv, Tracked, Active, ActivePhases
  <2>4. LeavingInv'
    BY <2>1, <2>2 DEF LeavingInv, Done
  <2>5. UntouchedInv'
    BY <2>1, <2>2 DEF UntouchedInv, Tracked, ExclusionInv, DeciderInv
  <2>6. CountInv'
    BY <2>1 DEF CountInv
  <2> QED
    BY <2>3, <2>4, <2>5, <2>6
<1>5. ASSUME bw[b].pc # "idle"
      PROVE  q.pc \in {"listQueued", "admit", "dequeue"} => b # q.key
  BY <1>5 DEF UntouchedInv
<1>6. ASSUME UNCHANGED tracker, bw[b].pc # "idle",
             \A c \in Backup \ {b} : bw'[c] = bw[c],
             bw'[b].pc = "patched" => bw[b].pc = "prepared",
             bw'[b].pc # "prepared",
             bw'[b].pc = "leaving" => Done(b)'
      PROVE  TrackedInv' /\ LeavingInv' /\ UntouchedInv' /\ CountInv'
  <2>1. TrackedInv'
    BY <1>3, <1>6 DEF TrackedInv, Tracked
  <2>2. LeavingInv'
    BY <1>2, <1>6 DEF LeavingInv
  <2>3. UntouchedInv'
    BY <1>5, <1>6 DEF UntouchedInv, Tracked
  <2>4. CountInv'
    BY <1>6 DEF CountInv
  <2> QED
    BY <2>1, <2>2, <2>3, <2>4
<1>7. ASSUME NEW phase \in {"InProgress", "FailedValidation"},
             PatchStarted(b, phase)
      PROVE  TrackedInv' /\ LeavingInv' /\ UntouchedInv' /\ CountInv'
  BY <1>6, <1>7 DEF PatchStarted, Idle
<1>8. CASE TrackStarted(b)
  <2>1. /\ bw[b].pc = "patched"
        /\ b \in Tracked
        /\ UNCHANGED api
        /\ tracker' = Add(tracker, b)
        /\ \A c \in Backup \ {b} : bw'[c] = bw[c]
        /\ bw'[b].pc = IF bw[b].phase = "FailedValidation" THEN "leaving"
                       ELSE "running"
    BY <1>8 DEF TrackStarted, apiVars, TrackedInv
  <2>2. Tracked' = Tracked
    BY <2>1 DEF Tracked, Add
  <2>3. TrackedInv'
    BY <1>3, <2>1, <2>2 DEF TrackedInv
  <2>4. LeavingInv'
    <3>1. bw[b].phase = "FailedValidation" => Done(b)
      BY <2>1 DEF ExclusionInv, WorkerInv, Done, TerminalPhases
    <3> QED
      BY <1>2, <2>1, <3>1 DEF LeavingInv
  <2>5. UntouchedInv'
    BY <1>5, <2>1, <2>2 DEF UntouchedInv
  <2>6. CountInv'
    BY <2>1, TrackerCount, CountFalls
  <2> QED
    BY <2>3, <2>4, <2>5, <2>6
<1>9. ASSUME NEW phase \in RunOutcomes, RunBackup(b, phase)
      PROVE  TrackedInv' /\ LeavingInv' /\ UntouchedInv' /\ CountInv'
  BY <1>6, <1>9 DEF RunBackup
<1>10. CASE PatchFinished(b)
  <2> DEFINE o == [phase |-> bw[b].phase, pos |-> api[b].pos]
  <2>1. /\ bw[b].pc = "finishing"
        /\ UNCHANGED tracker
        /\ \A c \in Backup \ {b} : bw'[c] = bw[c]
        /\ bw'[b].pc \in {"finishing", "leaving"}
        /\ PatchOk(b, o) \/ PatchError(b, o)
    BY <1>10 DEF PatchFinished
  <2>2. CASE PatchOk(b, o)
    <3>1. Exists(api[b]) /\ api'[b].phase = bw[b].phase
      BY <2>2 DEF PatchOk, Store, ApiTypeOK
    <3>2. bw[b].phase \in RunOutcomes
      BY <2>1, <3>1 DEF Exists, ExclusionInv, WorkerInv
    <3>3. Done(b)'
      BY <3>1, <3>2, ReconcilerAssumption DEF Done, TerminalPhases
    <3> QED
      BY <1>6, <2>1, <3>3
  <2>3. CASE PatchError(b, o)
    <3>1. ~Exists(api[b])
      BY <2>3, CalmPatch DEF Calm
    <3>2. api[b].phase = "Gone"
      BY <2>1, <3>1, ReconcilerAssumption
         DEF Exists, ExclusionInv, WorkerInv, PostPhases
    <3>3. Done(b)'
      BY <1>2, <3>2 DEF Done
    <3> QED
      BY <1>6, <2>1, <3>3
  <2> QED
    BY <2>1, <2>2, <2>3
<1>11. CASE LeaveBackup(b)
  <2>1. /\ bw[b].pc = "leaving"
        /\ UNCHANGED api
        /\ tracker' \in {Delete(tracker, b), AddPostProcessing(tracker, b)}
        /\ \A c \in Backup \ {b} : bw'[c] = bw[c]
        /\ bw'[b].pc = "idle"
    BY <1>11 DEF LeaveBackup, apiVars, Idle
  <2>2. Tracked' = Tracked \ {b}
    BY <2>1 DEF Tracked, Delete, AddPostProcessing
  <2>3. ~Active(b)
    BY <2>1 DEF LeavingInv, Done, Active, ActivePhases, PostPhases,
       TerminalPhases
  <2>4. TrackedInv'
    BY <2>1, <2>2, <2>3 DEF TrackedInv, Active
  <2>5. LeavingInv'
    BY <1>2, <2>1 DEF LeavingInv
  <2>6. UntouchedInv'
    BY <1>5, <2>1, <2>2 DEF UntouchedInv
  <2>7. CountInv'
    BY <2>1, TrackerCount, CountFalls
  <2> QED
    BY <2>4, <2>5, <2>6, <2>7
<1> QED
  BY <1>4, <1>7, <1>8, <1>9, <1>10, <1>11 DEF ReconcileBackup, WorkOn, Verdicts

\* Taking a key: the worker goes on only with a backup that is queued, and
\* no worker of the backup controller has taken one of those.
LEMMA LimitTakeKey ==
    ASSUME FreshReads, Basis, Next, NEW b \in Backup, TakeKey(b),
           TrackedInv, LeavingInv, UntouchedInv, CountInv
    PROVE  TrackedInv' /\ LeavingInv' /\ UntouchedInv' /\ CountInv'
<1> USE DEF Basis
<1>1. cache = api /\ UNCHANGED <<api, tracker, bw>>
  BY FreshCache DEF TakeKey, apiVars, reconcilerVars, ExclusionInv
<1>2. CASE api[b].phase = "Queued"
  <2>1. q' = At("listQueued", b, cache[b].pos, {}, Unseen, 1)
    BY <1>1, <1>2 DEF TakeKey
  <2>2. q'.pc = "listQueued" /\ q'.key = b
    BY <2>1 DEF At
  <2>3. bw[b].pc = "idle"
    <3>1. bw[b].pc \in WorkerPc
      BY DEF TypeOK, ReconcilerTypeOK
    <3>2. bw[b].pc # "leaving"
      BY <1>2 DEF LeavingInv, Done, PostPhases, TerminalPhases
    <3>3. bw[b].pc \notin {"prepared", "patched", "running"}
      BY <1>2 DEF ExclusionInv, WorkerInv
    <3>4. bw[b].pc # "finishing"
      BY <1>2, ReconcilerAssumption DEF ExclusionInv, WorkerInv, PostPhases
    <3> QED
      BY <3>1, <3>2, <3>3, <3>4 DEF WorkerPc
  <2>4. TrackedInv' /\ LeavingInv'
    BY <1>1 DEF TrackedInv, LeavingInv, Tracked, Done, Active
  <2>5. UntouchedInv'
    BY <1>1, <2>2, <2>3 DEF UntouchedInv
  <2>6. CountInv'
    BY <1>1, <2>2 DEF CountInv
  <2> QED
    BY <2>4, <2>5, <2>6
<1>3. CASE api[b].phase # "Queued"
  <2>1. /\ q.pc # "dequeue"
        /\ q' = q \/ q' = At("listNew", b, 0, {}, Unseen, 1)
    BY <1>1, <1>3 DEF TakeKey
  <2>2. q' = q \/ q'.pc = "listNew"
    BY <2>1 DEF At
  <2> QED
    BY <1>1, <2>1, <2>2, LimitSame
<1> QED
  BY <1>2, <1>3

\* The informer, the timers and the users: no counter moves.
LEMMA LimitOther ==
    ASSUME FreshReads, Basis, Next,
           \/ Deliver
           \/ \E b \in Backup : Resync(b)
           \/ PeriodicEnqueue
           \/ \E b \in Backup : CreateBackup(b)
           \/ \E b \in MayDelete : DeleteBackup(b),
           TrackedInv, LeavingInv, UntouchedInv, CountInv
    PROVE  TrackedInv' /\ LeavingInv' /\ UntouchedInv' /\ CountInv'
<1>1. UNCHANGED <<tracker, bw, q>>
  BY DEF Deliver, Resync, PeriodicEnqueue, CreateBackup, DeleteBackup,
     reconcilerVars
<1>3. ASSUME NEW c \in Backup
      PROVE  Active(c)' => Active(c)
  <2>1. CASE UNCHANGED api
    BY <2>1 DEF Active
  <2>2. ASSUME NEW b \in Backup, CreateBackup(b) \/ DeleteBackup(b)
        PROVE  Active(c)' => Active(c)
    BY <2>2 DEF CreateBackup, DeleteBackup, Store, Active, ActivePhases, Gone,
       Basis, TypeOK, ApiTypeOK
  <2> QED
    BY <2>1, <2>2, QueueAssumption DEF Deliver, Resync, PeriodicEnqueue, apiVars
<1>4. \A c \in Backup : Done(c) => Done(c)'
  BY ActiveStep
<1>5. TrackedInv'
  BY <1>1, <1>3 DEF TrackedInv, Tracked
<1>6. LeavingInv'
  BY <1>1, <1>4 DEF LeavingInv
<1>7. UntouchedInv' /\ CountInv'
  BY <1>1 DEF UntouchedInv, Tracked, CountInv
<1> QED
  BY <1>5, <1>6, <1>7

\* No call that has failed and no restart is ever taken back.
LEMMA CalmBefore ==
    ASSUME TypeOK, [Next]_vars, Calm'
    PROVE  Calm
<1>1. /\ faults \in Nat
      /\ restarts \in Nat
      /\ MaxFaults \in Nat
  BY ApiAssumption, QueueAssumption DEF TypeOK, ApiTypeOK
<1>2. ASSUME UNCHANGED restarts, faults' = faults \/ faults' = faults + 1
      PROVE  Calm
  BY <1>1, <1>2 DEF Calm
<1>3. ASSUME NEW b \in Backup, NEW o, PatchOk(b, o) \/ PatchError(b, o)
      PROVE  faults' = faults \/ faults' = faults + 1
  BY <1>3 DEF PatchOk, PatchError
<1>4. CASE ReconcileQueue
  BY <1>2, <1>3, <1>4
     DEF TypeOK, ReconcileQueue, ListForNew, ListForQueued, ListError, Enqueue,
         Admit, Dequeue, Renumber, RenumberDone, apiVars
<1>5. ASSUME NEW b \in Backup, ReconcileBackup(b), UNCHANGED restarts
      PROVE  Calm
  BY <1>2, <1>3, <1>5
     DEF ReconcileBackup, TakeBackup, WorkOn, PatchStarted, TrackStarted,
         RunBackup, PatchFinished, LeaveBackup, apiVars
<1>6. CASE \/ UNCHANGED vars
           \/ \E b \in Backup : TakeKey(b)
           \/ Deliver
           \/ \E b \in Backup : Resync(b)
           \/ PeriodicEnqueue
           \/ \E b \in Backup : CreateBackup(b)
           \/ \E b \in MayDelete : DeleteBackup(b)
  BY <1>2, <1>6 DEF vars, TakeKey, Deliver, Resync, PeriodicEnqueue,
     CreateBackup, DeleteBackup, apiVars
<1>7. ASSUME NEW missed, Restart(missed)
      PROVE  FALSE
  BY <1>1, <1>7 DEF Restart, Calm
<1> QED
  BY <1>4, <1>5, <1>6, <1>7 DEF Next

\* Every step, as long as nothing has failed.
LEMMA NextLimit ==
    ASSUME FreshReads, Basis, LimitInv, [Next]_vars
    PROVE  LimitInv'
<1> SUFFICES ASSUME Calm' PROVE TrackedInv' /\ LeavingInv' /\ UntouchedInv' /\ CountInv'
  BY DEF LimitInv
<1>1. TrackedInv /\ LeavingInv /\ UntouchedInv /\ CountInv
  BY CalmBefore DEF LimitInv, Basis
<1>2. CASE UNCHANGED vars
  BY <1>1, <1>2 DEF vars, apiVars, reconcilerVars, TrackedInv, LeavingInv,
     UntouchedInv, CountInv, Tracked, Done, Active
<1>3. CASE Next
  <2>1. CASE \E b \in Backup : TakeKey(b)
    BY <1>1, <1>3, <2>1, LimitTakeKey
  <2>2. CASE ReconcileQueue
    BY <1>1, <1>3, <2>2, LimitQueue
  <2>3. CASE \E b \in Backup : ReconcileBackup(b) /\ UNCHANGED <<qkeys, q, restarts>>
    BY <1>1, <1>3, <2>3, LimitWorker
  <2>4. CASE \/ Deliver
             \/ \E b \in Backup : Resync(b)
             \/ PeriodicEnqueue
             \/ \E b \in Backup : CreateBackup(b)
             \/ \E b \in MayDelete : DeleteBackup(b)
    BY <1>1, <1>3, <2>4, LimitOther
  <2>5. ASSUME NEW missed, Restart(missed)
        PROVE  FALSE
    BY <2>5, QueueAssumption DEF Restart, Calm, Basis, TypeOK
  <2> QED
    BY <1>3, <2>1, <2>2, <2>3, <2>4, <2>5 DEF Next
<1> QED
  BY <1>2, <1>3

\* What the queue worker counts and what the tracker holds stay in step
\* until a call fails or the server starts again.
THEOREM LimitInductive == FreshReads => (Spec => [](Basis /\ LimitInv))
<1> SUFFICES ASSUME FreshReads PROVE Spec => [](Basis /\ LimitInv)
  OBVIOUS
<1>1. Init => LimitInv
  <2> SUFFICES ASSUME Init PROVE LimitInv
    OBVIOUS
  <2>1. RunningCount(tracker) = 0
    BY FS_EmptySet DEF Init, ReconcilerInit, NewBackupTracker, RunningCount
  <2>2. q.pc = "idle" /\ \A b \in Backup : bw[b].pc = "idle"
    BY DEF Init, QIdle, At, ReconcilerInit, Idle
  <2>3. \A b \in Backup : ~Active(b)
    BY DEF Init, ApiInit, Absent, Active, ActivePhases
  <2> QED
    BY <2>1, <2>2, <2>3, ReconcilerAssumption
       DEF LimitInv, TrackedInv, LeavingInv, UntouchedInv, CountInv
<1>2. Basis /\ LimitInv /\ [Next]_vars => LimitInv'
  BY NextLimit
<1> QED
  BY <1>1, <1>2, BasisInvariant, PTL DEF Spec

\* No more than ConcurrentBackups backups are ReadyToStart or InProgress, as
\* long as the server has not restarted and no call has failed.
THEOREM Limit == FreshReads => (Spec => []WithinLimit)
<1> SUFFICES ASSUME FreshReads PROVE Spec => []WithinLimit
  OBVIOUS
<1>1. Basis /\ LimitInv => WithinLimit
  <2> SUFFICES ASSUME Basis, LimitInv, Calm
               PROVE  Cardinality({b \in Backup : Active(b)})
                          <= ConcurrentBackups
    BY DEF WithinLimit, Calm
  <2> DEFINE A == {b \in Backup : Active(b)}
  <2>1. A \subseteq tracker.ready \cup tracker.inProgress
    BY DEF LimitInv, TrackedInv, Tracked
  <2>2. /\ IsFiniteSet(tracker.ready) /\ IsFiniteSet(tracker.inProgress)
        /\ Cardinality(tracker.ready) \in Nat
        /\ Cardinality(tracker.inProgress) \in Nat
        /\ ConcurrentBackups \in Nat
    BY CountType DEF Basis
  <2>3. /\ IsFiniteSet(tracker.ready \cup tracker.inProgress)
        /\ Cardinality(tracker.ready \cup tracker.inProgress)
              = Cardinality(tracker.ready) + Cardinality(tracker.inProgress)
                   - Cardinality(tracker.ready \cap tracker.inProgress)
    BY <2>2, FS_Union
  <2>4. Cardinality(tracker.ready \cap tracker.inProgress) \in Nat
    BY <2>2, FS_Intersection, FS_CardinalityType
  <2>5. /\ Cardinality(A)
              <= Cardinality(tracker.ready \cup tracker.inProgress)
        /\ Cardinality(A) \in Nat
    BY <2>1, <2>3, FS_Subset, FS_CardinalityType
  <2>6. Cardinality(tracker.ready) + Cardinality(tracker.inProgress)
           <= ConcurrentBackups
    BY <2>2 DEF LimitInv, CountInv, RunningCount
  <2> QED
    BY <2>2, <2>3, <2>4, <2>5, <2>6
<1> QED
  BY <1>1, LimitInductive, PTL

=============================================================================
