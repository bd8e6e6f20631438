-------------------------- MODULE BackupOperations ---------------------------
(***************************************************************************)
(* The backup operations controller                                        *)
(* (pkg/controller/backup_operations_controller.go) and the in-memory map  *)
(* it keeps the operations' progress in (pkg/itemoperationmap).  It polls  *)
(* the plugins of the backups that wait for them, once a period and with   *)
(* one worker, and moves a backup on when no operation is left.            *)
(***************************************************************************)
EXTENDS BackupUpload

CONSTANT
    LocationMayGo    \* TRUE: the backup storage location may be missing,
                     \* read-only or out of reach when it is read

ASSUME OperationsAssumption == LocationMayGo \in BOOLEAN

VARIABLES
    opsMap,   \* the map: an entry's operations, and whether there are
              \* changes or errors that have not been uploaded yet
    bo        \* the worker

operationsVars == <<opsMap, bo>>

WaitingPhases == {"WaitingForPluginOperations",
                  "WaitingForPluginOperationsPartiallyFailed"}

FinalizingPhases == {"Finalizing", "FinalizingPartiallyFailed"}

Entry == [ops : Operations \cup {NoOps}, changed : BOOLEAN, errs : BOOLEAN]

Uploaded(ops) == [ops |-> ops, changed |-> FALSE, errs |-> FALSE]

NoEntry == Uploaded(NoOps)

BoPc == {"idle", "poll", "putMetadata", "putOps", "patch", "leave"}

\* The phase the worker read and the one it will write, its copy of the
\* entry, and whether it has seen changes and may forget the entry when the
\* backup moves on.
BoAt(pc, key, was, phase, entry, changes, remove) ==
    [pc |-> pc, key |-> key, was |-> was, phase |-> phase, entry |-> entry,
     changes |-> changes, remove |-> remove]

BoIdle == BoAt("idle", NoBackup, "New", "New", NoEntry, FALSE, TRUE)

\* The worker goes on, or gives up after an error: what it knows then goes
\* to the map.
BoNext(pc, entry) ==
    BoAt(pc, bo.key, bo.was, bo.phase, entry, bo.changes, TRUE)

GiveUp ==
    BoAt("leave", bo.key, bo.was, bo.phase, bo.entry, bo.changes, FALSE)

OperationsTypeOK ==
    /\ opsMap \in [Backup -> Entry]
    /\ bo \in [pc : BoPc, key : Backup \cup {NoBackup},
               was : {"New"} \cup WaitingPhases,
               phase : {"New", "PartiallyFailed"} \cup PostPhases,
               entry : Entry, changes : BOOLEAN, remove : BOOLEAN]

OperationsInit ==
    /\ opsMap = [b \in Backup |-> NoEntry]
    /\ bo = BoIdle

-----------------------------------------------------------------------------
\* Take a backup and read it: one that waits for operations is polled.
TakeWaiting(b) ==
    /\ bo.pc = "idle"
    /\ CanRead
    /\ cache[b].phase \in WaitingPhases
    /\ bo' = BoAt("poll", b, cache[b].phase, cache[b].phase, NoEntry, FALSE,
                  TRUE)
    /\ UNCHANGED <<apiVars, reconcilerVars, store, uploadVars, opsMap>>

\* Its location is gone: the backup is PartiallyFailed, without a word to
\* the tracker.
LocationGone ==
    /\ LocationMayGo
    /\ bo.pc = "poll"
    /\ bo' = BoAt("patch", bo.key, bo.was, "PartiallyFailed", NoEntry, FALSE,
                  TRUE)
    /\ UNCHANGED <<apiVars, reconcilerVars, store, uploadVars, opsMap>>

\* The operations of the map, or, if it has none, of the store.
Known_MapOnly(b) == opsMap[b]

Known(b) == IF opsMap[b].ops = NoOps
            THEN Uploaded(store[b].ops)
            ELSE opsMap[b]

\* Poll the plugins; choose the phase from the errors that are not in it yet
\* and from what is still running.
NextPhase_FailuresIgnored(phase, ops, errs) ==
    IF InProgressOps(ops) THEN phase
    ELSE IF phase = "WaitingForPluginOperations" THEN "Finalizing"
    ELSE "FinalizingPartiallyFailed"

NextPhase_EarlierForgotten(phase, ops, errs) ==
    IF InProgressOps(ops)
    THEN IF errs THEN "WaitingForPluginOperationsPartiallyFailed"
         ELSE "WaitingForPluginOperations"
    ELSE IF errs THEN "FinalizingPartiallyFailed" ELSE "Finalizing"

NextPhase(phase, ops, errs) ==
    LET waiting == IF errs THEN "WaitingForPluginOperationsPartiallyFailed"
                   ELSE phase
    IN  IF InProgressOps(ops) THEN waiting
        ELSE IF waiting = "WaitingForPluginOperations" THEN "Finalizing"
        ELSE "FinalizingPartiallyFailed"

Poll(late) ==
    LET b == bo.key
        old == Known(b)
        ops == IF old.ops = NoOps THEN NoOps ELSE Polled(b, old.ops, late)
        entry == [ops |-> ops,
                  changed |-> old.changed \/ ops # old.ops,
                  errs |-> old.errs \/ NewFailures(old.ops, ops)]
        phase == NextPhase(bo.phase, ops, entry.errs)
    IN
    /\ bo.pc = "poll"
    /\ \A o \in late : old.ops[o] = "new" /\ plugin[b][o] = "running"
    /\ opsMap' = [opsMap EXCEPT ![b] = old]
    /\ bo' = BoAt(IF entry.errs \/ phase \in FinalizingPhases
                  THEN "putMetadata" ELSE "leave",
                  b, bo.was, phase, entry, ops # old.ops, TRUE)
    /\ UNCHANGED <<apiVars, reconcilerVars, store, uploadVars>>

\* The store cannot be read: upload the backup with that error, and no
\* operations, and try again next time.
PollError ==
    /\ bo.pc = "poll"
    /\ opsMap[bo.key].ops = NoOps
    /\ ReadError
    /\ bo' = BoNext("putMetadata",
                    [ops |-> NoOps, changed |-> FALSE, errs |-> TRUE])
    /\ UNCHANGED <<api, watch, cache, reconcilerVars, uploadVars, opsMap>>

PutPhase ==
    LET dir == WithMeta(bo.key, bo.phase) IN
    /\ bo.pc = "putMetadata"
    /\ \/ /\ StoreOk(bo.key, dir)
          /\ bo' = BoNext("putOps", bo.entry)
       \/ /\ StoreError(bo.key, dir)
          /\ bo' = GiveUp
    /\ UNCHANGED <<api, watch, cache, reconcilerVars, uploadVars, opsMap>>

\* Upload the operations; from then on their errors count as told.
PutOps ==
    LET told == Uploaded(bo.entry.ops)
        dir == IF told.ops = NoOps THEN store[bo.key]
               ELSE WithOps(bo.key, told.ops)
    IN
    /\ bo.pc = "putOps"
    /\ \/ /\ StoreOk(bo.key, dir)
          /\ opsMap' = [opsMap EXCEPT ![bo.key] = told]
          /\ bo' = BoNext("patch", told)
       \/ /\ StoreError(bo.key, dir)
          /\ bo' = GiveUp
          /\ UNCHANGED opsMap
    /\ UNCHANGED <<api, watch, cache, reconcilerVars, uploadVars>>

\* Patch the backup; the patch has a phase if the worker has changed it.
PatchPolled ==
    LET polled == IF bo.phase = bo.was THEN api[bo.key]
                  ELSE [phase |-> bo.phase, pos |-> api[bo.key].pos]
    IN
    /\ bo.pc = "patch"
    /\ \/ /\ PatchOk(bo.key, polled)
          /\ bo' = BoNext("leave", bo.entry)
       \/ /\ PatchError(bo.key, polled)
          /\ bo' = GiveUp
    /\ UNCHANGED <<cache, reconcilerVars, store, uploadVars, opsMap>>

\* The deferred update of the map.
LeaveOperations ==
    LET done == bo.remove
                /\ bo.phase \in FinalizingPhases \cup {"PartiallyFailed"}
    IN
    /\ bo.pc = "leave"
    /\ opsMap' = IF done THEN [opsMap EXCEPT ![bo.key] = NoEntry]
                 ELSE IF bo.changes THEN [opsMap EXCEPT ![bo.key] = bo.entry]
                 ELSE opsMap
    /\ bo' = BoIdle
    /\ UNCHANGED <<apiVars, reconcilerVars, store, uploadVars>>

ReconcileOperations ==
    \/ LocationGone
    \/ \E late \in SUBSET Op : Poll(late)
    \/ PollError
    \/ PutPhase
    \/ PutOps
    \/ PatchPolled
    \/ LeaveOperations

\* A user asks to download the operations of a backup: what the map knows
\* is uploaded first, and its errors count as told
\* (pkg/controller/download_request_controller.go).
DownloadOperations(b) ==
    LET dir == WithOps(b, opsMap[b].ops) IN
    /\ opsMap[b].changed \/ opsMap[b].errs
    /\ \/ /\ StoreOk(b, dir)
          /\ opsMap' = [opsMap EXCEPT ![b] = Uploaded(opsMap[b].ops)]
       \/ /\ StoreError(b, dir)
          /\ UNCHANGED opsMap
    /\ UNCHANGED <<api, watch, cache, reconcilerVars, uploadVars, bo>>

-----------------------------------------------------------------------------
(***************************************************************************)
(* The backup finalizer controller                                         *)
(* (pkg/controller/backup_finalizer_controller.go): with one worker it     *)
(* takes the backups whose operations are over, rewrites their contents,   *)
(* uploads them with the final phase and only then writes that phase to    *)
(* the backup, in a deferred patch that is retried without end.            *)
(***************************************************************************)
VARIABLES
    fkeys,   \* the keys in the controller's work queue
    bf       \* the worker: where it is, the backup, the phase it will
             \* write ("New": none, the patch will be empty), and whether
             \* the backup has operations

finalizerVars == <<fkeys, bf>>

BfPc == {"idle", "prepare", "putMetadata", "putContents", "track", "patch"}

BfAt(pc, key, phase, ops) ==
    [pc |-> pc, key |-> key, phase |-> phase, ops |-> ops]

BfIdle == BfAt("idle", NoBackup, "New", FALSE)

FinalizerTypeOK ==
    /\ fkeys \in SUBSET Backup
    /\ bf \in [pc : BfPc, key : Backup \cup {NoBackup},
               phase : {"New", "Completed", "PartiallyFailed"},
               ops : BOOLEAN]

FinalizerInit ==
    /\ fkeys = {}
    /\ bf = BfIdle

FinalPhase(phase) == IF phase = "Finalizing" THEN "Completed"
                     ELSE "PartiallyFailed"

HasOps(b) == store[b].ops # NoOps

-----------------------------------------------------------------------------
\* Take a key and read the backup; go on if it is to be finalized.
TakeFinalizing(b) ==
    /\ bf.pc = "idle"
    /\ b \in fkeys
    /\ CanRead
    /\ fkeys' = fkeys \ {b}
    /\ bf' = IF cache[b].phase \in FinalizingPhases
             THEN BfAt("prepare", b, FinalPhase(cache[b].phase), FALSE)
             ELSE bf
    /\ UNCHANGED <<apiVars, reconcilerVars, store, uploadVars, operationsVars>>

\* Read the operations; if there are any, download the contents and back up
\* again the items they have touched.
Prepare ==
    /\ bf.pc = "prepare"
    /\ HasOps(bf.key) => store[bf.key].contents # "none"
    /\ bf' = BfAt("putMetadata", bf.key, bf.phase, HasOps(bf.key))
    /\ UNCHANGED <<apiVars, reconcilerVars, store, uploadVars, operationsVars,
                   fkeys>>

\* That fails, or the location cannot be read.
Failing == BfAt("patch", bf.key, "New", bf.ops)

PrepareError ==
    /\ bf.pc = "prepare"
    /\ \/ ReadError
       \/ /\ \/ LocationMayGo
             \/ HasOps(bf.key) /\ store[bf.key].contents = "none"
          /\ UNCHANGED <<faults, store>>
    /\ bf' = Failing
    /\ UNCHANGED <<api, watch, cache, reconcilerVars, uploadVars,
                   operationsVars, fkeys>>

\* Upload the metadata with the final phase, then the contents.
PutFinalMetadata ==
    LET dir == WithMeta(bf.key, bf.phase) IN
    /\ bf.pc = "putMetadata"
    /\ \/ /\ StoreOk(bf.key, dir)
          /\ bf' = BfAt(IF bf.ops THEN "putContents" ELSE "track",
                        bf.key, bf.phase, bf.ops)
       \/ /\ StoreError(bf.key, dir)
          /\ bf' = Failing
    /\ UNCHANGED <<api, watch, cache, reconcilerVars, uploadVars,
                   operationsVars, fkeys>>

\* Bug: an error is logged and the backup completed all the same.
PutFinalContents_ErrorIgnored ==
    LET dir == WithContents(bf.key, "final") IN
    /\ bf.pc = "putContents"
    /\ StoreOk(bf.key, dir) \/ StoreError(bf.key, dir)
    /\ bf' = BfAt("track", bf.key, bf.phase, bf.ops)
    /\ UNCHANGED <<api, watch, cache, reconcilerVars, uploadVars,
                   operationsVars, fkeys>>

PutFinalContents ==
    LET dir == WithContents(bf.key, "final") IN
    /\ bf.pc = "putContents"
    /\ \/ /\ StoreOk(bf.key, dir)
          /\ bf' = BfAt("track", bf.key, bf.phase, bf.ops)
       \/ /\ StoreError(bf.key, dir)
          /\ bf' = Failing
    /\ UNCHANGED <<api, watch, cache, reconcilerVars, uploadVars,
                   operationsVars, fkeys>>

\* The deferred function: tell the tracker, if the phase is final ...
TrackFinal ==
    /\ bf.pc = "track"
    /\ tracker' = Delete(tracker, bf.key)
    /\ bf' = BfAt("patch", bf.key, bf.phase, bf.ops)
    /\ UNCHANGED <<apiVars, bkeys, bw, store, uploadVars, operationsVars,
                   fkeys>>

\* ... then patch the backup, again and again until it succeeds: the time
\* limit is never set and stays zero, which means none.  After an error of
\* the reconciliation the key is retried.
PatchFinal ==
    LET b == bf.key
        final == IF bf.phase = "New" THEN api[b]
                 ELSE [phase |-> bf.phase, pos |-> api[b].pos]
    IN
    /\ bf.pc = "patch"
    /\ \/ /\ PatchOk(b, final)
          /\ bf' = BfIdle
          /\ fkeys' = IF bf.phase = "New" THEN fkeys \cup {b} ELSE fkeys
       \/ /\ PatchError(b, final)
          /\ UNCHANGED <<fkeys, bf>>
    /\ UNCHANGED <<cache, reconcilerVars, store, uploadVars, operationsVars>>

Finalize ==
    \/ Prepare
    \/ PrepareError
    \/ PutFinalMetadata
    \/ PutFinalContents
    \/ TrackFinal
    \/ PatchFinal

=============================================================================
