------------------------------- MODULE DataPath -------------------------------
(***************************************************************************)
(* The data path inside a data mover's or pod volume's pod: the goroutine  *)
(* that backs up or restores one volume through an uploader's provider,    *)
(* and the goroutine that hands the cancellation on to the uploader of     *)
(* files.  Of the uploader of blocks (module BlockUploader) only its       *)
(* result is here.                                                         *)
(***************************************************************************)
EXTENDS Naturals, Sequences, FiniteSets

CONSTANTS
    MoverJobs,     \* the volumes considered: what is asked for, and how the
                   \* entries of the volume behave
    MaxPathFaults  \* bound: calls that fail

\* What is asked for.  cancellable: it may be cancelled; terminable: its pod
\* may be deleted; entries: those of a volume that is backed up.
MoverJob ==
    [kind : {"DataUpload", "DataDownload", "PodVolumeBackup",
             "PodVolumeRestore"},
     uploader : {"kopia", "block"}, cancellable : BOOLEAN,
     terminable : BOOLEAN, entries : {"good", "unknown", "unreadable"},
     forceFull : BOOLEAN]

ASSUME PathAssumption ==
    /\ MoverJobs \subseteq MoverJob
    /\ \A j \in MoverJobs : j.uploader = "block" => j.entries = "good"
    /\ MaxPathFaults \in Nat

VARIABLES
    mover,       \* the job, one of MoverJobs
    dp,          \* the data path: where it is, and its error or outcome
    dpCanceled,  \* the data path's context has been cancelled
    canceling,   \* what CheckContext has done: flagged it, told the uploader
    manifest,    \* the snapshot of this backup: in the session, in the
                 \* repository, and whether it is complete
    target,      \* of a restore: what has reached the volume
    pathFaults   \* calls that have failed

pathVars == <<mover, dp, dpCanceled, canceling, manifest, target, pathFaults>>

BackingUp == {"entry", "parent", "policy", "upload", "save", "retention",
              "flush", "report"}

Restoring == {"load", "copy", "flushVolume"}

DataPathState ==
    [pc : {"none", "created", "initializing", "initialized", "blocks",
           "returned", "sending", "closing", "ended"}
              \cup BackingUp \cup Restoring,
     err : {"none", "failed", "canceled", "panic", "completed"}]

CheckContextState == {"no", "flagged", "told"}

Manifest == [complete : BOOLEAN, saved : BOOLEAN, stored : BOOLEAN,
             fallback : BOOLEAN]

TargetState == {"old", "written", "flushed"}

PathTypeOK ==
    /\ mover \in MoverJobs
    /\ dp \in DataPathState
    /\ dpCanceled \in BOOLEAN
    /\ canceling \in CheckContextState
    /\ manifest \in Manifest
    /\ target \in TargetState
    /\ pathFaults \in 0 .. MaxPathFaults

Backups == {"DataUpload", "PodVolumeBackup"}

IsBackup == mover.kind \in Backups

PathFault ==
    /\ pathFaults < MaxPathFaults
    /\ pathFaults' = pathFaults + 1

\* A call made with the data path's context, which may be cancelled.
PathBreaks == PathFault \/ (dpCanceled /\ UNCHANGED pathFaults)

\* The data path goes on at pc, or returns with or without an error.
GoTo(pc) == dp' = [dp EXCEPT !.pc = pc]

Return(err) == dp' = [dp EXCEPT !.pc = "returned", !.err = err]

-----------------------------------------------------------------------------
(***************************************************************************)
(* CheckContext tells the uploader of a backup in one step.  For a restore *)
(* it first notes that it is being cancelled and then closes the channel   *)
(* the restore looks at.                                                   *)
(***************************************************************************)
Watched ==
    /\ mover.uploader = "kopia"
    /\ dp.pc \notin {"none", "created", "initializing", "initialized",
                     "sending", "closing", "ended"}

CheckContext ==
    /\ Watched /\ dpCanceled
    /\ \/ /\ canceling = "no"
          /\ canceling' = IF IsBackup THEN "told" ELSE "flagged"
       \/ /\ canceling = "flagged"
          /\ canceling' = "told"
    /\ UNCHANGED <<mover, dp, dpCanceled, manifest, target, pathFaults>>

-----------------------------------------------------------------------------
(***************************************************************************)
(* The backup of files.                                                    *)
(***************************************************************************)
\* The entry to back up.  Without one there is no result to take apart.
GetLocalEntry ==
    /\ dp.pc = "entry"
    /\ \/ GoTo("parent") /\ UNCHANGED pathFaults
       \/ PathFault /\ Return("panic")
    /\ UNCHANGED <<mover, dpCanceled, canceling, manifest, target>>

\* A parent that cannot be loaded or found makes it a full backup.
FindParent ==
    /\ dp.pc = "parent"
    /\ GoTo("policy")
    /\ \/ /\ manifest' = [manifest EXCEPT !.fallback = FALSE]
          /\ UNCHANGED pathFaults
       \/ /\ ~mover.forceFull
          /\ PathBreaks
          /\ manifest' = [manifest EXCEPT !.fallback = TRUE]
    /\ UNCHANGED <<mover, dpCanceled, canceling, target>>

\* The policy is written, flushed and read back.
SetupPolicy ==
    /\ dp.pc = "policy"
    /\ \/ GoTo("upload") /\ UNCHANGED pathFaults
       \/ PathBreaks /\ Return("failed")
    /\ UNCHANGED <<mover, dpCanceled, canceling, manifest, target>>

\* Once it has been told, the uploader leaves out what is left and returns a
\* manifest that says so, and no error.
Upload ==
    /\ dp.pc = "upload"
    /\ \/ /\ GoTo("save")
          /\ \/ manifest' = [manifest EXCEPT !.complete = TRUE]
             \/ canceling = "told" /\ UNCHANGED manifest
          /\ UNCHANGED pathFaults
       \/ PathBreaks /\ Return("failed") /\ UNCHANGED manifest
    /\ UNCHANGED <<mover, dpCanceled, canceling, target>>

SaveManifest ==
    /\ dp.pc = "save"
    /\ \/ /\ GoTo("retention")
          /\ manifest' = [manifest EXCEPT !.saved = TRUE]
          /\ UNCHANGED pathFaults
       \/ PathBreaks /\ Return("failed") /\ UNCHANGED manifest
    /\ UNCHANGED <<mover, dpCanceled, canceling, target>>

\* The policy keeps every snapshot: nothing is removed.
ApplyRetention ==
    /\ dp.pc = "retention"
    /\ \/ GoTo("flush") /\ UNCHANGED pathFaults
       \/ PathBreaks /\ Return("failed")
    /\ UNCHANGED <<mover, dpCanceled, canceling, manifest, target>>

\* What has been saved is in the repository once it is flushed; this fails
\* when the context is cancelled, and may fail after the fact.
FlushSnapshot ==
    /\ dp.pc = "flush"
    /\ \/ /\ ~dpCanceled
          /\ GoTo("report")
          /\ manifest' = [manifest EXCEPT !.stored = TRUE]
          /\ UNCHANGED pathFaults
       \/ /\ PathBreaks
          /\ Return("failed")
          /\ \/ manifest' = [manifest EXCEPT !.stored = TRUE]
             \/ UNCHANGED manifest
    /\ UNCHANGED <<mover, dpCanceled, canceling, target>>

\* Entries that could not be read are an error, those of an unknown type not.
ReportSnapshotStatus ==
    /\ dp.pc = "report"
    /\ Return(IF mover.entries = "unreadable" THEN "failed" ELSE "none")
    /\ UNCHANGED <<mover, dpCanceled, canceling, manifest, target, pathFaults>>

-----------------------------------------------------------------------------
(***************************************************************************)
(* The restore of files, under a context that is never cancelled.          *)
(***************************************************************************)
LoadSnapshot ==
    /\ dp.pc = "load"
    /\ \/ GoTo("copy") /\ UNCHANGED pathFaults
       \/ PathFault /\ Return("failed")
    /\ UNCHANGED <<mover, dpCanceled, canceling, manifest, target>>

\* Once the channel is closed the restore ends where it is, without an error.
RestoreEntry ==
    /\ dp.pc = "copy"
    /\ \/ /\ GoTo("flushVolume")
          /\ target' = "written"
          /\ UNCHANGED pathFaults
       \/ /\ canceling = "told"
          /\ GoTo("flushVolume")
          /\ UNCHANGED <<target, pathFaults>>
       \/ PathFault /\ Return("failed") /\ UNCHANGED target
    /\ UNCHANGED <<mover, dpCanceled, canceling, manifest>>

FlushVolume ==
    /\ dp.pc = "flushVolume"
    /\ \/ /\ Return("none")
          /\ target' = IF target = "written" THEN "flushed" ELSE target
          /\ UNCHANGED pathFaults
       \/ PathFault /\ Return("failed") /\ UNCHANGED target
    /\ UNCHANGED <<mover, dpCanceled, canceling, manifest>>

-----------------------------------------------------------------------------
(***************************************************************************)
(* Blocks.                                                                 *)
(***************************************************************************)
RunBlocks ==
    /\ dp.pc = "blocks"
    /\ \/ /\ Return("none")
          /\ IF IsBackup
             THEN /\ manifest' = [manifest EXCEPT !.complete = TRUE,
                                                  !.saved = TRUE, !.stored = TRUE]
                  /\ UNCHANGED target
             ELSE target' = "flushed" /\ UNCHANGED manifest
          /\ UNCHANGED pathFaults
       \/ dpCanceled /\ Return("canceled") /\ UNCHANGED <<manifest, target, pathFaults>>
       \/ PathBreaks /\ Return("failed") /\ UNCHANGED <<manifest, target>>
    /\ UNCHANGED <<mover, dpCanceled, canceling>>

-----------------------------------------------------------------------------
(***************************************************************************)
(* What the provider makes of it.  A backup of files has been cancelled    *)
(* when it failed and the uploader was told; a restore when the flag is    *)
(* set, whatever was restored by then.                                     *)
(***************************************************************************)
RunBackupResult ==
    IF dp.err = "failed" /\ mover.uploader = "kopia" /\ canceling = "told"
    THEN "canceled" ELSE dp.err

RunRestoreResultUnflagged == dp.err   \* the flag is not looked at

RunRestoreResult ==
    IF dp.err = "none" /\ mover.uploader = "kopia" /\ canceling # "no"
    THEN "canceled" ELSE dp.err

Outcome ==
    LET err == IF IsBackup THEN RunBackupResult ELSE RunRestoreResult IN
    IF err = "none" THEN "completed" ELSE err

\* A volume's data is safe where it is to go.
Moved ==
    IF IsBackup
    THEN manifest.stored /\ manifest.complete /\ mover.entries # "unreadable"
    ELSE target = "flushed"

UploaderStep ==
    \/ CheckContext
    \/ GetLocalEntry \/ FindParent \/ SetupPolicy \/ Upload \/ SaveManifest
    \/ ApplyRetention \/ FlushSnapshot \/ ReportSnapshotStatus
    \/ LoadSnapshot \/ RestoreEntry \/ FlushVolume
    \/ RunBlocks

DataPathInit ==
    /\ mover \in MoverJobs
    /\ dp = [pc |-> "none", err |-> "none"]
    /\ dpCanceled = FALSE
    /\ canceling = "no"
    /\ manifest = [complete |-> FALSE, saved |-> FALSE, stored |-> FALSE,
                   fallback |-> FALSE]
    /\ target = "old"
    /\ pathFaults = 0

=============================================================================
