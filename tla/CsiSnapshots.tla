----------------------------- MODULE CsiSnapshots -----------------------------
(***************************************************************************)
(* The CSI snapshot of one volume: the VolumeSnapshot (VS) a backup takes  *)
(* of it and the VolumeSnapshotContent (VSC) that stands for the snapshot  *)
(* in the storage system.  Without data movement the backup records both   *)
(* and gives the objects up when it is finalized, a restore makes them     *)
(* again and the deletion of the backup deletes the snapshot.  With data   *)
(* movement the exposer makes the snapshot its own, and cleans up.         *)
(***************************************************************************)
EXTENDS BackupLocations

CONSTANT LeftoversStay  \* TRUE: nobody deletes a VS the backup left behind

ASSUME SnapshotsAssumption == LeftoversStay \in BOOLEAN

VARIABLES
    order,     \* the policy of the snapshot class, and whether data is moved
    storage,   \* the snapshot in the storage system
    vs,        \* the VSs: of the backup, of the data mover, of a restore
    vsc,       \* their VSCs, and the one a deletion makes for a moment
    taking,    \* what the backup does with the snapshot, and its deletion
    exposing,  \* what the data mover does
    recorded,  \* the VSC in the backup
    missed     \* TRUE: a patch or deletion that nobody repeats has failed

snapshotVars ==
    <<order, storage, vs, vsc, taking, exposing, recorded, missed>>

Snapshots == {"taken", "mover", "restored"}
Policies == {"Delete", "Retain"}

SnapshotOrder == [policy : Policies, moved : BOOLEAN]

\* The stages of a snapshot that is taken, finalized and deleted.
Taking == {"start", "waiting", "cleaning", "policy", "dropping", "uploading",
           "describing", "labelling", "annotating", "recorded", "finalizing",
           "retaining", "discarding", "releasing", "ended", "deleting",
           "found", "removing", "creating", "triggering", "undeleted",
           "deleted"}

\* done: the data movement is over, and not because it was never exposed.
Exposing == [at : {"none", "awaiting", "copyingVS", "copyingVSC", "retaining",
                   "deletingVS", "awaitingVS", "deletingVSC", "awaitingVSC",
                   "hosting", "exposed", "undoing", "cleaning",
                   "cleaningSource", "over"},
             done : BOOLEAN]

VSState == {"none", "unbound", "bound", "dying"}

VSCState == [at : {"none", "there", "dying"}, policy : Policies,
             labelled : BOOLEAN, handle : BOOLEAN]

NoContent == [at |-> "none", policy |-> "Delete", labelled |-> FALSE,
              handle |-> FALSE]

Content(policy, handle) ==
    [at |-> "there", policy |-> policy, labelled |-> FALSE, handle |-> handle]

SnapshotsTypeOK ==
    /\ order \in SnapshotOrder
    /\ storage \in {"none", "there", "gone"}
    /\ vs \in [Snapshots -> VSState]
    /\ vsc \in [Snapshots \cup {"temporary"} -> VSCState]
    /\ taking \in Taking
    /\ exposing \in Exposing
    /\ recorded \in {"none", "labelled", "unlabelled"}
    /\ missed \in BOOLEAN

SnapshotsInit ==
    /\ order \in SnapshotOrder
    /\ storage = "none"
    /\ vs = [n \in Snapshots |-> "none"]
    /\ vsc = [n \in Snapshots \cup {"temporary"} |-> NoContent]
    /\ taking = "start"
    /\ exposing = [at |-> "none", done |-> FALSE]
    /\ recorded = "none"
    /\ missed = FALSE

NothingElse == UNCHANGED <<now, location, usable, unseen, changes, order>>

Deleted(n) == [vs EXCEPT ![n] = IF @ = "none" THEN @ ELSE "dying"]

ContentDeleted(n) ==
    [vsc EXCEPT ![n].at = IF @ = "none" THEN @ ELSE "dying"]

Label == IF vsc["taken"].labelled THEN "labelled" ELSE "unlabelled"

-----------------------------------------------------------------------------
(* The snapshot controller and the CSI driver. *)

SnapshotsElsewhere == UNCHANGED <<mishaps, taking, exposing, recorded, missed>>

Bind(n) ==
    /\ vs[n] = "unbound"
    /\ IF n = "taken"
       THEN vsc' = [vsc EXCEPT ![n] = Content(order.policy, FALSE)]
       ELSE vsc[n].at = "there" /\ UNCHANGED vsc
    /\ vs' = [vs EXCEPT ![n] = "bound"]
    /\ UNCHANGED storage
    /\ SnapshotsElsewhere

TakeSnapshot ==
    /\ vsc["taken"].at = "there"
    /\ ~vsc["taken"].handle
    /\ vsc' = [vsc EXCEPT !["taken"].handle = TRUE]
    /\ storage' = "there"
    /\ UNCHANGED vs
    /\ SnapshotsElsewhere

\* A VS takes its VSC with it, unless that is to be retained.
ReleaseVS(n) ==
    /\ vs[n] = "dying"
    /\ vs' = [vs EXCEPT ![n] = "none"]
    /\ vsc' = IF vsc[n].policy = "Delete" THEN ContentDeleted(n) ELSE vsc
    /\ UNCHANGED storage
    /\ SnapshotsElsewhere

\* A VSC waits for its VS; the snapshot goes with it, unless it is retained.
ReleaseVSC(n) ==
    /\ vsc[n].at = "dying"
    /\ n \in Snapshots => vs[n] \in {"none", "dying"}
    /\ vsc' = [vsc EXCEPT ![n] = NoContent]
    /\ storage' = IF vsc[n].handle /\ vsc[n].policy = "Delete"
                  THEN "gone" ELSE storage
    /\ UNCHANGED vs
    /\ SnapshotsElsewhere

SnapshotterStep ==
    /\ \/ \E n \in Snapshots : Bind(n) \/ ReleaseVS(n)
       \/ TakeSnapshot
       \/ \E n \in Snapshots \cup {"temporary"} : ReleaseVSC(n)
    /\ NothingElse

-----------------------------------------------------------------------------
(* The backup of the claim takes the snapshot. *)

Step(from, to) ==
    /\ taking = from
    /\ taking' = to
    /\ Fails(0)
    /\ UNCHANGED missed

Failure(from, to) ==
    /\ taking = from
    /\ taking' = to
    /\ Fails(1)

CreateVolumeSnapshot ==
    /\ \/ /\ Step("start", "waiting")
          /\ vs' = [vs EXCEPT !["taken"] = "unbound"]
       \/ /\ Failure("start", "ended")
          /\ UNCHANGED <<vs, missed>>
    /\ UNCHANGED <<storage, vsc, recorded, exposing>>

\* It does not wait for ever.
WaitUntilVSCHandleIsReady ==
    /\ \/ /\ vsc["taken"].handle
          /\ Step("waiting", IF order.moved THEN "uploading" ELSE "describing")
       \/ /\ ~vsc["taken"].handle
          /\ Step("waiting", "cleaning")
       \/ /\ Failure("waiting", "cleaning")
          /\ UNCHANGED missed
    /\ UNCHANGED <<storage, vs, vsc, recorded, exposing>>

CleanupVolumeSnapshot ==
    /\ \/ /\ vs["taken"] # "none"
          /\ Step("cleaning",
                  IF vs["taken"] = "unbound" THEN "dropping" ELSE "policy")
       \/ vs["taken"] = "none" /\ Step("cleaning", "ended")
       \/ Failure("cleaning", "ended") /\ missed' = TRUE
    /\ UNCHANGED <<storage, vs, vsc, recorded, exposing>>

SetVolumeSnapshotContentDeletionPolicy ==
    /\ \/ /\ Step("policy", "dropping")
          /\ vsc' = [vsc EXCEPT !["taken"].policy = "Delete"]
       \/ /\ Failure("policy", "dropping")
          /\ missed' = TRUE
          /\ UNCHANGED vsc
    /\ UNCHANGED <<storage, vs, recorded, exposing>>

DropVolumeSnapshot ==
    /\ \/ /\ Step("dropping", "ended")
          /\ vs' = Deleted("taken")
       \/ /\ Failure("dropping", "ended")
          /\ missed' = TRUE
          /\ UNCHANGED vs
    /\ UNCHANGED <<storage, vsc, recorded, exposing>>

CreateDataUpload ==
    /\ \/ /\ Step("uploading", "ended")
          /\ exposing' = [exposing EXCEPT !.at = "awaiting"]
       \/ /\ Failure("uploading", "dropping")
          /\ UNCHANGED <<exposing, missed>>
    /\ UNCHANGED <<storage, vs, vsc, recorded>>

-----------------------------------------------------------------------------
(* Without data movement, the backup of the VS and of its VSC. *)

GetVSCForVS ==
    /\ \/ Step("describing", "labelling")
       \/ Failure("describing", "cleaning") /\ UNCHANGED missed
    /\ UNCHANGED <<storage, vs, vsc, recorded, exposing>>

LabelContent ==
    /\ \/ /\ Step("labelling", "annotating")
          /\ vsc' = [vsc EXCEPT !["taken"].labelled = TRUE]
       \/ /\ Failure("labelling", "annotating")
          /\ missed' = TRUE
          /\ UNCHANGED vsc
    /\ UNCHANGED <<storage, vs, recorded, exposing>>

AnnotateSnapshot ==
    /\ \/ /\ Step("annotating", "recorded")
          /\ recorded' = Label
       \/ /\ Failure("annotating", "ended")
          /\ missed' = TRUE
          /\ UNCHANGED recorded
    /\ UNCHANGED <<storage, vs, vsc, exposing>>

\* The operation is completed, has failed, or has run out of time.
OperationEnds ==
    /\ Step("recorded", "finalizing")
    /\ UNCHANGED <<storage, vs, vsc, recorded, exposing>>

\* Finalizing, the backup takes VS and VSC again.
TakeAgain ==
    /\ \/ /\ Step("finalizing", "retaining")
          /\ recorded' = Label
       \/ /\ Failure("finalizing", "ended")
          /\ missed' = TRUE
          /\ UNCHANGED recorded
    /\ UNCHANGED <<storage, vs, vsc, exposing>>

RetainContent_Assumed ==
    /\ Step("retaining", "discarding")
    /\ UNCHANGED <<storage, vs, vsc, recorded, exposing>>

RetainContent ==
    /\ \/ /\ Step("retaining", "discarding")
          /\ vsc' = [vsc EXCEPT !["taken"].policy = "Retain"]
       \/ /\ Failure("retaining", "ended")
          /\ missed' = TRUE
          /\ UNCHANGED vsc
    /\ UNCHANGED <<storage, vs, recorded, exposing>>

DiscardContent ==
    /\ \/ /\ Step("discarding", "releasing")
          /\ vsc' = ContentDeleted("taken")
       \/ /\ Failure("discarding", "releasing")
          /\ missed' = TRUE
          /\ UNCHANGED vsc
    /\ UNCHANGED <<storage, vs, recorded, exposing>>

DiscardSnapshot ==
    /\ \/ /\ Step("releasing", "ended")
          /\ vs' = Deleted("taken")
       \/ /\ Failure("releasing", "ended")
          /\ missed' = TRUE
          /\ UNCHANGED vs
    /\ UNCHANGED <<storage, vsc, recorded, exposing>>

-----------------------------------------------------------------------------
(* The deletion of the backup: with the VSC as it was backed up. *)

ExecuteDeletion ==
    /\ recorded # "none"
    /\ \E before \in {"ended", "undeleted"} :
           Step(before,
                IF recorded = "labelled" THEN "deleting" ELSE "deleted")
    /\ UNCHANGED <<storage, vs, vsc, recorded, exposing>>

FindOriginal ==
    /\ \/ Step("deleting", IF vsc["taken"].at # "none" /\ vsc["taken"].labelled
                           THEN "found" ELSE "creating")
       \/ Failure("deleting", "creating") /\ UNCHANGED missed
    /\ UNCHANGED <<storage, vs, vsc, recorded, exposing>>

PatchOriginal ==
    /\ \/ /\ vsc["taken"].at # "none"
          /\ Step("found", "removing")
          /\ vsc' = [vsc EXCEPT !["taken"].policy = "Delete"]
       \/ /\ vsc["taken"].at = "none"
          /\ Step("found", "creating")
          /\ UNCHANGED vsc
       \/ /\ Failure("found", "creating")
          /\ UNCHANGED <<vsc, missed>>
    /\ UNCHANGED <<storage, vs, recorded, exposing>>

DeleteOriginal ==
    /\ \/ /\ Step("removing", "deleted")
          /\ vsc' = ContentDeleted("taken")
       \/ /\ Failure("removing", "creating")
          /\ UNCHANGED <<vsc, missed>>
    /\ UNCHANGED <<storage, vs, recorded, exposing>>

\* A failure fails the deletion, which may be requested once more.
CreateTemporary ==
    /\ \/ /\ Step("creating", "triggering")
          /\ vsc' = [vsc EXCEPT !["temporary"] = Content("Delete", TRUE)]
       \/ /\ Failure("creating", "undeleted")
          /\ UNCHANGED <<vsc, missed>>
    /\ UNCHANGED <<storage, vs, recorded, exposing>>

DeleteTemporary ==
    /\ \/ /\ Step("triggering", "deleted")
          /\ vsc' = ContentDeleted("temporary")
       \/ /\ Failure("triggering", "undeleted")
          /\ UNCHANGED <<vsc, missed>>
    /\ UNCHANGED <<storage, vs, recorded, exposing>>

BackupTakes ==
    /\ \/ CreateVolumeSnapshot
       \/ WaitUntilVSCHandleIsReady
       \/ CleanupVolumeSnapshot
       \/ SetVolumeSnapshotContentDeletionPolicy
       \/ DropVolumeSnapshot
       \/ CreateDataUpload
       \/ GetVSCForVS
       \/ LabelContent
       \/ AnnotateSnapshot
       \/ OperationEnds
    /\ NothingElse

BackupEnds ==
    /\ \/ TakeAgain
       \/ RetainContent
       \/ DiscardContent
       \/ DiscardSnapshot
       \/ ExecuteDeletion
       \/ FindOriginal
       \/ PatchOriginal
       \/ DeleteOriginal
       \/ CreateTemporary
       \/ DeleteTemporary
    /\ NothingElse

-----------------------------------------------------------------------------
(* Users restore the claim, and delete VSs of theirs. *)

Restorable == taking = "ended" /\ recorded # "none"

RestoreContent ==
    /\ Restorable
    /\ vsc["restored"].at = "none"
    /\ vsc' = [vsc EXCEPT !["restored"] = Content("Retain", TRUE)]
    /\ UNCHANGED vs

RestoreSnapshot ==
    /\ Restorable
    /\ vsc["restored"].at = "there"
    /\ vs["restored"] = "none"
    /\ vs' = [vs EXCEPT !["restored"] = "unbound"]
    /\ UNCHANGED vsc

UserDeletesVS(n) ==
    /\ n = "restored" \/ (n = "taken" /\ taking = "ended" /\ ~LeftoversStay)
    /\ vs[n] \in {"unbound", "bound"}
    /\ vs' = Deleted(n)
    /\ UNCHANGED vsc

SnapshotUserStep ==
    /\ RestoreContent \/ RestoreSnapshot \/ \E n \in Snapshots : UserDeletesVS(n)
    /\ UNCHANGED <<storage, mishaps, taking, exposing, recorded, missed>>
    /\ NothingElse

-----------------------------------------------------------------------------
(* The data mover exposes the snapshot: VS and VSC of its own for the same *)
(* snapshot, whose deletion deletes it, in place of those of the backup.   *)

Expose(from, to) ==
    /\ exposing.at = from
    /\ exposing' = [exposing EXCEPT !.at = to]
    /\ Fails(0)

ExposeFails(from, to) ==
    /\ exposing.at = from
    /\ exposing' = [exposing EXCEPT !.at = to]
    /\ Fails(1)

\* It may be cancelled meanwhile, or never become ready.
WaitVolumeSnapshotReady ==
    /\ \/ vs["taken"] = "bound" /\ Expose("awaiting", "copyingVS")
       \/ Expose("awaiting", "cleaning")
    /\ UNCHANGED <<storage, vs, vsc, missed>>

CreateBackupVS ==
    /\ \/ /\ Expose("copyingVS", "copyingVSC")
          /\ vs' = [vs EXCEPT !["mover"] = "unbound"]
       \/ /\ ExposeFails("copyingVS", "cleaning")
          /\ UNCHANGED vs
    /\ UNCHANGED <<storage, vsc, missed>>

CreateBackupVSC_PolicyCopied ==
    /\ Expose("copyingVSC", "retaining")
    /\ vsc' = [vsc EXCEPT !["mover"] = [vsc["taken"] EXCEPT !.at = "there"]]
    /\ UNCHANGED <<storage, vs, missed>>

CreateBackupVSC ==
    /\ \/ /\ Expose("copyingVSC", "retaining")
          /\ vsc' = [vsc EXCEPT !["mover"] = Content("Delete", TRUE)]
       \/ /\ ExposeFails("copyingVSC", "undoing")
          /\ UNCHANGED vsc
    /\ UNCHANGED <<storage, vs, missed>>

RetainVSC ==
    /\ \/ /\ vsc["taken"].at # "none"
          /\ Expose("retaining", "deletingVS")
          /\ vsc' = [vsc EXCEPT !["taken"].policy = "Retain"]
       \/ /\ IF vsc["taken"].at = "none"
             THEN Expose("retaining", "undoing")
             ELSE ExposeFails("retaining", "undoing")
          /\ UNCHANGED vsc
    /\ UNCHANGED <<storage, vs, missed>>

\* Deletes the VS and waits until it is gone, though not for ever.
EnsureDeleteVS ==
    /\ \/ /\ Expose("deletingVS", "awaitingVS")
          /\ vs' = Deleted("taken")
       \/ /\ ExposeFails("deletingVS", "undoing")
          /\ UNCHANGED vs
       \/ /\ Expose("awaitingVS", IF vs["taken"] = "none" THEN "deletingVSC"
                                  ELSE "undoing")
          /\ UNCHANGED vs
    /\ UNCHANGED <<storage, vsc, missed>>

EnsureDeleteVSC ==
    /\ \/ /\ Expose("deletingVSC", "awaitingVSC")
          /\ vsc' = ContentDeleted("taken")
       \/ /\ ExposeFails("deletingVSC", "undoing")
          /\ UNCHANGED vsc
       \/ /\ Expose("awaitingVSC", IF vsc["taken"].at = "none" THEN "hosting"
                                   ELSE "undoing")
          /\ UNCHANGED vsc
    /\ UNCHANGED <<storage, vs, missed>>

CreateBackupPVCAndPod ==
    /\ \/ Expose("hosting", "exposed")
       \/ ExposeFails("hosting", "undoing")
    /\ UNCHANGED <<storage, vs, vsc, missed>>

UndoExpose ==
    /\ \/ Expose("undoing", "cleaning") /\ vs' = Deleted("mover")
       \/ ExposeFails("undoing", "cleaning") /\ UNCHANGED vs
    /\ UNCHANGED <<storage, vsc, missed>>

\* Nobody takes it up again; the DataUpload fails when it is not prepared
\* in time.
ExposerDies ==
    /\ exposing.at \in {"copyingVS", "copyingVSC", "retaining", "deletingVS",
                        "awaitingVS", "deletingVSC", "awaitingVSC", "hosting",
                        "undoing"}
    /\ ExposeFails(exposing.at, "cleaning")
    /\ UNCHANGED <<storage, vs, vsc, missed>>

\* The DataUpload is completed, failed or canceled.
DataUploadEnds ==
    /\ exposing.at = "exposed"
    /\ exposing' = [at |-> "cleaning", done |-> TRUE]
    /\ Fails(0)
    /\ UNCHANGED <<storage, vs, vsc, missed>>

CleanUp ==
    /\ \E n \in {"mover", "taken"} :
           LET from == IF n = "mover" THEN "cleaning" ELSE "cleaningSource"
               to == IF n = "mover" THEN "cleaningSource" ELSE "over"
           IN  \/ Expose(from, to) /\ vs' = Deleted(n) /\ UNCHANGED missed
               \/ ExposeFails(from, to) /\ missed' = TRUE /\ UNCHANGED vs
    /\ UNCHANGED <<storage, vsc>>

MoverStep ==
    /\ \/ WaitVolumeSnapshotReady
       \/ CreateBackupVS
       \/ CreateBackupVSC
       \/ RetainVSC
       \/ EnsureDeleteVS
       \/ EnsureDeleteVSC
       \/ CreateBackupPVCAndPod
       \/ UndoExpose
       \/ ExposerDies
       \/ DataUploadEnds
       \/ CleanUp
    /\ UNCHANGED <<taking, recorded>>
    /\ NothingElse

SnapshotsNext ==
    SnapshotterStep \/ BackupTakes \/ BackupEnds \/ SnapshotUserStep
        \/ MoverStep

-----------------------------------------------------------------------------
(* Properties. *)

\* As long as a backup that is not being deleted has recorded a snapshot, or
\* a data mover reads one, it is in the storage system: though both give up
\* the VS it was taken with, and restores come and go.
SnapshotKept ==
    \/ taking \in {"recorded", "finalizing", "retaining", "discarding",
                   "releasing"}
    \/ taking = "ended" /\ recorded # "none"
    \/ exposing.at = "exposed"
    => storage = "there"

\* When everything has come to rest, the snapshot is gone: of a deleted backup,
\* of data that was moved, whatever the snapshot class says, and if the class
\* does not retain it of a backup or data movement that failed on the way;
\* unless a call failed that nobody repeats.
SnapshotGone ==
    /\ ~missed
    /\ \A n \in Snapshots : vs[n] # "dying" /\ vsc[n].at # "dying"
    /\ vsc["temporary"].at # "dying"
    /\ \/ taking = "deleted"
       \/ exposing.at = "over" /\ exposing.done
       \/ /\ order.policy = "Delete"
          /\ taking = "ended"
          /\ recorded = "none"
          /\ exposing.at \in {"none", "over"}
    => storage # "there"
=============================================================================
