----------------------------- MODULE Upkeep_proofs -----------------------------
(***************************************************************************)
(* Proofs about Upkeep: the snapshot of a volume is there as long as it is *)
(* needed and goes when it is not; a repository that is Ready is connected *)
(* with the location as it is; its maintenance jobs do not overlap; and no *)
(* run of a schedule makes two backups.                                    *)
(***************************************************************************)
EXTENDS Upkeep, FiniteSetTheorems, SequenceTheorems, TLAPS

-----------------------------------------------------------------------------
(***************************************************************************)
(* Snapshots: the invariant.                                               *)
(***************************************************************************)

\* What the backup does before it has recorded a snapshot, with a VSC of it,
\* and what the deletion of the backup does.
Early == {"start", "waiting", "cleaning", "policy", "dropping"}
Described == {"uploading", "describing", "labelling", "annotating"}
Ending == {"recorded", "finalizing", "retaining", "discarding", "releasing"}
Removal == {"deleting", "found", "removing", "creating", "triggering",
            "undeleted", "deleted"}

\* The data mover has a VSC of its own, and gives it up only in the end.
Copied == {"retaining", "deletingVS", "awaitingVS", "deletingVSC",
           "awaitingVSC", "hosting", "exposed"}

TakenWhole ==
    /\ vs["taken"] = "bound"
    /\ vsc["taken"].at = "there"
    /\ vsc["taken"].handle
    /\ storage = "there"

\* Nobody who releases the VSC of the backup destroys the snapshot.
TakenSafe == vsc["taken"].policy = "Retain" \/ vsc["taken"].at = "none"

\* Whoever releases the VSC of the backup destroys the snapshot.
TakenDeletable ==
    /\ vsc["taken"].policy = "Delete"
    /\ storage = "there" => vsc["taken"].handle

TakenGoes == vsc["taken"].at = "there" => vs["taken"] = "dying"

\* The stages follow one another, and nothing is made but by the stage that
\* makes it.
StageInv ==
    /\ exposing.at # "none" => taking = "ended" /\ recorded = "none"
    /\ exposing.done => exposing.at \in {"cleaning", "cleaningSource", "over"}
    /\ taking \in Early \cup Described => recorded = "none"
    /\ taking \in Ending \cup Removal => recorded # "none"
    /\ vsc["temporary"].at # "none" => taking \in Removal
    /\ taking = "triggering" => vsc["temporary"].at = "there"
    /\ exposing.at \in {"none", "awaiting", "copyingVS"} =>
          vs["mover"] = "none" /\ vsc["mover"].at = "none"
    /\ exposing.at = "copyingVSC" =>
          vs["mover"] = "unbound" /\ vsc["mover"].at = "none"
    /\ exposing.at \in Copied \/ (exposing.at = "cleaning" /\ exposing.done) =>
          vs["mover"] \in {"unbound", "bound"} /\ vsc["mover"].at = "there"

\* The VSCs and their VSs.
ContentInv ==
    /\ \A n \in Snapshots \cup {"temporary"} :
          vsc[n].at = "none" => vsc[n].policy = "Delete" /\ ~vsc[n].handle
    /\ vsc["restored"].at # "none" => vsc["restored"].policy = "Retain"
    /\ \A n \in {"mover", "temporary"} :
          vsc[n].at # "none" => vsc[n].policy = "Delete" /\ vsc[n].handle
    /\ vs["mover"] = "none" => vsc["mover"].at # "there"
    /\ vs["taken"] = "unbound" => vsc["taken"].at = "none"
    /\ taking \notin Removal /\ vs["taken"] = "none" /\ vsc["taken"].at = "there"
          => vsc["taken"].policy = "Retain"

\* The VSC of the backup.  Until it is recorded or handed over, it may still be
\* without a handle.
TakenInv ==
    /\ taking = "start" =>
          vs["taken"] = "none" /\ vsc["taken"].at = "none" /\ storage = "none"
    /\ taking \in Early \ {"start"} =>
          /\ vs["taken"] \in {"unbound", "bound"}
          /\ vs["taken"] = "bound" => vsc["taken"].at = "there"
          /\ vsc["taken"].handle => storage = "there"
    /\ taking \in Described \cup {"recorded", "finalizing", "retaining"} =>
          TakenWhole
    /\ taking \in Early \cup Described \cup {"ended"} /\ recorded = "none"
             /\ exposing.at = "none" =>
          /\ storage = "there" => vsc["taken"].handle
          /\ vsc["taken"].at = "dying" => vsc["taken"].policy = "Delete"
          /\ order.policy = "Delete" => vsc["taken"].policy = "Delete"
    /\ recorded # "none" \/ exposing.at # "none" =>
          /\ vs["taken"] # "unbound"
          /\ vsc["taken"].at # "none" => vsc["taken"].handle
    /\ taking \in {"annotating", "recorded", "finalizing"} =>
          vsc["taken"].labelled \/ missed
    /\ recorded = "unlabelled" => missed

\* What keeps the snapshot.
KeptInv ==
    /\ taking = "discarding" => TakenWhole
    /\ taking \in {"discarding", "releasing"} => storage = "there" /\ TakenSafe
    /\ taking = "ended" /\ recorded # "none" =>
          /\ storage = "there"
          /\ TakenSafe \/ (vs["taken"] = "bound" /\ vsc["taken"].at = "there")
    /\ exposing.at \in {"awaiting", "copyingVS", "copyingVSC", "retaining"} =>
          TakenWhole
    /\ exposing.at \in Copied \ {"retaining"} => storage = "there" /\ TakenSafe

\* What makes it go.
GoneInv ==
    /\ taking = "removing" =>
          storage # "there" \/ (vsc["taken"].policy = "Delete"
                                  /\ vsc["taken"].at # "none")
    /\ taking = "deleted" =>
          \/ missed
          \/ storage # "there"
          \/ vsc["taken"].at = "dying" /\ vsc["taken"].policy = "Delete"
          \/ vsc["temporary"].at = "dying"
    /\ exposing.at \in {"cleaningSource", "over"} /\ exposing.done =>
          \/ missed
          \/ storage # "there"
          \/ vsc["mover"].at # "none" /\ vs["mover"] \in {"dying", "none"}
    /\ order.policy = "Delete" =>
       /\ taking = "ended" /\ recorded = "none" /\ exposing.at = "none" =>
             missed \/ (TakenGoes /\ vs["taken"] \in {"dying", "none"})
       /\ exposing.at \in {"awaiting", "copyingVS", "copyingVSC"} =>
             TakenDeletable
       /\ exposing.at \in {"undoing", "cleaning"} =>
             storage # "there" \/ vsc["mover"].at # "none" \/ TakenDeletable
       /\ exposing.at \in {"cleaningSource", "over"} =>
             \/ missed
             \/ storage # "there"
             \/ vsc["mover"].at # "none" /\ vs["mover"] \in {"dying", "none"}
             \/ /\ TakenDeletable
                /\ exposing.at = "over" => TakenGoes

SnapshotInv ==
    /\ SnapshotsTypeOK
    /\ StageInv
    /\ ContentInv
    /\ TakenInv
    /\ LeftoversStay => KeptInv
    /\ GoneInv

-----------------------------------------------------------------------------
(***************************************************************************)
(* Snapshots: the types.                                                   *)
(***************************************************************************)

\* What the actions make of the VSs and VSCs.
LEMMA ContentTypes ==
    ASSUME SnapshotsTypeOK, NEW n \in Snapshots \cup {"temporary"}
    PROVE  /\ \A c \in VSCState :
                 [vsc EXCEPT ![n] = c]
                    \in [Snapshots \cup {"temporary"} -> VSCState]
           /\ ContentDeleted(n) \in [Snapshots \cup {"temporary"} -> VSCState]
           /\ \A p \in Policies :
                 [vsc EXCEPT ![n].policy = p]
                    \in [Snapshots \cup {"temporary"} -> VSCState]
           /\ [vsc EXCEPT ![n].handle = TRUE]
                 \in [Snapshots \cup {"temporary"} -> VSCState]
           /\ [vsc EXCEPT ![n].labelled = TRUE]
                 \in [Snapshots \cup {"temporary"} -> VSCState]
<1> USE DEF SnapshotsTypeOK
<1>1. ASSUME NEW c \in VSCState
      PROVE  [vsc EXCEPT ![n] = c] \in [Snapshots \cup {"temporary"} -> VSCState]
  BY <1>1
<1>2. vsc[n] \in VSCState
  OBVIOUS
<1>3. /\ [vsc[n] EXCEPT !.at = IF @ = "none" THEN @ ELSE "dying"] \in VSCState
      /\ \A p \in Policies : [vsc[n] EXCEPT !.policy = p] \in VSCState
      /\ [vsc[n] EXCEPT !.handle = TRUE] \in VSCState
      /\ [vsc[n] EXCEPT !.labelled = TRUE] \in VSCState
  BY <1>2 DEF VSCState
<1>4. /\ ContentDeleted(n)
            = [vsc EXCEPT ![n] = [vsc[n] EXCEPT !.at = IF @ = "none" THEN @
                                                       ELSE "dying"]]
      /\ \A p \in Policies :
            [vsc EXCEPT ![n].policy = p]
               = [vsc EXCEPT ![n] = [vsc[n] EXCEPT !.policy = p]]
      /\ [vsc EXCEPT ![n].handle = TRUE]
            = [vsc EXCEPT ![n] = [vsc[n] EXCEPT !.handle = TRUE]]
      /\ [vsc EXCEPT ![n].labelled = TRUE]
            = [vsc EXCEPT ![n] = [vsc[n] EXCEPT !.labelled = TRUE]]
  BY DEF ContentDeleted
<1> QED
  BY <1>1, <1>3, <1>4

\* The VSCs that are made.
LEMMA ContentMade ==
    /\ \A p \in Policies : Content(p, TRUE) \in VSCState
    /\ \A p \in Policies : Content(p, FALSE) \in VSCState
    /\ NoContent \in VSCState
<1> USE DEF VSCState
<1>1. ASSUME NEW p \in Policies
      PROVE  Content(p, TRUE) \in VSCState
  BY DEF Content
<1>2. ASSUME NEW p \in Policies
      PROVE  Content(p, FALSE) \in VSCState
  BY DEF Content
<1>3. NoContent \in VSCState
  BY DEF NoContent, Policies
<1> QED
  BY <1>1, <1>2, <1>3 DEF Content

LEMMA VSTypes ==
    ASSUME SnapshotsTypeOK, NEW n \in Snapshots
    PROVE  /\ Deleted(n) \in [Snapshots -> VSState]
           /\ \A s \in VSState : [vs EXCEPT ![n] = s] \in [Snapshots -> VSState]
BY DEF SnapshotsTypeOK, Deleted, VSState

\* No operation leaves a value that is none.
LEMMA SnapshotTypes ==
    ASSUME SnapshotsTypeOK, SnapshotsNext
    PROVE  SnapshotsTypeOK'
<1> USE DEF SnapshotsTypeOK, NothingElse, SnapshotsElsewhere, Step, Failure,
    Expose, ExposeFails
<1>1. /\ order' \in SnapshotOrder
      /\ storage' \in {"none", "there", "gone"}
      /\ taking' \in Taking
      /\ recorded' \in {"none", "labelled", "unlabelled"}
      /\ missed' \in BOOLEAN
  <2> USE DEF SnapshotsNext, SnapshotterStep, Bind, ReleaseVS, TakeSnapshot,
      ReleaseVSC, BackupTakes, CreateVolumeSnapshot,
      WaitUntilVSCHandleIsReady, CleanupVolumeSnapshot,
      SetVolumeSnapshotContentDeletionPolicy, DropVolumeSnapshot,
      CreateDataUpload, GetVSCForVS, LabelContent, AnnotateSnapshot,
      OperationEnds, BackupEnds, TakeAgain, RetainContent, DiscardContent,
      DiscardSnapshot, ExecuteDeletion, FindOriginal, PatchOriginal,
      DeleteOriginal, CreateTemporary, DeleteTemporary, SnapshotUserStep,
      RestoreContent, RestoreSnapshot, UserDeletesVS, MoverStep,
      WaitVolumeSnapshotReady, CreateBackupVS, CreateBackupVSC, RetainVSC,
      EnsureDeleteVS, EnsureDeleteVSC, CreateBackupPVCAndPod, UndoExpose,
      ExposerDies, DataUploadEnds, CleanUp
  <2>1. order' \in SnapshotOrder
    OBVIOUS
  <2>2. storage' \in {"none", "there", "gone"}
    OBVIOUS
  <2>3. taking' \in Taking
    BY DEF Taking
  <2>4. recorded' \in {"none", "labelled", "unlabelled"}
    BY DEF Label
  <2>5. missed' \in BOOLEAN
    OBVIOUS
  <2> QED
    BY <2>1, <2>2, <2>3, <2>4, <2>5
<1>2. exposing' \in Exposing
  <2>1. CASE SnapshotterStep
    BY <2>1 DEF SnapshotterStep, Bind, ReleaseVS, TakeSnapshot, ReleaseVSC,
        Exposing
  <2>2. CASE BackupTakes
    BY <2>2 DEF BackupTakes, CreateVolumeSnapshot, WaitUntilVSCHandleIsReady,
        CleanupVolumeSnapshot, SetVolumeSnapshotContentDeletionPolicy,
        DropVolumeSnapshot, CreateDataUpload, GetVSCForVS, LabelContent,
        AnnotateSnapshot, OperationEnds, Exposing
  <2>3. CASE BackupEnds
    BY <2>3 DEF BackupEnds, TakeAgain, RetainContent, DiscardContent,
        DiscardSnapshot, ExecuteDeletion, FindOriginal, PatchOriginal,
        DeleteOriginal, CreateTemporary, DeleteTemporary, Exposing
  <2>4. CASE SnapshotUserStep
    BY <2>4 DEF SnapshotUserStep, Exposing
  <2>5. CASE WaitVolumeSnapshotReady
    BY <2>5 DEF WaitVolumeSnapshotReady, Exposing
  <2>6. CASE CreateBackupVS
    BY <2>6 DEF CreateBackupVS, Exposing
  <2>7. CASE CreateBackupVSC
    BY <2>7 DEF CreateBackupVSC, Exposing
  <2>8. CASE RetainVSC
    BY <2>8 DEF RetainVSC, Exposing
  <2>9. CASE EnsureDeleteVS
    BY <2>9 DEF EnsureDeleteVS, Exposing
  <2>10. CASE EnsureDeleteVSC
    BY <2>10 DEF EnsureDeleteVSC, Exposing
  <2>11. CASE CreateBackupPVCAndPod
    BY <2>11 DEF CreateBackupPVCAndPod, Exposing
  <2>12. CASE UndoExpose
    BY <2>12 DEF UndoExpose, Exposing
  <2>13. CASE ExposerDies
    BY <2>13 DEF ExposerDies, Exposing
  <2>14. CASE DataUploadEnds
    BY <2>14 DEF DataUploadEnds, Exposing
  <2>15. CASE CleanUp
    BY <2>15 DEF CleanUp, Exposing
  <2> QED
    BY <2>1, <2>2, <2>3, <2>4, <2>5, <2>6, <2>7, <2>8, <2>9, <2>10, <2>11,
        <2>12, <2>13, <2>14, <2>15
        DEF SnapshotsNext, SnapshotterStep, MoverStep
<1>3. vs' \in [Snapshots -> VSState]
  <2>1. CASE \E n \in Snapshots : Bind(n)
    BY <2>1, VSTypes DEF Bind, Snapshots, VSState
  <2>2. CASE \E n \in Snapshots : ReleaseVS(n)
    BY <2>2, VSTypes DEF ReleaseVS, Snapshots, VSState
  <2>3. CASE TakeSnapshot
    BY <2>3, VSTypes DEF TakeSnapshot, Snapshots, VSState
  <2>4. CASE \E n \in Snapshots \cup {"temporary"} : ReleaseVSC(n)
    BY <2>4, VSTypes DEF ReleaseVSC, Snapshots, VSState
  <2>5. CASE BackupTakes
    BY <2>5, VSTypes DEF BackupTakes, CreateVolumeSnapshot,
        WaitUntilVSCHandleIsReady, CleanupVolumeSnapshot,
        SetVolumeSnapshotContentDeletionPolicy, DropVolumeSnapshot,
        CreateDataUpload, GetVSCForVS, LabelContent, AnnotateSnapshot,
        OperationEnds, Snapshots, VSState
  <2>6. CASE BackupEnds
    BY <2>6, VSTypes DEF BackupEnds, TakeAgain, RetainContent, DiscardContent,
        DiscardSnapshot, ExecuteDeletion, FindOriginal, PatchOriginal,
        DeleteOriginal, CreateTemporary, DeleteTemporary, Snapshots, VSState
  <2>7. CASE RestoreContent
    BY <2>7, VSTypes DEF SnapshotUserStep, RestoreContent, Snapshots, VSState
  <2>8. CASE RestoreSnapshot
    BY <2>8, VSTypes DEF SnapshotUserStep, RestoreSnapshot, Snapshots, VSState
  <2>9. CASE \E n \in Snapshots : UserDeletesVS(n)
    BY <2>9, VSTypes DEF UserDeletesVS, Snapshots, VSState
  <2>10. CASE CreateBackupVS
    BY <2>10, VSTypes DEF CreateBackupVS, Snapshots, VSState
  <2>11. CASE EnsureDeleteVS
    BY <2>11, VSTypes DEF EnsureDeleteVS, Snapshots, VSState
  <2>12. CASE UndoExpose
    BY <2>12, VSTypes DEF UndoExpose, Snapshots, VSState
  <2>13. CASE CleanUp
    BY <2>13, VSTypes DEF CleanUp, Snapshots, VSState
  <2>14. CASE UNCHANGED vs
    BY <2>14, VSTypes DEF Snapshots, VSState
  <2> QED
    BY <2>1, <2>2, <2>3, <2>4, <2>5, <2>6, <2>7, <2>8, <2>9, <2>10, <2>11,
        <2>12, <2>13, <2>14
        DEF SnapshotsNext, SnapshotterStep, SnapshotUserStep, MoverStep,
            WaitVolumeSnapshotReady, CreateBackupVSC, RetainVSC,
            EnsureDeleteVSC, CreateBackupPVCAndPod, ExposerDies,
            DataUploadEnds
<1>4. vsc' \in [Snapshots \cup {"temporary"} -> VSCState]
  <2>1. CASE \E n \in Snapshots : Bind(n)
    <3>1. order.policy \in Policies
      BY DEF SnapshotOrder
    <3>2. [vsc EXCEPT !["taken"] = Content(order.policy, FALSE)]
             \in [Snapshots \cup {"temporary"} -> VSCState]
      BY <3>1, ContentTypes, ContentMade DEF Snapshots, Content
    <3> QED
      BY <2>1, <3>2 DEF Bind, Content
  <2>2. CASE \E n \in Snapshots : ReleaseVS(n)
    BY <2>2, ContentTypes, ContentMade DEF ReleaseVS, Snapshots, Policies,
        SnapshotOrder, Content
  <2>3. CASE TakeSnapshot
    BY <2>3, ContentTypes, ContentMade DEF TakeSnapshot, Snapshots, Policies,
        SnapshotOrder, Content
  <2>4. CASE \E n \in Snapshots \cup {"temporary"} : ReleaseVSC(n)
    BY <2>4, ContentTypes, ContentMade DEF ReleaseVSC, Snapshots, Policies,
        SnapshotOrder, Content
  <2>5. CASE SetVolumeSnapshotContentDeletionPolicy
    BY <2>5, ContentTypes, ContentMade DEF
        SetVolumeSnapshotContentDeletionPolicy, Snapshots, Policies,
        SnapshotOrder, Content
  <2>6. CASE LabelContent
    <3>1. [vsc EXCEPT !["taken"].labelled = TRUE]
             \in [Snapshots \cup {"temporary"} -> VSCState]
      BY ContentTypes DEF Snapshots
    <3> QED
      BY <2>6, <3>1 DEF LabelContent
  <2>7. CASE RetainContent
    BY <2>7, ContentTypes, ContentMade DEF RetainContent, Snapshots, Policies,
        SnapshotOrder, Content
  <2>8. CASE DiscardContent
    BY <2>8, ContentTypes, ContentMade DEF DiscardContent, Snapshots,
        Policies, SnapshotOrder, Content
  <2>9. CASE PatchOriginal
    BY <2>9, ContentTypes, ContentMade DEF PatchOriginal, Snapshots, Policies,
        SnapshotOrder, Content
  <2>10. CASE DeleteOriginal
    BY <2>10, ContentTypes, ContentMade DEF DeleteOriginal, Snapshots,
        Policies, SnapshotOrder, Content
  <2>11. CASE CreateTemporary
    BY <2>11, ContentTypes, ContentMade DEF CreateTemporary, Snapshots,
        Policies, SnapshotOrder, Content
  <2>12. CASE DeleteTemporary
    BY <2>12, ContentTypes, ContentMade DEF DeleteTemporary, Snapshots,
        Policies, SnapshotOrder, Content
  <2>13. CASE RestoreContent
    BY <2>13, ContentTypes, ContentMade DEF RestoreContent, Snapshots,
        Policies, SnapshotOrder, Content
  <2>14. CASE CreateBackupVSC
    BY <2>14, ContentTypes, ContentMade DEF CreateBackupVSC, Snapshots,
        Policies, SnapshotOrder, Content
  <2>15. CASE RetainVSC
    BY <2>15, ContentTypes, ContentMade DEF RetainVSC, Snapshots, Policies,
        SnapshotOrder, Content
  <2>16. CASE EnsureDeleteVSC
    BY <2>16, ContentTypes, ContentMade DEF EnsureDeleteVSC, Snapshots,
        Policies, SnapshotOrder, Content
  <2>17. CASE UNCHANGED vsc
    BY <2>17, ContentTypes, ContentMade DEF Snapshots, Policies,
        SnapshotOrder, Content
  <2> QED
    BY <2>1, <2>2, <2>3, <2>4, <2>5, <2>6, <2>7, <2>8, <2>9, <2>10, <2>11,
        <2>12, <2>13, <2>14, <2>15, <2>16, <2>17 DEF SnapshotsNext,
        SnapshotterStep, BackupTakes, BackupEnds, SnapshotUserStep, MoverStep,
        CreateVolumeSnapshot, WaitUntilVSCHandleIsReady,
        CleanupVolumeSnapshot, DropVolumeSnapshot, CreateDataUpload,
        GetVSCForVS, AnnotateSnapshot, OperationEnds, TakeAgain,
        DiscardSnapshot, ExecuteDeletion, FindOriginal, RestoreSnapshot,
        UserDeletesVS, WaitVolumeSnapshotReady, CreateBackupVS,
        EnsureDeleteVS, CreateBackupPVCAndPod, UndoExpose, ExposerDies,
        DataUploadEnds, CleanUp
<1> QED
  BY <1>1, <1>2, <1>3, <1>4

-----------------------------------------------------------------------------
(***************************************************************************)
(* Snapshots: every step keeps the invariant.                              *)
(***************************************************************************)

StepInv ==
    StageInv /\ ContentInv /\ TakenInv /\ (LeftoversStay => KeptInv) /\ GoneInv

\* The snapshot controller and the driver keep the invariant.
LEMMA SnapshotterKeeps ==
    ASSUME SnapshotInv, SnapshotterStep
    PROVE  StepInv'
<1> USE DEF SnapshotInv, StepInv, SnapshotsTypeOK, SnapshotOrder, Taking,
    Exposing, VSState, VSCState, StageInv, ContentInv, TakenInv, KeptInv,
    GoneInv, Early, Described, Ending, Removal, Copied, TakenWhole, TakenSafe,
    TakenDeletable, TakenGoes, Snapshots, Policies, NoContent, Content,
    Deleted, ContentDeleted, NothingElse, SnapshotsElsewhere
<1>1. UNCHANGED order
  BY DEF SnapshotterStep
<1>2. ASSUME NEW n \in Snapshots, Bind(n)
      PROVE  StepInv'
  BY <1>1, <1>2 DEF Bind
<1>3. ASSUME NEW n \in Snapshots, ReleaseVS(n)
      PROVE  StepInv'
  BY <1>1, <1>3 DEF ReleaseVS
<1>4. CASE TakeSnapshot
  BY <1>1, <1>4 DEF TakeSnapshot
<1>5. ASSUME NEW n \in Snapshots \cup {"temporary"}, ReleaseVSC(n)
      PROVE  StepInv'
  BY <1>1, <1>5 DEF ReleaseVSC
<1> QED
  BY <1>2, <1>3, <1>4, <1>5 DEF SnapshotterStep

\* So does a backup that takes the snapshot,
LEMMA TakingKeeps ==
    ASSUME SnapshotInv, BackupTakes
    PROVE  StepInv'
<1> USE DEF SnapshotInv, StepInv, SnapshotsTypeOK, SnapshotOrder, Taking,
    Exposing, VSState, VSCState, StageInv, ContentInv, TakenInv, KeptInv,
    GoneInv, Early, Described, Ending, Removal, Copied, TakenWhole, TakenSafe,
    TakenDeletable, TakenGoes, Snapshots, Policies, NoContent, Content,
    Deleted, ContentDeleted, NothingElse, Step, Failure, Label
<1>1. UNCHANGED order
  BY DEF BackupTakes
<1>2. CASE CreateVolumeSnapshot
  BY <1>1, <1>2 DEF CreateVolumeSnapshot
<1>3. CASE WaitUntilVSCHandleIsReady
  BY <1>1, <1>3 DEF WaitUntilVSCHandleIsReady
<1>4. CASE CleanupVolumeSnapshot
  BY <1>1, <1>4 DEF CleanupVolumeSnapshot
<1>5. CASE SetVolumeSnapshotContentDeletionPolicy
  BY <1>1, <1>5 DEF SetVolumeSnapshotContentDeletionPolicy
<1>6. CASE DropVolumeSnapshot
  BY <1>1, <1>6 DEF DropVolumeSnapshot
<1>7. CASE CreateDataUpload
  BY <1>1, <1>7 DEF CreateDataUpload
<1>8. CASE GetVSCForVS
  BY <1>1, <1>8 DEF GetVSCForVS
<1>9. CASE LabelContent
  BY <1>1, <1>9 DEF LabelContent
<1>10. CASE AnnotateSnapshot
  BY <1>1, <1>10 DEF AnnotateSnapshot
<1>11. CASE OperationEnds
  BY <1>1, <1>11 DEF OperationEnds
<1> QED
  BY <1>2, <1>3, <1>4, <1>5, <1>6, <1>7, <1>8, <1>9, <1>10, <1>11 DEF BackupTakes

\* one that is finalized or deleted,
LEMMA EndingKeeps ==
    ASSUME SnapshotInv, BackupEnds
    PROVE  StepInv'
<1> USE DEF SnapshotInv, StepInv, SnapshotsTypeOK, SnapshotOrder, Taking,
    Exposing, VSState, VSCState, StageInv, ContentInv, TakenInv, KeptInv,
    GoneInv, Early, Described, Ending, Removal, Copied, TakenWhole, TakenSafe,
    TakenDeletable, TakenGoes, Snapshots, Policies, NoContent, Content,
    Deleted, ContentDeleted, NothingElse, Step, Failure, Label
<1>1. UNCHANGED order
  BY DEF BackupEnds
<1>2. CASE TakeAgain
  BY <1>1, <1>2 DEF TakeAgain
<1>3. CASE RetainContent
  BY <1>1, <1>3 DEF RetainContent
<1>4. CASE DiscardContent
  BY <1>1, <1>4 DEF DiscardContent
<1>5. CASE DiscardSnapshot
  BY <1>1, <1>5 DEF DiscardSnapshot
<1>6. CASE ExecuteDeletion
  BY <1>1, <1>6 DEF ExecuteDeletion
<1>7. CASE FindOriginal
  BY <1>1, <1>7 DEF FindOriginal
<1>8. CASE PatchOriginal
  BY <1>1, <1>8 DEF PatchOriginal
<1>9. CASE DeleteOriginal
  BY <1>1, <1>9 DEF DeleteOriginal
<1>10. CASE CreateTemporary
  BY <1>1, <1>10 DEF CreateTemporary
<1>11. CASE DeleteTemporary
  BY <1>1, <1>11 DEF DeleteTemporary
<1> QED
  BY <1>2, <1>3, <1>4, <1>5, <1>6, <1>7, <1>8, <1>9, <1>10, <1>11 DEF BackupEnds

\* a user,
LEMMA UsersKeep ==
    ASSUME SnapshotInv, SnapshotUserStep
    PROVE  StepInv'
<1> USE DEF SnapshotInv, StepInv, SnapshotsTypeOK, SnapshotOrder, Taking,
    Exposing, VSState, VSCState, StageInv, ContentInv, TakenInv, KeptInv,
    GoneInv, Early, Described, Ending, Removal, Copied, TakenWhole, TakenSafe,
    TakenDeletable, TakenGoes, Snapshots, Policies, NoContent, Content,
    Deleted, ContentDeleted, NothingElse, Restorable
<1>1. UNCHANGED <<storage, taking, exposing, recorded, missed, order>>
  BY DEF SnapshotUserStep
<1>2. CASE RestoreContent
  BY <1>1, <1>2 DEF RestoreContent
<1>3. CASE RestoreSnapshot
  BY <1>1, <1>3 DEF RestoreSnapshot
<1>4. ASSUME NEW n \in Snapshots, UserDeletesVS(n)
      PROVE  StepInv'
  BY <1>1, <1>4 DEF UserDeletesVS
<1> QED
  BY <1>2, <1>3, <1>4 DEF SnapshotUserStep

\* and the data mover.
LEMMA MoverKeeps ==
    ASSUME SnapshotInv, MoverStep
    PROVE  StepInv'
<1> USE DEF SnapshotInv, StepInv, SnapshotsTypeOK, SnapshotOrder, Taking,
    Exposing, VSState, VSCState, StageInv, ContentInv, TakenInv, KeptInv,
    GoneInv, Early, Described, Ending, Removal, Copied, TakenWhole, TakenSafe,
    TakenDeletable, TakenGoes, Snapshots, Policies, NoContent, Content,
    Deleted, ContentDeleted, NothingElse, Expose, ExposeFails
<1>1. UNCHANGED <<taking, recorded, order>>
  BY DEF MoverStep
<1>2. CASE WaitVolumeSnapshotReady
  BY <1>1, <1>2 DEF WaitVolumeSnapshotReady
<1>3. CASE CreateBackupVS
  BY <1>1, <1>3 DEF CreateBackupVS
<1>4. CASE CreateBackupVSC
  BY <1>1, <1>4 DEF CreateBackupVSC
<1>5. CASE RetainVSC
  BY <1>1, <1>5 DEF RetainVSC
<1>6. CASE EnsureDeleteVS
  BY <1>1, <1>6 DEF EnsureDeleteVS
<1>7. CASE EnsureDeleteVSC
  BY <1>1, <1>7 DEF EnsureDeleteVSC
<1>8. CASE CreateBackupPVCAndPod
  BY <1>1, <1>8 DEF CreateBackupPVCAndPod
<1>9. CASE UndoExpose
  BY <1>1, <1>9 DEF UndoExpose
<1>10. CASE ExposerDies
  BY <1>1, <1>10 DEF ExposerDies
<1>11. CASE DataUploadEnds
  BY <1>1, <1>11 DEF DataUploadEnds
<1>12. CASE CleanUp
  BY <1>1, <1>12 DEF CleanUp
<1> QED
  BY <1>2, <1>3, <1>4, <1>5, <1>6, <1>7, <1>8, <1>9, <1>10, <1>11, <1>12 DEF MoverStep

LEMMA SnapshotInitial == Init => SnapshotInv
<1> SUFFICES ASSUME Init
             PROVE  SnapshotInv
  OBVIOUS
<1> USE DEF Init, SnapshotsInit
<1>1. SnapshotsTypeOK
  <2>1. [n \in Snapshots |-> "none"] \in [Snapshots -> VSState]
    BY DEF VSState
  <2>2. NoContent \in VSCState
    BY ContentMade
  <2>3. [at |-> "none", done |-> FALSE] \in Exposing
    BY DEF Exposing
  <2> QED
    BY <2>1, <2>2, <2>3 DEF SnapshotsTypeOK, Taking
<1>2. StepInv
  BY DEF StepInv, StageInv, ContentInv, TakenInv, KeptInv, GoneInv, Early,
      Described, Ending, Removal, Copied, TakenGoes, Snapshots, NoContent
<1> QED
  BY <1>1, <1>2 DEF SnapshotInv, StepInv

\* Nothing else in an installation touches the snapshots.
LEMMA SnapshotStepKeeps == SnapshotInv /\ [Next]_vars => SnapshotInv'
<1> SUFFICES ASSUME SnapshotInv, [Next]_vars
             PROVE  SnapshotInv'
  OBVIOUS
<1>1. CASE SnapshotStep
  <2>1. SnapshotsNext
    BY <1>1 DEF SnapshotStep
  <2>2. SnapshotsTypeOK'
    BY <2>1, SnapshotTypes DEF SnapshotInv
  <2>3. StepInv'
    BY <2>1, SnapshotterKeeps, TakingKeeps, EndingKeeps, UsersKeep, MoverKeeps
        DEF SnapshotsNext
  <2> QED
    BY <2>2, <2>3 DEF SnapshotInv, StepInv
<1>2. CASE UNCHANGED snapshotVars
  BY <1>2 DEF snapshotVars, SnapshotInv, SnapshotsTypeOK, StageInv, ContentInv,
      TakenInv, KeptInv, GoneInv, TakenWhole, TakenSafe, TakenDeletable,
      TakenGoes
<1>3. CASE Restart
  BY <1>2, <1>3 DEF Restart
<1>4. CASE LocationStep
  BY <1>2, <1>4 DEF LocationStep
<1>5. CASE RepositoryStep
  BY <1>2, <1>5 DEF RepositoryStep
<1>6. CASE ScheduleStep
  BY <1>2, <1>6 DEF ScheduleStep
<1>7. CASE UNCHANGED vars
  BY <1>2, <1>7 DEF vars
<1> QED
  BY <1>1, <1>3, <1>4, <1>5, <1>6, <1>7 DEF Next

-----------------------------------------------------------------------------
(***************************************************************************)
(* Snapshots: the theorems.                                                *)
(***************************************************************************)

\* The snapshots of every installation keep the invariant, whatever calls fail
\* and whoever dies, in the storage system, the backup, its finalization and
\* deletion, the data movement and the restores of one volume.
THEOREM SnapshotsInductive == Spec => []SnapshotInv
<1>1. Init => SnapshotInv
  BY SnapshotInitial
<1>2. SnapshotInv /\ [Next]_vars => SnapshotInv'
  BY SnapshotStepKeeps
<1> QED
  BY <1>1, <1>2, PTL DEF Spec

\* A backup's snapshot, or one that is being read, is in the storage system,
\* if nobody deletes a VS that the finalization could not remove: both the
\* backup and the data mover release the VSC only when it retains the snapshot.
THEOREM Kept == LeftoversStay => (Spec => []SnapshotKept)
<1> SUFFICES ASSUME LeftoversStay
             PROVE  Spec => []SnapshotKept
  OBVIOUS
<1>1. SnapshotInv => SnapshotKept
  BY DEF SnapshotInv, TakenInv, KeptInv, SnapshotKept, TakenWhole, Described,
      Copied
<1> QED
  BY <1>1, SnapshotsInductive, PTL

\* A snapshot that nobody needs any more goes, whoever deletes VSs, unless a
\* call failed that nobody repeats.
THEOREM GoesAway == Spec => []SnapshotGone
<1>1. SnapshotInv => SnapshotGone
  BY DEF SnapshotInv, SnapshotsTypeOK, VSState, VSCState, Snapshots, StageInv,
      ContentInv, TakenInv, GoneInv, SnapshotGone, TakenDeletable, TakenGoes,
      Early, Described, Ending, Removal
<1> QED
  BY <1>1, SnapshotsInductive, PTL

-----------------------------------------------------------------------------
(***************************************************************************)
(* Repositories: the invariant.                                            *)
(***************************************************************************)

RepoPhases == {"Absent", "New", "Ready", "NotReady"}

\* Objects and copies have a phase; what else they have does not matter here.
ShapeInv ==
    /\ DOMAIN location = {"exists", "config", "mode", "phase"}
    /\ location.config \in Nat \ {0}
    /\ now \in Nat
    /\ DOMAIN repos = Repos
    /\ \A r \in Repos : /\ "phase" \in DOMAIN repos[r]
                        /\ repos[r].phase \in RepoPhases
    /\ prepared \in [Repos -> Nat]
    /\ tries \in [Repos -> Nat]
    /\ DOMAIN worker = {"at", "repo", "copy", "mode", "config", "awaits"}
    /\ "phase" \in DOMAIN worker.copy
    /\ worker.config \in Nat
    /\ worker.at # "idle" => worker.repo \in Repos

AnyJob == [started : Nat, ended : Nat,
           state : {"running", "Succeeded", "Failed"}]

OnlyLastRuns(seq) ==
    \A i \in DOMAIN seq : seq[i].state = "running" => i = Len(seq)

NoneRuns(seq) == \A i \in DOMAIN seq : seq[i].state # "running"

\* Only the youngest job runs, and none when the worker starts another one.
JobsInv ==
    /\ jobs \in [Repos -> Seq(AnyJob)]
    /\ \A r \in Repos : OnlyLastRuns(jobs[r])
    /\ worker.at = "due" => NoneRuns(jobs[worker.repo])

\* As long as no change waits for its event, what is Ready is connected with
\* the location as it is, and so is what is being connected.
CurrentInv ==
    /\ ~unseen => \A r \in Repos : repos[r].phase = "Ready" =>
                      location.exists /\ prepared[r] = location.config
    /\ worker.at = "connecting" =>
           worker.config = IF location.exists THEN location.config ELSE 0

RepositoryInv == ShapeInv /\ JobsInv /\ (Undisturbed => CurrentInv)

-----------------------------------------------------------------------------
(***************************************************************************)
(* Repositories: what the operators do.                                    *)
(***************************************************************************)

\* A patch writes the phase only if the worker changed it in its copy.
LEMMA PatchedPhase ==
    ASSUME NEW object, NEW copy, NEW mutated, "phase" \in DOMAIN object
    PROVE  /\ "phase" \in DOMAIN Patched(object, copy, mutated)
           /\ Patched(object, copy, mutated).phase
                = IF mutated.phase # copy.phase THEN mutated.phase
                                                ELSE object.phase
BY DEF Patched

\* What the worker writes to the object of its repository.
LEMMA WritePhase ==
    ASSUME ShapeInv, NEW mutated, Write(mutated), worker.repo \in Repos
    PROVE  /\ DOMAIN repos' = Repos
           /\ \A r \in Repos : "phase" \in DOMAIN repos'[r]
           /\ \A r \in Repos \ {worker.repo} : repos'[r] = repos[r]
           /\ repos'[worker.repo].phase
                = IF mutated.phase # worker.copy.phase THEN mutated.phase
                                            ELSE repos[worker.repo].phase
<1> DEFINE new == Patched(repos[worker.repo], worker.copy, mutated)
<1>1. repos' = [repos EXCEPT ![worker.repo] = new]
  BY DEF Write
<1>2. /\ "phase" \in DOMAIN new
      /\ new.phase = IF mutated.phase # worker.copy.phase THEN mutated.phase
                     ELSE repos[worker.repo].phase
  <2>1. "phase" \in DOMAIN repos[worker.repo]
    BY DEF ShapeInv
  <2> QED
    BY <2>1, PatchedPhase
<1> HIDE DEF new
<1> QED
  BY <1>1, <1>2 DEF ShapeInv

\* The last job is among those that the worker looks at.
LEMMA LatestLast ==
    ASSUME NEW S, NEW seq \in Seq(S), seq # <<>>
    PROVE  seq[Len(seq)] \in Range(Latest(seq))
<1>1. HistoryLimit \in Nat \ {0}
  BY RepositoriesAssumption
<1>2. Len(seq) \in Nat \ {0}
  OBVIOUS
<1> DEFINE k == IF Len(seq) > HistoryLimit THEN Len(seq) - HistoryLimit + 1
                                           ELSE 1
<1>3. k \in 1 .. Len(seq)
  BY <1>1, <1>2
<1>4. Latest(seq) = SubSeq(seq, k, Len(seq))
  BY DEF Latest
<1> HIDE DEF k
<1>5. /\ Len(SubSeq(seq, k, Len(seq))) = Len(seq) - k + 1
      /\ SubSeq(seq, k, Len(seq))[Len(seq) - k + 1] = seq[Len(seq)]
      /\ Len(seq) - k + 1 \in DOMAIN SubSeq(seq, k, Len(seq))
  BY <1>2, <1>3
<1> QED
  BY <1>4, <1>5 DEF Range

-----------------------------------------------------------------------------
(***************************************************************************)
(* Repositories: every step keeps the invariant.                           *)
(***************************************************************************)

\* A copy with a maintenance recorded.
Maintained(recent, last) ==
    [worker.copy EXCEPT !.recent = recent, !.last = last]

\* The mutated copies of the worker.
LEMMA Mutated ==
    ASSUME ShapeInv
    PROVE  /\ \A last : [worker.copy EXCEPT !.phase = "Ready",
                                            !.last = last].phase = "Ready"
           /\ [worker.copy EXCEPT !.phase = "NotReady"].phase = "NotReady"
           /\ \A recent : [worker.copy EXCEPT !.recent = recent].phase
                            = worker.copy.phase
           /\ \A recent, last :
                 Maintained(recent, last).phase = worker.copy.phase
BY DEF ShapeInv, Maintained

LEMMA WorkerShape ==
    ASSUME ShapeInv, WorkerStep
    PROVE  ShapeInv'
<1> USE DEF ShapeInv, NothingLocal
<1>1. ASSUME NEW r \in Repos, TakeRepository(r)
      PROVE  ShapeInv'
  BY <1>1 DEF TakeRepository
<1>2. CASE Connect
  BY <1>2 DEF Connect
<1>3. ASSUME \/ UNCHANGED repos
             \/ \E mutated :
                   /\ Write(mutated)
                   /\ mutated.phase \in RepoPhases \cup {worker.copy.phase},
             worker.at # "idle",
             UNCHANGED <<location, now>>,
             prepared' \in [Repos -> Nat],
             tries' \in [Repos -> Nat],
             \/ worker' = Idle
             \/ \E at, awaits : worker' = [worker EXCEPT !.at = at,
                                                         !.awaits = awaits]
             \/ \E at : worker' = [worker EXCEPT !.at = at]
             \/ \E at : worker' = [worker EXCEPT !.at = at,
                                                 !.copy = repos'[worker.repo]]
      PROVE  ShapeInv'
  <2>1. /\ DOMAIN repos' = Repos
        /\ \A r \in Repos : /\ "phase" \in DOMAIN repos'[r]
                            /\ repos'[r].phase \in RepoPhases
    <3>1. CASE UNCHANGED repos
      BY <3>1
    <3>2. ASSUME NEW mutated, Write(mutated),
                 mutated.phase \in RepoPhases \cup {worker.copy.phase}
          PROVE  /\ DOMAIN repos' = Repos
                 /\ \A r \in Repos : /\ "phase" \in DOMAIN repos'[r]
                                     /\ repos'[r].phase \in RepoPhases
      BY <1>3, <3>2, WritePhase
    <3> QED
      BY <1>3, <3>1, <3>2
  <2>2. CASE worker' = Idle
    BY <1>3, <2>1, <2>2 DEF Idle, Absent
  <2>3. ASSUME NEW at, NEW awaits,
               \/ worker' = [worker EXCEPT !.at = at, !.awaits = awaits]
               \/ worker' = [worker EXCEPT !.at = at]
        PROVE  ShapeInv'
    BY <1>3, <2>1, <2>3
  <2>4. ASSUME NEW at,
               worker' = [worker EXCEPT !.at = at, !.copy = repos'[worker.repo]]
        PROVE  ShapeInv'
    BY <1>3, <2>1, <2>4
  <2> QED
    BY <1>3, <2>2, <2>3, <2>4
<1> HIDE DEF ShapeInv
<1>4. /\ prepared \in [Repos -> Nat]
      /\ tries \in [Repos -> Nat]
      /\ worker.config \in Nat
      /\ worker.at # "idle" => worker.repo \in Repos
  BY DEF ShapeInv
<1>5. CASE Connected
  <2>1. /\ worker.at # "idle"
        /\ UNCHANGED <<location, now, tries>>
        /\ prepared' \in [Repos -> Nat]
        /\ \/ worker' = Idle
           \/ \E at : worker' = [worker EXCEPT !.at = at,
                                               !.copy = repos'[worker.repo]]
    BY <1>4, <1>5 DEF Connected, Stop
  <2>2. UNCHANGED repos \/ \E mutated : Write(mutated) /\ mutated.phase = "Ready"
    BY <1>5, Mutated DEF Connected
  <2> QED
    BY <1>3, <1>4, <2>1, <2>2 DEF RepoPhases
<1>6. CASE NotConnected
  BY <1>3, <1>4, <1>6, Mutated DEF NotConnected, Stop, RepoPhases
<1>7. CASE AwaitUnfinished \/ UnfinishedEnded \/ NotDue \/ WaitFails \/ Trim
  BY <1>3, <1>4, <1>7
     DEF AwaitUnfinished, UnfinishedEnded, NotDue, WaitFails, Trim, GoTo, Stop
<1>8. CASE Recall
  <2>1. /\ worker.at # "idle"
        /\ UNCHANGED <<location, now, prepared, tries>>
    BY <1>8 DEF Recall
  <2>2. \/ UNCHANGED repos /\ GoTo("due")
        \/ UNCHANGED repos /\ worker' = Idle
        \/ /\ \E recent, last :
                 Write(Maintained(recent, last))
           /\ worker' = [worker EXCEPT !.at = "due",
                                       !.copy = repos'[worker.repo]]
    BY <1>8 DEF Recall, Maintained
  <2> QED
    <3>1. \/ UNCHANGED repos
          \/ \E mutated : /\ Write(mutated)
                           /\ mutated.phase = worker.copy.phase
      BY <2>2, Mutated
    <3> QED
      BY <1>3, <1>4, <2>1, <2>2, <3>1 DEF GoTo
<1>9. ASSUME tries' = [tries EXCEPT ![worker.repo] = @ + 1],
             worker.at # "idle"
      PROVE  tries' \in [Repos -> Nat]
  BY <1>4, <1>9
<1>10. CASE StartJob
  <2>1. /\ worker.at # "idle"
        /\ UNCHANGED <<location, now, prepared, repos>>
        /\ tries' = [tries EXCEPT ![worker.repo] = @ + 1]
        /\ \E at, awaits : worker' = [worker EXCEPT !.at = at,
                                                    !.awaits = awaits]
    BY <1>10 DEF StartJob
  <2> QED
    BY <1>3, <1>4, <1>9, <2>1
<1>11. CASE StartFails
  <2>1. /\ worker.at # "idle"
        /\ UNCHANGED <<location, now, prepared>>
        /\ tries' = [tries EXCEPT ![worker.repo] = @ + 1]
        /\ worker' = Idle \/ \E at : worker' = [worker EXCEPT !.at = at]
    BY <1>11 DEF StartFails, GoTo, Stop
  <2>2. \/ UNCHANGED repos
        \/ \E recent : Write([worker.copy EXCEPT !.recent = recent])
    BY <1>11 DEF StartFails
  <2> QED
    BY <1>3, <1>4, <1>9, <2>1, <2>2, Mutated
<1>12. CASE JobEnded
  <2>1. /\ worker.at # "idle"
        /\ UNCHANGED <<location, now, prepared, tries>>
        /\ worker' = Idle \/ \E at : worker' = [worker EXCEPT !.at = at]
    BY <1>12 DEF JobEnded, GoTo, Stop
  <2>2. \/ UNCHANGED repos
        \/ \E recent, last :
              Write(Maintained(recent, last))
    BY <1>12 DEF JobEnded, Maintained
  <2>3. \/ UNCHANGED repos
        \/ \E mutated : /\ Write(mutated)
                         /\ mutated.phase = worker.copy.phase
    BY <2>2, Mutated
  <2> QED
    BY <1>3, <1>4, <2>1, <2>3
<1> QED
  BY <1>1, <1>2, <1>5, <1>6, <1>7, <1>8, <1>10, <1>11,
     <1>12
     DEF WorkerStep

\* Schedules and snapshots have nothing to do with repositories.
LEMMA ElsewhereLeaves ==
    ASSUME ScheduleStep \/ SnapshotStep
    PROVE  UNCHANGED <<now, location, unseen, repoVars>>
<1>1. CASE ScheduleStep
  <2> USE DEF NothingLocal, locationVars
  <2>1. UNCHANGED repoVars
    BY <1>1 DEF ScheduleStep
  <2>2. CASE ChangeSchedule
    BY <2>1, <2>2 DEF ChangeSchedule
  <2>3. CASE EnqueueSchedule
    BY <2>1, <2>3 DEF EnqueueSchedule
  <2>4. CASE ReconcileSchedule
    BY <2>1, <2>4 DEF ReconcileSchedule
  <2>5. CASE RecordSubmission
    BY <2>1, <2>5 DEF RecordSubmission
  <2>6. ASSUME NEW i \in DOMAIN backups, NEW b, Move(i, b)
        PROVE  UNCHANGED <<now, location, unseen, repoVars>>
    BY <2>1, <2>6 DEF Move
  <2>7. ASSUME NEW i \in DOMAIN backups,
               BackupGoesOn(i) \/ CollectExpired(i) \/ DeletionStep(i)
        PROVE  \E b : Move(i, b)
    BY <2>7 DEF BackupGoesOn, CollectExpired, DeletionStep, TakeRequest,
       FinishRequest, RemoveRequest
  <2> QED
    BY <1>1, <2>2, <2>3, <2>4, <2>5, <2>6, <2>7
       DEF ScheduleStep, SchedulerStep
<1>2. CASE SnapshotStep
  BY <1>2 DEF SnapshotStep, SnapshotsNext, SnapshotterStep, BackupTakes,
     BackupEnds, SnapshotUserStep, MoverStep, NothingElse
<1> QED
  BY <1>1, <1>2

\* A record whose phase is set.
LEMMA PhaseSet ==
    ASSUME NEW object, "phase" \in DOMAIN object, NEW phase
    PROVE  /\ "phase" \in DOMAIN [object EXCEPT !.phase = phase]
           /\ [object EXCEPT !.phase = phase].phase = phase
OBVIOUS

\* The event handler suspects what it does not miss.
LEMMA Suspected ==
    ASSUME ShapeInv, InvalidateRepositories
    PROVE  /\ DOMAIN repos' = Repos
           /\ \A r \in Repos : /\ "phase" \in DOMAIN repos'[r]
                               /\ repos'[r].phase \in RepoPhases
           /\ Undisturbed => \A r \in Repos : repos'[r].phase # "Ready"
<1>1. PICK failed \in SUBSET (IF Undisturbed THEN {} ELSE Repos) :
          repos' = [r \in Repos |->
                       IF Suspect(r) /\ r \notin failed
                       THEN [repos[r] EXCEPT !.phase = "NotReady"]
                       ELSE repos[r]]
  BY DEF InvalidateRepositories
<1>2. ASSUME NEW r \in Repos
      PROVE  /\ "phase" \in DOMAIN repos'[r]
             /\ repos'[r].phase \in RepoPhases
             /\ Undisturbed => repos'[r].phase # "Ready"
  <2>1. "phase" \in DOMAIN repos[r] /\ repos[r].phase \in RepoPhases
    BY DEF ShapeInv
  <2> DEFINE new == [repos[r] EXCEPT !.phase = "NotReady"]
  <2>2. "phase" \in DOMAIN new /\ new.phase = "NotReady"
    BY <2>1, PhaseSet
  <2>3. repos'[r] = IF Suspect(r) /\ r \notin failed THEN new ELSE repos[r]
    BY <1>1
  <2> HIDE DEF new
  <2> QED
    BY <2>1, <2>2, <2>3 DEF Suspect, RepoPhases
<1> QED
  BY <1>1, <1>2

\* A repository that is created is not Ready.
LEMMA CreatedPhase ==
    ASSUME ShapeInv, NEW c \in Callers, EnsurerStep(c)
    PROVE  /\ UNCHANGED <<now, location, unseen, prepared, jobs, tries, worker>>
           /\ DOMAIN repos' = Repos
           /\ \A r \in Repos : /\ "phase" \in DOMAIN repos'[r]
                               /\ repos'[r].phase \in RepoPhases
                               /\ repos'[r].phase = "Ready"
                                    => repos[r].phase = "Ready"
<1>1. CASE UNCHANGED ensurerVars
  BY <1>1 DEF ensurerVars, locationVars, repoVars, ShapeInv
<1>2. CASE CreateRepository(c)
  <2> DEFINE r == Wants[c]
             phase == IF repos[r].phase = "Absent" THEN "New"
                      ELSE repos[r].phase
             new == [repos[r] EXCEPT !.phase = phase]
  <2>1. UNCHANGED <<now, location, unseen, prepared, jobs, tries, worker>>
    BY <1>2 DEF CreateRepository, NothingLocal
  <2>2. UNCHANGED repos \/ repos' = [repos EXCEPT ![r] = new]
    BY <1>2 DEF CreateRepository
  <2>3. r \in Repos
    BY RepositoriesAssumption
  <2>4. /\ "phase" \in DOMAIN repos[r]
        /\ repos[r].phase \in RepoPhases
    BY <2>3 DEF ShapeInv
  <2>5. "phase" \in DOMAIN new /\ new.phase = phase
    BY <2>4, PhaseSet
  <2>6. /\ new.phase \in RepoPhases
        /\ new.phase = "Ready" => repos[r].phase = "Ready"
    BY <2>4, <2>5 DEF RepoPhases
  <2> HIDE DEF new
  <2> QED
    BY <2>1, <2>2, <2>3, <2>5, <2>6 DEF ShapeInv
<1> QED
  BY <1>1, <1>2 DEF EnsurerStep, Ensure, Lock, Poll, PollTimesOut

\* What becomes of the location.
LEMMA LocationShape ==
    ASSUME ShapeInv, LocationStep
    PROVE  /\ UNCHANGED repoVars
           /\ now' \in Nat
           /\ DOMAIN location' = {"exists", "config", "mode", "phase"}
           /\ location'.config \in Nat \ {0}
<1>1. UNCHANGED repoVars
  BY DEF LocationStep
<1> HIDE DEF repoVars
<1>9. /\ DOMAIN location = {"exists", "config", "mode", "phase"}
      /\ location.config \in Nat \ {0}
      /\ now \in Nat
  BY DEF ShapeInv
<1> DEFINE Goal ==
              /\ now' \in Nat
              /\ DOMAIN location' = {"exists", "config", "mode", "phase"}
              /\ location'.config \in Nat \ {0}
<1> SUFFICES Goal
  BY <1>1
<1>2. CASE Tick
  BY <1>9, <1>2 DEF Tick
<1>3. CASE ChangeConfig
  <2>1. location' = [location EXCEPT !.config = @ + 1] /\ now' = now
    BY <1>3 DEF ChangeConfig, Change
  <2> QED
    BY <1>9, <2>1
<1>4. CASE ChangeMode
  BY <1>9, <1>4 DEF ChangeMode, Change
<1>5. CASE DeleteLocation
  BY <1>9, <1>5 DEF DeleteLocation, Change
<1>6. CASE RecreateLocation
  <2>1. /\ \E c \in {location.config, location.config + 1} :
              location' = [location EXCEPT !.exists = TRUE, !.config = c]
        /\ now' = now
    BY <1>6 DEF RecreateLocation
  <2> QED
    BY <1>9, <2>1
<1>7. CASE StoreStep
  BY <1>9, <1>7 DEF StoreStep, StoreFails, StoreRecovers
<1>8. CASE ReconcileLocation
  BY <1>9, <1>8 DEF ReconcileLocation
<1> QED
  BY <1>2, <1>3, <1>4, <1>5, <1>6, <1>7, <1>8 DEF LocationStep, UserStep

LEMMA ElsewhereShape ==
    ASSUME ShapeInv, [Next]_vars, ~WorkerStep
    PROVE  ShapeInv'
<1>1. CASE Restart
  BY <1>1 DEF Restart, Idle, Absent, ShapeInv
<1>2. CASE LocationStep
  BY <1>2, LocationShape DEF ShapeInv, repoVars
<1>3. CASE InvalidateRepositories
  BY <1>3, Suspected DEF InvalidateRepositories, ShapeInv
<1>4. CASE JobStep
  BY <1>4 DEF JobStep, JobEnds, JobVanishes, NothingLocal, locationVars,
     ShapeInv
<1>5. ASSUME NEW c \in Callers, EnsurerStep(c)
      PROVE  ShapeInv'
  BY <1>5, CreatedPhase DEF ShapeInv
<1>6. CASE ScheduleStep \/ SnapshotStep
  BY <1>6, ElsewhereLeaves DEF repoVars, ShapeInv
<1>7. CASE UNCHANGED vars
  BY <1>7 DEF vars, locationVars, repoVars, ShapeInv
<1> QED
  BY <1>1, <1>2, <1>3, <1>4, <1>5, <1>6, <1>7 DEF Next, RepositoryStep

-----------------------------------------------------------------------------
(***************************************************************************)
(* Repositories: the jobs.                                                 *)
(***************************************************************************)

\* A job that is started comes last.
LEMMA JobAppended ==
    ASSUME NEW seq \in Seq(AnyJob), NoneRuns(seq), NEW job \in AnyJob
    PROVE  /\ Append(seq, job) \in Seq(AnyJob)
           /\ OnlyLastRuns(Append(seq, job))
<1>1. DOMAIN seq = 1 .. Len(seq) /\ Len(seq) \in Nat
  BY LenProperties
<1> DEFINE new == Append(seq, job)
<1>2. /\ new \in Seq(AnyJob)
      /\ Len(new) = Len(seq) + 1
      /\ \A i \in 1 .. Len(seq) : new[i] = seq[i]
  BY AppendProperties
<1>3. DOMAIN new = 1 .. Len(new)
  BY <1>2, LenProperties
<1> HIDE DEF new
<1>4. OnlyLastRuns(new)
  BY <1>1, <1>2, <1>3 DEF OnlyLastRuns, NoneRuns
<1> QED
  BY <1>2, <1>4 DEF new

\* What is left when the first n jobs are deleted.
LEMMA JobsTrimmed ==
    ASSUME NEW seq \in Seq(AnyJob), OnlyLastRuns(seq),
           NEW n \in Nat, n <= Len(seq)
    PROVE  /\ SubSeq(seq, n + 1, Len(seq)) \in Seq(AnyJob)
           /\ OnlyLastRuns(SubSeq(seq, n + 1, Len(seq)))
<1>1. DOMAIN seq = 1 .. Len(seq) /\ Len(seq) \in Nat
  BY LenProperties
<1> DEFINE new == SubSeq(seq, n + 1, Len(seq))
<1>2. \A i \in n + 1 .. Len(seq) : seq[i] \in AnyJob
  BY <1>1, ElementOfSeq
<1>3. /\ new \in Seq(AnyJob)
      /\ Len(new) = IF n + 1 <= Len(seq) THEN Len(seq) - (n + 1) + 1 ELSE 0
      /\ \A i \in 1 .. Len(seq) - (n + 1) + 1 : new[i] = seq[(n + 1) + i - 1]
  BY <1>1, <1>2, SubSeqProperties
<1>4. DOMAIN new = 1 .. Len(new)
  BY <1>3, LenProperties
<1> HIDE DEF new
<1>5. /\ Len(new) = Len(seq) - n
      /\ \A i \in 1 .. Len(seq) - n : new[i] = seq[n + i]
  <2>1. Len(new) = Len(seq) - n
    <3>1. Len(new) = IF n + 1 <= Len(seq) THEN Len(seq) - (n + 1) + 1 ELSE 0
      BY <1>3
    <3>2. Len(seq) \in Nat
      BY <1>1
    <3> QED
      BY <3>1, <3>2
  <2>2. ASSUME NEW i \in 1 .. Len(seq) - n
        PROVE  new[i] = seq[n + i]
    <3>1. i \in 1 .. Len(seq) - (n + 1) + 1 /\ (n + 1) + i - 1 = n + i
      BY <1>1
    <3> QED
      BY <1>3, <3>1
  <2> QED
    BY <2>1, <2>2
<1>6. OnlyLastRuns(new)
  <2> SUFFICES ASSUME NEW i \in 1 .. Len(new), new[i].state = "running"
               PROVE  i = Len(new)
    BY <1>4 DEF OnlyLastRuns
  <2>1. n + i \in DOMAIN seq /\ seq[n + i].state = "running"
    BY <1>1, <1>5
  <2>2. n + i = Len(seq)
    BY <2>1 DEF OnlyLastRuns
  <2>3. Len(new) = Len(seq) - n /\ Len(seq) \in Nat
    BY <1>1, <1>5
  <2> QED
    BY <2>2, <2>3
<1> QED
  BY <1>3, <1>6 DEF new

\* The job that runs ends.
LEMMA JobStopped ==
    ASSUME NEW seq \in Seq(AnyJob), OnlyLastRuns(seq), NEW i \in DOMAIN seq,
           NEW job \in AnyJob, job.state # "running"
    PROVE  /\ [seq EXCEPT ![i] = job] \in Seq(AnyJob)
           /\ OnlyLastRuns([seq EXCEPT ![i] = job])
           /\ NoneRuns(seq) => NoneRuns([seq EXCEPT ![i] = job])
<1>1. DOMAIN seq = 1 .. Len(seq) /\ Len(seq) \in Nat
  BY LenProperties
<1> DEFINE new == [seq EXCEPT ![i] = job]
<1>2. /\ new \in Seq(AnyJob)
      /\ Len(new) = Len(seq)
      /\ \A j \in 1 .. Len(seq) : new[j] = IF j = i THEN job ELSE seq[j]
  BY <1>1, ExceptSeq
<1>3. DOMAIN new = 1 .. Len(new)
  BY <1>2, LenProperties
<1> HIDE DEF new
<1>4. OnlyLastRuns(new) /\ (NoneRuns(seq) => NoneRuns(new))
  BY <1>1, <1>2, <1>3 DEF OnlyLastRuns, NoneRuns
<1> QED
  BY <1>2, <1>4 DEF new

\* The job that runs is deleted.
LEMMA JobRemoved ==
    ASSUME NEW seq \in Seq(AnyJob), OnlyLastRuns(seq), NEW i \in DOMAIN seq,
           seq[i].state = "running"
    PROVE  /\ RemoveAt(seq, i) \in Seq(AnyJob)
           /\ NoneRuns(RemoveAt(seq, i))
<1>1. DOMAIN seq = 1 .. Len(seq) /\ Len(seq) \in Nat /\ i = Len(seq)
  BY LenProperties DEF OnlyLastRuns
<1> DEFINE front == SubSeq(seq, 1, i - 1)
           back == SubSeq(seq, i + 1, Len(seq))
<1>2. \A j \in 1 .. i - 1 : seq[j] \in AnyJob
  BY <1>1, ElementOfSeq
<1>3. /\ front \in Seq(AnyJob)
      /\ Len(front) = IF 1 <= i - 1 THEN (i - 1) - 1 + 1 ELSE 0
      /\ \A j \in 1 .. (i - 1) - 1 + 1 : front[j] = seq[1 + j - 1]
  BY <1>1, <1>2, SubSeqProperties
<1>4. back = <<>>
  BY <1>1, SubSeqEmpty
<1>5. RemoveAt(seq, i) = front
  <2> HIDE DEF front
  <2> QED
    BY <1>3, <1>4, ConcatEmptySeq DEF RemoveAt, front
<1>6. DOMAIN front = 1 .. Len(front)
  BY <1>3, LenProperties
<1> HIDE DEF front
<1>7. /\ Len(front) = Len(seq) - 1
      /\ \A j \in 1 .. Len(front) : front[j] = seq[j]
  <2>1. Len(front) = Len(seq) - 1
    <3>1. Len(front) = IF 1 <= i - 1 THEN (i - 1) - 1 + 1 ELSE 0
      BY <1>3
    <3>2. Len(seq) \in Nat /\ i = Len(seq) /\ i \in 1 .. Len(seq)
      BY <1>1
    <3> QED
      BY <3>1, <3>2
  <2>2. ASSUME NEW j \in 1 .. Len(seq) - 1
        PROVE  front[j] = seq[j]
    <3>1. j \in 1 .. (i - 1) - 1 + 1 /\ 1 + j - 1 = j
      BY <1>1
    <3> QED
      BY <1>3, <3>1
  <2> QED
    BY <2>1, <2>2
<1>8. NoneRuns(front)
  BY <1>1, <1>6, <1>7 DEF OnlyLastRuns, NoneRuns
<1> QED
  BY <1>3, <1>5, <1>8

\* The jobs of one repository change.
LEMMA JobsChange ==
    ASSUME ShapeInv, JobsInv, NEW r \in Repos, NEW new \in Seq(AnyJob),
           OnlyLastRuns(new), jobs' = [jobs EXCEPT ![r] = new],
           worker'.at = "due" => /\ worker' = worker
                                 /\ NoneRuns(jobs[r]) => NoneRuns(new)
    PROVE  JobsInv'
<1>1. jobs'[r] = new /\ \A s \in Repos \ {r} : jobs'[s] = jobs[s]
  BY DEF JobsInv
<1>2. jobs' \in [Repos -> Seq(AnyJob)]
  BY DEF JobsInv
<1>3. \A s \in Repos : OnlyLastRuns(jobs'[s])
  BY <1>1 DEF JobsInv
<1>4. ASSUME worker'.at = "due"
      PROVE  NoneRuns(jobs'[worker'.repo])
  <2>1. /\ worker' = worker
        /\ worker.repo \in Repos
        /\ NoneRuns(jobs[worker.repo])
    BY <1>4 DEF ShapeInv, JobsInv
  <2> QED
    BY <1>1, <1>4, <2>1
<1> QED
  BY <1>2, <1>3, <1>4 DEF JobsInv, OnlyLastRuns, NoneRuns

\* They do not change, and the worker is not about to start one.
LEMMA JobsSame ==
    ASSUME ShapeInv, JobsInv, UNCHANGED jobs,
           worker'.at = "due" => worker' = worker
    PROVE  JobsInv'
BY DEF JobsInv, OnlyLastRuns, NoneRuns

\* What the worker does to the jobs.
LEMMA WorkerJobs ==
    ASSUME ShapeInv, JobsInv, WorkerStep
    PROVE  JobsInv'
<1>1. CASE StartJob
  <2> DEFINE r == worker.repo
             job == [started |-> tries[r] + 1, ended |-> 0,
                     state |-> "running"]
  <2>1. /\ r \in Repos
        /\ tries[r] \in Nat
        /\ jobs[r] \in Seq(AnyJob)
        /\ NoneRuns(jobs[r])
    BY <1>1 DEF StartJob, ShapeInv, JobsInv
  <2>2. job \in AnyJob
    BY <2>1 DEF AnyJob
  <2>3. jobs' = [jobs EXCEPT ![r] = Append(jobs[r], job)]
    BY <1>1 DEF StartJob
  <2>4. worker'.at # "due"
    BY <1>1 DEF StartJob, ShapeInv
  <2> HIDE DEF job
  <2>5. /\ Append(jobs[r], job) \in Seq(AnyJob)
        /\ OnlyLastRuns(Append(jobs[r], job))
    BY <2>1, <2>2, JobAppended
  <2> QED
    BY <2>1, <2>3, <2>4, <2>5, JobsChange
<1>2. CASE Trim
  <2> DEFINE r == worker.repo
  <2>1. r \in Repos /\ worker'.at # "due"
    BY <1>2 DEF Trim, Stop, Idle, ShapeInv
  <2>2. jobs[r] \in Seq(AnyJob) /\ OnlyLastRuns(jobs[r]) /\ Len(jobs[r]) \in Nat
    BY <2>1, LenProperties DEF JobsInv
  <2>3. PICK n \in 0 .. (IF Len(jobs[r]) > KeepJobs
                         THEN Len(jobs[r]) - KeepJobs ELSE 0) :
            jobs' = [jobs EXCEPT ![r] = SubSeq(jobs[r], n + 1, Len(jobs[r]))]
    BY <1>2 DEF Trim
  <2>4. n \in Nat /\ n <= Len(jobs[r])
    BY <2>2, RepositoriesAssumption
  <2>5. /\ SubSeq(jobs[r], n + 1, Len(jobs[r])) \in Seq(AnyJob)
        /\ OnlyLastRuns(SubSeq(jobs[r], n + 1, Len(jobs[r])))
    BY <2>2, <2>4, JobsTrimmed
  <2> QED
    BY <2>1, <2>3, <2>5, JobsChange
<1>3. CASE Recall
  <2> DEFINE seq == jobs[worker.repo]
  <2>1. worker.repo \in Repos /\ UNCHANGED jobs
    BY <1>3 DEF Recall, ShapeInv
  <2>2. seq \in Seq(AnyJob) /\ OnlyLastRuns(seq)
    BY <2>1 DEF JobsInv
  <2>3. NoneRuns(seq)
    <3> SUFFICES ASSUME NEW i \in DOMAIN seq, seq[i].state = "running"
                 PROVE  FALSE
      BY DEF NoneRuns
    <3>1. i = Len(seq) /\ i \in 1 .. Len(seq)
      BY <2>2, LenProperties DEF OnlyLastRuns
    <3>2. seq # <<>>
      BY <2>2, <3>1, EmptySeq
    <3>3. seq[Len(seq)] \in Range(Latest(seq))
      BY <2>2, <3>2, LatestLast
    <3>4. seq[Len(seq)] \in Unfinished
      BY <3>1, <3>3 DEF Unfinished, Recalled
    <3> QED
      BY <1>3, <3>4 DEF Recall
  <2>4. worker'.at = "idle" \/ worker'.repo = worker.repo
    <3>1. \/ worker' = Idle
          \/ \E at : worker' = [worker EXCEPT !.at = at]
          \/ \E at : worker' = [worker EXCEPT !.at = at,
                                              !.copy = repos'[worker.repo]]
      BY <1>3 DEF Recall, GoTo
    <3>2. DOMAIN worker = {"at", "repo", "copy", "mode", "config", "awaits"}
      BY DEF ShapeInv
    <3>3. CASE worker' = Idle
      BY <3>3 DEF Idle
    <3> QED
      BY <3>1, <3>2, <3>3
  <2> QED
    BY <2>1, <2>3, <2>4 DEF JobsInv, OnlyLastRuns, NoneRuns
<1>4. CASE \E r \in Repos : TakeRepository(r)
  <2>1. UNCHANGED jobs /\ worker'.at \in {"recall", "connect"}
    BY <1>4 DEF TakeRepository
  <2> QED
    BY <2>1, JobsSame
<1>6. CASE Connect
  <2>1. UNCHANGED jobs /\ worker'.at = "connecting"
    BY <1>6 DEF Connect, ShapeInv
  <2> QED
    BY <2>1, JobsSame
<1>7. CASE Connected
  <2>1. /\ UNCHANGED jobs
        /\ \/ worker' = Idle
           \/ worker' = [worker EXCEPT !.at = "recall",
                                    !.copy = repos'[worker.repo]]
    BY <1>7 DEF Connected, GoTo, Stop
  <2>2. worker'.at # "due"
    <3>1. DOMAIN worker = {"at", "repo", "copy", "mode", "config", "awaits"}
      BY DEF ShapeInv
    <3>2. CASE worker' = Idle
      BY <3>2 DEF Idle
    <3> QED
      BY <2>1, <3>1, <3>2
  <2> QED
    BY <2>1, <2>2, JobsSame
<1>8. CASE NotConnected
  <2>1. UNCHANGED jobs /\ worker'.at # "due"
    BY <1>8 DEF NotConnected, Stop, Idle
  <2> QED
    BY <2>1, JobsSame
<1>9. CASE AwaitUnfinished \/ UnfinishedEnded
  <2>1. UNCHANGED jobs /\ worker'.at # "due"
    BY <1>9 DEF AwaitUnfinished, UnfinishedEnded, GoTo, ShapeInv
  <2> QED
    BY <2>1, JobsSame
<1>10. CASE NotDue
  <2>1. UNCHANGED jobs /\ worker'.at # "due"
    BY <1>10 DEF NotDue, GoTo, ShapeInv
  <2> QED
    BY <2>1, JobsSame
<1>11. CASE StartFails
  <2>1. /\ UNCHANGED jobs
        /\ \/ worker' = Idle
           \/ worker' = [worker EXCEPT !.at = "trim"]
    BY <1>11 DEF StartFails, GoTo, Stop
  <2>2. worker'.at # "due"
    <3>1. DOMAIN worker = {"at", "repo", "copy", "mode", "config", "awaits"}
      BY DEF ShapeInv
    <3>2. CASE worker' = Idle
      BY <3>2 DEF Idle
    <3> QED
      BY <2>1, <3>1, <3>2
  <2> QED
    BY <2>1, <2>2, JobsSame
<1>12. CASE JobEnded
  <2>1. /\ UNCHANGED jobs
        /\ \/ worker' = Idle
           \/ worker' = [worker EXCEPT !.at = "trim"]
    BY <1>12 DEF JobEnded, GoTo, Stop
  <2>2. worker'.at # "due"
    <3>1. DOMAIN worker = {"at", "repo", "copy", "mode", "config", "awaits"}
      BY DEF ShapeInv
    <3>2. CASE worker' = Idle
      BY <3>2 DEF Idle
    <3> QED
      BY <2>1, <3>1, <3>2
  <2> QED
    BY <2>1, <2>2, JobsSame
<1>13. CASE WaitFails
  <2>1. UNCHANGED jobs /\ worker'.at # "due"
    BY <1>13 DEF WaitFails, Stop, Idle
  <2> QED
    BY <2>1, JobsSame
<1> QED
  BY <1>1, <1>2, <1>3, <1>4, <1>6, <1>7, <1>8, <1>9, <1>10, <1>11, <1>12,
     <1>13 DEF WorkerStep

\* Jobs that end, or are deleted, and what does not concern them.
LEMMA ElsewhereJobs ==
    ASSUME ShapeInv, JobsInv, [Next]_vars, ~WorkerStep
    PROVE  JobsInv'
<1>1. ASSUME NEW r \in Repos, JobEnds(r)
      PROVE  JobsInv'
  <2>1. jobs[r] \in Seq(AnyJob) /\ OnlyLastRuns(jobs[r])
    BY DEF JobsInv
  <2>2. PICK i \in Running(r), s \in {"Succeeded", "Failed"} :
            jobs' = [jobs EXCEPT ![r][i].state = s,
                                 ![r][i].ended = IF s = "Succeeded" THEN Time
                                                 ELSE 0]
    BY <1>1 DEF JobEnds
  <2>3. UNCHANGED worker
    BY <1>1 DEF JobEnds
  <2> DEFINE end == IF s = "Succeeded" THEN Time ELSE 0
             job == [[jobs[r][i] EXCEPT !.state = s] EXCEPT !.ended = end]
  <2>4. i \in DOMAIN jobs[r] /\ jobs[r][i] \in AnyJob
    BY <2>1, LenProperties, ElementOfSeq DEF Running
  <2>5. end \in Nat
    BY DEF Time, ShapeInv
  <2>6. job \in AnyJob /\ job.state # "running"
    <3> HIDE DEF end
    <3> QED
      BY <2>4, <2>5 DEF AnyJob
  <2>7. jobs' = [jobs EXCEPT ![r] = [jobs[r] EXCEPT ![i] = job]]
    BY <2>1, <2>2, <2>4 DEF JobsInv
  <2> HIDE DEF job
  <2>8. /\ [jobs[r] EXCEPT ![i] = job] \in Seq(AnyJob)
        /\ OnlyLastRuns([jobs[r] EXCEPT ![i] = job])
        /\ NoneRuns(jobs[r]) => NoneRuns([jobs[r] EXCEPT ![i] = job])
    BY <2>1, <2>4, <2>6, JobStopped
  <2> QED
    BY <2>3, <2>7, <2>8, JobsChange
<1>2. ASSUME NEW r \in Repos, JobVanishes(r)
      PROVE  JobsInv'
  <2>1. jobs[r] \in Seq(AnyJob) /\ OnlyLastRuns(jobs[r])
    BY DEF JobsInv
  <2>2. PICK i \in Running(r) :
            jobs' = [jobs EXCEPT ![r] = RemoveAt(jobs[r], i)]
    BY <1>2 DEF JobVanishes
  <2>3. UNCHANGED worker
    BY <1>2 DEF JobVanishes
  <2>4. /\ RemoveAt(jobs[r], i) \in Seq(AnyJob)
        /\ NoneRuns(RemoveAt(jobs[r], i))
    BY <2>1, JobRemoved DEF Running
  <2>5. OnlyLastRuns(RemoveAt(jobs[r], i))
    BY <2>4 DEF OnlyLastRuns, NoneRuns
  <2> QED
    BY <2>2, <2>3, <2>4, <2>5, JobsChange
<1>3. CASE Restart
  <2>1. UNCHANGED jobs /\ worker'.at # "due"
    BY <1>3 DEF Restart, Idle
  <2> QED
    BY <2>1, JobsSame
<1>4. CASE UNCHANGED <<jobs, worker>>
  BY <1>4, JobsSame
<1>5. CASE LocationStep \/ ScheduleStep \/ SnapshotStep \/ UNCHANGED vars
  BY <1>4, <1>5 DEF LocationStep, ScheduleStep, SnapshotStep, repoVars, vars
<1>6. CASE InvalidateRepositories
  BY <1>4, <1>6 DEF InvalidateRepositories
<1>7. ASSUME NEW c \in Callers, EnsurerStep(c)
      PROVE  JobsInv'
  BY <1>4, <1>7, CreatedPhase
<1> QED
  BY <1>1, <1>2, <1>3, <1>5, <1>6, <1>7 DEF Next, RepositoryStep, JobStep

-----------------------------------------------------------------------------
(***************************************************************************)
(* Repositories: what is Ready is current.                                 *)
(***************************************************************************)

\* No repository becomes Ready, and nothing it was connected with changes.
LEMMA NoneBecomesReady ==
    ASSUME CurrentInv, UNCHANGED <<location, prepared>>, unseen' = unseen,
           \A r \in Repos : repos'[r].phase = "Ready"
                                => repos[r].phase = "Ready",
           worker'.at = "connecting" => worker' = worker
    PROVE  CurrentInv'
BY DEF CurrentInv

LEMMA WorkerCurrent ==
    ASSUME ShapeInv, CurrentInv, WorkerStep
    PROVE  CurrentInv'
<1>1. UNCHANGED <<location, unseen>>
  BY DEF WorkerStep, TakeRepository, Connect, Connected, NotConnected,
     AwaitUnfinished, UnfinishedEnded, Recall, NotDue, StartJob, StartFails,
     JobEnded, WaitFails, Trim, NothingLocal
<1>2. ASSUME UNCHANGED repos, UNCHANGED prepared, worker'.at # "connecting"
      PROVE  CurrentInv'
  BY <1>1, <1>2, NoneBecomesReady
<1>3. ASSUME NEW mutated, Write(mutated), worker.repo \in Repos,
             \/ mutated.phase = worker.copy.phase
             \/ mutated.phase = "NotReady",
             UNCHANGED prepared, worker'.at # "connecting"
      PROVE  CurrentInv'
  <2>1. \A r \in Repos : repos'[r].phase = "Ready" => repos[r].phase = "Ready"
    <3>1. /\ \A r \in Repos \ {worker.repo} : repos'[r] = repos[r]
          /\ repos'[worker.repo].phase
                = IF mutated.phase # worker.copy.phase THEN mutated.phase
                                            ELSE repos[worker.repo].phase
      BY <1>3, WritePhase
    <3> QED
      BY <1>3, <3>1
  <2> QED
    BY <1>1, <1>3, <2>1, NoneBecomesReady
<1>4. DOMAIN worker = {"at", "repo", "copy", "mode", "config", "awaits"}
  BY DEF ShapeInv
<1>5. Idle.at # "connecting"
  BY DEF Idle
<1>6. worker.at # "idle" => worker.repo \in Repos
  BY DEF ShapeInv
<1>7. CASE Connect
  <2>1. /\ UNCHANGED <<repos, prepared>>
        /\ worker'.config = IF location.exists THEN location.config ELSE 0
    BY <1>4, <1>7 DEF Connect
  <2> QED
    BY <1>1, <2>1 DEF CurrentInv
<1>8. CASE Connected
  <2>1. /\ worker.at = "connecting"
        /\ worker.config # 0
        /\ prepared' = [prepared EXCEPT ![worker.repo] = worker.config]
        /\ UNCHANGED repos \/ \E mutated : Write(mutated)
    BY <1>8 DEF Connected, Answers
  <2>2. location.exists /\ worker.config = location.config
    BY <2>1 DEF CurrentInv
  <2>3. worker.repo \in Repos
    BY <1>6, <2>1
  <2>4. \A r \in Repos \ {worker.repo} :
            repos'[r] = repos[r] /\ prepared'[r] = prepared[r]
    BY <2>1, <2>3, WritePhase DEF ShapeInv
  <2>5. prepared'[worker.repo] = location.config
    BY <2>1, <2>2, <2>3 DEF ShapeInv
  <2>6. worker'.at # "connecting"
    <3>1. \/ worker' = Idle
          \/ worker' = [worker EXCEPT !.at = "recall",
                                      !.copy = repos'[worker.repo]]
      BY <1>8 DEF Connected, Stop
    <3>2. CASE worker' = Idle
      BY <1>5, <3>2
    <3> QED
      BY <1>4, <3>1, <3>2
  <2> QED
    BY <1>1, <2>2, <2>4, <2>5, <2>6 DEF CurrentInv
<1>9. CASE NotConnected
  <2>1. /\ worker.repo \in Repos
        /\ worker' = Idle
        /\ UNCHANGED prepared
        /\ \/ UNCHANGED repos
           \/ Write([worker.copy EXCEPT !.phase = "NotReady"])
    BY <1>6, <1>9 DEF NotConnected, Stop
  <2> QED
    BY <1>2, <1>3, <1>5, <2>1, Mutated
<1>10. ASSUME NEW r \in Repos, TakeRepository(r)
       PROVE  CurrentInv'
  <2>1. /\ UNCHANGED <<repos, prepared>>
        /\ worker'.at \in {"recall", "connect"}
    BY <1>10 DEF TakeRepository
  <2> QED
    BY <1>2, <2>1
<1>11. CASE AwaitUnfinished \/ UnfinishedEnded \/ NotDue \/ StartJob
  <2>1. /\ UNCHANGED <<repos, prepared>>
        /\ worker'.at \in {"recallWait", "recall", "trim", "wait"}
    BY <1>4, <1>11 DEF AwaitUnfinished, UnfinishedEnded, NotDue, StartJob, GoTo
  <2> QED
    BY <1>2, <2>1
<1>12. CASE WaitFails \/ Trim
  <2>1. UNCHANGED <<repos, prepared>> /\ worker' = Idle
    BY <1>12 DEF WaitFails, Trim, Stop
  <2> QED
    BY <1>2, <1>5, <2>1
<1>13. CASE Recall
  <2>1. worker.repo \in Repos /\ UNCHANGED prepared
    BY <1>6, <1>13 DEF Recall
  <2>2. \/ UNCHANGED repos
        \/ \E recent, last : Write(Maintained(recent, last))
    BY <1>13 DEF Recall, Maintained
  <2>3. worker'.at # "connecting"
    <3>1. \/ worker' = Idle
          \/ worker' = [worker EXCEPT !.at = "due"]
          \/ worker' = [worker EXCEPT !.at = "due",
                                      !.copy = repos'[worker.repo]]
      BY <1>13 DEF Recall, GoTo
    <3>2. CASE worker' = Idle
      BY <1>5, <3>2
    <3> QED
      BY <1>4, <3>1, <3>2
  <2> QED
    BY <1>2, <1>3, <2>1, <2>2, <2>3, Mutated
<1>14. CASE StartFails \/ JobEnded
  <2>1. worker.repo \in Repos /\ UNCHANGED prepared
    BY <1>6, <1>14 DEF StartFails, JobEnded
  <2>2. \/ UNCHANGED repos
        \/ \E mutated : /\ Write(mutated)
                         /\ mutated.phase = worker.copy.phase
    <3>1. CASE StartFails
      <4>1. \/ UNCHANGED repos
            \/ \E recent : Write([worker.copy EXCEPT !.recent = recent])
        BY <3>1 DEF StartFails
      <4> QED
        BY <4>1, Mutated
    <3>2. CASE JobEnded
      <4>1. \/ UNCHANGED repos
            \/ \E recent, last : Write(Maintained(recent, last))
        BY <3>2 DEF JobEnded, Maintained
      <4> QED
        BY <4>1, Mutated
    <3> QED
      BY <1>14, <3>1, <3>2
  <2>3. worker'.at # "connecting"
    <3>1. \/ worker' = Idle
          \/ worker' = [worker EXCEPT !.at = "trim"]
      BY <1>14 DEF StartFails, JobEnded, GoTo, Stop
    <3>2. CASE worker' = Idle
      BY <1>5, <3>2
    <3> QED
      BY <1>4, <3>1, <3>2
  <2> QED
    BY <1>2, <1>3, <2>1, <2>2, <2>3
<1> QED
  BY <1>7, <1>8, <1>9, <1>10, <1>11, <1>12, <1>13, <1>14 DEF WorkerStep

\* Here no change is lost, or overtakes a connection.
LEMMA ElsewhereCurrent ==
    ASSUME Undisturbed, ShapeInv, CurrentInv, [Next]_vars, ~WorkerStep
    PROVE  CurrentInv'
<1>1. CASE Restart
  <2>1. /\ ~unseen /\ worker'.at # "connecting"
        /\ UNCHANGED <<location, repos, prepared>>
    BY <1>1 DEF Restart, Idle
  <2> QED
    BY <2>1 DEF CurrentInv
<1>2. CASE LocationStep
  <2>1. UNCHANGED <<repos, prepared, worker>>
    BY <1>2 DEF LocationStep, repoVars
  <2>2. DOMAIN location = {"exists", "config", "mode", "phase"}
    BY DEF ShapeInv
  <2>3. ASSUME unseen' = unseen, location'.exists = location.exists,
               location'.config = location.config
        PROVE  CurrentInv'
    BY <2>1, <2>3 DEF CurrentInv
  <2>4. CASE Tick \/ StoreStep
    BY <2>3, <2>4 DEF Tick, StoreStep, StoreFails, StoreRecovers
  <2>5. CASE ReconcileLocation
    BY <2>2, <2>3, <2>5 DEF ReconcileLocation
  <2>6. CASE UserStep /\ worker.at # "connecting"
    <3>1. worker.at # "connecting"
      BY <2>6
    <3>2. CASE ChangeMode
      <4>1. /\ \E m : location' = [location EXCEPT !.mode = m]
            /\ unseen' = (unseen \/ FALSE)
        BY <3>2 DEF ChangeMode, Change
      <4> QED
        BY <2>1, <2>2, <3>1, <4>1 DEF CurrentInv
    <3>3. CASE ChangeConfig \/ DeleteLocation
      <4>1. unseen'
        BY <3>3 DEF ChangeConfig, DeleteLocation, Change
      <4> QED
        BY <2>1, <3>1, <4>1 DEF CurrentInv
    <3>4. CASE RecreateLocation
      BY <2>1, <3>1, <3>4 DEF RecreateLocation, CurrentInv
    <3> QED
      BY <2>6, <3>2, <3>3, <3>4 DEF UserStep
  <2> QED
    BY <1>2, <2>4, <2>5, <2>6 DEF LocationStep
<1>3. CASE InvalidateRepositories
  <2>1. /\ UNCHANGED <<location, worker>>
        /\ \A r \in Repos : repos'[r].phase # "Ready"
    BY <1>3, Suspected DEF InvalidateRepositories
  <2> QED
    BY <2>1 DEF CurrentInv
<1>4. CASE UNCHANGED <<location, unseen, repos, prepared, worker>>
  BY <1>4 DEF CurrentInv
<1>5. CASE JobStep \/ UNCHANGED vars
  BY <1>4, <1>5 DEF JobStep, JobEnds, JobVanishes, NothingLocal, locationVars,
     repoVars, vars
<1>6. ASSUME NEW c \in Callers, EnsurerStep(c)
      PROVE  CurrentInv'
  BY <1>6, CreatedPhase, NoneBecomesReady
<1>7. CASE ScheduleStep \/ SnapshotStep
  BY <1>4, <1>7, ElsewhereLeaves DEF repoVars
<1> QED
  BY <1>1, <1>2, <1>3, <1>5, <1>6, <1>7 DEF Next, RepositoryStep

-----------------------------------------------------------------------------
(***************************************************************************)
(* Repositories: theorems.                                                 *)
(***************************************************************************)

LEMMA InitRepositories ==
    ASSUME Init
    PROVE  RepositoryInv
<1>1. ShapeInv
  <2>1. /\ DOMAIN location = {"exists", "config", "mode", "phase"}
        /\ location.config = 1
        /\ now = 0
    BY DEF Init, LocationsInit
  <2>2. /\ DOMAIN repos = Repos
        /\ \A r \in Repos : /\ "phase" \in DOMAIN repos[r]
                            /\ repos[r].phase \in RepoPhases
    BY DEF Init, RepositoriesInit, RepoPhases, Absent
  <2>3. prepared \in [Repos -> Nat] /\ tries \in [Repos -> Nat]
    BY DEF Init, RepositoriesInit
  <2>4. /\ DOMAIN worker = {"at", "repo", "copy", "mode", "config", "awaits"}
        /\ worker.at = "idle"
        /\ worker.config = 0
        /\ worker.copy = Absent
    BY DEF Init, RepositoriesInit, Idle
  <2>5. "phase" \in DOMAIN worker.copy
    BY <2>4 DEF Absent
  <2>6. location.config \in Nat \ {0} /\ now \in Nat /\ worker.config \in Nat
    BY <2>1, <2>4
  <2>7. worker.at # "idle" => worker.repo \in Repos
    BY <2>4
  <2> QED
    BY <2>1, <2>2, <2>3, <2>4, <2>5, <2>6, <2>7 DEF ShapeInv
<1>2. JobsInv
  <2>1. \A r \in Repos : OnlyLastRuns(jobs[r])
    <3>1. \A i \in DOMAIN <<>> : FALSE
      <4>1. <<>> \in Seq(AnyJob) /\ Len(<<>>) = 0
        BY EmptySeq DEF Init, RepositoriesInit
      <4>2. DOMAIN <<>> = 1 .. 0
        BY <4>1, LenProperties
      <4> QED
        BY <4>2
    <3> QED
      BY <3>1 DEF Init, RepositoriesInit, OnlyLastRuns
  <2>2. jobs \in [Repos -> Seq(AnyJob)]
    BY EmptySeq DEF Init, RepositoriesInit
  <2>3. worker.at # "due"
    BY DEF Init, RepositoriesInit, Idle
  <2> QED
    BY <2>1, <2>2, <2>3 DEF JobsInv
<1>3. CurrentInv
  BY DEF Init, LocationsInit, RepositoriesInit, CurrentInv, Absent, Idle
<1> QED
  BY <1>1, <1>2, <1>3 DEF RepositoryInv

LEMMA NextRepositories ==
    ASSUME RepositoryInv, [Next]_vars
    PROVE  RepositoryInv'
<1>1. ShapeInv' /\ JobsInv'
  BY WorkerShape, ElsewhereShape, WorkerJobs, ElsewhereJobs DEF RepositoryInv
<1>2. Undisturbed => CurrentInv'
  BY WorkerCurrent, ElsewhereCurrent DEF RepositoryInv
<1> QED
  BY <1>1, <1>2 DEF RepositoryInv

\* What is said of repositories and their jobs holds in every state, for any
\* number of repositories and calls, and whatever fails.
THEOREM RepositoriesInductive == Spec => []RepositoryInv
<1>1. Init => RepositoryInv
  BY InitRepositories
<1>2. RepositoryInv /\ [Next]_vars => RepositoryInv'
  BY NextRepositories
<1> QED
  BY <1>1, <1>2, PTL DEF Spec

\* Two maintenance jobs of one repository never run at the same time: the
\* controller starts one only after it has found none running, and nobody else
\* starts any.
THEOREM OneAtATime == Spec => []OneJobAtATime
<1>1. RepositoryInv => OneJobAtATime
  <2> SUFFICES ASSUME RepositoryInv, NEW r \in Repos
               PROVE  Cardinality(Running(r)) <= 1
    BY DEF OneJobAtATime
  <2>1. \A i \in Running(r) : i = Len(jobs[r])
    BY DEF RepositoryInv, JobsInv, OnlyLastRuns, Running
  <2>2. Running(r) = {} \/ Running(r) = {Len(jobs[r])}
    BY <2>1
  <2>3. Cardinality(Running(r)) = 0 \/ Cardinality(Running(r)) = 1
    BY <2>2, FS_EmptySet, FS_Singleton
  <2> QED
    BY <2>3
<1> QED
  BY <1>1, RepositoriesInductive, PTL

\* If no change of the location is lost with the process or overtakes a
\* connection that is under way, then a repository that is Ready while no
\* change waits for the event handler was connected with the location as it is:
\* no patch made from an older copy of the repository undoes the suspicion.
THEOREM Current == Undisturbed => (Spec => []ReadyIsCurrent)
<1> SUFFICES ASSUME Undisturbed
             PROVE  Spec => []ReadyIsCurrent
  OBVIOUS
<1>1. RepositoryInv => ReadyIsCurrent
  BY DEF RepositoryInv, CurrentInv, ReadyIsCurrent
<1> QED
  BY <1>1, RepositoriesInductive, PTL

-----------------------------------------------------------------------------
(***************************************************************************)
(* Schedules: the invariant.                                               *)
(***************************************************************************)

ABackup == [made : Nat \ {0}, expires : Nat,
            phase : {"New", "Queued", "InProgress", "Completed", "Gone"},
            label : {"", "NotFound", "Unavailable", "ReadOnly"},
            request : {"none", "New", "InProgress", "Processed"}]

\* What the schedule controller holds and the objects it made.
TimesInv ==
    /\ now \in Nat
    /\ DOMAIN schedule = {"paused", "skip", "last", "skipped"}
    /\ schedule.last \in Nat
    /\ schedule.skipped \in Nat
    /\ DOMAIN scheduler = {"at", "since"}
    /\ scheduler.since \in Nat
    /\ backups \in Seq(ABackup)

\* Every backup was made no later than the last one that is recorded, or that
\* is about to be; and that was not in the future.
MadeInv ==
    /\ schedule.last <= Instant
    /\ scheduler.since <= Instant
    /\ scheduler.at = "submitted" => schedule.last <= scheduler.since
    /\ \A i \in DOMAIN backups :
           backups[i].made <= IF scheduler.at = "submitted"
                              THEN scheduler.since ELSE schedule.last

ScheduleInv == TimesInv /\ (SubmissionsRecorded => MadeInv)

-----------------------------------------------------------------------------
(***************************************************************************)
(* Schedules: every step keeps the invariant.                              *)
(***************************************************************************)

\* The later of two instants has the later next run.
LEMMA RunsInOrder ==
    ASSUME NEW s \in Nat, NEW t \in Nat, s <= t
    PROVE  NextRun(s) \in Nat /\ NextRun(s) <= NextRun(t)
<1>1. Period \in Nat /\ Period > 0
  BY SchedulesAssumption
<1> DEFINE m == s \div Period
           n == t \div Period
<1>2. /\ m \in Nat /\ n \in Nat
      /\ Period * m <= s
      /\ t < Period * (n + 1)
  BY <1>1
<1> HIDE DEF m, n
<1>3. m <= n
  <2> SUFFICES ASSUME n + 1 <= m PROVE FALSE
    BY <1>2
  <2>1. Period * (n + 1) <= Period * m
    BY <1>1, <1>2
  <2> QED
    BY <1>1, <1>2, <2>1
<1>4. (m + 1) * Period \in Nat /\ (m + 1) * Period <= (n + 1) * Period
  BY <1>1, <1>2, <1>3
<1> QED
  BY <1>4 DEF NextRun, m, n

\* A backup moves on; when it was made does not change.
LEMMA MoveKeepsTime ==
    ASSUME TimesInv, NEW i \in DOMAIN backups, NEW b \in ABackup, Move(i, b),
           b.made = backups[i].made
    PROVE  /\ TimesInv'
           /\ UNCHANGED <<now, schedule, scheduler>>
           /\ Len(backups') = Len(backups)
           /\ DOMAIN backups' = DOMAIN backups
           /\ \A j \in DOMAIN backups : backups'[j].made = backups[j].made
<1>1. backups \in Seq(ABackup) /\ i \in 1 .. Len(backups)
  BY LenProperties DEF TimesInv
<1>2. backups' = [backups EXCEPT ![i] = b]
  BY DEF Move
<1>3. /\ backups' \in Seq(ABackup)
      /\ Len(backups') = Len(backups)
      /\ \A j \in 1 .. Len(backups) :
             backups'[j] = IF j = i THEN b ELSE backups[j]
  BY <1>1, <1>2, ExceptSeq
<1>4. /\ DOMAIN backups = 1 .. Len(backups)
      /\ DOMAIN backups' = 1 .. Len(backups')
  BY <1>1, <1>3, LenProperties
<1>5. UNCHANGED <<now, schedule, scheduler>>
  BY DEF Move
<1> QED
  BY <1>3, <1>4, <1>5 DEF TimesInv

\* What the operations write to a backup.
LEMMA MovedBackup ==
    ASSUME TimesInv, NEW i \in DOMAIN backups,
           BackupGoesOn(i) \/ CollectExpired(i) \/ DeletionStep(i)
    PROVE  \E b \in ABackup : Move(i, b) /\ b.made = backups[i].made
<1> DEFINE old == backups[i]
<1>1. old \in ABackup
  BY LenProperties, ElementOfSeq DEF TimesInv
<1>2. CASE BackupGoesOn(i)
  <2>1. Instant + TTL \in Nat
    BY SchedulesAssumption DEF Instant, TimesInv
  <2> DEFINE end == Instant + TTL
  <2>2. end \in Nat
    BY <2>1
  <2>3. \/ Move(i, [old EXCEPT !.phase = "Queued"])
        \/ Move(i, [old EXCEPT !.phase = "InProgress", !.expires = end])
        \/ Move(i, [old EXCEPT !.phase = "Completed"])
    BY <1>2 DEF BackupGoesOn
  <2> HIDE DEF end, old
  <2>4. /\ [old EXCEPT !.phase = "Queued"] \in ABackup
        /\ [old EXCEPT !.phase = "Queued"].made = old.made
    BY <1>1 DEF ABackup
  <2>5. /\ [old EXCEPT !.phase = "InProgress", !.expires = end] \in ABackup
        /\ [old EXCEPT !.phase = "InProgress", !.expires = end].made = old.made
    BY <1>1, <2>2 DEF ABackup
  <2>6. /\ [old EXCEPT !.phase = "Completed"] \in ABackup
        /\ [old EXCEPT !.phase = "Completed"].made = old.made
    BY <1>1 DEF ABackup
  <2> QED
    BY <2>3, <2>4, <2>5, <2>6 DEF old
<1>3. CASE CollectExpired(i)
  <2> DEFINE labelled == [old EXCEPT !.label = Unfit]
             asked == [labelled EXCEPT !.request = "New"]
  <2>1. Move(i, labelled) \/ Move(i, asked)
    BY <1>3 DEF CollectExpired
  <2>2. Unfit \in {"", "NotFound", "Unavailable", "ReadOnly"}
    BY DEF Unfit
  <2> HIDE DEF old
  <2>3. labelled \in ABackup /\ labelled.made = old.made
    BY <1>1, <2>2 DEF ABackup
  <2> HIDE DEF labelled
  <2>4. asked \in ABackup /\ asked.made = old.made
    BY <2>3 DEF ABackup
  <2> QED
    BY <2>1, <2>3, <2>4 DEF old
<1>4. CASE DeletionStep(i)
  <2>1. \/ \E r \in {"none", "InProgress", "Processed"} :
               Move(i, [old EXCEPT !.request = r])
        \/ Move(i, [old EXCEPT !.phase = "Gone", !.request = "none"])
    BY <1>4 DEF DeletionStep, TakeRequest, FinishRequest, RemoveRequest
  <2> HIDE DEF old
  <2>2. ASSUME NEW r \in {"none", "InProgress", "Processed"}
        PROVE  /\ [old EXCEPT !.request = r] \in ABackup
               /\ [old EXCEPT !.request = r].made = old.made
    BY <1>1 DEF ABackup
  <2>3. /\ [old EXCEPT !.phase = "Gone", !.request = "none"] \in ABackup
        /\ [old EXCEPT !.phase = "Gone", !.request = "none"].made = old.made
    BY <1>1 DEF ABackup
  <2> QED
    BY <2>1, <2>2, <2>3 DEF old
<1> QED
  BY <1>2, <1>3, <1>4

\* A submission comes after all the backups there are.
LEMMA Submitted ==
    ASSUME TimesInv, backups' = Append(backups, Submission)
    PROVE  /\ backups' \in Seq(ABackup)
           /\ DOMAIN backups' = 1 .. Len(backups) + 1
           /\ \A i \in DOMAIN backups : backups'[i] = backups[i]
           /\ backups'[Len(backups) + 1].made = Instant
<1>1. backups \in Seq(ABackup)
  BY DEF TimesInv
<1>2. Instant \in Nat \ {0}
  BY DEF TimesInv, Instant
<1>3. Submission \in ABackup /\ Submission.made = Instant
  BY <1>2 DEF Submission, ABackup
<1> HIDE DEF Submission
<1>4. /\ backups' \in Seq(ABackup)
      /\ Len(backups') = Len(backups) + 1
      /\ \A i \in 1 .. Len(backups) : backups'[i] = backups[i]
      /\ backups'[Len(backups) + 1] = Submission
  BY <1>1, <1>3, AppendProperties
<1>5. /\ DOMAIN backups = 1 .. Len(backups)
      /\ DOMAIN backups' = 1 .. Len(backups')
  BY <1>1, <1>4, LenProperties
<1> QED
  BY <1>3, <1>4, <1>5

\* The times of the schedule, as the controller writes them.
LEMMA ValidatedTimes ==
    ASSUME TimesInv
    PROVE  /\ DOMAIN Validated = {"paused", "skip", "last", "skipped"}
           /\ Validated.last = schedule.last
           /\ Validated.skipped \in Nat
<1>1. Instant \in Nat
  BY DEF TimesInv, Instant
<1> QED
  BY <1>1 DEF TimesInv, Validated

\* A run is due only after the next run that follows whatever was submitted or
\* skipped last.
LEMMA DueAfter ==
    ASSUME TimesInv, IsDue(Validated)
    PROVE  /\ Instant > NextRun(Validated.skipped)
           /\ \A t \in Nat \ {0} : t <= schedule.last => Instant > NextRun(t)
<1> DEFINE last == IF schedule.last # 0 THEN schedule.last ELSE Created
           skipped == Validated.skipped
           run == IF last > skipped THEN last ELSE skipped
<1>1. /\ schedule.last \in Nat
      /\ last \in Nat
      /\ skipped \in Nat
      /\ Instant \in Nat
  BY ValidatedTimes DEF TimesInv, Created, Instant
<1>2. Instant > NextRun(run)
  BY ValidatedTimes DEF IsDue, LastRun, Later
<1>3. \A t \in Nat \ {0} : t <= schedule.last => t <= last
  BY <1>1
<1> HIDE DEF last, skipped
<1>4. run \in Nat /\ skipped <= run /\ last <= run
  BY <1>1
<1> HIDE DEF run
<1>5. ASSUME NEW t \in Nat, t <= run
      PROVE  Instant > NextRun(t)
  <2>1. NextRun(t) \in Nat /\ NextRun(t) <= NextRun(run) /\ NextRun(run) \in Nat
    BY <1>4, <1>5, RunsInOrder
  <2> QED
    BY <1>1, <1>2, <2>1
<1> QED
  BY <1>1, <1>3, <1>4, <1>5 DEF skipped

\* The steps of schedules keep the invariant.
LEMMA ScheduleKeeps ==
    ASSUME ScheduleInv, ScheduleStep
    PROVE  ScheduleInv'
<1> USE DEF ScheduleInv
<1>1. ASSUME UNCHANGED <<now, scheduler, backups>>,
             schedule'.last = schedule.last,
             schedule'.skipped \in Nat,
             DOMAIN schedule' = {"paused", "skip", "last", "skipped"}
      PROVE  ScheduleInv'
  BY <1>1 DEF TimesInv, MadeInv, Instant
<1>2. CASE ChangeSchedule
  <2>1. /\ UNCHANGED <<now, scheduler, backups>>
        /\ schedule'.last = schedule.last
        /\ schedule'.skipped = schedule.skipped
        /\ DOMAIN schedule' = {"paused", "skip", "last", "skipped"}
    BY <1>2 DEF ChangeSchedule, TimesInv
  <2> QED
    BY <1>1, <2>1 DEF TimesInv
<1>3. CASE EnqueueSchedule
  <2>1. /\ UNCHANGED <<now, schedule, backups>>
        /\ DOMAIN scheduler' = {"at", "since"}
        /\ scheduler.at = "idle" /\ scheduler'.at = "queued"
        /\ scheduler'.since = scheduler.since
    BY <1>3 DEF EnqueueSchedule, locationVars, TimesInv
  <2> QED
    BY <2>1 DEF TimesInv, MadeInv, Instant
<1>4. CASE ReconcileSchedule
  <2>1. scheduler.at = "queued" /\ now' = now
    BY <1>4 DEF ReconcileSchedule, NothingLocal
  <2>2. /\ DOMAIN Validated = {"paused", "skip", "last", "skipped"}
        /\ Validated.last = schedule.last
        /\ Validated.skipped \in Nat
    BY ValidatedTimes
  <2>3. \/ UNCHANGED <<schedule, scheduler, backups>>
        \/ schedule' = Validated /\ UNCHANGED <<scheduler, backups>>
        \/ /\ schedule' = Validated
           /\ scheduler' = [scheduler EXCEPT !.at = "idle"]
           /\ UNCHANGED backups
        \/ /\ schedule' = Validated
           /\ scheduler' = [at |-> "submitted", since |-> Instant]
           /\ backups' = Append(backups, Submission)
    BY <1>4 DEF ReconcileSchedule
  <2>4. CASE UNCHANGED <<schedule, scheduler, backups>>
    BY <1>1, <2>1, <2>4 DEF TimesInv
  <2>5. CASE schedule' = Validated /\ UNCHANGED <<scheduler, backups>>
    BY <1>1, <2>1, <2>2, <2>5
  <2>6. CASE /\ schedule' = Validated
             /\ scheduler' = [scheduler EXCEPT !.at = "idle"]
             /\ UNCHANGED backups
    <3>1. /\ DOMAIN scheduler' = {"at", "since"}
          /\ scheduler'.at = "idle"
          /\ scheduler'.since = scheduler.since
      BY <2>6 DEF TimesInv
    <3> QED
      BY <2>1, <2>2, <2>6, <3>1 DEF TimesInv, MadeInv, Instant
  <2>7. CASE /\ schedule' = Validated
             /\ scheduler' = [at |-> "submitted", since |-> Instant]
             /\ backups' = Append(backups, Submission)
    <3>1. /\ backups' \in Seq(ABackup)
          /\ DOMAIN backups' = 1 .. Len(backups) + 1
          /\ \A i \in DOMAIN backups : backups'[i] = backups[i]
          /\ backups'[Len(backups) + 1].made = Instant
      BY <2>7, Submitted
    <3>2. /\ DOMAIN scheduler' = {"at", "since"}
          /\ scheduler'.at = "submitted"
          /\ scheduler'.since = Instant
          /\ Instant' = Instant
          /\ Instant \in Nat
      BY <2>1, <2>7 DEF TimesInv, Instant
    <3>3. TimesInv'
      BY <2>1, <2>2, <2>7, <3>1, <3>2 DEF TimesInv
    <3>4. ASSUME MadeInv
          PROVE  MadeInv'
      <4>1. schedule'.last <= Instant
        BY <2>2, <2>7, <3>4 DEF MadeInv
      <4>2. ASSUME NEW i \in DOMAIN backups'
            PROVE  backups'[i].made <= Instant
        <5>1. CASE i = Len(backups) + 1
          BY <3>1, <3>2, <5>1
        <5>2. CASE i \in DOMAIN backups
          <6>1. backups'[i].made = backups[i].made
            BY <3>1, <5>2
          <6>2. backups[i].made <= schedule.last
            BY <2>1, <3>4, <5>2 DEF MadeInv
          <6>3. backups[i] \in ABackup
            BY <5>2, LenProperties, ElementOfSeq DEF TimesInv
          <6>4. backups[i].made \in Nat
            BY <6>3 DEF ABackup
          <6>5. schedule.last \in Nat /\ schedule.last <= Instant
            BY <3>4 DEF MadeInv, TimesInv
          <6> QED
            BY <3>2, <6>1, <6>2, <6>4, <6>5
        <5>3. i = Len(backups) + 1 \/ i \in DOMAIN backups
          <6>1. DOMAIN backups = 1 .. Len(backups) /\ Len(backups) \in Nat
            BY LenProperties DEF TimesInv
          <6> QED
            BY <3>1, <6>1
        <5> QED
          BY <5>1, <5>2, <5>3
      <4>3. Instant <= Instant
        BY <3>2
      <4> QED
        BY <3>2, <4>1, <4>2, <4>3 DEF MadeInv
    <3> QED
      BY <3>3, <3>4
  <2> QED
    BY <2>3, <2>4, <2>5, <2>6, <2>7
<1>5. CASE RecordSubmission
  <2>1. scheduler.at = "submitted" /\ UNCHANGED <<now, backups>>
    BY <1>5 DEF RecordSubmission, NothingLocal
  <2>2. PICK noted \in {TRUE} \cup {SubmissionsRecorded} :
            /\ schedule' = [schedule EXCEPT
                                !.last = IF noted THEN scheduler.since ELSE @]
            /\ scheduler' = [at |-> IF noted THEN "idle" ELSE "queued",
                             since |-> 0]
    BY <1>5 DEF RecordSubmission
  <2>3. /\ DOMAIN schedule' = {"paused", "skip", "last", "skipped"}
        /\ schedule'.last = IF noted THEN scheduler.since ELSE schedule.last
        /\ schedule'.skipped = schedule.skipped
    BY <2>2 DEF TimesInv
  <2>4. /\ DOMAIN scheduler' = {"at", "since"}
        /\ scheduler'.since = 0
        /\ scheduler'.at # "submitted"
    BY <2>2
  <2>5. TimesInv'
    BY <2>1, <2>3, <2>4 DEF TimesInv
  <2>6. ASSUME SubmissionsRecorded, MadeInv
        PROVE  MadeInv'
    <3>1. schedule'.last = scheduler.since
      BY <2>2, <2>3, <2>6
    <3>2. Instant' = Instant /\ 0 <= Instant
      BY <2>1 DEF Instant, TimesInv
    <3> QED
      BY <2>1, <2>4, <2>6, <3>1, <3>2 DEF MadeInv
  <2> QED
    BY <2>5, <2>6
<1>6. ASSUME NEW i \in DOMAIN backups,
             BackupGoesOn(i) \/ CollectExpired(i) \/ DeletionStep(i)
      PROVE  ScheduleInv'
  <2>1. /\ TimesInv'
        /\ UNCHANGED <<now, schedule, scheduler>>
        /\ DOMAIN backups' = DOMAIN backups
        /\ \A j \in DOMAIN backups : backups'[j].made = backups[j].made
    BY <1>6, MovedBackup, MoveKeepsTime
  <2> QED
    BY <2>1 DEF MadeInv, Instant
<1> QED
  BY <1>2, <1>3, <1>4, <1>5, <1>6 DEF ScheduleStep, SchedulerStep

\* Time goes by, and the server restarts.
LEMMA ScheduleElsewhere ==
    ASSUME ScheduleInv, [Next]_vars, ~ScheduleStep
    PROVE  /\ ScheduleInv'
           /\ UNCHANGED <<schedule, backups>>
<1> USE DEF ScheduleInv
<1>1. CASE UNCHANGED <<now, schedule, scheduler, backups>>
  BY <1>1 DEF TimesInv, MadeInv, Instant
<1>2. CASE Restart
  <2>1. /\ UNCHANGED <<now, schedule, backups>>
        /\ scheduler' = [at |-> "idle", since |-> 0]
        /\ SubmissionsRecorded => scheduler.at # "submitted"
    BY <1>2 DEF Restart
  <2>2. /\ DOMAIN scheduler' = {"at", "since"}
        /\ scheduler'.since = 0
        /\ scheduler'.at = "idle"
    BY <2>1
  <2>3. Instant' = Instant /\ 0 <= Instant
    BY <2>1 DEF Instant, TimesInv
  <2>4. TimesInv'
    BY <2>1, <2>2 DEF TimesInv
  <2>5. SubmissionsRecorded /\ MadeInv => MadeInv'
    BY <2>1, <2>2, <2>3 DEF MadeInv
  <2> QED
    BY <2>1, <2>4, <2>5
<1>3. CASE LocationStep
  <2>1. UNCHANGED <<schedule, scheduler, backups>>
    BY <1>3 DEF LocationStep, scheduleVars
  <2>2. now' = now \/ now' = now + 1
    BY <1>3 DEF LocationStep, Tick, UserStep, ChangeConfig, ChangeMode,
       DeleteLocation, RecreateLocation, Change, StoreStep, StoreFails,
       StoreRecovers, ReconcileLocation
  <2>3. now' \in Nat /\ now <= now'
    BY <2>2 DEF TimesInv
  <2>4. TimesInv'
    BY <2>1, <2>3 DEF TimesInv
  <2>5. \A t \in Nat : t <= Instant => t <= Instant'
    <3>1. now \in Nat
      BY DEF TimesInv
    <3>2. \A a, b, t \in Nat : a <= b /\ t <= a + 1 => t <= b + 1
      OBVIOUS
    <3>3. Instant = now + 1 /\ Instant' = now' + 1
      BY DEF Instant
    <3> QED
      BY <2>3, <3>1, <3>2, <3>3
  <2>6. MadeInv => MadeInv'
    BY <2>1, <2>5 DEF MadeInv, TimesInv
  <2> QED
    BY <2>1, <2>4, <2>6
<1>4. CASE RepositoryStep
  <2>1. UNCHANGED <<schedule, scheduler, backups>>
    BY <1>4 DEF RepositoryStep, scheduleVars
  <2>2. now' = now
    BY <1>4 DEF RepositoryStep, InvalidateRepositories, WorkerStep,
       TakeRepository, Connect, Connected, NotConnected, AwaitUnfinished,
       UnfinishedEnded, Recall, NotDue, StartJob, StartFails, JobEnded,
       WaitFails, Trim, JobStep, JobEnds, JobVanishes, NothingLocal,
       locationVars, EnsurerStep, Ensure, Lock, CreateRepository, Poll,
       PollTimesOut, ensurerVars
  <2> QED
    BY <1>1, <2>1, <2>2
<1>5. CASE SnapshotStep
  <2>1. UNCHANGED <<schedule, scheduler, backups>>
    BY <1>5 DEF SnapshotStep, scheduleVars
  <2> QED
    BY <1>1, <1>5, <2>1, ElsewhereLeaves
<1>6. CASE UNCHANGED vars
  BY <1>1, <1>6 DEF vars, locationVars, scheduleVars
<1> QED
  BY <1>2, <1>3, <1>4, <1>5, <1>6 DEF Next

-----------------------------------------------------------------------------
(***************************************************************************)
(* Schedules: theorems.                                                    *)
(***************************************************************************)

LEMMA InitSchedule == Init => ScheduleInv
<1> SUFFICES ASSUME Init PROVE ScheduleInv
  OBVIOUS
<1>1. /\ now = 0
      /\ DOMAIN schedule = {"paused", "skip", "last", "skipped"}
      /\ schedule.last = 0
      /\ schedule.skipped = 0
  BY DEF Init, LocationsInit, SchedulesInit
<1>2. scheduler = [at |-> "idle", since |-> 0] /\ backups = <<>>
  BY DEF Init, SchedulesInit
<1>3. /\ DOMAIN scheduler = {"at", "since"}
      /\ scheduler.at = "idle"
      /\ scheduler.since = 0
  BY <1>2
<1>4. /\ backups \in Seq(ABackup)
      /\ \A i \in DOMAIN backups : FALSE
  <2>1. backups \in Seq(ABackup) /\ Len(backups) = 0
    BY <1>2, EmptySeq
  <2>2. DOMAIN backups = 1 .. 0
    BY <2>1, LenProperties
  <2> QED
    BY <2>1, <2>2
<1>5. TimesInv
  BY <1>1, <1>3, <1>4 DEF TimesInv
<1>6. MadeInv
  BY <1>1, <1>3, <1>4 DEF MadeInv, Instant
<1> QED
  BY <1>5, <1>6 DEF ScheduleInv

\* The times that the schedule and its backups carry are in order in every
\* state.
THEOREM SchedulesInductive == Spec => []ScheduleInv
<1>1. ScheduleInv /\ [Next]_vars => ScheduleInv'
  BY ScheduleKeeps, ScheduleElsewhere
<1> QED
  BY <1>1, InitSchedule, PTL DEF Spec

\* A backup is submitted only for a run that comes after the next one that
\* follows every earlier backup, and after the run that was skipped last: one
\* run never makes two backups, provided that a submission is recorded.
THEOREM OnePerRun == SubmissionsRecorded => (Spec => OneBackupPerRun)
<1> SUFFICES ASSUME SubmissionsRecorded
             PROVE  Spec => OneBackupPerRun
  OBVIOUS
<1> DEFINE Submits == Len(backups') > Len(backups)
           InTime == /\ Instant > NextRun(schedule'.skipped)
                     /\ \A i \in DOMAIN backups :
                            Instant > NextRun(backups[i].made)
<1>1. ASSUME ScheduleInv, [Next]_vars, Submits
      PROVE  InTime
  <2>1. Len(backups) \in Nat
    BY <1>1, LenProperties DEF ScheduleInv, TimesInv
  <2>2. ~UNCHANGED backups /\ Len(backups') # Len(backups)
    BY <1>1, <2>1
  <2>3. ScheduleStep
    BY <1>1, <2>2, ScheduleElsewhere
  <2>4. CASE ReconcileSchedule
    <3>1. scheduler.at = "queued" /\ schedule' = Validated /\ IsDue(Validated)
      BY <2>2, <2>4 DEF ReconcileSchedule
    <3>2. \A i \in DOMAIN backups :
              /\ backups[i].made \in Nat \ {0}
              /\ backups[i].made <= schedule.last
      <4>1. \A i \in DOMAIN backups : backups[i] \in ABackup
        BY <1>1, LenProperties, ElementOfSeq DEF ScheduleInv, TimesInv
      <4> QED
        BY <1>1, <3>1, <4>1 DEF ScheduleInv, MadeInv, ABackup
    <3> QED
      BY <1>1, <3>1, <3>2, DueAfter DEF ScheduleInv
  <2>5. ASSUME NEW i \in DOMAIN backups,
               BackupGoesOn(i) \/ CollectExpired(i) \/ DeletionStep(i)
        PROVE  FALSE
    BY <1>1, <2>2, <2>5, MovedBackup, MoveKeepsTime DEF ScheduleInv
  <2>6. CASE ChangeSchedule \/ EnqueueSchedule \/ RecordSubmission
    BY <2>2, <2>6 DEF ChangeSchedule, EnqueueSchedule, RecordSubmission
  <2> QED
    BY <2>3, <2>4, <2>5, <2>6 DEF ScheduleStep, SchedulerStep
<1>2. ScheduleInv /\ [Next]_vars => [Submits => InTime]_vars
  BY <1>1
<1> QED
  BY <1>2, SchedulesInductive, PTL DEF Spec, OneBackupPerRun
=============================================================================
