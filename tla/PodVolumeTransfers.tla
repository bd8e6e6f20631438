------------------------- MODULE PodVolumeTransfers --------------------------
(***************************************************************************)
(* The pod volume backup and the pod volume restore controller. Only the   *)
(* node of the pod whose volume is backed up processes a PodVolumeBackup;  *)
(* the node on whose cache the target pod is, and runs the container that  *)
(* waits for the restore, accepts a PodVolumeRestore and makes it its own. *)
(* Both accept with a retried update, whatever the phase that it reads. A  *)
(* target pod that can not wait any more fails its request.                *)
(***************************************************************************)
EXTENDS DataMoverController

(* The pod volume backup controller. *)

PodVolumeBackup(r) == kind[r] = "PodVolumeBackup"

OwnsPodVolumeBackup(n, r) == home[r] = n

ReconcilePodVolumeBackup(n, r) ==
    /\ PodVolumeBackup(r)
    /\ \/ ReconcileFinalizer(n, r)
       \/ ReconcileCancelDelay(n, r)
       \/ CancelNew(n, r)

BeginAcceptPodVolumeBackup(n, r) ==
    /\ PodVolumeBackup(r)
    /\ home[r] = n
    /\ BeginAccept(n, r)

AcceptPodVolumeBackup(n, r) ==
    /\ PodVolumeBackup(r)
    /\ FinishAccept(n, r, InPhase(req[r], "Accepted"))

ExposePodVolumeBackup(n, r) == PodVolumeBackup(r) /\ Expose(n, r)

ReconcilePodVolumeBackupAccepted(n, r) == PodVolumeBackup(r) /\ ReconcileAccepted(n, r)

FinishCancelPodVolumeBackup(n, r) == PodVolumeBackup(r) /\ FinishCleaning(n, r)

StartPodVolumeBackup(n, r) ==
    /\ PodVolumeBackup(r)
    /\ \/ OwnsPodVolumeBackup(n, r) /\ ReconcilePrepared(n, r)
       \/ FinishStarting(n, r)

StopPodVolumeBackup(n, r) ==
    /\ PodVolumeBackup(r)
    /\ \/ OwnsPodVolumeBackup(n, r) /\ ReconcileInProgress(n, r)
       \/ FinishStopping(n, r)

FindPodVolumeBackupForPod(n, r) ==
    PodVolumeBackup(r) /\ (FindForPod(n, r) \/ FinishMarking(n, r))

PreparePodVolumeBackup(n, r) ==
    PodVolumeBackup(r) /\ FinishPreparing(n, r, InPhase(req[r], "Prepared"))

UpdatePodVolumeBackupToFailed(n, r) == PodVolumeBackup(r) /\ UpdateStatusToFailed(n, r)

OnPodVolumeBackupCompleted(n, r) == PodVolumeBackup(r) /\ OnCompletedCallback(n, r)

OnPodVolumeBackupFailed(n, r) == PodVolumeBackup(r) /\ OnFailedCallback(n, r)

OnPodVolumeBackupCancelled(n, r) == PodVolumeBackup(r) /\ OnCancelledCallback(n, r)

CanceledPodVolumeBackup(n, r) == PodVolumeBackup(r) /\ FinishCancelled(n, r)

UpdatePodVolumeBackup(n, r) == PodVolumeBackup(r) /\ FinishCallback(n, r)

PodVolumeBackupsOf(n) == {r \in Requests : PodVolumeBackup(r) /\ home[r] = n}

ResumePodVolumeBackup(n, r) == PodVolumeBackup(r) /\ Resume(n, r)

PodVolumeBackupWorker(n, r) ==
    \/ ReconcilePodVolumeBackup(n, r)
    \/ BeginAcceptPodVolumeBackup(n, r) \/ AcceptPodVolumeBackup(n, r)
    \/ ExposePodVolumeBackup(n, r)
    \/ ReconcilePodVolumeBackupAccepted(n, r)
    \/ FinishCancelPodVolumeBackup(n, r)
    \/ StartPodVolumeBackup(n, r)
    \/ StopPodVolumeBackup(n, r)
    \/ UpdatePodVolumeBackupToFailed(n, r)
    \/ CanceledPodVolumeBackup(n, r)

PodVolumeBackupHandler(n, r) == FindPodVolumeBackupForPod(n, r) \/ PreparePodVolumeBackup(n, r)

PodVolumeBackupWatcher(n, r) ==
    \/ OnPodVolumeBackupCompleted(n, r)
    \/ OnPodVolumeBackupFailed(n, r)
    \/ OnPodVolumeBackupCancelled(n, r)
    \/ UpdatePodVolumeBackup(n, r)

-----------------------------------------------------------------------------
(* The pod volume restore controller. *)

PodVolumeRestore(r) == kind[r] = "PodVolumeRestore"

OwnsPodVolumeRestore(n, r) == cache[n][r].node = n

ReconcilePodVolumeRestore(n, r) ==
    /\ PodVolumeRestore(r)
    /\ \/ ReconcileFinalizer(n, r)
       \/ ReconcileCancelDelay(n, r)
       \/ CancelNew(n, r)

ShouldNotProcess(n, r) ==
    /\ PodVolumeRestore(r)
    /\ home[r] = n
    /\ Read(n, r, "New")
    /\ ~cache[n][r].cancel
    /\ ErrorOut(n, r)

BeginAcceptPodVolumeRestore(n, r) ==
    /\ PodVolumeRestore(r)
    /\ home[r] = n
    /\ BeginAccept(n, r)

AcceptPodVolumeRestore(n, r) ==
    /\ PodVolumeRestore(r)
    /\ FinishAccept(n, r, InPhaseOn(req[r], "Accepted", n))

ExposePodVolumeRestore(n, r) == PodVolumeRestore(r) /\ Expose(n, r)

ReconcilePodVolumeRestoreAccepted(n, r) == PodVolumeRestore(r) /\ ReconcileAccepted(n, r)

FinishCancelPodVolumeRestore(n, r) == PodVolumeRestore(r) /\ FinishCleaning(n, r)

StartPodVolumeRestore(n, r) ==
    /\ PodVolumeRestore(r)
    /\ \/ OwnsPodVolumeRestore(n, r) /\ ReconcilePrepared(n, r)
       \/ FinishStarting(n, r)

StopPodVolumeRestore(n, r) ==
    /\ PodVolumeRestore(r)
    /\ \/ OwnsPodVolumeRestore(n, r) /\ ReconcileInProgress(n, r)
       \/ FinishStopping(n, r)

FindPodVolumeRestoreForPod(n, r) ==
    PodVolumeRestore(r) /\ (FindForPod(n, r) \/ FinishMarking(n, r))

PreparePodVolumeRestore(n, r) ==
    PodVolumeRestore(r) /\ FinishPreparing(n, r, InPhase(req[r], "Prepared"))

UpdatePodVolumeRestoreToFailed(n, r) == PodVolumeRestore(r) /\ UpdateStatusToFailed(n, r)

OnPodVolumeRestoreCompleted(n, r) == PodVolumeRestore(r) /\ OnCompletedCallback(n, r)

OnPodVolumeRestoreFailed(n, r) == PodVolumeRestore(r) /\ OnFailedCallback(n, r)

OnPodVolumeRestoreCancelled(n, r) == PodVolumeRestore(r) /\ OnCancelledCallback(n, r)

CanceledPodVolumeRestore(n, r) == PodVolumeRestore(r) /\ FinishCancelled(n, r)

UpdatePodVolumeRestore(n, r) == PodVolumeRestore(r) /\ FinishCallback(n, r)

PodVolumeRestoresOf(n) == {r \in Requests : PodVolumeRestore(r) /\ req[r].node = n}

ResumePodVolumeRestore(n, r) == PodVolumeRestore(r) /\ Resume(n, r)

PodVolumeRestoreWorker(n, r) ==
    \/ ReconcilePodVolumeRestore(n, r)
    \/ BeginAcceptPodVolumeRestore(n, r) \/ AcceptPodVolumeRestore(n, r) \/ ShouldNotProcess(n, r)
    \/ ExposePodVolumeRestore(n, r)
    \/ ReconcilePodVolumeRestoreAccepted(n, r)
    \/ FinishCancelPodVolumeRestore(n, r)
    \/ StartPodVolumeRestore(n, r)
    \/ StopPodVolumeRestore(n, r)
    \/ UpdatePodVolumeRestoreToFailed(n, r)
    \/ CanceledPodVolumeRestore(n, r)

PodVolumeRestoreHandler(n, r) == FindPodVolumeRestoreForPod(n, r) \/ PreparePodVolumeRestore(n, r)

PodVolumeRestoreWatcher(n, r) ==
    \/ OnPodVolumeRestoreCompleted(n, r)
    \/ OnPodVolumeRestoreFailed(n, r)
    \/ OnPodVolumeRestoreCancelled(n, r)
    \/ UpdatePodVolumeRestore(n, r)
=============================================================================
