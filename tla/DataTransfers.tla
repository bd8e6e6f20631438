---------------------------- MODULE DataTransfers ----------------------------
(***************************************************************************)
(* The data upload and the data download controller. Any node accepts a    *)
(* new request, and the API server decides which; the node of the hosting  *)
(* pod makes it its own when the pod runs. When the data of a DataDownload *)
(* was moved the volume is still to be rebound to its target, and when     *)
(* that fails the request is left as it is.                                *)
(***************************************************************************)
EXTENDS DataMoverController

(***************************************************************************)
(* RebindVolume of the generic restore exposer: the volume into which the  *)
(* data was moved is taken from the restore PVC and given to the target    *)
(* PVC of the user.  It runs in the callback of the watcher, in many       *)
(* calls to the API server each of which may fail or be the last before a  *)
(* crash.  When the volume modes of the two PVCs differ, the persistent    *)
(* volume object is created anew; otherwise it is bound anew.              *)
(***************************************************************************)
CONSTANT RebindMayFail   \* BOOLEAN: calls to the API server may fail

ASSUME RebindAssumption == RebindMayFail \in BOOLEAN

VARIABLES
    changesMode,  \* changesMode[r]: the target of r has another volume mode
    rebind        \* rebind[r]: the local state of the callback that rebinds

rebindVars == <<changesMode, rebind>>

(***************************************************************************)
(* The next step, whether the deferred function has a retained volume to   *)
(* delete, and the reclaim policy that was read (org: it was Retain).      *)
(***************************************************************************)
RebindSteps == {"none", "deletePod", "deletePVC", "deletePV", "createPV",
                "namePVC", "resetPV", "restorePolicy"}

Rebinding(step, retained, org) ==
    [step |-> step, retained |-> retained, org |-> org]

NotRebinding == Rebinding("none", FALSE, FALSE)

RebindTypeOK ==
    /\ changesMode \in [Requests -> BOOLEAN]
    /\ rebind \in [Requests -> [step : RebindSteps, retained : BOOLEAN, org : BOOLEAN]]

RebindInit == rebind = [r \in Requests |-> NotRebinding]

At(r, step) == rebind[r].step = step

Next1(r, step) ==
    rebind' = [rebind EXCEPT ![r] = Rebinding(step, rebind[r].retained, rebind[r].org)]

OnlyVolume ==
    /\ UNCHANGED <<requestVars, pod, podNode, podNews, msCancel, moved>>
    /\ UNCHANGED <<agentVars, changesMode>>

SetVolume(r, v) == volume' = [volume EXCEPT ![r] = v]

(***************************************************************************)
(* Wait for the restore PVC to be bound and retain its volume.             *)
(***************************************************************************)
BeginRebind(n, r) ==
    /\ tracker' = Put(tracker, n, r, "rebinding")
    /\ volume[r].pv = "restore"
    /\ SetVolume(r, Volume("restore", TRUE, volume[r].named, volume[r].disk))
    /\ rebind' = [rebind EXCEPT ![r] =
                     Rebinding("deletePod", ~volume[r].retain, volume[r].retain)]
    /\ UNCHANGED <<requestVars, pod, podNode, podNews, msCancel, moved, changesMode>>
    /\ OnlyTracker

DeleteRestorePod(r) ==
    /\ At(r, "deletePod")
    /\ pod[r] # "none"
    /\ pod' = [pod EXCEPT ![r] = "none"]
    /\ ClearPod(r)
    /\ Next1(r, "deletePVC")
    /\ UNCHANGED <<requestVars, volume, agentVars, changesMode>>

(***************************************************************************)
(* Releasing a volume destroys it unless it is retained.                   *)
(***************************************************************************)
DeleteRestorePVC(r) ==
    /\ At(r, "deletePVC")
    /\ volume[r].pv = "restore"
    /\ SetVolume(r, IF volume[r].retain
                    THEN Volume("released", TRUE, volume[r].named, volume[r].disk)
                    ELSE Volume("none", FALSE, volume[r].named, FALSE))
    /\ Next1(r, IF changesMode[r] THEN "deletePV" ELSE "namePVC")
    /\ OnlyVolume

DeleteRestorePV(r) ==
    /\ At(r, "deletePV")
    /\ volume[r].pv = "released"
    /\ SetVolume(r, Volume("none", FALSE, volume[r].named, volume[r].disk))
    /\ rebind' = [rebind EXCEPT ![r] = Rebinding("createPV", FALSE, rebind[r].org)]
    /\ OnlyVolume

CreateRebindPV(r) ==
    /\ At(r, "createPV")
    /\ SetVolume(r, Volume("target", rebind[r].org, volume[r].named, volume[r].disk))
    /\ Next1(r, "namePVC")
    /\ OnlyVolume

NameTargetPVC(r) ==
    /\ At(r, "namePVC")
    /\ SetVolume(r, Volume(volume[r].pv, volume[r].retain, TRUE, volume[r].disk))
    /\ Next1(r, IF changesMode[r] THEN "restorePolicy" ELSE "resetPV")
    /\ OnlyVolume

ResetPVBinding(r) ==
    /\ At(r, "resetPV")
    /\ volume[r].pv = "released"
    /\ SetVolume(r, Volume("target", volume[r].retain, volume[r].named, volume[r].disk))
    /\ Next1(r, "restorePolicy")
    /\ OnlyVolume

RebindStep(r) ==
    \/ DeleteRestorePod(r)
    \/ DeleteRestorePVC(r)
    \/ DeleteRestorePV(r)
    \/ CreateRebindPV(r)
    \/ NameTargetPVC(r)
    \/ ResetPVBinding(r)

(***************************************************************************)
(* The last step: the volume is bound to the target PVC and gets the       *)
(* policy that was read; failing to set it is only logged.  OnCompleted    *)
(* goes on to clean up.                                                    *)
(***************************************************************************)
FinishRebind(n, r) ==
    /\ At(r, "restorePolicy")
    /\ tracker[n][r] = "rebinding"
    /\ volume[r].named
    /\ volume[r].pv = "target"
    /\ \E retain \in {rebind[r].org} \cup
                     (IF RebindMayFail THEN {volume[r].retain} ELSE {}) :
          SetVolume(r, Volume("target", retain, TRUE, volume[r].disk))
    /\ rebind' = [rebind EXCEPT ![r] = NotRebinding]
    /\ pod' = [pod EXCEPT ![r] = "none"]
    /\ ClearPod(r)
    /\ tracker' = Put(tracker, n, r, "Completed")
    /\ UNCHANGED <<requestVars, changesMode>>
    /\ OnlyTracker

(***************************************************************************)
(* A call that fails ends the callback: the deferred functions delete the  *)
(* volume object, whose storage stays, unless a PVC is bound to it.  The   *)
(* request is left as it is.                                               *)
(***************************************************************************)
MustFail(r) ==
    \/ At(r, "deletePod") /\ pod[r] = "none"
    \/ At(r, "deletePVC") /\ volume[r].pv # "restore"
    \/ At(r, "deletePV") /\ volume[r].pv # "released"
    \/ At(r, "resetPV") /\ volume[r].pv # "released"

Unbound(r) == volume[r].pv = "released" \/ (volume[r].pv = "target" /\ ~volume[r].named)

RebindFails(n, r) ==
    /\ tracker[n][r] = "rebinding"
    /\ RebindMayFail \/ MustFail(r)
    /\ SetVolume(r, IF Unbound(r) /\ (rebind[r].retained \/ volume[r].pv = "target")
                    THEN Volume("none", FALSE, volume[r].named, volume[r].disk)
                    ELSE volume[r])
    /\ rebind' = [rebind EXCEPT ![r] = NotRebinding]
    /\ tracker' = Put(tracker, n, r, "none")
    /\ UNCHANGED <<requestVars, pod, podNode, podNews, msCancel, moved, changesMode>>
    /\ OnlyTracker

-----------------------------------------------------------------------------
(* The data upload controller. *)

DataUpload(r) == kind[r] = "DataUpload"

OwnsDataUpload(n, r) == cache[n][r].node = n

ReconcileDataUpload(n, r) ==
    /\ DataUpload(r)
    /\ \/ ReconcileFinalizer(n, r)
       \/ ReconcileCancelDelay(n, r)
       \/ CancelNew(n, r)

AcceptDataUpload(n, r) == DataUpload(r) /\ AcceptExclusively(n, r)

ExposeDataUpload(n, r) == DataUpload(r) /\ Expose(n, r)

ReconcileDataUploadAccepted(n, r) == DataUpload(r) /\ ReconcileAccepted(n, r)

FinishCancelDataUpload(n, r) == DataUpload(r) /\ FinishCleaning(n, r)

StartDataUpload(n, r) ==
    /\ DataUpload(r)
    /\ \/ OwnsDataUpload(n, r) /\ ReconcilePrepared(n, r)
       \/ FinishStarting(n, r)

StopDataUpload(n, r) ==
    /\ DataUpload(r)
    /\ \/ OwnsDataUpload(n, r) /\ ReconcileInProgress(n, r)
       \/ FinishStopping(n, r)

FindDataUploadForPod(n, r) ==
    DataUpload(r) /\ (FindForPod(n, r) \/ FinishMarking(n, r))

PrepareDataUpload(n, r) ==
    DataUpload(r) /\ FinishPreparing(n, r, InPhaseOn(req[r], "Prepared", n))

UpdateDataUploadToFailed(n, r) == DataUpload(r) /\ UpdateStatusToFailed(n, r)

OnDataUploadCompleted(n, r) == DataUpload(r) /\ OnCompletedCallback(n, r)

OnDataUploadFailed(n, r) == DataUpload(r) /\ OnFailedCallback(n, r)

OnDataUploadCancelled(n, r) == DataUpload(r) /\ OnCancelledCallback(n, r)

CanceledDataUpload(n, r) == DataUpload(r) /\ FinishCancelled(n, r)

UpdateDataUpload(n, r) == DataUpload(r) /\ FinishCallback(n, r)

DataUploadsOf(n) == {r \in Requests : DataUpload(r) /\ req[r].node = n}

ResumeDataUpload(n, r) == DataUpload(r) /\ Resume(n, r)

DataUploadWorker(n, r) ==
    \/ ReconcileDataUpload(n, r)
    \/ AcceptDataUpload(n, r)
    \/ ExposeDataUpload(n, r)
    \/ ReconcileDataUploadAccepted(n, r)
    \/ FinishCancelDataUpload(n, r)
    \/ StartDataUpload(n, r)
    \/ StopDataUpload(n, r)
    \/ UpdateDataUploadToFailed(n, r)
    \/ CanceledDataUpload(n, r)

DataUploadHandler(n, r) == FindDataUploadForPod(n, r) \/ PrepareDataUpload(n, r)

DataUploadWatcher(n, r) ==
    \/ OnDataUploadCompleted(n, r)
    \/ OnDataUploadFailed(n, r)
    \/ OnDataUploadCancelled(n, r)
    \/ UpdateDataUpload(n, r)

-----------------------------------------------------------------------------
(* The data download controller. *)

DataDownload(r) == kind[r] = "DataDownload"

OwnsDataDownload(n, r) == cache[n][r].node = n

ReconcileDataDownload(n, r) ==
    /\ DataDownload(r)
    /\ \/ ReconcileFinalizer(n, r)
       \/ ReconcileCancelDelay(n, r)
       \/ CancelNew(n, r)

AcceptDataDownload(n, r) == DataDownload(r) /\ AcceptExclusively(n, r)

ExposeDataDownload(n, r) == DataDownload(r) /\ Expose(n, r)

ReconcileDataDownloadAccepted(n, r) == DataDownload(r) /\ ReconcileAccepted(n, r)

FinishCancelDataDownload(n, r) == DataDownload(r) /\ FinishCleaning(n, r)

StartDataDownload(n, r) ==
    /\ DataDownload(r)
    /\ \/ OwnsDataDownload(n, r) /\ ReconcilePrepared(n, r)
       \/ FinishStarting(n, r)

StopDataDownload(n, r) ==
    /\ DataDownload(r)
    /\ \/ OwnsDataDownload(n, r) /\ ReconcileInProgress(n, r)
       \/ FinishStopping(n, r)

FindDataDownloadForPod(n, r) ==
    DataDownload(r) /\ (FindForPod(n, r) \/ FinishMarking(n, r))

PrepareDataDownload(n, r) ==
    DataDownload(r) /\ FinishPreparing(n, r, InPhaseOn(req[r], "Prepared", n))

UpdateDataDownloadToFailed(n, r) == DataDownload(r) /\ UpdateStatusToFailed(n, r)

OnDataDownloadCompleted(n, r) ==
    /\ DataDownload(r)
    /\ Watches(n, r)
    /\ pod[r] = "succeeded"
    /\ Exists(cache[n][r]) /\ BeginRebind(n, r)

\* Bug: an error in rebinding the volume is logged, and the request completed.
AbandonDataDownload_Completes(n, r) ==
    /\ DataDownload(r)
    /\ Watches(n, r)
    /\ pod[r] = "succeeded"
    /\ CallBack(n, r, "Completed")

AbandonDataDownload(n, r) ==
    /\ DataDownload(r)
    /\ Watches(n, r)
    /\ pod[r] = "succeeded"
    /\ ~Exists(cache[n][r]) \/ volume[r].pv # "restore" \/ RebindMayFail
    /\ Forget(n, r)

OnDataDownloadFailed(n, r) == DataDownload(r) /\ OnFailedCallback(n, r)

OnDataDownloadCancelled(n, r) == DataDownload(r) /\ OnCancelledCallback(n, r)

CanceledDataDownload(n, r) == DataDownload(r) /\ FinishCancelled(n, r)

UpdateDataDownload(n, r) == DataDownload(r) /\ FinishCallback(n, r)

DataDownloadsOf(n) == {r \in Requests : DataDownload(r) /\ req[r].node = n}

ResumeDataDownload(n, r) == DataDownload(r) /\ Resume(n, r)

DataDownloadWorker(n, r) ==
    \/ ReconcileDataDownload(n, r)
    \/ AcceptDataDownload(n, r)
    \/ ExposeDataDownload(n, r)
    \/ ReconcileDataDownloadAccepted(n, r)
    \/ FinishCancelDataDownload(n, r)
    \/ StartDataDownload(n, r)
    \/ StopDataDownload(n, r)
    \/ UpdateDataDownloadToFailed(n, r)
    \/ CanceledDataDownload(n, r)

DataDownloadHandler(n, r) == FindDataDownloadForPod(n, r) \/ PrepareDataDownload(n, r)

DataDownloadWatcher(n, r) ==
    \/ OnDataDownloadCompleted(n, r)
    \/ OnDataDownloadFailed(n, r)
    \/ OnDataDownloadCancelled(n, r)
    \/ UpdateDataDownload(n, r)
=============================================================================
