---------------------------- MODULE DataMovement ----------------------------
(***************************************************************************)
(* The node agents of a cluster moving volume data: the four controllers   *)
(* on every node, the hosting pods they create, the volume rebinding of    *)
(* restores, users who cancel and delete, and node agents that restart.    *)
(* The kind of each request is chosen by the initial state.                *)
(***************************************************************************)
EXTENDS DataTransfers, PodVolumeTransfers

CONSTANTS
    KindsOf,     \* the assignments of kinds to requests to start from
    HomesOf,     \* the assignments of nodes
    MayCancel,   \* the requests a user may cancel
    MayDelete    \* the requests a user may delete

ASSUME MovementAssumption ==
    /\ KindsOf \subseteq [Requests -> Kinds]
    /\ HomesOf \subseteq [Requests -> Nodes]
    /\ MayCancel \subseteq Requests
    /\ MayDelete \subseteq Requests

vars == <<requestVars, podVars, agentVars, rebindVars>>

TypeOK ==
    /\ RequestsTypeOK
    /\ PodsTypeOK
    /\ AgentsTypeOK
    /\ RebindTypeOK

Init ==
    /\ kind \in KindsOf
    /\ home \in HomesOf
    /\ changesMode \in {f \in [Requests -> BOOLEAN] :
                           \A r \in Requests : f[r] => DataDownload(r)}
    /\ RequestsInit
    /\ PodsInit
    /\ AgentsInit
    /\ RebindInit

-----------------------------------------------------------------------------

(***************************************************************************)
(* The reconcile workers, the handlers of pod updates and the watchers.    *)
(***************************************************************************)
Worker(n, r) ==
    /\ \/ DataUploadWorker(n, r)
       \/ DataDownloadWorker(n, r)
       \/ PodVolumeBackupWorker(n, r)
       \/ PodVolumeRestoreWorker(n, r)
    /\ UNCHANGED rebindVars

Handler(n, r) ==
    /\ \/ DataUploadHandler(n, r)
       \/ DataDownloadHandler(n, r)
       \/ PodVolumeBackupHandler(n, r)
       \/ PodVolumeRestoreHandler(n, r)
    /\ UNCHANGED rebindVars

Watcher(n, r) ==
    \/ OnDataDownloadCompleted(n, r)
    \/ tracker[n][r] = "rebinding" /\ RebindStep(r)
    \/ FinishRebind(n, r)
    \/ RebindFails(n, r)
    \/ /\ \/ DataUploadWatcher(n, r)
          \/ AbandonDataDownload(n, r)
          \/ OnDataDownloadFailed(n, r)
          \/ OnDataDownloadCancelled(n, r)
          \/ UpdateDataDownload(n, r)
          \/ PodVolumeBackupWatcher(n, r)
          \/ PodVolumeRestoreWatcher(n, r)
       /\ UNCHANGED rebindVars

(***************************************************************************)
(* A node agent restarts, and resumes what it had in progress.             *)
(***************************************************************************)
OwnedBy(n) ==
    DataUploadsOf(n) \cup DataDownloadsOf(n)
        \cup PodVolumeBackupsOf(n) \cup PodVolumeRestoresOf(n)

AgentRestart(n) ==
    /\ Restart(n, OwnedBy(n))
    /\ rebind' = [r \in Requests |-> IF tracker[n][r] = "rebinding"
                                     THEN NotRebinding ELSE rebind[r]]
    /\ UNCHANGED changesMode

AgentResume(n, r) ==
    /\ \/ ResumeDataUpload(n, r)
       \/ ResumeDataDownload(n, r)
       \/ ResumePodVolumeBackup(n, r)
       \/ ResumePodVolumeRestore(n, r)
    /\ UNCHANGED rebindVars

(***************************************************************************)
(* Everything else: watches, users, and pods.                              *)
(***************************************************************************)
WatchDelivers(n, r) ==
    Deliver(n, r) /\ UNCHANGED <<podVars, agentVars, rebindVars>>

User(r) ==
    /\ \/ r \in MayCancel /\ AskCancel(r)
       \/ r \in MayDelete /\ Delete(r)
    /\ PodsSeeWrite
    /\ UNCHANGED <<kind, home, cache, agentVars, rebindVars>>

PodRuns(r) ==
    /\ \/ \E n \in Nodes : Schedule(r, n)
       \/ MicroServiceInit(r)
       \/ RunCancelableDataPath(r)
       \/ DataPathEnds(r)
       \/ CollectPod(r)
    /\ UNCHANGED <<agentVars, rebindVars>>

PodMishap(r) ==
    /\ TouchPod(r) \/ PodFails(r)
    /\ UNCHANGED <<agentVars, rebindVars>>

Next ==
    \/ \E n \in Nodes : AgentRestart(n)
    \/ \E r \in Requests : User(r) \/ PodRuns(r) \/ PodMishap(r)
    \/ \E n \in Nodes, r \in Requests :
          \/ Worker(n, r)
          \/ Handler(n, r)
          \/ Watcher(n, r)
          \/ AgentResume(n, r)
          \/ WatchDelivers(n, r)

Spec == Init /\ [][Next]_vars

(***************************************************************************)
(* Work queues, watches and goroutines go on; the scheduler and the data   *)
(* path make progress.                                                     *)
(***************************************************************************)
Fairness ==
    /\ \A r \in Requests : WF_vars(PodRuns(r))
    /\ \A n \in Nodes, r \in Requests :
          /\ WF_vars(Worker(n, r))
          /\ WF_vars(Handler(n, r))
          /\ WF_vars(Watcher(n, r))
          /\ WF_vars(AgentResume(n, r))
          /\ WF_vars(WatchDelivers(n, r))

FairSpec == Spec /\ Fairness

-----------------------------------------------------------------------------

Busy(n, r) == work[n][r] # "idle" \/ event[n][r] # "none" \/ tracker[n][r] # "none"

(***************************************************************************)
(* A request is completed only when a hosting pod has moved all its data,  *)
(* and, for a DataDownload, the volume with the data exists and is bound   *)
(* to the target PVC.                                                      *)
(***************************************************************************)
CompletedIsMoved ==
    \A r \in Requests : req[r].phase = "Completed" =>
        /\ moved[r]
        /\ DataDownload(r) => /\ volume[r].pv = "target"
                              /\ volume[r].named
                              /\ volume[r].disk

(***************************************************************************)
(* As long as no node agent restarted, a request that is final, and that   *)
(* no node agent is busy with, has neither hosting pod nor restore PVC.    *)
(***************************************************************************)
NothingLeft ==
    restarts = 0 =>
        \A r \in Requests :
            /\ IsFinal(req[r])
            /\ \A n \in Nodes : ~Busy(n, r)
            => pod[r] = "none" /\ volume[r].pv # "restore"

(***************************************************************************)
(* Only one node agent at a time exposes a request.                        *)
(***************************************************************************)
OneExposer ==
    \A r \in Requests :
        Cardinality({n \in Nodes : work[n][r] \in {"accepting", "exposing"}}) <= 1

(***************************************************************************)
(* A request that is final stays as it is, except that a pod volume        *)
(* request cancelled while its node is accepting it is accepted after all. *)
(***************************************************************************)
FinalStays ==
    [][\A r \in Requests : IsFinal(req[r]) =>
          \/ req'[r].phase \in {req[r].phase, "Gone"}
          \/ \E n \in Nodes : work[n][r] = "accepting"]_vars

(***************************************************************************)
(* A request that is asked to be cancelled ends, and so does one that is   *)
(* deleted.                                                                *)
(***************************************************************************)
CancelEnds == \A r \in Requests : (Active(req[r]) /\ req[r].cancel) ~> ~Active(req[r])

DeletedDisappears == \A r \in Requests : req[r].deleting ~> ~Exists(req[r])

(***************************************************************************)
(* An accepted request does not stay accepted.                             *)
(***************************************************************************)
AcceptedGoesOn == \A r \in Requests : req[r].phase = "Accepted" ~> req[r].phase # "Accepted"

(***************************************************************************)
(* The phase of every request finally becomes a final one.                 *)
(***************************************************************************)
EveryRequestEnds == \A r \in Requests : <>~Active(req[r])
=============================================================================
