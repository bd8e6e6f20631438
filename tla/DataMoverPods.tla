---------------------------- MODULE DataMoverPods ----------------------------
(***************************************************************************)
(* The API objects by which volume data is moved: DataUploads,             *)
(* DataDownloads, PodVolumeBackups and PodVolumeRestores, as the node      *)
(* agents see them.  A node agent reads an object from its informer cache, *)
(* which lags behind the API server, and writes it in one of two ways:     *)
(*  - exclusively: the object as read, changed, is sent once, and the API  *)
(*    server refuses it when the object has changed since;                 *)
(*  - with retry: read, change and send are repeated on a conflict.        *)
(* An object equal to its cached copy stands for the same resource         *)
(* version: writing over an equal object is what a fresh read would do.    *)
(***************************************************************************)
EXTENDS Naturals, FiniteSets

CONSTANTS
    Nodes,     \* the nodes, each with one node agent
    Requests,  \* the names of the requests
    None       \* no node

ASSUME NoneIsNoNode == None \notin Nodes

Kinds == {"DataUpload", "DataDownload", "PodVolumeBackup", "PodVolumeRestore"}

Final == {"Completed", "Failed", "Canceled"}

Phases == {"New", "Accepted", "Prepared", "InProgress", "Canceling"} \cup Final

VARIABLES
    kind,   \* the kind of each request
    home,   \* the node of the pod whose volume a pod volume request is about
    req,    \* the objects in the API server
    cache   \* cache[n][r]: the copy of r in the informer cache of node n

requestVars == <<kind, home, req, cache>>

(***************************************************************************)
(* phase "Gone" is an object that no longer exists.  node is Status.Node.  *)
(***************************************************************************)
Object == [phase     : Phases \cup {"Gone"},
           cancel    : BOOLEAN,
           deleting  : BOOLEAN,
           finalizer : BOOLEAN,
           node      : Nodes \cup {None}]

Of(phase, cancel, deleting, finalizer, node) ==
    [phase |-> phase, cancel |-> cancel, deleting |-> deleting,
     finalizer |-> finalizer, node |-> node]

Created == Of("New", FALSE, FALSE, FALSE, None)

RequestsInit ==
    /\ req = [r \in Requests |-> Created]
    /\ cache = [n \in Nodes |-> [r \in Requests |-> Created]]

IsFinal(o) == o.phase \in Final

Exists(o) == o.phase # "Gone"

Active(o) == Exists(o) /\ ~IsFinal(o)

----------------------------------------------------------------------------
(***************************************************************************)
(* What the writers make of an object o.                                   *)
(***************************************************************************)

InPhase(o, phase) == Of(phase, o.cancel, o.deleting, o.finalizer, o.node)

InPhaseOn(o, phase, n) == Of(phase, o.cancel, o.deleting, o.finalizer, n)

Cancelled(o) == Of(o.phase, TRUE, o.deleting, o.finalizer, o.node)

Finalizer(o, present) == Of(o.phase, o.cancel, o.deleting, present, o.node)

(***************************************************************************)
(* Removing the last finalizer of an object that is being deleted lets it  *)
(* disappear.                                                              *)
(***************************************************************************)
Stored(o) == IF o.deleting /\ ~o.finalizer THEN InPhase(o, "Gone") ELSE o

Write(r, o) == req' = [req EXCEPT ![r] = Stored(o)]

(***************************************************************************)
(* An exclusive update succeeds only on what the node has read.  A retried *)
(* one goes on until it has read the latest object; it makes no call when  *)
(* its function declines the object, and gives up when there is none.      *)
(***************************************************************************)
UpToDate(n, r) == cache[n][r] = req[r]

UpdateWithRetry(n, r, declined, o) ==
    \/ /\ declined \/ ~Exists(cache[n][r])
       /\ UNCHANGED req
    \/ /\ ~declined
       /\ Exists(cache[n][r])
       /\ UpToDate(n, r)
       /\ Write(r, o)

----------------------------------------------------------------------------

(***************************************************************************)
(* The watch of node n delivers the latest state of r.                     *)
(***************************************************************************)
Deliver(n, r) ==
    /\ ~UpToDate(n, r)
    /\ cache' = [cache EXCEPT ![n] = [cache[n] EXCEPT ![r] = req[r]]]
    /\ UNCHANGED <<kind, home, req>>

(***************************************************************************)
(* The server, or a user, asks for the request to be cancelled, or deletes *)
(* it: the object stays until its finalizer is removed.                    *)
(***************************************************************************)
AskCancel(r) ==
    /\ Active(req[r]) /\ ~req[r].cancel
    /\ Write(r, Cancelled(req[r]))

Delete(r) ==
    /\ Exists(req[r]) /\ ~req[r].deleting
    /\ Write(r, Of(req[r].phase, req[r].cancel, TRUE, req[r].finalizer, req[r].node))

RequestsTypeOK ==
    /\ kind \in [Requests -> Kinds]
    /\ home \in [Requests -> Nodes]
    /\ req \in [Requests -> Object]
    /\ cache \in [Nodes -> [Requests -> Object]]

-----------------------------------------------------------------------------
(***************************************************************************)
(* The hosting pods: what the exposers create and delete for a request,    *)
(* and the micro service that moves the data inside the pod.               *)
(*                                                                         *)
(* A pod is "pending" until the scheduler gives it a node, where it is     *)
(* either "broken" (it can not start) or runs: "starting" before its       *)
(* micro service watches the request, "waiting" until the request is in    *)
(* progress, "moving", and at last "succeeded", "failed" or "cancelled"    *)
(* (a failure whose message says so).                                      *)
(***************************************************************************)
VARIABLES
    pod,        \* pod[r]: the state of the hosting pod of r
    podNode,    \* podNode[r]: the node it was scheduled to
    podNews,    \* podNews[r]: an update of the pod that its node agent has not handled
    msCancel,   \* msCancel[r]: the micro service saw the request being cancelled
    moved,      \* moved[r]: some pod of r has moved all the data (history)
    volume      \* volume[r]: what became of the volume a DataDownload is restored to

podVars == <<pod, podNode, podNews, msCancel, moved, volume>>

Running == {"starting", "waiting", "moving"}

Ended == {"succeeded", "failed", "cancelled"}

PodStates == {"none", "pending", "broken"} \cup Running \cup Ended

(***************************************************************************)
(* The volume of a DataDownload: whom its persistent volume object is      *)
(* bound to (the restore PVC, nobody, or the target PVC), whether it is    *)
(* retained when it is released, whether the target PVC names it, and      *)
(* whether the storage behind it exists.                                   *)
(***************************************************************************)
Volume(pv, retain, named, disk) ==
    [pv |-> pv, retain |-> retain, named |-> named, disk |-> disk]

Volumes == [pv : {"none", "restore", "released", "target"},
            retain : BOOLEAN, named : BOOLEAN, disk : BOOLEAN]

PodsInit ==
    /\ pod = [r \in Requests |-> "none"]
    /\ podNode = [r \in Requests |-> None]
    /\ podNews = [r \in Requests |-> FALSE]
    /\ msCancel = [r \in Requests |-> FALSE]
    /\ moved = [r \in Requests |-> FALSE]
    /\ volume = [r \in Requests |-> Volume("none", FALSE, FALSE, FALSE)]

----------------------------------------------------------------------------

(***************************************************************************)
(* The exposers.  Expose ends by creating the pod, which fails when there  *)
(* is one, and for a DataDownload a restore PVC, for which a volume is     *)
(* provisioned; an object owned by a request that is gone is collected at  *)
(* once.  CleanUp deletes whatever is there.  A pod is exposed to the node *)
(* it runs on.                                                             *)
(***************************************************************************)
ClearPod(r) ==
    /\ podNode' = [podNode EXCEPT ![r] = None]
    /\ podNews' = [podNews EXCEPT ![r] = FALSE]
    /\ msCancel' = [msCancel EXCEPT ![r] = FALSE]
    /\ UNCHANGED moved

CreatePod(r) ==
    /\ pod[r] = "none"
    /\ pod' = [pod EXCEPT ![r] = IF Exists(req[r]) THEN "pending" ELSE "none"]
    /\ volume' = IF kind[r] = "DataDownload" /\ Exists(req[r])
                 THEN [volume EXCEPT ![r] = Volume("restore", FALSE, FALSE, TRUE)]
                 ELSE volume
    /\ ClearPod(r)

CleanUp(r) ==
    /\ pod' = [pod EXCEPT ![r] = "none"]
    /\ volume' = IF volume[r].pv = "restore"
                 THEN [volume EXCEPT ![r] = Volume("none", FALSE, volume[r].named, FALSE)]
                 ELSE volume
    /\ ClearPod(r)

GetExposed(n, r) == podNode[r] = n

Unrecoverable == {"broken", "failed", "cancelled"}

PeekFails(r) == pod[r] \in Unrecoverable

----------------------------------------------------------------------------

PodUpdate(r, state) ==
    /\ pod' = [pod EXCEPT ![r] = state]
    /\ podNews' = [podNews EXCEPT ![r] = TRUE]

(***************************************************************************)
(* The scheduler: the pod of a pod volume request is bound to the node of  *)
(* the volume's pod, another one goes to any node.                         *)
(***************************************************************************)
Schedule(r, n) ==
    /\ pod[r] = "pending"
    /\ kind[r] \in {"PodVolumeBackup", "PodVolumeRestore"} => n = home[r]
    /\ \E state \in {"starting", "broken"} : PodUpdate(r, state)
    /\ podNode' = [podNode EXCEPT ![r] = n]
    /\ UNCHANGED <<requestVars, msCancel, moved, volume>>

(***************************************************************************)
(* Some other update of the pod, such as a changed condition.              *)
(***************************************************************************)
TouchPod(r) ==
    /\ pod[r] \in Running
    /\ ~podNews[r]
    /\ podNews' = [podNews EXCEPT ![r] = TRUE]
    /\ UNCHANGED <<requestVars, pod, podNode, msCancel, moved, volume>>

MicroServiceInit(r) ==
    /\ pod[r] = "starting"
    /\ pod' = [pod EXCEPT ![r] = "waiting"]
    /\ UNCHANGED <<requestVars, podNode, podNews, msCancel, moved, volume>>

RunCancelableDataPath(r) ==
    /\ pod[r] = "waiting"
    /\ req[r].phase = "InProgress"
    /\ pod' = [pod EXCEPT ![r] = "moving"]
    /\ UNCHANGED <<requestVars, podNode, podNews, msCancel, moved, volume>>

(***************************************************************************)
(* The data path ends: with all data moved, with an error, or, once the    *)
(* micro service has seen the cancellation, as cancelled.                  *)
(***************************************************************************)
DataPathEnds(r) ==
    /\ pod[r] = "moving"
    /\ \/ PodUpdate(r, "succeeded") /\ moved' = [moved EXCEPT ![r] = TRUE]
       \/ PodUpdate(r, "failed") /\ UNCHANGED moved
       \/ msCancel[r] /\ PodUpdate(r, "cancelled") /\ UNCHANGED moved
    /\ UNCHANGED <<requestVars, podNode, msCancel, volume>>

(***************************************************************************)
(* The pod fails before it moves anything, or is evicted.                  *)
(***************************************************************************)
PodFails(r) ==
    /\ pod[r] \in {"starting", "waiting"}
    /\ PodUpdate(r, "failed")
    /\ UNCHANGED <<requestVars, podNode, msCancel, moved, volume>>

(***************************************************************************)
(* What a write to the requests does to the pods: nothing, but the micro   *)
(* service's own watch acts on the update that sets the cancel flag, and   *)
(* only when that update has the phase InProgress.                         *)
(***************************************************************************)
PodsSeeWrite ==
    /\ msCancel' = [r \in Requests |->
                       \/ msCancel[r]
                       \/ /\ pod[r] \in {"waiting", "moving"}
                          /\ req'[r].phase = "InProgress"
                          /\ req'[r].cancel /\ ~req[r].cancel]
    /\ UNCHANGED <<pod, podNode, podNews, moved, volume>>

(***************************************************************************)
(* Kubernetes collects the pod of a request that is gone.                  *)
(***************************************************************************)
CollectPod(r) ==
    /\ ~Exists(req[r])
    /\ pod[r] # "none"
    /\ CleanUp(r)
    /\ UNCHANGED requestVars

PodsTypeOK ==
    /\ pod \in [Requests -> PodStates]
    /\ podNode \in [Requests -> Nodes \cup {None}]
    /\ podNews \in [Requests -> BOOLEAN]
    /\ msCancel \in [Requests -> BOOLEAN]
    /\ moved \in [Requests -> BOOLEAN]
    /\ volume \in [Requests -> Volumes]
=============================================================================
