------------------------ MODULE DataMoverController ------------------------
(***************************************************************************)
(* What the four data mover controllers of a node agent have in common.    *)
(* A node agent runs, for each kind of request, one reconcile worker; the  *)
(* handler of pod updates; the watchers of the hosting pods it follows,    *)
(* which call back when a pod ends; and, after a restart, one goroutine    *)
(* that resumes what was in progress.  They meet at the API objects and at *)
(* the data path manager, which is shared by the kinds.                    *)
(***************************************************************************)
EXTENDS DataMoverPods

CONSTANTS
    ConcurrentNum,   \* the data paths a node may run at once
    Timely,          \* BOOLEAN: see below
    MaxRestarts,     \* bound: restarts of node agents
    MaxFaults        \* bound: updates that fail for good

(***************************************************************************)
(* When the agents are timely, no delay or time-out (minutes) expires      *)
(* while a worker exposes a request, and its watch has delivered the       *)
(* acceptance of a request before the worker has exposed it.               *)
(***************************************************************************)
ASSUME AgentAssumption ==
    /\ ConcurrentNum \in Nat \ {0}
    /\ Timely \in BOOLEAN
    /\ MaxRestarts \in Nat
    /\ MaxFaults \in Nat

VARIABLES
    work,      \* work[n][r]: what the reconcile worker of n is doing for r
    event,     \* event[n][r]: what the pod update handler of n is doing for r
    tracker,   \* tracker[n][r]: the data path of r in the manager of n
    resume,    \* resume[n]: the requests n has still to resume
    restarts,
    faults

agentVars == <<work, event, tracker, resume, restarts, faults>>

(***************************************************************************)
(* A worker has yet to: write the phase Accepted, expose, write the phase  *)
(* InProgress or Canceling, clean up, or write the phase Failed or         *)
(* Canceled after it cleaned up.                                           *)
(***************************************************************************)
WorkStates == {"idle", "accepting", "exposing", "starting", "stopping",
               "cleaning", "failing", "canceling"}

EventStates == {"none", "preparing", "marking"}

(***************************************************************************)
(* A data path is watched; or its pod has ended, and its volume is being   *)
(* rebound, or it was cleaned up and its outcome is yet to be written.     *)
(***************************************************************************)
TrackerStates == {"none", "watching", "rebinding"} \cup Final

AgentsTypeOK ==
    /\ work \in [Nodes -> [Requests -> WorkStates]]
    /\ event \in [Nodes -> [Requests -> EventStates]]
    /\ tracker \in [Nodes -> [Requests -> TrackerStates]]
    /\ resume \in [Nodes -> SUBSET Requests]
    /\ restarts \in 0 .. MaxRestarts
    /\ faults \in 0 .. MaxFaults

AgentsInit ==
    /\ work = [n \in Nodes |-> [r \in Requests |-> "idle"]]
    /\ event = [n \in Nodes |-> [r \in Requests |-> "none"]]
    /\ tracker = [n \in Nodes |-> [r \in Requests |-> "none"]]
    /\ resume = [n \in Nodes |-> {}]
    /\ restarts = 0
    /\ faults = 0

Put(f, n, r, v) == [f EXCEPT ![n] = [f[n] EXCEPT ![r] = v]]

----------------------------------------------------------------------------
(***************************************************************************)
(* Steps of a reconcile worker.                                            *)
(***************************************************************************)

WorkerFree(n, r) ==
    \A s \in Requests : kind[s] = kind[r] => work[n][s] = "idle"

(***************************************************************************)
(* The part of Reconcile behind the handling of finalizer and deletion.    *)
(***************************************************************************)
Reconciles(n, r) ==
    /\ WorkerFree(n, r)
    /\ Active(cache[n][r])
    /\ cache[n][r].finalizer
    /\ cache[n][r].deleting => cache[n][r].cancel

Read(n, r, phase) == Reconciles(n, r) /\ cache[n][r].phase = phase

Works(n, r, w) == work' = Put(work, n, r, w)

OnlyWork == UNCHANGED <<event, tracker, resume, restarts, faults>>

WriteNow(n, r, o) ==
    /\ UpToDate(n, r)
    /\ Write(r, o)
    /\ PodsSeeWrite
    /\ UNCHANGED <<kind, home, cache>>

RetriedWrite(n, r, declined, o) ==
    /\ UpdateWithRetry(n, r, declined, o)
    /\ PodsSeeWrite
    /\ UNCHANGED <<kind, home, cache>>

CleansUp(r) == CleanUp(r) /\ UNCHANGED requestVars

(***************************************************************************)
(* Finalizer and deletion.  These retried updates set one field to the     *)
(* value it would get anyway: they are one step.                           *)
(***************************************************************************)
AddFinalizer(n, r) ==
    /\ WorkerFree(n, r)
    /\ Active(cache[n][r]) /\ ~cache[n][r].finalizer
    /\ WriteNow(n, r, Finalizer(req[r], TRUE))
    /\ UNCHANGED agentVars

CancelDeleted(n, r) ==
    /\ WorkerFree(n, r)
    /\ Active(cache[n][r]) /\ cache[n][r].finalizer
    /\ cache[n][r].deleting /\ ~cache[n][r].cancel
    /\ WriteNow(n, r, Cancelled(req[r]))
    /\ UNCHANGED agentVars

\* Bug: the finalizer is kept by requests that failed.
RemoveFinalizer_NotFailed(n, r) ==
    /\ WorkerFree(n, r)
    /\ IsFinal(cache[n][r]) /\ cache[n][r].finalizer
    /\ cache[n][r].phase # "Failed"
    /\ WriteNow(n, r, Finalizer(req[r], FALSE))
    /\ UNCHANGED agentVars

RemoveFinalizer(n, r) ==
    /\ WorkerFree(n, r)
    /\ IsFinal(cache[n][r]) /\ cache[n][r].finalizer
    /\ WriteNow(n, r, Finalizer(req[r], FALSE))
    /\ UNCHANGED agentVars

ReconcileFinalizer(n, r) ==
    AddFinalizer(n, r) \/ CancelDeleted(n, r) \/ RemoveFinalizer(n, r)

(***************************************************************************)
(* An exclusive update to a final phase, with the clean-up that follows.   *)
(***************************************************************************)
EndExclusively(n, r, phase) ==
    /\ WriteNow(n, r, InPhase(req[r], phase))
    /\ Works(n, r, "cleaning")
    /\ OnlyWork

\* Bug: the worker is done when the request is canceled.
FinishCleaning_Nothing(n, r) ==
    /\ work[n][r] = "cleaning"
    /\ Works(n, r, "idle")
    /\ UNCHANGED <<requestVars, podVars>>
    /\ OnlyWork

FinishCleaning(n, r) ==
    /\ work[n][r] = "cleaning"
    /\ CleansUp(r)
    /\ Works(n, r, "idle")
    /\ OnlyWork

BeingExposed(r) == \E n \in Nodes : work[n][r] \in {"accepting", "exposing"}

DelayExpires(r) == Timely => ~BeingExposed(r)

\* Bug: a request that is already being canceled is left to its node.
ReconcileCancelDelay_NotCanceling(n, r) ==
    /\ Reconciles(n, r)
    /\ cache[n][r].cancel
    /\ cache[n][r].phase # "Canceling"
    /\ DelayExpires(r)
    /\ EndExclusively(n, r, "Canceled")

(***************************************************************************)
(* Any node cancels a request that was asked to be cancelled too long ago. *)
(***************************************************************************)
ReconcileCancelDelay(n, r) ==
    /\ Reconciles(n, r)
    /\ cache[n][r].cancel
    /\ DelayExpires(r)
    /\ EndExclusively(n, r, "Canceled")

CancelNew(n, r) ==
    /\ Read(n, r, "New")
    /\ cache[n][r].cancel
    /\ EndExclusively(n, r, "Canceled")

\* Bug: the update is retried although another node may have accepted.
AcceptExclusively_Retried(n, r) ==
    /\ Read(n, r, "New")
    /\ ~cache[n][r].cancel
    /\ Write(r, InPhase(req[r], "Accepted"))
    /\ PodsSeeWrite
    /\ UNCHANGED <<kind, home, cache>>
    /\ Works(n, r, "exposing")
    /\ OnlyWork

(***************************************************************************)
(* A new request is accepted exclusively, or with a retried update.        *)
(***************************************************************************)
AcceptExclusively(n, r) ==
    /\ Read(n, r, "New")
    /\ ~cache[n][r].cancel
    /\ WriteNow(n, r, InPhase(req[r], "Accepted"))
    /\ Works(n, r, "exposing")
    /\ OnlyWork

BeginAccept(n, r) ==
    /\ Read(n, r, "New")
    /\ ~cache[n][r].cancel
    /\ Works(n, r, "accepting")
    /\ UNCHANGED <<requestVars, podVars>>
    /\ OnlyWork

FinishAccept(n, r, accepted) ==
    /\ work[n][r] = "accepting"
    /\ RetriedWrite(n, r, FALSE, accepted)
    /\ Works(n, r, IF Exists(cache[n][r]) THEN "exposing" ELSE "idle")
    /\ OnlyWork

(***************************************************************************)
(* errorOut: clean up, then write the phase Failed.                        *)
(***************************************************************************)
ErrorOut(n, r) ==
    /\ CleansUp(r)
    /\ Works(n, r, "failing")
    /\ OnlyWork

UpdateStatusToFailed(n, r) ==
    /\ work[n][r] = "failing"
    /\ RetriedWrite(n, r, IsFinal(cache[n][r]), InPhase(req[r], "Failed"))
    /\ Works(n, r, "idle")
    /\ OnlyWork

Expose(n, r) ==
    /\ work[n][r] = "exposing"
    /\ Timely => cache[n][r].phase # "New"
    /\ \/ /\ CreatePod(r)
          /\ Works(n, r, "idle")
          /\ UNCHANGED requestVars
          /\ OnlyWork
       \/ ErrorOut(n, r)

ReconcileAccepted(n, r) ==
    /\ Read(n, r, "Accepted")
    /\ \/ /\ PeekFails(r)
          /\ EndExclusively(n, r, "Canceled")
       \/ /\ ~PeekFails(r)
          /\ DelayExpires(r)
          /\ EndExclusively(n, r, "Failed")

(***************************************************************************)
(* OnCancelled, called by a worker: clean up, then write the phase         *)
(* Canceled and forget the data path.                                      *)
(***************************************************************************)
OnCancelled(n, r) ==
    /\ CleansUp(r)
    /\ Works(n, r, "canceling")
    /\ OnlyWork

FinishCancelled(n, r) ==
    /\ work[n][r] = "canceling"
    /\ RetriedWrite(n, r, IsFinal(cache[n][r]), InPhase(req[r], "Canceled"))
    /\ Works(n, r, "idle")
    /\ tracker' = Put(tracker, n, r, "none")
    /\ UNCHANGED <<event, resume, restarts, faults>>

(***************************************************************************)
(* The owner of a prepared request creates the data path, unless the       *)
(* manager's limit is reached (then it tries again later), and writes the  *)
(* phase InProgress.  The watch begins when that is written.               *)
(***************************************************************************)
DataPaths(n) == {r \in Requests : tracker[n][r] # "none"}

ReconcilePrepared(n, r) ==
    /\ Read(n, r, "Prepared")
    /\ \/ cache[n][r].cancel /\ OnCancelled(n, r)
       \/ /\ ~cache[n][r].cancel
          /\ tracker[n][r] = "none"
          /\ ErrorOut(n, r)
       \/ /\ ~cache[n][r].cancel
          /\ tracker[n][r] = "none"
          /\ GetExposed(n, r)
          /\ Cardinality(DataPaths(n)) < ConcurrentNum
          /\ tracker' = Put(tracker, n, r, "watching")
          /\ Works(n, r, "starting")
          /\ UNCHANGED <<requestVars, podVars, event, resume, restarts, faults>>

FinishStarting(n, r) ==
    /\ work[n][r] = "starting"
    /\ \/ /\ RetriedWrite(n, r, IsFinal(cache[n][r]), InPhase(req[r], "InProgress"))
          /\ tracker' = IF Active(cache[n][r]) THEN tracker
                                               ELSE Put(tracker, n, r, "none")
          /\ UNCHANGED faults
       \/ /\ faults < MaxFaults
          /\ faults' = faults + 1
          /\ tracker' = Put(tracker, n, r, "none")
          /\ UNCHANGED <<requestVars, podVars>>
    /\ Works(n, r, "idle")
    /\ UNCHANGED <<event, resume, restarts>>

ReconcileInProgress(n, r) ==
    /\ Read(n, r, "InProgress")
    /\ cache[n][r].cancel
    /\ \/ tracker[n][r] = "none" /\ OnCancelled(n, r)
       \/ /\ tracker[n][r] # "none"
          /\ Works(n, r, "stopping")
          /\ UNCHANGED <<requestVars, podVars>>
          /\ OnlyWork

FinishStopping(n, r) ==
    /\ work[n][r] = "stopping"
    /\ RetriedWrite(n, r, IsFinal(cache[n][r]), InPhase(req[r], "Canceling"))
    /\ Works(n, r, "idle")
    /\ OnlyWork

----------------------------------------------------------------------------
(***************************************************************************)
(* The handler of pod updates, on the node of the pod.                     *)
(***************************************************************************)

OnlyEvent == UNCHANGED <<work, tracker, resume, restarts, faults>>

FindForPod(n, r) ==
    /\ event[n][r] = "none"
    /\ podNews[r] /\ podNode[r] = n
    /\ podNews' = [podNews EXCEPT ![r] = FALSE]
    /\ event' = Put(event, n, r,
           IF cache[n][r].phase # "Accepted"  THEN "none"
           ELSE IF pod[r] \in Running         THEN "preparing"
           ELSE IF pod[r] \in Unrecoverable   THEN "marking"
           ELSE "none")
    /\ UNCHANGED <<requestVars, pod, podNode, msCancel, moved, volume>>
    /\ OnlyEvent

FinishPreparing(n, r, prepared) ==
    /\ event[n][r] = "preparing"
    /\ RetriedWrite(n, r, IsFinal(cache[n][r]), prepared)
    /\ event' = Put(event, n, r, "none")
    /\ OnlyEvent

FinishMarking(n, r) ==
    /\ event[n][r] = "marking"
    /\ RetriedWrite(n, r, cache[n][r].cancel, Cancelled(req[r]))
    /\ event' = Put(event, n, r, "none")
    /\ OnlyEvent

----------------------------------------------------------------------------
(***************************************************************************)
(* The watcher of a hosting pod.  A pod that was deleted was seen failing. *)
(* A callback cleans up, unless the object is gone, and writes the outcome *)
(* unless the request is final; whatever happens, the data path is         *)
(* forgotten.                                                              *)
(***************************************************************************)

Watches(n, r) == tracker[n][r] = "watching" /\ work[n][r] # "starting"

OnlyTracker == UNCHANGED <<work, event, resume, restarts, faults>>

Forget(n, r) ==
    /\ tracker' = Put(tracker, n, r, "none")
    /\ UNCHANGED <<requestVars, podVars>>
    /\ OnlyTracker

CallBack(n, r, outcome) ==
    IF Exists(cache[n][r])
    THEN /\ CleansUp(r)
         /\ tracker' = Put(tracker, n, r, outcome)
         /\ OnlyTracker
    ELSE Forget(n, r)

OnCompletedCallback(n, r) ==
    /\ Watches(n, r)
    /\ pod[r] = "succeeded"
    /\ CallBack(n, r, "Completed")

OnFailedCallback(n, r) ==
    /\ Watches(n, r)
    /\ pod[r] \in {"failed", "none"}
    /\ CallBack(n, r, "Failed")

OnCancelledCallback(n, r) ==
    /\ Watches(n, r)
    /\ pod[r] = "cancelled"
    /\ CallBack(n, r, "Canceled")

FinishCallback(n, r) ==
    /\ tracker[n][r] \in Final
    /\ \/ /\ RetriedWrite(n, r, IsFinal(cache[n][r]), InPhase(req[r], tracker[n][r]))
          /\ UNCHANGED faults
       \/ /\ faults < MaxFaults
          /\ faults' = faults + 1
          /\ UNCHANGED <<requestVars, podVars>>
    /\ tracker' = Put(tracker, n, r, "none")
    /\ UNCHANGED <<work, event, resume, restarts>>

----------------------------------------------------------------------------
(***************************************************************************)
(* A restart of the node agent of n.  It forgets everything, lists the     *)
(* objects anew, and takes the pods it finds for new ones, whose updates   *)
(* it does not miss.  It resumes the requests of its own that were in      *)
(* progress when it listed them: it watches the pod if that still exists,  *)
(* whatever the limit, and otherwise asks for the request to be cancelled. *)
(***************************************************************************)
Restart(n, owned) ==
    /\ restarts < MaxRestarts
    /\ restarts' = restarts + 1
    /\ cache' = [cache EXCEPT ![n] = req]
    /\ work' = [work EXCEPT ![n] = [r \in Requests |-> "idle"]]
    /\ event' = [event EXCEPT ![n] = [r \in Requests |-> "none"]]
    /\ tracker' = [tracker EXCEPT ![n] = [r \in Requests |-> "none"]]
    /\ resume' = [resume EXCEPT ![n] = {r \in owned : req[r].phase = "InProgress"}]
    /\ podNews' = [r \in Requests |-> podNews[r] /\ podNode[r] # n]
    /\ UNCHANGED <<kind, home, req, pod, podNode, msCancel, moved, volume, faults>>

Resume(n, r) ==
    /\ r \in resume[n]
    /\ resume' = [resume EXCEPT ![n] = @ \ {r}]
    /\ \/ /\ GetExposed(n, r)
          /\ tracker' = Put(tracker, n, r, "watching")
          /\ UNCHANGED <<requestVars, podVars>>
       \/ /\ ~GetExposed(n, r)
          /\ RetriedWrite(n, r, cache[n][r].cancel, Cancelled(req[r]))
          /\ UNCHANGED tracker
    /\ UNCHANGED <<work, event, restarts, faults>>
============================================================================
