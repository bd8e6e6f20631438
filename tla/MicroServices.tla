---------------------------- MODULE MicroServices ----------------------------
(***************************************************************************)
(* The process in a data mover's or pod volume's pod, and the watcher in   *)
(* the node agent that follows it.  The process has a main goroutine, the  *)
(* informer's goroutine that sees the request being cancelled, the data    *)
(* path's goroutines (module DataPath) and one that posts its events.  The *)
(* main goroutine takes one result from a channel without a buffer.        *)
(***************************************************************************)
EXTENDS DataPath

VARIABLES
    versions,  \* what the request has been: its phase is InProgress, and it
               \* is to be cancelled
    handler,   \* the informer's handler, and the version it saw last
    main,      \* the main goroutine, and the result it has
    done,      \* the process has been told to terminate
    recorder,  \* the event recorder
    events,    \* the events that have reached the API server
    mark,      \* a restored pod volume has its completion mark
    exit,      \* the pod's phase and termination message
    watcher    \* what has reached the watcher, and what it makes of it

serviceVars == <<versions, handler, main, done, recorder, events, mark, exit,
                 watcher>>

msVars == <<pathVars, serviceVars>>

\* What the process reads of its request.
Version == [inProgress : BOOLEAN, cancel : BOOLEAN]

HandlerState == [pc : {"off", "idle", "cancel", "sending", "stopping"},
                 seen : Nat]

\* Before there is a data path, and from when it has been created.
Preparing == {"new", "init", "poll", "create"}

MainState ==
    [pc : Preparing \cup {"dpInit", "start", "wait", "recorder", "close",
                         "waitDataPath", "gone"},
     result : {"none", "failed", "canceled", "completed"}]

RecorderState ==
    [queue : Seq({"Started", "Stopped", "sentinel"}),
     sentinel : {"none", "sent", "sinked", "off"}]

PodState == {"running", "failed", "canceled", "completed"}

WatcherState ==
    [pc : {"watch", "epilog", "ended"}, read : Nat, started : BOOLEAN,
     stopped : BOOLEAN, late : BOOLEAN, verdict : {"none"} \cup PodState]

ServicesTypeOK ==
    /\ PathTypeOK
    /\ versions \in Seq(Version) \ {<<>>}
    /\ handler \in HandlerState
    /\ main \in MainState
    /\ done \in BOOLEAN
    /\ recorder \in RecorderState
    /\ events \in Seq({"Started", "Stopped"})
    /\ mark \in BOOLEAN
    /\ exit \in PodState
    /\ watcher \in WatcherState

Current == versions[Len(versions)]

Alive == exit = "running"

PathUnchanged == UNCHANGED pathVars

-----------------------------------------------------------------------------
(***************************************************************************)
(* The request, as the node agent and the user change it.                  *)
(***************************************************************************)
GoInProgress ==
    /\ ~Current.inProgress
    /\ versions' = Append(versions, [Current EXCEPT !.inProgress = TRUE])
    /\ PathUnchanged
    /\ UNCHANGED <<handler, main, done, recorder, events, mark, exit, watcher>>

AskToCancel ==
    /\ mover.cancellable /\ ~Current.cancel
    /\ versions' = Append(versions, [Current EXCEPT !.cancel = TRUE])
    /\ PathUnchanged
    /\ UNCHANGED <<handler, main, done, recorder, events, mark, exit, watcher>>

\* The pod is deleted, and after its grace period killed.
Terminate ==
    /\ mover.terminable /\ ~done /\ Alive
    /\ done' = TRUE
    /\ PathUnchanged
    /\ UNCHANGED <<versions, handler, main, recorder, events, mark, exit, watcher>>

Kill ==
    /\ done /\ Alive
    /\ exit' = "failed"
    /\ PathUnchanged
    /\ UNCHANGED <<versions, handler, main, done, recorder, events, mark, watcher>>

-----------------------------------------------------------------------------
(***************************************************************************)
(* Events, of which only those the watcher looks for are kept.  They are   *)
(* posted one after the other; each is dropped when that fails too often.  *)
(* The sentinel follows the last one.                                      *)
(***************************************************************************)
Recording == recorder.sentinel # "off"

Event(e) ==
    recorder' = IF Recording THEN [recorder EXCEPT !.queue = Append(@, e)]
                ELSE recorder

\* Only the first ending event has a sentinel.
EndingEvent(e) ==
    recorder' =
        IF ~Recording THEN recorder
        ELSE IF recorder.sentinel = "none"
        THEN [queue |-> recorder.queue \o <<e, "sentinel">>, sentinel |-> "sent"]
        ELSE [recorder EXCEPT !.queue = Append(@, e)]

PostEvent ==
    /\ Alive /\ recorder.queue # <<>>
    /\ LET e == Head(recorder.queue) IN
       IF e = "sentinel"
       THEN /\ recorder' = [recorder EXCEPT
                               !.queue = Tail(@),
                               !.sentinel = IF @ = "sent" THEN "sinked" ELSE @]
            /\ UNCHANGED <<events, pathFaults>>
       ELSE /\ recorder' = [recorder EXCEPT !.queue = Tail(@)]
            /\ \/ events' = Append(events, e) /\ UNCHANGED pathFaults
               \/ PathFault /\ UNCHANGED events
    /\ UNCHANGED <<mover, dp, dpCanceled, canceling, manifest, target,
                   versions, handler, main, done, mark, exit, watcher>>

-----------------------------------------------------------------------------
(***************************************************************************)
(* The main goroutine.                                                     *)
(***************************************************************************)
To(pc) == main' = [main EXCEPT !.pc = pc]

FailWith(err) == main' = [pc |-> "recorder", result |-> err]

\* The credentials, the informer's cache and the ensurer of the repository.
\* Nothing has to be shut down yet when one of them fails.
CreateDataPathService ==
    /\ Alive /\ main.pc = "new"
    /\ \/ To("init") /\ UNCHANGED <<exit, pathFaults>>
       \/ PathFault /\ To("gone") /\ exit' = "failed"
    /\ UNCHANGED <<mover, dp, dpCanceled, canceling, manifest, target,
                   versions, handler, done, recorder, events, mark, watcher>>

\* The handler is added to an informer that has some version already.
ServiceInit ==
    /\ Alive /\ main.pc = "init"
    /\ \/ /\ To("poll")
          /\ \E v \in DOMAIN versions : handler' = [pc |-> "idle", seen |-> v]
          /\ UNCHANGED pathFaults
       \/ PathFault /\ FailWith("failed") /\ UNCHANGED handler
    /\ UNCHANGED <<mover, dp, dpCanceled, canceling, manifest, target,
                   versions, done, recorder, events, mark, exit, watcher>>

\* The request is polled for until its phase is InProgress.
WaitInProgress ==
    /\ Alive /\ main.pc = "poll"
    /\ \/ /\ Current.inProgress
          /\ To("create")
          /\ UNCHANGED pathFaults
       \/ done /\ FailWith("failed") /\ UNCHANGED pathFaults
       \/ PathFault /\ FailWith("failed")
    /\ UNCHANGED <<mover, dp, dpCanceled, canceling, manifest, target,
                   versions, handler, done, recorder, events, mark, exit, watcher>>

CreateGenericDataPath ==
    /\ Alive /\ main.pc = "create"
    /\ To("dpInit")
    /\ dp' = [dp EXCEPT !.pc = "created"]
    /\ UNCHANGED <<mover, dpCanceled, canceling, manifest, target, pathFaults,
                   versions, handler, done, recorder, events, mark, exit, watcher>>

\* The data path can be cancelled only from here on.
InitContext ==
    /\ Alive /\ main.pc = "dpInit" /\ dp.pc = "created"
    /\ dp' = [dp EXCEPT !.pc = "initializing"]
    /\ UNCHANGED <<mover, dpCanceled, canceling, manifest, target, pathFaults,
                   serviceVars>>

\* The location, the repository and its connection; all with the context of
\* the process.  A failure closes the data path.
InitDataPath ==
    /\ Alive /\ main.pc = "dpInit" /\ dp.pc = "initializing"
    /\ \/ /\ To("start")
          /\ GoTo("initialized")
          /\ UNCHANGED <<dpCanceled, pathFaults>>
       \/ /\ PathFault \/ (done /\ UNCHANGED pathFaults)
          /\ FailWith("failed")
          /\ dpCanceled' = TRUE
          /\ GoTo("ended")
    /\ UNCHANGED <<mover, canceling, manifest, target,
                   versions, handler, done, recorder, events, mark, exit, watcher>>

StartDataPath ==
    /\ Alive /\ main.pc = "start"
    /\ To("wait")
    /\ GoTo(IF mover.uploader = "block" THEN "blocks"
            ELSE IF IsBackup THEN "entry" ELSE "load")
    /\ Event("Started")
    /\ UNCHANGED <<mover, dpCanceled, canceling, manifest, target, pathFaults,
                   versions, handler, done, events, mark, exit, watcher>>

\* What the goroutine that gives up or hands over its result does next.
Taken(result) ==
    /\ main' = [pc |-> "recorder", result |-> result]
    /\ EndingEvent("Stopped")

\* One of those who have a result is heard, or none when the process is to
\* terminate.
TakeResult ==
    /\ Alive /\ main.pc = "wait"
    /\ \/ /\ done
          /\ Taken("failed")
          /\ UNCHANGED <<dp, handler>>
       \/ /\ dp.pc = "sending"
          /\ Taken(dp.err)
          /\ GoTo("closing")
          /\ UNCHANGED handler
       \/ /\ handler.pc = "sending"
          /\ Taken("canceled")
          /\ handler' = [handler EXCEPT !.pc = "stopping"]
          /\ UNCHANGED dp
    /\ UNCHANGED <<mover, dpCanceled, canceling, manifest, target, pathFaults,
                   versions, done, events, mark, exit, watcher>>

\* The recorder waits for its sentinel, a minute at most.
ShutdownRecorder ==
    /\ Alive /\ main.pc = "recorder"
    /\ recorder.sentinel # "sent" \/ recorder.queue # <<>>
    /\ To("close")
    /\ recorder' = [queue |-> <<>>, sentinel |-> "off"]
    /\ IF recorder.sentinel = "sent" THEN PathFault ELSE UNCHANGED pathFaults
    /\ UNCHANGED <<mover, dp, dpCanceled, canceling, manifest, target,
                   versions, handler, done, events, mark, exit, watcher>>

CloseDataPath ==
    /\ Alive /\ main.pc = "close"
    /\ To("waitDataPath")
    /\ dpCanceled' = (dpCanceled \/ dp.pc \notin {"none", "created"})
    /\ UNCHANGED <<mover, dp, canceling, manifest, target, pathFaults,
                   versions, handler, done, recorder, events, mark, exit, watcher>>

AtRest == {"none", "created", "initializing", "initialized", "ended"}

\* Writing the termination message may fail, and then so does the pod.
ExitPod ==
    /\ Alive /\ main.pc = "waitDataPath"
    /\ dp.pc \in AtRest
    /\ To("gone")
    /\ \/ exit' = main.result /\ UNCHANGED pathFaults
       \/ PathFault /\ exit' = "failed"
    /\ UNCHANGED <<mover, dp, dpCanceled, canceling, manifest, target,
                   versions, handler, done, recorder, events, mark, watcher>>

-----------------------------------------------------------------------------
(***************************************************************************)
(* The handler.  It gets some or all of the versions, each with the one it *)
(* saw before, and acts on the one that sets the cancel flag of a request  *)
(* in progress.                                                            *)
(***************************************************************************)
Triggers(old, new) == new.inProgress /\ new.cancel /\ ~old.cancel

HandleUpdate ==
    /\ Alive /\ handler.pc = "idle"
    /\ \E v \in DOMAIN versions :
          /\ v > handler.seen
          /\ IF Triggers(versions[handler.seen], versions[v])
             THEN handler' = [pc |-> "cancel", seen |-> v]
             ELSE handler' = [handler EXCEPT !.seen = v]
    /\ PathUnchanged
    /\ UNCHANGED <<versions, main, done, recorder, events, mark, exit, watcher>>

\* The process dies of a nil pointer when there is no context yet, or when
\* the main goroutine has not read the request yet and its event has no
\* object.
CancelRequest ==
    /\ Alive /\ handler.pc = "cancel"
    /\ \/ /\ dp.pc \notin {"none", "created"} /\ main.pc # "gone"
          /\ dpCanceled' = TRUE
          /\ handler' = [handler EXCEPT !.pc = "idle"]
          /\ UNCHANGED exit
       \/ /\ dp.pc = "none" /\ main.pc # "poll"
          /\ handler' = [handler EXCEPT !.pc = "sending"]
          /\ UNCHANGED <<dpCanceled, exit>>
       \/ /\ dp.pc = "created" \/ (dp.pc = "none" /\ main.pc = "poll" /\ Recording)
          /\ exit' = "failed"
          /\ UNCHANGED <<dpCanceled, handler>>
    /\ UNCHANGED <<mover, dp, canceling, manifest, target, pathFaults,
                   versions, main, done, recorder, events, mark, watcher>>

HandlerStops ==
    /\ Alive /\ handler.pc = "stopping"
    /\ handler' = [handler EXCEPT !.pc = "idle"]
    /\ EndingEvent("Stopped")
    /\ PathUnchanged
    /\ UNCHANGED <<versions, main, done, events, mark, exit, watcher>>

-----------------------------------------------------------------------------
(***************************************************************************)
(* The data path's goroutine, in this process.                             *)
(***************************************************************************)
RunUploader == Alive /\ UploaderStep /\ UNCHANGED serviceVars

\* The callback: a pod volume that has been restored gets its mark, if that
\* can be written, before the result is handed over.
OnOutcomeSilent ==   \* a failure is not handed over
    /\ Alive /\ dp.pc = "returned"
    /\ dp' = [dp EXCEPT !.pc = IF Outcome = "completed" THEN "sending" ELSE "closing",
                       !.err = Outcome]
    /\ UNCHANGED <<mover, dpCanceled, canceling, manifest, target, pathFaults,
                   serviceVars>>

OnOutcome ==
    /\ Alive /\ dp.pc = "returned"
    /\ \/ /\ Outcome # "panic"
          /\ dp' = [dp EXCEPT !.pc = "sending", !.err = Outcome]
          /\ \/ /\ mark' = (mark \/ (mover.kind = "PodVolumeRestore"
                                       /\ Outcome = "completed"))
                /\ UNCHANGED pathFaults
             \/ /\ mover.kind = "PodVolumeRestore" /\ Outcome = "completed"
                /\ PathFault
                /\ UNCHANGED mark
          /\ UNCHANGED exit
       \/ /\ Outcome = "panic"
          /\ exit' = "failed"
          /\ UNCHANGED <<dp, mark, pathFaults>>
    /\ UNCHANGED <<mover, dpCanceled, canceling, manifest, target,
                   versions, handler, main, done, recorder, events, watcher>>

CloseProvider ==
    /\ Alive /\ dp.pc = "closing"
    /\ GoTo("ended")
    /\ UNCHANGED <<mover, dpCanceled, canceling, manifest, target, pathFaults,
                   serviceVars>>

-----------------------------------------------------------------------------
(***************************************************************************)
(* The watcher.  Events and the pod's end reach it by different informers. *)
(***************************************************************************)
OnEvent(w) ==
    [w EXCEPT !.read = @ + 1,
              !.started = @ \/ events[w.read + 1] = "Started",
              !.stopped = @ \/ events[w.read + 1] = "Stopped"]

WatchEvent ==
    /\ watcher.pc \in {"watch", "epilog"}
    /\ watcher.read < Len(events)
    /\ watcher.pc = "watch" \/ ~watcher.started \/ ~watcher.stopped
    /\ watcher' = OnEvent(watcher)
    /\ PathUnchanged
    /\ UNCHANGED <<versions, handler, main, done, recorder, events, mark, exit>>

WatchPod ==
    /\ watcher.pc = "watch" /\ ~Alive
    /\ watcher' = [watcher EXCEPT !.pc = "epilog"]
    /\ PathUnchanged
    /\ UNCHANGED <<versions, handler, main, done, recorder, events, mark, exit>>

\* Both events have come, or none has for a minute: late.
CallVerdict ==
    /\ watcher.pc = "epilog"
    /\ watcher' = [watcher EXCEPT
                      !.pc = "ended",
                      !.late = ~(watcher.started /\ watcher.stopped),
                      !.verdict = exit]
    /\ PathUnchanged
    /\ UNCHANGED <<versions, handler, main, done, recorder, events, mark, exit>>

\* The controller closes the watcher of a request that goes away.
CloseWatcher ==
    /\ done /\ watcher.pc # "ended"
    /\ watcher' = [watcher EXCEPT !.pc = "ended"]
    /\ PathUnchanged
    /\ UNCHANGED <<versions, handler, main, done, recorder, events, mark, exit>>

-----------------------------------------------------------------------------
MicroServicesInit ==
    /\ DataPathInit
    /\ versions = <<[inProgress |-> FALSE, cancel |-> FALSE]>>
    /\ handler = [pc |-> "off", seen |-> 1]
    /\ main = [pc |-> "new", result |-> "none"]
    /\ done = FALSE
    /\ recorder = [queue |-> <<>>, sentinel |-> "none"]
    /\ events = <<>>
    /\ mark = FALSE
    /\ exit = "running"
    /\ watcher = [pc |-> "watch", read |-> 0, started |-> FALSE,
                  stopped |-> FALSE, late |-> FALSE, verdict |-> "none"]

ProcessStep ==
    \/ CreateDataPathService \/ ServiceInit \/ WaitInProgress \/ CreateGenericDataPath
    \/ InitContext \/ InitDataPath \/ StartDataPath \/ TakeResult
    \/ ShutdownRecorder \/ CloseDataPath \/ ExitPod
    \/ CancelRequest \/ HandlerStops
    \/ RunUploader \/ OnOutcome \/ CloseProvider
    \/ PostEvent

MicroServicesNext ==
    \/ GoInProgress \/ AskToCancel \/ Terminate \/ Kill
    \/ ProcessStep \/ HandleUpdate
    \/ WatchEvent \/ WatchPod \/ CallVerdict \/ CloseWatcher

MicroServicesSpec == MicroServicesInit /\ [][MicroServicesNext]_msVars

-----------------------------------------------------------------------------
(***************************************************************************)
(* Properties.                                                             *)
(***************************************************************************)
\* What is said to be complete is: a pod that succeeds, the verdict on it and
\* the mark that lets the restored pod's containers start stand for a volume
\* that has been moved as a whole, however the cancellation, the uploader and
\* the end of the process interleave.
SuccessIsMoved ==
    (exit = "completed" \/ watcher.verdict = "completed" \/ mark) => Moved

\* The process waits for ever only for the request to be in progress, or when
\* there are two results: the data path's, and the one of a process that is to
\* terminate or of a cancellation that came before the data path was there.
MoverGoesOn ==
    Alive /\ ~(ENABLED ProcessStep) =>
        \/ main.pc = "poll" /\ ~Current.inProgress
        \/ main.pc = "waitDataPath" /\ dp.pc = "sending"
           /\ (done \/ main.result = "canceled")

=============================================================================
