----------------------------- MODULE RestoreHooks -----------------------------
(***************************************************************************)
(* The exec hooks of restored pods: the tracker that counts them           *)
(* (internal/hook/hook_tracker.go), one goroutine per pod that waits for   *)
(* the pod's container and runs its hooks one after the other              *)
(* (internal/hook/wait_exec_hook_handler.go), and the context that the     *)
(* goroutines of one restore share (hooksWaitExecutor, pkg/restore).       *)
(***************************************************************************)
EXTENDS RestoreRequests

CONSTANTS
    Pods,         \* the items that are pods
    HooksOf,      \* the hooks of each pod, in order: what a failure means
    WaitsLimited, \* the pods whose hooks all have a wait timeout
    NoContainer   \* the pods whose hooks name a container they do not have

ASSUME HooksAssumption ==
    /\ Pods \subseteq Items
    /\ HooksOf \in [Pods -> Seq({"Continue", "Fail"})]
    /\ WaitsLimited \subseteq Pods
    /\ NoContainer \subseteq Pods

VARIABLES
    tracker,    \* of each restore and hook: not added, added, or its record
    handler,    \* the goroutine of each pod
    cancelled,  \* the restores whose shared context is cancelled
    pod,        \* each restored pod
    ran         \* what became of each hook

hookVars == <<tracker, handler, cancelled, pod, ran>>

HooksIn(p) == {<<p, n>> : n \in DOMAIN HooksOf[p]}

Hooks == UNION {HooksIn(p) : p \in Pods}

NotTracked == [h \in Hooks |-> "untracked"]

\* The restore it works for, the next hook to run, whether it is inside the
\* handler of a pod event, and whether an error was noted.
HandlerAt(r, state, next, errs) ==
    [r |-> r, state |-> state, next |-> next, errs |-> errs]

NoHandler == HandlerAt(NoRestore, "none", 1, FALSE)

HooksTypeOK ==
    /\ tracker \in [Restores -> [Hooks -> {"untracked", "added", "ok",
                                           "failed"}]]
    /\ handler \in [Pods -> [r : Restores \cup {NoRestore},
                             state : {"none", "waiting", "running", "leaving"},
                             next : Nat \ {0}, errs : BOOLEAN]]
    /\ \A p \in Pods : handler[p].next <= Len(HooksOf[p]) + 1
    /\ cancelled \subseteq Restores
    /\ pod \in [Pods -> {"absent", "created", "ended"}]
    /\ ran \in [Hooks -> {"no", "ok", "failed", "skipped"}]

HooksInit ==
    /\ tracker = [r \in Restores |-> NotTracked]
    /\ handler = [p \in Pods |-> NoHandler]
    /\ cancelled = {}
    /\ pod = [p \in Pods |-> "absent"]
    /\ ran = [h \in Hooks |-> "no"]

-----------------------------------------------------------------------------

(***************************************************************************)
(* The tracker.                                                            *)
(***************************************************************************)
Added(r, hs) ==
    [h \in Hooks |-> IF h \in hs /\ tracker[r][h] = "untracked"
                     THEN "added" ELSE tracker[r][h]]

\* The first record of a hook counts; one that was not added is an error
\* that is only logged.
Recorded(r, hs, how) ==
    [tracker EXCEPT ![r] =
        [h \in Hooks |-> IF h \in hs /\ @[h] = "added" THEN how ELSE @[h]]]

\* As many hooks executed as attempted: true of a restore that has no
\* tracker, too.
IsComplete(r) == \A h \in Hooks : tracker[r][h] # "added"

HookErrs(r) == \E h \in Hooks : tracker[r][h] = "failed"

-----------------------------------------------------------------------------

(***************************************************************************)
(* groupHooks and exec: add the hooks of a pod just created to the tracker *)
(* and start its goroutine.  Hooks of a missing container are discarded,   *)
(* after they were added.                                                  *)
(***************************************************************************)
StartHooks(r, p) ==
    /\ tracker' = [tracker EXCEPT ![r] = Added(r, HooksIn(p))]
    /\ handler' = [handler EXCEPT ![p] =
                       IF HooksIn(p) = {} \/ p \in NoContainer THEN NoHandler
                       ELSE HandlerAt(r, "waiting", 1, FALSE)]

\* The container of the pod is up, some time after the pod was created: from
\* now on the handler runs the hooks of the container, and does not look at
\* its context before it has.
ContainerUp(p) ==
    /\ handler[p].state = "waiting"
    /\ handler[p].r \notin cancelled
    /\ pod[p] = "created"
    /\ handler' = [handler EXCEPT ![p].state = "running"]
    /\ UNCHANGED <<tracker, cancelled, pod, ran>>

HookAt(p) == <<p, handler[p].next>>

\* One hook runs.  A failure is an error of the restore whatever its mode
\* is; with mode Fail the rest of the pod's hooks is left.
RunHook(p) ==
    LET h == HookAt(p)
        last == handler[p].next = Len(HooksOf[p])
    IN
    /\ handler[p].state = "running"
    /\ \E how \in {"ok", "failed"} :
           /\ how = "ok" => pod[p] = "created"
           /\ ran' = [ran EXCEPT ![h] = how]
           /\ tracker' = Recorded(handler[p].r, {h}, how)
           /\ handler' = [handler EXCEPT ![p] =
                  HandlerAt(@.r,
                            IF last \/ (how = "failed"
                                        /\ HooksOf[p][h[2]] = "Fail")
                            THEN "leaving" ELSE "running",
                            @.next + 1, @.errs \/ how = "failed")]
    /\ UNCHANGED <<cancelled, pod>>

\* A hook whose own wait timeout is over is recorded as failed.  With mode
\* Continue it runs all the same; the tracker keeps its first record.
RunExpiredHook(p) ==
    LET h == HookAt(p)
        last == handler[p].next = Len(HooksOf[p])
        stops == HooksOf[p][h[2]] = "Fail"
    IN
    /\ handler[p].state = "running"
    /\ p \in WaitsLimited
    /\ \E how \in IF stops THEN {"skipped"} ELSE {"ok", "failed"} :
           /\ how = "ok" => pod[p] = "created"
           /\ ran' = [ran EXCEPT ![h] = how]
    /\ tracker' = Recorded(handler[p].r, {h}, "failed")
    /\ handler' = [handler EXCEPT ![p] =
           HandlerAt(@.r, IF last \/ stops THEN "leaving" ELSE "running",
                     @.next + 1, TRUE)]
    /\ UNCHANGED <<cancelled, pod>>

\* The wait ends without the container: the shared context is cancelled, the
\* pod has ended or is deleted, or the longest wait timeout is over.
StopWaiting(p) ==
    /\ handler[p].state = "waiting"
    /\ handler[p].r \in cancelled \/ pod[p] = "ended" \/ p \in WaitsLimited
    /\ handler' = [handler EXCEPT ![p].state = "leaving"]
    /\ UNCHANGED <<tracker, cancelled, pod, ran>>

\* The goroutine ends: hooks that did not run are recorded as failed, and
\* any error cancels what the restore's other pods wait for.
Unexecuted(p) == {h \in HooksIn(p) : h[2] >= handler[p].next}

LeaveHooks(p) ==
    LET left == Unexecuted(p) IN
    /\ handler[p].state = "leaving"
    /\ ran' = [h \in Hooks |-> IF h \in left THEN "skipped" ELSE ran[h]]
    /\ tracker' = Recorded(handler[p].r, left, "failed")
    /\ handler' = [handler EXCEPT ![p] = NoHandler]
    /\ cancelled' = IF handler[p].errs \/ left # {}
                    THEN cancelled \cup {handler[p].r} ELSE cancelled
    /\ UNCHANGED pod

HandlerStep(p) ==
    \/ RunHook(p)
    \/ RunExpiredHook(p)
    \/ StopWaiting(p)
    \/ LeaveHooks(p)

\* The pod ends by itself, or somebody deletes it.
PodEnds(p) ==
    /\ pod[p] = "created"
    /\ pod' = [pod EXCEPT ![p] = "ended"]
    /\ UNCHANGED <<tracker, handler, cancelled, ran>>
=============================================================================
