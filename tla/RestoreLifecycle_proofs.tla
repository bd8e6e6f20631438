----------------------- MODULE RestoreLifecycle_proofs -----------------------
(***************************************************************************)
(* Proofs about RestoreLifecycle, for any set of restores, items and       *)
(* hooks: what the items' restoring leaves behind, and what a restore that *)
(* is Completed has done.                                                  *)
(***************************************************************************)
EXTENDS RestoreLifecycle, SequenceTheorems, TLAPS

-----------------------------------------------------------------------------
(***************************************************************************)
(* Stacks.                                                                 *)
(***************************************************************************)

\* What is left of a stack when its top is taken away.
LEMMA Popped ==
  ASSUME NEW S, NEW s \in Seq(S), s # <<>>
  PROVE  /\ Tail(s) \in Seq(S)
         /\ 1 \in DOMAIN s /\ Head(s) = s[1] /\ Head(s) \in S
         /\ \A n \in DOMAIN Tail(s) : n + 1 \in DOMAIN s /\ Tail(s)[n] = s[n + 1]
         /\ DOMAIN s \subseteq Nat \ {0} /\ DOMAIN Tail(s) \subseteq Nat \ {0}
         /\ \A n \in DOMAIN s : n # 1 => n - 1 \in DOMAIN Tail(s)
  OBVIOUS

\* A stack with one more on top.
LEMMA Pushed ==
  ASSUME NEW S, NEW s \in Seq(S), NEW x \in S
  PROVE  /\ <<x>> \o s \in Seq(S)
         /\ (<<x>> \o s)[1] = x
         /\ 1 \in DOMAIN (<<x>> \o s)
         /\ \A n \in DOMAIN s : /\ n + 1 \in DOMAIN (<<x>> \o s)
                                /\ (<<x>> \o s)[n + 1] = s[n]
         /\ DOMAIN s \subseteq Nat \ {0}
         /\ DOMAIN (<<x>> \o s) \subseteq Nat \ {0}
         /\ \A n \in DOMAIN (<<x>> \o s) : n # 1 => n - 1 \in DOMAIN s
  OBVIOUS

\* A stack whose top is exchanged.
LEMMA Exchanged ==
  ASSUME NEW S, NEW s \in Seq(S), s # <<>>, NEW x \in S
  PROVE  /\ [s EXCEPT ![1] = x] \in Seq(S)
         /\ DOMAIN [s EXCEPT ![1] = x] = DOMAIN s
         /\ [s EXCEPT ![1] = x][1] = x
         /\ \A n \in DOMAIN s : n # 1 => [s EXCEPT ![1] = x][n] = s[n]
  OBVIOUS


-----------------------------------------------------------------------------
(***************************************************************************)
(* The state is well formed: types, and what the goroutines of the pods    *)
(* and the tracker of the hooks know of each other.                        *)
(***************************************************************************)
RunType ==
    [r : Restores \cup {NoRestore}, at : {"idle", "items", "patch"},
     todo : SUBSET Items, stack : Seq(Frames),
     result : [Items -> Results], provision : SUBSET Items,
     list : [Items -> OpPhases], errs : BOOLEAN, phase : Phases]

\* A goroutine works for the restore that created its pod, and the hooks it
\* has not run yet are in the tracker.
GoroutineInv ==
    \A p \in Pods : handler[p].state # "none" =>
        /\ handler[p].r \in Restores
        /\ cluster[p] = handler[p].r
        /\ handler[p].state \in {"waiting", "running"} =>
               handler[p].next \in DOMAIN HooksOf[p]
        /\ \A n \in DOMAIN HooksOf[p] :
               n >= handler[p].next => tracker[handler[p].r][<<p, n>>] = "added"

\* The tracker of a restore holds hooks of pods it created, and what it
\* records of them is never better than what became of them.
TrackerInv ==
    \A r \in Restores : \A p \in Pods : \A n \in DOMAIN HooksOf[p] :
        /\ tracker[r][<<p, n>>] # "untracked" => cluster[p] = r
        /\ tracker[r][<<p, n>>] = "ok" => ran[<<p, n>>] = "ok"

Formed ==
    /\ TypeOK
    /\ run.at # "idle" => run.r \in Restores
    /\ fin.at # "idle" => fin.r \in Restores
    /\ GoroutineInv
    /\ TrackerInv

LEMMA PhaseNames ==
  /\ Phases = {"Absent", "New", "InProgress", "Gone",
               "WaitingForPluginOperations",
               "WaitingForPluginOperationsPartiallyFailed", "Finalizing",
               "FinalizingPartiallyFailed", "FailedValidation", "Completed",
               "PartiallyFailed", "Failed"}
  /\ WaitingPhases = {"WaitingForPluginOperations",
                      "WaitingForPluginOperationsPartiallyFailed"}
  /\ FinalizingPhases = {"Finalizing", "FinalizingPartiallyFailed"}
  BY DEF Phases, WaitingPhases, FinalizingPhases, EndPhases

LEMMA ObjectChanged ==
  ASSUME NEW o \in Object, NEW phase \in Phases
  PROVE  /\ [o EXCEPT !.phase = phase] \in Object
         /\ [o EXCEPT !.deleting = TRUE] \in Object
         /\ [phase |-> phase, deleting |-> o.deleting, finalizer |-> TRUE] \in Object
         /\ o.phase \in Phases /\ o.deleting \in BOOLEAN /\ o.finalizer \in BOOLEAN
         /\ Gone \in Object
  BY PhaseNames DEF Object, Gone

HandlerType ==
    [r : Restores \cup {NoRestore},
     state : {"none", "waiting", "running", "leaving"},
     next : Nat \ {0}, errs : BOOLEAN]

LEMMA HandlerChanged ==
  ASSUME NEW o \in HandlerType
  PROVE  /\ o.r \in Restores \cup {NoRestore}
         /\ o.state \in {"none", "waiting", "running", "leaving"}
         /\ o.next \in Nat \ {0} /\ o.errs \in BOOLEAN
         /\ \A state \in {"none", "waiting", "running", "leaving"} :
               /\ [o EXCEPT !.state = state] \in HandlerType
               /\ [o EXCEPT !.state = state].r = o.r
               /\ [o EXCEPT !.state = state].next = o.next
               /\ [o EXCEPT !.state = state].state = state
  BY DEF HandlerType

LEMMA HandlerMade ==
  ASSUME NEW r \in Restores \cup {NoRestore}, NEW next \in Nat \ {0},
         NEW state \in {"none", "waiting", "running", "leaving"},
         NEW errs \in BOOLEAN
  PROVE  /\ HandlerAt(r, state, next, errs) \in HandlerType
         /\ HandlerAt(r, state, next, errs).r = r
         /\ HandlerAt(r, state, next, errs).state = state
         /\ HandlerAt(r, state, next, errs).next = next
  BY DEF HandlerType, HandlerAt

LEMMA NoHandlerMade ==
  NoHandler \in HandlerType /\ NoHandler.state = "none" /\ NoHandler.next = 1
  BY DEF NoHandler, HandlerType, HandlerAt

LEMMA HooksArePairs ==
  /\ \A h \in Hooks : h[1] \in Pods /\ h[2] \in DOMAIN HooksOf[h[1]]
                      /\ h = <<h[1], h[2]>>
  /\ \A p \in Pods : \A n \in DOMAIN HooksOf[p] : <<p, n>> \in Hooks
  /\ \A p \in Pods : HooksIn(p) \subseteq Hooks
  BY HooksAssumption DEF Hooks, HooksIn

LEMMA HooksCounted ==
  \A p \in Pods : DOMAIN HooksOf[p] = 1 .. Len(HooksOf[p])
                  /\ Len(HooksOf[p]) \in Nat
  BY HooksAssumption

LEMMA HookNamed ==
  \A p \in Pods : \A n \in DOMAIN HooksOf[p] : <<p, n>> \in Hooks
  BY HooksArePairs

LEMMA StartedRun ==
  ASSUME NEW r \in Restores \cup {NoRestore}, NEW todo \in SUBSET Items
  PROVE  RunOf(r, todo) \in RunType /\ NotRunning \in RunType
  <1>1. <<>> \in Seq(Frames)
    OBVIOUS
  <1> QED
    BY <1>1, PhaseNames DEF RunOf, RunType, NotRunning, Results, NoOperations, OpPhases

LEMMA EnteredRun ==
  ASSUME NEW rn \in RunType, NEW i \in Items
  PROVE  Enter(rn, i) \in RunType
  <1>1. Frame(i, "actions", Extra[i]) \in Frames
    BY ItemsAssumption DEF Frame, Frames
  <1>2. <<Frame(i, "actions", Extra[i])>> \o rn.stack \in Seq(Frames)
    BY <1>1, Pushed DEF RunType
  <1> QED
    BY <1>2 DEF Enter, RunType, Results

LEMMA ReturnedRun ==
  ASSUME run \in RunType, run.stack # <<>>,
         NEW result \in Results, NEW errs \in BOOLEAN
  PROVE  Return(result, errs) \in RunType
  <1>1. Tail(run.stack) \in Seq(Frames) /\ Top \in Frames
    BY Popped DEF RunType, Top
  <1> QED
    BY <1>1 DEF Return, RunType, Frames

LEMMA ItemsRun ==
  ASSUME Formed, ItemStep
  PROVE  run' \in RunType /\ run'.at = "items" /\ run'.r = run.r /\ run.r \in Restores
  <1> USE DEF Formed
  <1>0. run \in RunType
    BY DEF TypeOK, ItemsTypeOK, RunType
  <1>1. run.at = "items" /\ run.r \in Restores
    BY DEF ItemStep, NextItem, RememberVolume, RunActions, NextExtra,
           DoNotCreate, CreateItem, Running
  <1>2. ASSUME NEW i \in Items, NextItem(i)
        PROVE  run' \in RunType /\ run'.at = "items" /\ run'.r = run.r
    <2> DEFINE rn == [run EXCEPT !.todo = @ \ {i}]
    <2>1. rn \in RunType /\ rn.at = run.at /\ rn.r = run.r
      BY <1>0 DEF RunType
    <2>2. Enter(rn, i) \in RunType
      BY <2>1, EnteredRun
    <2>3. Enter(rn, i).at = rn.at /\ Enter(rn, i).r = rn.r
      BY <2>1 DEF Enter, RunType
    <2> QED
      BY <1>0, <1>1, <1>2, <2>1, <2>2, <2>3 DEF NextItem, RunType
  <1>3. ASSUME Running
        PROVE  /\ Top \in Frames /\ run.stack # <<>>
               /\ \A result \in Results : \A errs \in BOOLEAN :
                     /\ Return(result, errs) \in RunType
                     /\ Return(result, errs).at = run.at
                     /\ Return(result, errs).r = run.r
    BY <1>0, <1>3, ReturnedRun, Popped DEF Running, RunType, Return, Top
  <1>4. CASE RememberVolume
    BY <1>0, <1>1, <1>3, <1>4 DEF RememberVolume, RunType, Frames, Results
  <1>5. CASE RunActions
    <2> DEFINE Listed(begins) ==
                   [run.list EXCEPT ![Top.item] =
                        IF begins THEN "InProgress" ELSE @]
               Onward == [run.stack EXCEPT ![1] = [Top EXCEPT !.at = "extras"]]
    <2>1. \E begins \in BOOLEAN :
             \/ run' = [Return("Failed", TRUE) EXCEPT !.list = Listed(begins)]
             \/ run' = [Return("Skipped", FALSE) EXCEPT !.list = Listed(begins)]
             \/ run' = [run EXCEPT !.stack = Onward, !.list = Listed(begins)]
      <3>1. \A begins : [run EXCEPT !.stack = Onward, !.list = Listed(begins)]
                         = [run EXCEPT !.stack[1].at = "extras", !.list = Listed(begins)]
        BY <1>3, <1>0, Popped DEF Top, RunType
      <3>2. PICK begins \in BOOLEAN :
               \/ run' = [Return("Failed", TRUE) EXCEPT !.list = Listed(begins)]
               \/ run' = [Return("Skipped", FALSE) EXCEPT !.list = Listed(begins)]
               \/ run' = [run EXCEPT !.stack[1].at = "extras", !.list = Listed(begins)]
        BY <1>5, Zenon DEF RunActions
      <3> HIDE DEF Listed, Onward
      <3> QED
        BY <3>1, <3>2
    <2>2. [Top EXCEPT !.at = "extras"] \in Frames
      BY <1>3, <1>5 DEF RunActions, Frames
    <2>3. Onward \in Seq(Frames)
      BY <1>0, <1>3, <1>5, <2>2, Exchanged DEF RunActions, RunType
    <2>4. \A begins \in BOOLEAN : Listed(begins) \in [Items -> OpPhases]
      BY <1>0, <1>3 DEF OpPhases, RunType, Frames
    <2> HIDE DEF Listed, Onward
    <2> PICK begins \in BOOLEAN :
             \/ run' = [Return("Failed", TRUE) EXCEPT !.list = Listed(begins)]
             \/ run' = [Return("Skipped", FALSE) EXCEPT !.list = Listed(begins)]
             \/ run' = [run EXCEPT !.stack = Onward, !.list = Listed(begins)]
      BY <2>1
    <2>5. Listed(begins) \in [Items -> OpPhases]
      BY <2>4
    <2>6. /\ Return("Failed", TRUE) \in RunType /\ Return("Failed", TRUE).at = run.at
          /\ Return("Failed", TRUE).r = run.r
          /\ Return("Skipped", FALSE) \in RunType /\ Return("Skipped", FALSE).at = run.at
          /\ Return("Skipped", FALSE).r = run.r
      BY <1>3, <1>5 DEF RunActions, Results
    <2> QED
      BY <1>0, <1>1, <2>3, <2>5, <2>6 DEF RunType
  <1>6. CASE NextExtra
    <2> DEFINE rn == [run EXCEPT !.stack[1].extras = Tail(@)]
    <2>1. [Top EXCEPT !.extras = Tail(@)] \in Frames /\ Head(Top.extras) \in Items
      BY <1>3, <1>6, Popped DEF NextExtra, Frames
    <2>2. [run.stack EXCEPT ![1] = [Top EXCEPT !.extras = Tail(@)]] \in Seq(Frames)
      BY <1>0, <1>3, <1>6, <2>1, Exchanged DEF NextExtra, RunType
    <2>3. [run.stack EXCEPT ![1].extras = Tail(@)] \in Seq(Frames)
      BY <1>0, <1>3, <1>6, <2>2, Popped DEF NextExtra, Top, RunType
    <2>4. rn \in RunType /\ rn.at = run.at /\ rn.r = run.r
      BY <1>0, <2>3 DEF RunType
    <2>5. Enter(rn, Head(Top.extras)) \in RunType
      BY <2>4, <2>1, EnteredRun
    <2>6. Enter(rn, Head(Top.extras)).at = rn.at /\ Enter(rn, Head(Top.extras)).r = rn.r
      BY <2>4 DEF Enter, RunType
    <2> QED
      BY <1>0, <1>1, <1>6, <2>4, <2>5, <2>6 DEF NextExtra, RunType
  <1>7. CASE DoNotCreate
    BY <1>0, <1>1, <1>3, <1>7 DEF DoNotCreate, Results
  <1>8. CASE \E errs, goesOn \in BOOLEAN : CreateItem(errs, goesOn)
    BY <1>0, <1>1, <1>3, <1>8 DEF CreateItem, Results
  <1> QED
    BY <1>1, <1>2, <1>4, <1>5, <1>6, <1>7, <1>8 DEF ItemStep


TrackerType == [Restores -> [Hooks -> {"untracked", "added", "ok", "failed"}]]

LEMMA RecordedHooks ==
  ASSUME tracker \in TrackerType, NEW r \in Restores, NEW hs,
         NEW how \in {"ok", "failed"}
  PROVE  /\ Recorded(r, hs, how) \in TrackerType
         /\ \A q \in Restores : q # r => Recorded(r, hs, how)[q] = tracker[q]
         /\ \A h \in Hooks : Recorded(r, hs, how)[r][h] =
                IF h \in hs /\ tracker[r][h] = "added" THEN how ELSE tracker[r][h]
  BY DEF TrackerType, Recorded

LEMMA OneMishap ==
  mishaps \in 0 .. MaxMishaps /\ Mishap => mishaps' \in 0 .. MaxMishaps
  BY RequestsAssumption DEF Mishap

\* The pods' goroutines.
LEMMA HandlerFormed ==
  ASSUME Formed, NEW p \in Pods, HandlerStep(p) \/ ContainerUp(p) \/ PodEnds(p),
         UNCHANGED cluster
  PROVE  HooksTypeOK' /\ GoroutineInv' /\ TrackerInv'
  <1> USE DEF Formed, TypeOK
  <1>1. handler[p] \in HandlerType /\ handler \in [Pods -> HandlerType]
    BY DEF HooksTypeOK, HandlerType
  <1>2. tracker \in TrackerType
    BY DEF HooksTypeOK, TrackerType
  <1>3. CASE ContainerUp(p) \/ StopWaiting(p)
    <2>1. PICK state \in {"running", "leaving"} :
             handler' = [handler EXCEPT ![p] = [handler[p] EXCEPT !.state = state]]
      BY <1>3, <1>1 DEF ContainerUp, StopWaiting
    <2>2. handler[p].state = "waiting" /\ UNCHANGED <<tracker, cancelled, pod, ran>>
      BY <1>3 DEF ContainerUp, StopWaiting
    <2>3. handler' \in [Pods -> HandlerType]
      BY <2>1, <1>1, HandlerChanged
    <2>4. /\ \A q \in Pods : q # p => handler'[q] = handler[q]
          /\ handler'[p].r = handler[p].r /\ handler'[p].next = handler[p].next
      BY <2>1, <1>1, HandlerChanged
    <2>5. HooksTypeOK'
      BY <2>2, <2>3, <2>4 DEF HooksTypeOK, HandlerType
    <2>6. GoroutineInv'
      BY <2>2, <2>4 DEF GoroutineInv
    <2>7. TrackerInv'
      BY <2>2 DEF TrackerInv
    <2> QED
      BY <2>5, <2>6, <2>7
  <1>4. CASE PodEnds(p)
    BY <1>4 DEF PodEnds, HooksTypeOK, GoroutineInv, TrackerInv
  <1>5. CASE RunHook(p) \/ RunExpiredHook(p)
    <2>1. /\ handler[p].state = "running" /\ handler[p].r \in Restores
          /\ handler[p].next \in DOMAIN HooksOf[p]
          /\ UNCHANGED <<cancelled, pod>>
      BY <1>5 DEF RunHook, RunExpiredHook, GoroutineInv
    <2>2. HookAt(p) \in Hooks /\ HookAt(p) = <<p, handler[p].next>>
      BY <2>1, HookNamed DEF HookAt
    <2>3. PICK how \in {"ok", "failed", "skipped"}, record \in {"ok", "failed"},
               state \in {"running", "leaving"}, errs \in BOOLEAN :
             /\ ran' = [ran EXCEPT ![HookAt(p)] = how]
             /\ tracker' = Recorded(handler[p].r, {HookAt(p)}, record)
             /\ record = "ok" => how = "ok"
             /\ handler' = [handler EXCEPT ![p] =
                    HandlerAt(@.r, state, @.next + 1, errs)]
             /\ handler[p].next = Len(HooksOf[p]) => state = "leaving"
      <3>1. CASE RunHook(p)
        <4> PICK how \in {"ok", "failed"} :
               /\ ran' = [ran EXCEPT ![HookAt(p)] = how]
               /\ tracker' = Recorded(handler[p].r, {HookAt(p)}, how)
               /\ handler' = [handler EXCEPT ![p] =
                      HandlerAt(@.r,
                                IF handler[p].next = Len(HooksOf[p])
                                   \/ (how = "failed"
                                        /\ HooksOf[p][HookAt(p)[2]] = "Fail")
                                THEN "leaving" ELSE "running",
                                @.next + 1, @.errs \/ how = "failed")]
          BY <3>1 DEF RunHook
        <4>1. PICK state \in {"running", "leaving"} :
                 /\ state = IF handler[p].next = Len(HooksOf[p])
                               \/ (how = "failed"
                                    /\ HooksOf[p][HookAt(p)[2]] = "Fail")
                            THEN "leaving" ELSE "running"
                 /\ handler[p].next = Len(HooksOf[p]) => state = "leaving"
          OBVIOUS
        <4>2. PICK errs \in BOOLEAN : errs = (handler[p].errs \/ how = "failed")
          OBVIOUS
        <4> QED
          BY <4>1, <4>2, Zenon
      <3>2. CASE RunExpiredHook(p)
        <4>1. PICK state \in {"running", "leaving"} :
                 /\ state = IF handler[p].next = Len(HooksOf[p])
                               \/ HooksOf[p][HookAt(p)[2]] = "Fail"
                            THEN "leaving" ELSE "running"
                 /\ handler[p].next = Len(HooksOf[p]) => state = "leaving"
          OBVIOUS
        <4>2. \E how \in {"ok", "failed", "skipped"} :
                 ran' = [ran EXCEPT ![HookAt(p)] = how]
          BY <3>2 DEF RunExpiredHook
        <4>3. /\ tracker' = Recorded(handler[p].r, {HookAt(p)}, "failed")
              /\ handler' = [handler EXCEPT ![p] =
                     HandlerAt(@.r, state, @.next + 1, TRUE)]
          BY <3>2, <4>1, Zenon DEF RunExpiredHook
        <4> QED
          BY <4>1, <4>2, <4>3
      <3> QED
        BY <1>5, <3>1, <3>2
    <2>4. handler[p].next \in 1 .. Len(HooksOf[p]) /\ Len(HooksOf[p]) \in Nat
          /\ DOMAIN HooksOf[p] = 1 .. Len(HooksOf[p])
      BY <2>1, HooksCounted
    <2>5. HandlerAt(handler[p].r, state, handler[p].next + 1, errs) \in HandlerType
      BY <2>1, <2>4, HandlerMade
    <2>6. /\ handler' \in [Pods -> HandlerType]
          /\ \A q \in Pods : q # p => handler'[q] = handler[q]
          /\ handler'[p].r = handler[p].r /\ handler'[p].next = handler[p].next + 1
          /\ handler'[p].state = state
      BY <1>1, <2>1, <2>3, <2>4, <2>5, HandlerMade
    <2>7. /\ tracker' \in TrackerType
          /\ \A q \in Restores : q # handler[p].r => tracker'[q] = tracker[q]
          /\ \A h \in Hooks : h # HookAt(p) =>
                tracker'[handler[p].r][h] = tracker[handler[p].r][h]
          /\ tracker'[handler[p].r][HookAt(p)] \in {record, tracker[handler[p].r][HookAt(p)]}
      <3>1. record \in {"ok", "failed"} /\ handler[p].r \in Restores
        BY <2>1, <2>3
      <3> QED
        <4> DEFINE new == Recorded(handler[p].r, {HookAt(p)}, record)
        <4>1. /\ new \in TrackerType
              /\ \A q \in Restores : q # handler[p].r => new[q] = tracker[q]
              /\ \A h \in Hooks : new[handler[p].r][h] =
                    IF h \in {HookAt(p)} /\ tracker[handler[p].r][h] = "added"
                    THEN record ELSE tracker[handler[p].r][h]
          BY <1>2, <3>1, RecordedHooks
        <4> HIDE DEF new
        <4>2. tracker' = new
          BY <2>3 DEF new
        <4> QED
          BY <2>2, <4>1, <4>2
    <2>8. /\ ran' \in [Hooks -> {"no", "ok", "failed", "skipped"}]
          /\ \A h \in Hooks : h # HookAt(p) => ran'[h] = ran[h]
          /\ ran'[HookAt(p)] = how
      BY <2>2, <2>3 DEF HooksTypeOK
    <2>9. \A q \in Pods : \A n \in DOMAIN HooksOf[q] :
             <<q, n>> \in Hooks /\ (<<q, n>> = HookAt(p) <=> q = p /\ n = handler[p].next)
      <3> TAKE q \in Pods
      <3> TAKE n \in DOMAIN HooksOf[q]
      <3>1. <<q, n>> = <<p, handler[p].next>> <=> q = p /\ n = handler[p].next
        OBVIOUS
      <3> QED
        BY <2>2, <3>1, HookNamed
    <2>10. tracker[handler[p].r][HookAt(p)] = "added" /\ cluster[p] = handler[p].r
      BY <2>1, <2>2, <2>4 DEF GoroutineInv
    <2>11. HooksTypeOK'
      <3>1. \A q \in Pods : handler'[q].next <= Len(HooksOf[q]) + 1
        <4> TAKE q \in Pods
        <4>1. CASE q = p
          BY <2>4, <2>6, <4>1
        <4>2. CASE q # p
          BY <2>6, <4>2 DEF HooksTypeOK
        <4> QED
          BY <4>1, <4>2
      <3> QED
        BY <2>1, <2>6, <2>7, <2>8, <3>1 DEF HooksTypeOK, HandlerType, TrackerType
    <2>12. GoroutineInv'
      <3> SUFFICES ASSUME NEW q \in Pods, handler'[q].state # "none"
                   PROVE  /\ handler'[q].r \in Restores
                          /\ cluster[q] = handler'[q].r
                          /\ handler'[q].state \in {"waiting", "running"} =>
                                 handler'[q].next \in DOMAIN HooksOf[q]
                          /\ \A n \in DOMAIN HooksOf[q] : n >= handler'[q].next =>
                                 tracker'[handler'[q].r][<<q, n>>] = "added"
        BY DEF GoroutineInv
      <3>1. CASE q # p
        BY <3>1, <2>6, <2>7, <2>9 DEF GoroutineInv
      <3>2. CASE q = p
        <4>1. \A n \in DOMAIN HooksOf[p] : n >= handler[p].next + 1 =>
                 n # handler[p].next /\ n >= handler[p].next
          BY <2>4
        <4>2. handler'[p].state \in {"waiting", "running"} =>
                 handler'[p].next \in DOMAIN HooksOf[p]
          BY <2>3, <2>4, <2>6
        <4> QED
          BY <3>2, <4>1, <4>2, <2>1, <2>6, <2>7, <2>9, <2>10 DEF GoroutineInv
      <3> QED
        BY <3>1, <3>2
    <2>13. TrackerInv'
      <3> SUFFICES ASSUME NEW r \in Restores, NEW q \in Pods, NEW n \in DOMAIN HooksOf[q]
                   PROVE  /\ tracker'[r][<<q, n>>] # "untracked" => cluster[q] = r
                          /\ tracker'[r][<<q, n>>] = "ok" => ran'[<<q, n>>] = "ok"
        BY DEF TrackerInv
      <3>1. CASE <<q, n>> # HookAt(p)
        BY <3>1, <2>7, <2>8, <2>9 DEF TrackerInv
      <3>2. CASE <<q, n>> = HookAt(p) /\ r = handler[p].r
        BY <3>2, <2>3, <2>7, <2>8, <2>9, <2>10 DEF TrackerInv
      <3>3. CASE <<q, n>> = HookAt(p) /\ r # handler[p].r
        BY <3>3, <2>7, <2>9, <2>10 DEF TrackerInv
      <3> QED
        BY <3>1, <3>2, <3>3
    <2> QED
      BY <2>11, <2>12, <2>13
  <1>6. CASE LeaveHooks(p)
    <2>1. /\ handler[p].state = "leaving" /\ handler[p].r \in Restores
          /\ cluster[p] = handler[p].r
          /\ UNCHANGED pod
          /\ tracker' = Recorded(handler[p].r, Unexecuted(p), "failed")
          /\ cancelled' \subseteq Restores
      BY <1>6 DEF LeaveHooks, GoroutineInv, HooksTypeOK
    <2>2. \A h \in Hooks : h \in Unexecuted(p) =>
             /\ h[1] = p /\ h[2] \in DOMAIN HooksOf[p] /\ h = <<p, h[2]>>
             /\ h[2] >= handler[p].next
             /\ tracker[handler[p].r][h] = "added"
      BY <2>1 DEF Unexecuted, HooksIn, GoroutineInv
    <2>3. /\ handler' \in [Pods -> HandlerType]
          /\ \A q \in Pods : q # p => handler'[q] = handler[q]
          /\ handler'[p].state = "none" /\ handler'[p].next = 1
      BY <1>1, <1>6, NoHandlerMade DEF LeaveHooks
    <2>4. /\ tracker' \in TrackerType
          /\ \A q \in Restores : q # handler[p].r => tracker'[q] = tracker[q]
          /\ \A h \in Hooks : h \notin Unexecuted(p) =>
                tracker'[handler[p].r][h] = tracker[handler[p].r][h]
          /\ \A h \in Hooks : h \in Unexecuted(p) => tracker'[handler[p].r][h] = "failed"
      BY <1>2, <2>1, <2>2, RecordedHooks
    <2>5. /\ ran' \in [Hooks -> {"no", "ok", "failed", "skipped"}]
          /\ \A h \in Hooks : h \notin Unexecuted(p) => ran'[h] = ran[h]
      BY <1>6 DEF LeaveHooks, HooksTypeOK
    <2>6. \A q \in Pods : \A n \in DOMAIN HooksOf[q] :
             <<q, n>> \in Hooks /\ (<<q, n>> \in Unexecuted(p) => q = p)
      BY <2>2, HookNamed
    <2>7. HooksTypeOK'
      <3>1. \A q \in Pods : handler'[q].next <= Len(HooksOf[q]) + 1
        BY <2>3, HooksCounted DEF HooksTypeOK
      <3> QED
        BY <2>1, <2>3, <2>4, <2>5, <3>1 DEF HooksTypeOK, HandlerType, TrackerType
    <2>8. GoroutineInv'
      BY <2>1, <2>3, <2>4, <2>6 DEF GoroutineInv
    <2>9. TrackerInv'
      <3> SUFFICES ASSUME NEW r \in Restores, NEW q \in Pods, NEW n \in DOMAIN HooksOf[q]
                   PROVE  /\ tracker'[r][<<q, n>>] # "untracked" => cluster[q] = r
                          /\ tracker'[r][<<q, n>>] = "ok" => ran'[<<q, n>>] = "ok"
        BY DEF TrackerInv
      <3>1. CASE <<q, n>> \notin Unexecuted(p)
        BY <3>1, <2>4, <2>5, <2>6 DEF TrackerInv
      <3>2. CASE <<q, n>> \in Unexecuted(p) /\ r = handler[p].r
        BY <3>2, <2>1, <2>4, <2>6
      <3>3. CASE <<q, n>> \in Unexecuted(p) /\ r # handler[p].r
        BY <3>3, <2>1, <2>2, <2>4, <2>6 DEF TrackerInv
      <3> QED
        BY <3>1, <3>2, <3>3
    <2> QED
      BY <2>7, <2>8, <2>9
  <1> QED
    BY <1>3, <1>4, <1>5, <1>6 DEF HandlerStep

LEMMA InitFormed == Init => Formed
  <1> SUFFICES ASSUME Init PROVE Formed
    OBVIOUS
  <1> USE DEF Init, RequestsInit, HooksInit, ItemsInit, ReconcilerInit,
          OperationsInit, FinalizerInit
  <1>1. RequestsTypeOK
    BY RequestsAssumption, PhaseNames
    DEF RequestsTypeOK, Object, NoOperations, OpPhases
  <1>2. HooksTypeOK /\ GoroutineInv /\ TrackerInv
    BY HooksAssumption, HooksArePairs
    DEF HooksTypeOK, NoHandler, HandlerAt, NotTracked, GoroutineInv, TrackerInv
  <1>3. run \in RunType /\ run.at = "idle"
    BY StartedRun DEF NotRunning, RunOf
  <1>4. ItemsTypeOK
    BY <1>3 DEF ItemsTypeOK, RunType
  <1>5. ReconcilerTypeOK /\ OperationsTypeOK /\ FinalizerTypeOK /\ fin.at = "idle"
    BY DEF ReconcilerTypeOK, OperationsTypeOK, FinalizerTypeOK, NoEntry, Entry,
           NoOperations, OpPhases, FinIdle, FinAt
  <1> QED
    BY <1>1, <1>2, <1>3, <1>4, <1>5 DEF Formed, TypeOK

LEMMA PatchedObjects ==
  ASSUME RequestsTypeOK, NEW r \in Restores, NEW c \in Controllers,
         NEW phase \in Phases, PatchPhase(c, r, phase)
  PROVE  /\ restores' \in [Restores -> Object]
         /\ unseen' \in [Restores -> SUBSET Controllers]
  <1>1. [restores[r] EXCEPT !.phase = phase] \in Object
    BY ObjectChanged DEF RequestsTypeOK
  <1> QED
    <2>1. CASE UNCHANGED <<restores, unseen>>
      BY <2>1 DEF RequestsTypeOK
    <2>2. CASE /\ restores' = [restores EXCEPT ![r].phase = phase]
               /\ unseen' = [unseen EXCEPT ![r] = @ \cup {c}]
      <3>1. unseen[r] \cup {c} \in SUBSET Controllers
        BY DEF RequestsTypeOK
      <3> QED
        BY <1>1, <2>2, <3>1 DEF RequestsTypeOK
    <2> QED
      BY <2>1, <2>2 DEF PatchPhase

LEMMA RunChanged ==
  ASSUME run \in RunType, NEW errs \in BOOLEAN, NEW phase \in Phases,
         NEW list \in [Items -> OpPhases]
  PROVE  /\ [run EXCEPT !.errs = errs] \in RunType
         /\ [run EXCEPT !.errs = errs].at = run.at
         /\ [run EXCEPT !.errs = errs].r = run.r
         /\ [run EXCEPT !.at = "patch", !.phase = phase] \in RunType
         /\ [run EXCEPT !.at = "patch", !.phase = phase].r = run.r
         /\ [run EXCEPT !.at = "patch", !.list = list, !.phase = phase] \in RunType
         /\ [run EXCEPT !.at = "patch", !.list = list, !.phase = phase].r = run.r
  BY DEF RunType

LEMMA LossNoted ==
  ASSUME ReconcilerTypeOK, NEW r \in Restores, NEW what \in Losses, Loses(r, what)
  PROVE  lost' \in [Restores -> SUBSET Losses]
  <1>1. lost[r] \cup {what} \in SUBSET Losses
    BY DEF ReconcilerTypeOK
  <1> QED
    BY <1>1 DEF ReconcilerTypeOK, Loses

LEMMA PhasesFor ==
  \A failed, waits : PhaseFor(failed, waits) \in WaitingPhases \cup FinalizingPhases
                     /\ PhaseFor(failed, waits) \in Phases
  BY PhaseNames DEF PhaseFor

\* What the restore controller writes is well formed.
ReconciledOK ==
    /\ RequestsTypeOK
    /\ ReconcilerTypeOK
    /\ cancelled \subseteq Restores
    /\ run \in RunType
    /\ run.at # "idle" => run.r \in Restores

LEMMA ReconcilerFormed ==
  ASSUME Formed, ReconcilerStep
  PROVE  ReconciledOK'
  <1> USE DEF Formed, TypeOK
  <1>0. run \in RunType /\ cancelled \subseteq Restores
    BY DEF ItemsTypeOK, RunType, HooksTypeOK
  <1>1. ASSUME NEW r \in Restores, Refuse(r)
        PROVE  ReconciledOK'
    <2>1. restores[r] \in Object /\ "FailedValidation" \in Phases
      BY PhaseNames DEF RequestsTypeOK
    <2>2. [phase |-> "FailedValidation", deleting |-> restores[r].deleting,
           finalizer |-> TRUE] \in Object
      BY <2>1, ObjectChanged
    <2>3. unseen[r] \cup {"restore"} \in SUBSET Controllers
      BY DEF RequestsTypeOK, Controllers
    <2> QED
      BY <1>0, <1>1, <2>2, <2>3
      DEF Refuse, ReconciledOK, RequestsTypeOK, ReconcilerTypeOK, hookVars,
          itemVars, reconcilerVars
  <1>2. ASSUME NEW r \in Restores, Start(r)
        PROVE  ReconciledOK'
    <2>1. restores[r] \in Object /\ "InProgress" \in Phases
      BY PhaseNames DEF RequestsTypeOK
    <2>2. [phase |-> "InProgress", deleting |-> restores[r].deleting,
           finalizer |-> TRUE] \in Object
      BY <2>1, ObjectChanged
    <2>3. unseen[r] \cup {"restore"} \in SUBSET Controllers
      BY DEF RequestsTypeOK, Controllers
    <2>4. RunOf(r, Items) \in RunType
      BY StartedRun
    <2>5. RunOf(r, Items).r = r
      BY DEF RunOf
    <2> QED
      BY <1>0, <1>2, <2>2, <2>3, <2>4, <2>5
      DEF Start, ReconciledOK, RequestsTypeOK, ReconcilerTypeOK, reconcilerVars
  <1>3. ASSUME NEW r \in Restores, DeleteExternalResources(r)
        PROVE  ReconciledOK'
    <2>1. "list" \in Losses /\ Gone \in Object
      BY PhaseNames, ObjectChanged DEF Losses, Gone, Object
    <2>2. NoOperations \in [Items -> OpPhases]
      BY DEF NoOperations, OpPhases
    <2>3. /\ lost' \in [Restores -> SUBSET Losses] /\ mishaps' \in 0 .. MaxMishaps
          /\ restores' \in [Restores -> Object]
      <3>1. CASE restores' = [restores EXCEPT ![r] = Gone] /\ UNCHANGED <<mishaps, lost>>
        BY <2>1, <3>1 DEF RequestsTypeOK, ReconcilerTypeOK
      <3>2. CASE Mishap /\ Loses(r, "list") /\ UNCHANGED restores
        BY <2>1, <3>2, LossNoted, OneMishap DEF RequestsTypeOK
      <3> QED
        BY <1>3, <3>1, <3>2 DEF DeleteExternalResources
    <2>4. lists' \in [Restores -> [Items -> OpPhases]]
      BY <1>3, <2>2 DEF DeleteExternalResources, RequestsTypeOK
    <2> QED
      BY <1>0, <1>3, <2>3, <2>4
      DEF DeleteExternalResources, ReconciledOK, RequestsTypeOK, ReconcilerTypeOK,
          hookVars, itemVars
  <1>4. CASE RunFails
    <2>1. run.at = "items"
      BY <1>4 DEF RunFails, ItemsDone
    <2>2. "Failed" \in Phases
      BY PhaseNames
    <2>3. mishaps' \in 0 .. MaxMishaps
      BY <1>4, OneMishap DEF RunFails, RequestsTypeOK
    <2>4. run' \in RunType /\ run'.r = run.r
      BY <1>0, <1>4, <2>2 DEF RunFails, RunType
    <2> QED
      BY <1>0, <1>4, <2>1, <2>3, <2>4
      DEF RunFails, ReconciledOK, RequestsTypeOK, ReconcilerTypeOK, hookVars
  <1>5. ASSUME NEW stored \in BOOLEAN, FinishRun(stored)
        PROVE  ReconciledOK'
    <2>1. run.at = "items" /\ run.r \in Restores
      BY <1>5 DEF FinishRun, ItemsDone
    <2>2. PICK new \in Polled(run.r, run.list) :
             /\ mishaps' = mishaps \/ Mishap
             /\ lists' = [lists EXCEPT ![run.r] = IF stored THEN new ELSE @]
             /\ lost' = lost \/ Loses(run.r, "list")
             /\ hadErrs' = hadErrs \cup {run.r} \/ hadErrs' = hadErrs
             /\ \E failed, waits :
                   run' = [run EXCEPT !.at = "patch", !.list = new,
                                      !.phase = PhaseFor(failed, waits)]
      BY <1>5, Zenon DEF FinishRun
    <2>3. new \in [Items -> OpPhases]
      BY <2>2 DEF Polled
    <2>4. run' \in RunType /\ run'.r = run.r
      <3> PICK failed, waits : run' = [run EXCEPT !.at = "patch", !.list = new,
                                             !.phase = PhaseFor(failed, waits)]
        BY <2>2
      <3> PICK phase \in Phases : phase = PhaseFor(failed, waits)
        BY PhasesFor
      <3>1. run' = [run EXCEPT !.at = "patch", !.list = new, !.phase = phase]
        OBVIOUS
      <3> QED
        BY <1>0, <2>3, <3>1 DEF RunType
    <2>5. mishaps' \in 0 .. MaxMishaps
      BY <2>2, OneMishap DEF RequestsTypeOK
    <2>6. lost' \in [Restores -> SUBSET Losses]
      <3>1. "list" \in Losses
        BY DEF Losses
      <3> QED
        BY <2>1, <2>2, <3>1, LossNoted DEF ReconcilerTypeOK
    <2>7. lists' \in [Restores -> [Items -> OpPhases]]
      BY <2>2, <2>3 DEF RequestsTypeOK
    <2> QED
      BY <1>0, <1>5, <2>1, <2>2, <2>4, <2>5, <2>6, <2>7
      DEF FinishRun, ReconciledOK, RequestsTypeOK, ReconcilerTypeOK, hookVars
  <1>6. CASE EndRun
    <2>1. run.r \in Restores /\ run.phase \in Phases
      BY <1>0, <1>6 DEF EndRun, RunType
    <2>2. "restore" \in Controllers /\ "phase" \in Losses
      BY DEF Controllers, Losses
    <2>3. /\ restores' \in [Restores -> Object]
          /\ unseen' \in [Restores -> SUBSET Controllers]
          /\ lost' \in [Restores -> SUBSET Losses] /\ mishaps' \in 0 .. MaxMishaps
      <3>1. CASE PatchPhase("restore", run.r, run.phase) /\ UNCHANGED <<mishaps, lost>>
        BY <2>1, <2>2, <3>1, PatchedObjects DEF RequestsTypeOK, ReconcilerTypeOK
      <3>2. CASE Mishap /\ Loses(run.r, "phase") /\ UNCHANGED <<restores, unseen>>
        BY <2>1, <2>2, <3>2, LossNoted, OneMishap DEF RequestsTypeOK
      <3> QED
        BY <1>6, <3>1, <3>2 DEF EndRun
    <2>4. NotRunning \in RunType /\ NotRunning.at = "idle"
      BY StartedRun DEF NotRunning, RunOf
    <2> QED
      BY <1>0, <1>6, <2>3, <2>4
      DEF EndRun, ReconciledOK, RequestsTypeOK, ReconcilerTypeOK, hookVars
  <1> QED
    BY <1>1, <1>2, <1>3, <1>4, <1>5, <1>6 DEF ReconcilerStep

EntryType == [list : [Items -> OpPhases], errs : BOOLEAN]

FinType ==
    [r : Restores \cup {NoRestore}, at : {"idle", "hooks", "results", "patch"},
     failed : BOOLEAN]

LEMMA NextFormed == Formed /\ [Next]_vars => Formed'
  <1> SUFFICES ASSUME Formed, [Next]_vars PROVE Formed'
    OBVIOUS
  <1> USE DEF Formed, TypeOK
  <1>0. run \in RunType
    BY DEF ItemsTypeOK, RunType
  <1>1. CASE UNCHANGED vars
    BY <1>1
    DEF vars, requestVars, hookVars, itemVars, reconcilerVars, RequestsTypeOK,
        HooksTypeOK, ItemsTypeOK, ReconcilerTypeOK, OperationsTypeOK,
        FinalizerTypeOK, GoroutineInv, TrackerInv, IsComplete
  <1>2. CASE \/ EnvironmentStep(BackupGoes)
             \/ \E r \in Restores :
                   \/ EnvironmentStep(Deliver(r)) \/ EnvironmentStep(Create(r))
                   \/ EnvironmentStep(Delete(r))
                   \/ EnvironmentStep(\E i \in Items : OperationEnds(r, i))
    <2>1. RequestsTypeOK'
      <3> USE DEF RequestsTypeOK, EnvironmentStep
      <3>1. ASSUME NEW r \in Restores, EnvironmentStep(Deliver(r))
            PROVE  RequestsTypeOK'
        BY <3>1 DEF Deliver
      <3>2. ASSUME NEW r \in Restores, EnvironmentStep(Create(r))
            PROVE  RequestsTypeOK'
        <4>1. [restores[r] EXCEPT !.phase = "New"] \in Object
          BY ObjectChanged, PhaseNames
        <4> QED
          BY <3>2, <4>1 DEF Create
      <3>3. ASSUME NEW r \in Restores, EnvironmentStep(Delete(r))
            PROVE  RequestsTypeOK'
        <4>1. /\ [restores[r] EXCEPT !.deleting = TRUE] \in Object
              /\ Gone \in Object
          BY ObjectChanged, PhaseNames
        <4>2. restores' \in [Restores -> Object]
          BY <3>3, <4>1 DEF Delete
        <4> QED
          BY <3>3, <4>2, OneMishap DEF Delete
      <3>4. CASE EnvironmentStep(BackupGoes)
        BY <3>4, OneMishap DEF BackupGoes
      <3>5. ASSUME NEW r \in Restores, EnvironmentStep(\E i \in Items : OperationEnds(r, i))
            PROVE  RequestsTypeOK'
        BY <3>5 DEF OperationEnds
      <3> QED
        BY <1>2, <3>1, <3>2, <3>3, <3>4, <3>5
    <2>2. UNCHANGED <<hookVars, itemVars, reconcilerVars, opsMap, fin>>
      BY <1>2 DEF EnvironmentStep
    <2> QED
      BY <2>1, <2>2
      DEF hookVars, itemVars, reconcilerVars, HooksTypeOK, ItemsTypeOK,
          ReconcilerTypeOK, OperationsTypeOK, FinalizerTypeOK, GoroutineInv,
          TrackerInv
  <1>3. ASSUME NEW p \in Pods,
               \/ HooksStep(MayStart(p) /\ ContainerUp(p) /\ UNCHANGED mishaps)
               \/ HooksStep(HandlerStep(p) /\ UNCHANGED mishaps)
               \/ HooksStep(PodEnds(p) /\ Mishap)
        PROVE  Formed'
    <2>1. UNCHANGED <<restores, seen, unseen, backup, lists, progress, itemVars,
                      reconcilerVars, opsMap, fin>>
      BY <1>3 DEF HooksStep
    <2>2. mishaps' \in 0 .. MaxMishaps
      BY <1>3, OneMishap DEF HooksStep, RequestsTypeOK
    <2>3. RequestsTypeOK' /\ ItemsTypeOK' /\ ReconcilerTypeOK'
          /\ OperationsTypeOK' /\ FinalizerTypeOK'
      BY <2>1, <2>2
      DEF RequestsTypeOK, ItemsTypeOK, ReconcilerTypeOK, OperationsTypeOK,
          FinalizerTypeOK, itemVars, reconcilerVars
    <2>4. HooksTypeOK' /\ GoroutineInv' /\ TrackerInv'
      BY <1>3, <2>1, HandlerFormed DEF HooksStep, itemVars
    <2> QED
      BY <2>1, <2>3, <2>4 DEF itemVars
  <1>4. ASSUME NEW p \in Pods, ItemsStep(VolumeEnds(p))
        PROVE  Formed'
    <2>1. PICK end \in {"restored", "failed"} :
             /\ volume' = [volume EXCEPT ![p] = end]
             /\ run' = [run EXCEPT !.errs = @ \/ volume'[p] = "failed"]
      BY <1>4 DEF ItemsStep, VolumeEnds
    <2>2. PICK errs \in BOOLEAN : errs = (run.errs \/ volume'[p] = "failed")
      OBVIOUS
    <2>3. run' = [run EXCEPT !.errs = errs]
      BY <2>1, <2>2
    <2>4. \E phase \in Phases, list \in [Items -> OpPhases] : TRUE
      BY <1>0 DEF RunType
    <2>5. run' \in RunType /\ run'.at = run.at /\ run'.r = run.r
      BY <1>0, <2>3, <2>4, RunChanged
    <2>6. volume' \in [Pods -> {"none", "restoring", "restored", "failed"}]
      BY <2>1 DEF ItemsTypeOK
    <2>7. UNCHANGED <<requestVars, hookVars, cluster, unbound, reconcilerVars,
                      opsMap, fin>>
      BY <1>4 DEF ItemsStep, VolumeEnds
    <2>8. RequestsTypeOK' /\ ReconcilerTypeOK' /\ OperationsTypeOK' /\ FinalizerTypeOK'
      BY <2>7 DEF RequestsTypeOK, ReconcilerTypeOK, OperationsTypeOK,
                  FinalizerTypeOK, requestVars, reconcilerVars
    <2>9. HooksTypeOK' /\ GoroutineInv' /\ TrackerInv'
      BY <2>7 DEF HooksTypeOK, GoroutineInv, TrackerInv, hookVars
    <2>10. ItemsTypeOK'
      BY <2>5, <2>6, <2>7 DEF ItemsTypeOK, RunType
    <2> QED
      BY <2>5, <2>7, <2>8, <2>9, <2>10
  <1>5. CASE ItemsStep(ItemStep)
    <2>1. UNCHANGED <<restores, seen, unseen, backup, lists, mishaps, cancelled,
                      ran, reconcilerVars, opsMap, fin>>
      BY <1>5
      DEF ItemsStep, ItemStep, NextItem, RememberVolume, RunActions, NextExtra,
          DoNotCreate, CreateItem, StartHooks, requestVars, hookVars
    <2>2. run' \in RunType /\ run'.at = "items" /\ run.r \in Restores /\ run'.r = run.r
      BY <1>5, ItemsRun DEF ItemsStep
    <2>3. RequestsTypeOK' /\ ReconcilerTypeOK' /\ OperationsTypeOK' /\ FinalizerTypeOK'
      <3>1. progress' \in [Restores -> [Items -> {"none", "running", "succeeded",
                                                  "failed"}]]
        <4>1. CASE RunActions
          <5>1. Top \in Frames
            BY <4>1, <1>0, Popped DEF RunActions, Running, Top, RunType
          <5>2. Top.item \in Items
            BY <5>1 DEF Frames
          <5>3. progress' = progress
                \/ progress' = [progress EXCEPT ![run.r][Top.item] = "running"]
            BY <4>1 DEF RunActions
          <5> QED
            <6>1. progress[run.r] \in [Items -> {"none", "running", "succeeded",
                                                  "failed"}]
              BY <2>2 DEF RequestsTypeOK
            <6>2. [progress[run.r] EXCEPT ![Top.item] = "running"]
                     \in [Items -> {"none", "running", "succeeded", "failed"}]
              BY <5>2, <6>1
            <6> QED
              BY <2>2, <5>3, <6>2 DEF RequestsTypeOK
        <4>2. CASE UNCHANGED progress
          BY <4>2 DEF RequestsTypeOK
        <4> QED
          BY <1>5, <4>1, <4>2
          DEF ItemsStep, ItemStep, NextItem, RememberVolume, NextExtra,
              DoNotCreate, CreateItem, requestVars
      <3> QED
        BY <2>1, <3>1
        DEF RequestsTypeOK, ReconcilerTypeOK, OperationsTypeOK, FinalizerTypeOK,
            reconcilerVars
    <2>4. ASSUME NEW errs \in BOOLEAN, NEW goesOn \in BOOLEAN,
                 CreateItem(errs, goesOn)
          PROVE  /\ HooksTypeOK' /\ GoroutineInv' /\ TrackerInv'
                 /\ cluster' \in [Items -> Restores \cup {NoRestore, "before"}]
                 /\ unbound' \subseteq Items
                 /\ volume' \in [Pods -> {"none", "restoring", "restored", "failed"}]
      <3> PICK i \in Items : i = Top.item
        <4>1. Top \in Frames
          BY <2>4, <1>0, Popped DEF CreateItem, Running, Top, RunType
        <4> QED
          BY <4>1 DEF Frames
      <3>1. /\ cluster' \in [Items -> Restores \cup {NoRestore, "before"}]
            /\ unbound' \subseteq Items
            /\ volume' \in [Pods -> {"none", "restoring", "restored", "failed"}]
        BY <2>2, <2>4 DEF CreateItem, ItemsTypeOK
      <3>2. HooksTypeOK' /\ GoroutineInv' /\ TrackerInv'
        <4>0. /\ cluster[i] = NoRestore /\ cluster' = [cluster EXCEPT ![i] = run.r]
              /\ UNCHANGED <<cancelled, ran>>
              /\ NoRestore \notin Restores
          BY <2>4, RequestsAssumption DEF CreateItem
        <4>1. CASE i \in Pods /\ goesOn
          <5>1. /\ tracker' = [tracker EXCEPT ![run.r] = Added(run.r, HooksIn(i))]
                /\ handler' = [handler EXCEPT ![i] =
                       IF HooksIn(i) = {} \/ i \in NoContainer THEN NoHandler
                       ELSE HandlerAt(run.r, "waiting", 1, FALSE)]
                /\ pod' = [pod EXCEPT ![i] = "created"]
            BY <2>4, <4>1 DEF CreateItem, StartHooks
          <5>2. handler \in [Pods -> HandlerType]
            BY DEF HooksTypeOK, HandlerType
          <5>3. /\ HandlerAt(run.r, "waiting", 1, FALSE) \in HandlerType
                /\ HandlerAt(run.r, "waiting", 1, FALSE).r = run.r
                /\ HandlerAt(run.r, "waiting", 1, FALSE).next = 1
            <6>1. 1 \in Nat \ {0} /\ run.r \in Restores \cup {NoRestore}
              BY <2>2
            <6> QED
              BY <6>1 DEF HandlerAt, HandlerType
          <5>4. /\ handler' \in [Pods -> HandlerType]
                /\ \A q \in Pods : q # i => handler'[q] = handler[q]
                /\ handler'[i].next = 1
                /\ handler'[i].state # "none" =>
                      handler'[i].r = run.r /\ HooksIn(i) # {}
            <6>1. CASE HooksIn(i) = {} \/ i \in NoContainer
              BY <4>1, <5>1, <5>2, <6>1, NoHandlerMade
            <6>2. CASE ~(HooksIn(i) = {} \/ i \in NoContainer)
              BY <4>1, <5>1, <5>2, <5>3, <6>2
            <6> QED
              BY <6>1, <6>2
          <5>5. \A n \in DOMAIN HooksOf[i] : tracker[run.r][<<i, n>>] = "untracked"
            BY <2>2, <4>0, <4>1 DEF TrackerInv
          <5>6. \A q \in Pods : \A n \in DOMAIN HooksOf[q] :
                   <<q, n>> \in Hooks /\ (<<q, n>> \in HooksIn(i) <=> q = i)
            <6>1. \A q \in Pods : \A n \in DOMAIN HooksOf[q] :
                     <<q, n>> \in HooksIn(i) <=> q = i
              BY <4>1 DEF HooksIn
            <6> QED
              BY <6>1, HookNamed
          <5>7. \A h \in Hooks : tracker'[run.r][h] =
                   IF h \in HooksIn(i) /\ tracker[run.r][h] = "untracked"
                   THEN "added" ELSE tracker[run.r][h]
            BY <2>2, <5>1 DEF Added, HooksTypeOK
          <5>8. /\ tracker' \in [Restores -> [Hooks -> {"untracked", "added", "ok",
                                                        "failed"}]]
                /\ \A r \in Restores : r # run.r => tracker'[r] = tracker[r]
            BY <2>2, <5>1 DEF Added, HooksTypeOK
          <5>9. DOMAIN HooksOf[i] = 1 .. Len(HooksOf[i]) /\ Len(HooksOf[i]) \in Nat
            BY <4>1, HooksCounted
          <5>10. HooksIn(i) # {} => 1 \in DOMAIN HooksOf[i]
            BY <5>9 DEF HooksIn
          <5>11. HooksTypeOK'
            <6>1. \A q \in Pods : handler'[q].next <= Len(HooksOf[q]) + 1
              <7> TAKE q \in Pods
              <7>1. CASE q = i
                BY <5>4, <5>9, <7>1
              <7>2. CASE q # i
                BY <5>4, <7>2 DEF HooksTypeOK
              <7> QED
                BY <7>1, <7>2
            <6>2. pod' \in [Pods -> {"absent", "created", "ended"}]
              BY <4>1, <5>1 DEF HooksTypeOK
            <6> QED
              BY <4>0, <5>4, <5>8, <6>1, <6>2 DEF HooksTypeOK, HandlerType
          <5>12. GoroutineInv'
            <6> SUFFICES ASSUME NEW q \in Pods, handler'[q].state # "none"
                         PROVE  /\ handler'[q].r \in Restores
                                /\ cluster'[q] = handler'[q].r
                                /\ handler'[q].state \in {"waiting", "running"} =>
                                       handler'[q].next \in DOMAIN HooksOf[q]
                                /\ \A n \in DOMAIN HooksOf[q] : n >= handler'[q].next =>
                                       tracker'[handler'[q].r][<<q, n>>] = "added"
              BY DEF GoroutineInv
            <6>1. q \in Items
              BY HooksAssumption
            <6>2. CASE q = i
              BY <2>2, <4>0, <5>4, <5>5, <5>6, <5>7, <5>10, <6>1, <6>2 DEF ItemsTypeOK
            <6>3. CASE q # i
              <7>1. /\ handler'[q] = handler[q] /\ cluster'[q] = cluster[q]
                    /\ handler[q].state # "none"
                BY <4>0, <5>4, <6>1, <6>3 DEF ItemsTypeOK
              <7>2. /\ handler[q].r \in Restores /\ cluster[q] = handler[q].r
                    /\ handler[q].state \in {"waiting", "running"} =>
                           handler[q].next \in DOMAIN HooksOf[q]
                    /\ \A n \in DOMAIN HooksOf[q] : n >= handler[q].next =>
                           tracker[handler[q].r][<<q, n>>] = "added"
                BY <7>1 DEF GoroutineInv
              <7>3. \A n \in DOMAIN HooksOf[q] :
                       tracker'[handler[q].r][<<q, n>>] = tracker[handler[q].r][<<q, n>>]
                BY <5>6, <5>7, <5>8, <6>3, <7>2
              <7> QED
                BY <7>1, <7>2, <7>3
            <6> QED
              BY <6>2, <6>3
          <5>13. TrackerInv'
            <6> SUFFICES ASSUME NEW r \in Restores, NEW q \in Pods,
                                NEW n \in DOMAIN HooksOf[q]
                         PROVE  /\ tracker'[r][<<q, n>>] # "untracked" => cluster'[q] = r
                                /\ tracker'[r][<<q, n>>] = "ok" => ran'[<<q, n>>] = "ok"
              BY DEF TrackerInv
            <6>1. q \in Items
              BY HooksAssumption
            <6>2. CASE q = i
              BY <2>2, <4>0, <5>5, <5>6, <5>7, <5>8, <6>1, <6>2
              DEF ItemsTypeOK, TrackerInv
            <6>3. CASE q # i
              BY <2>2, <4>0, <5>6, <5>7, <5>8, <6>1, <6>3
              DEF ItemsTypeOK, TrackerInv
            <6> QED
              BY <6>2, <6>3
          <5> QED
            BY <5>11, <5>12, <5>13
        <4>2. CASE ~(i \in Pods /\ goesOn)
          <5>1. UNCHANGED <<tracker, handler>>
                /\ pod' \in [Pods -> {"absent", "created", "ended"}]
            BY <2>4, <4>2 DEF CreateItem, HooksTypeOK
          <5>2. HooksTypeOK'
            BY <4>0, <5>1 DEF HooksTypeOK
          <5>3. \A q \in Pods : cluster[q] \in Restores => cluster'[q] = cluster[q]
            BY <4>0 DEF ItemsTypeOK
          <5>4. GoroutineInv'
            BY <5>1, <5>3 DEF GoroutineInv
          <5>5. TrackerInv'
            <6> SUFFICES ASSUME NEW r \in Restores, NEW q \in Pods,
                                NEW n \in DOMAIN HooksOf[q]
                         PROVE  /\ tracker'[r][<<q, n>>] # "untracked" => cluster'[q] = r
                                /\ tracker'[r][<<q, n>>] = "ok" => ran'[<<q, n>>] = "ok"
              BY DEF TrackerInv
            <6> QED
              BY <4>0, <5>1, <5>3 DEF TrackerInv
          <5> QED
            BY <5>2, <5>4, <5>5
        <4> QED
          BY <4>1, <4>2
      <3> QED
        BY <3>1, <3>2
    <2>5. CASE UNCHANGED <<hookVars, cluster, unbound, volume>>
      BY <2>1, <2>2, <2>3, <2>5
      DEF hookVars, HooksTypeOK, GoroutineInv, TrackerInv, ItemsTypeOK, RunType
    <2> QED
      BY <1>5, <2>1, <2>2, <2>3, <2>4, <2>5
      DEF ItemsStep, ItemStep, NextItem, RememberVolume, RunActions, NextExtra,
          DoNotCreate, ItemsTypeOK, RunType
  <1>6. CASE RestoreStep(ReconcilerStep)
    <2> USE DEF RestoreStep
    <2>1. UNCHANGED <<seen, backup, progress, tracker, handler, pod, ran,
                      cluster, unbound, volume, opsMap, fin>>
      BY <1>6
      DEF ReconcilerStep, Refuse, Start, RunFails, FinishRun, EndRun, PatchPhase,
          DeleteExternalResources, hookVars, itemVars, reconcilerVars
    <2>2. ReconciledOK'
      BY <1>6, ReconcilerFormed
    <2>3. ItemsTypeOK' /\ OperationsTypeOK' /\ FinalizerTypeOK'
      BY <2>1, <2>2 DEF ReconciledOK, ItemsTypeOK, OperationsTypeOK, FinalizerTypeOK,
                       RunType
    <2>4. HooksTypeOK' /\ GoroutineInv' /\ TrackerInv'
      BY <2>1, <2>2 DEF ReconciledOK, HooksTypeOK, GoroutineInv, TrackerInv
    <2> QED
      BY <2>1, <2>2, <2>3, <2>4 DEF ReconciledOK
  <1>7. ASSUME NEW r \in Restores, OperationsStep(r) /\ UNCHANGED fin
        PROVE  Formed'
    <2>1. UNCHANGED <<seen, backup, progress, hookVars, itemVars, hadErrs, fin>>
      BY <1>7
      DEF OperationsStep, BackupMissing, KeepWaiting, TellProgress, UploadFails,
          PatchFails, requestVars, reconcilerVars
    <2>2. Known(r) \in EntryType /\ NoEntry \in EntryType
      BY DEF Known, Entry, NoEntry, EntryType, OperationsTypeOK, RequestsTypeOK,
             NoOperations, OpPhases
    <2>3. ASSUME NEW new \in Polled(r, Known(r).list)
          PROVE  /\ new \in [Items -> OpPhases]
                 /\ PolledEntry(r, new) \in EntryType
                 /\ Entry(new, FALSE) \in EntryType
      BY <2>2 DEF Polled, PolledEntry, Entry, EntryType, NewFailure
    <2>4. OperationsTypeOK <=> opsMap \in [Restores -> EntryType]
      BY DEF OperationsTypeOK, EntryType
    <2>5. OperationsTypeOK' <=> opsMap' \in [Restores -> EntryType]
      BY DEF OperationsTypeOK, EntryType
    <2>6. opsMap' \in [Restores -> EntryType]
      <3>1. CASE BackupMissing(r)
        BY <3>1, <2>2, <2>4 DEF BackupMissing
      <3>2. CASE KeepWaiting(r)
        BY <3>2, <2>3, <2>4 DEF KeepWaiting
      <3>3. CASE TellProgress(r)
        <4> PICK new \in Polled(r, Known(r).list) :
               opsMap' = [opsMap EXCEPT ![r] = NoEntry]
               \/ opsMap' = [opsMap EXCEPT ![r] = Entry(new, FALSE)]
          BY <3>3 DEF TellProgress
        <4> QED
          BY <2>2, <2>3, <2>4
      <3>4. CASE UploadFails(r)
        <4> PICK new \in Polled(r, Known(r).list) :
               opsMap' = [opsMap EXCEPT ![r] = PolledEntry(r, new)]
               \/ opsMap' = [opsMap EXCEPT ![r] = Known(r)]
          BY <3>4 DEF UploadFails
        <4> QED
          BY <2>2, <2>3, <2>4
      <3>5. CASE PatchFails(r)
        BY <3>5, <2>3, <2>4 DEF PatchFails
      <3> QED
        BY <1>7, <3>1, <3>2, <3>3, <3>4, <3>5 DEF OperationsStep
    <2>7. RequestsTypeOK' /\ ReconcilerTypeOK'
      <3>0. "operations" \in Controllers /\ "failure" \in Losses
            /\ "FinalizingPartiallyFailed" \in Phases
        BY PhaseNames DEF Controllers, Losses
      <3>1. CASE BackupMissing(r)
        <4>1. /\ restores' \in [Restores -> Object]
              /\ unseen' \in [Restores -> SUBSET Controllers]
          BY <3>0, <3>1, PatchedObjects DEF BackupMissing
        <4> QED
          BY <3>1, <4>1 DEF BackupMissing, reconcilerVars, RequestsTypeOK, ReconcilerTypeOK
      <3>2. CASE KeepWaiting(r)
        BY <3>2
        DEF KeepWaiting, requestVars, reconcilerVars, RequestsTypeOK, ReconcilerTypeOK
      <3>3. CASE TellProgress(r)
        <4> PICK new \in Polled(r, Known(r).list) :
               /\ lists' = [lists EXCEPT ![r] = IF new = NoOperations THEN @ ELSE new]
               /\ PatchPhase("operations", r,
                             NextPhase(seen[r].phase, PolledEntry(r, new)))
          BY <3>3 DEF TellProgress
        <4>1. NextPhase(seen[r].phase, PolledEntry(r, new)) \in Phases
          BY PhasesFor DEF NextPhase
        <4>2. /\ restores' \in [Restores -> Object]
              /\ unseen' \in [Restores -> SUBSET Controllers]
          BY <3>0, <4>1, PatchedObjects
        <4>3. lists' \in [Restores -> [Items -> OpPhases]]
          BY <2>3 DEF RequestsTypeOK
        <4> QED
          BY <3>3, <4>2, <4>3
          DEF TellProgress, reconcilerVars, RequestsTypeOK, ReconcilerTypeOK
      <3>4. CASE UploadFails(r)
        BY <3>4, OneMishap DEF UploadFails, reconcilerVars, RequestsTypeOK, ReconcilerTypeOK
      <3>5. CASE PatchFails(r)
        <4>1. mishaps' \in 0 .. MaxMishaps
          BY <3>5, OneMishap DEF PatchFails, RequestsTypeOK
        <4>2. lost' \in [Restores -> SUBSET Losses]
          <5>1. lost' = lost \/ Loses(r, "failure")
            BY <3>5 DEF PatchFails
          <5> QED
            BY <3>0, <5>1, LossNoted DEF ReconcilerTypeOK
        <4>3. lists' \in [Restores -> [Items -> OpPhases]]
          BY <3>5, <2>3 DEF PatchFails, RequestsTypeOK
        <4> QED
          BY <3>5, <4>1, <4>2, <4>3 DEF PatchFails, RequestsTypeOK, ReconcilerTypeOK
      <3> QED
        BY <1>7, <3>1, <3>2, <3>3, <3>4, <3>5 DEF OperationsStep
    <2> QED
      BY <2>1, <2>5, <2>6, <2>7
      DEF hookVars, itemVars, HooksTypeOK, ItemsTypeOK, FinalizerTypeOK,
          GoroutineInv, TrackerInv
  <1>8. CASE FinalizerStep
    <2>1. UNCHANGED <<seen, backup, lists, progress, handler, cancelled, pod, ran,
                      itemVars, hadErrs, opsMap>>
      BY <1>8
      DEF FinalizerStep, TakeFinalizing, HooksDone, HooksTimeOut, UpdateResults,
          FinishProcessing, requestVars, hookVars, reconcilerVars
    <2>2. /\ RequestsTypeOK' /\ ReconcilerTypeOK' /\ FinalizerTypeOK'
          /\ fin'.at # "idle" => fin'.r \in Restores
      <3>0. /\ FinIdle \in FinType /\ FinIdle.at = "idle"
            /\ \A q \in Restores, at \in {"hooks", "results", "patch"}, failed \in BOOLEAN :
                  FinAt(q, at, failed) \in FinType /\ FinAt(q, at, failed).r = q
            /\ FinalizerTypeOK <=> fin \in FinType
        BY DEF FinIdle, FinAt, FinType, FinalizerTypeOK
      <3>1. FinalizerTypeOK' <=> fin' \in FinType
        BY DEF FinType, FinalizerTypeOK
      <3>2. fin' \in FinType /\ (fin'.at # "idle" => fin'.r \in Restores)
        <4>1. ASSUME NEW r \in Restores, TakeFinalizing(r)
              PROVE  fin' \in FinType /\ fin'.r \in Restores
          <5>1. \E failed \in BOOLEAN :
                   fin' = FinAt(r, "patch", TRUE) \/ fin' = FinAt(r, "hooks", failed)
            <6> PICK errs \in BOOLEAN :
                   fin' = IF backup = "gone" THEN FinAt(r, "patch", TRUE)
                          ELSE FinAt(r, "hooks",
                                     errs \/ seen[r].phase = "FinalizingPartiallyFailed")
              BY <4>1 DEF TakeFinalizing
            <6> PICK failed \in BOOLEAN :
                   failed = (errs \/ seen[r].phase = "FinalizingPartiallyFailed")
              OBVIOUS
            <6> QED
              OBVIOUS
          <5> QED
            <6> PICK failed \in BOOLEAN :
                   fin' = FinAt(r, "patch", TRUE) \/ fin' = FinAt(r, "hooks", failed)
              BY <5>1
            <6>1. CASE fin' = FinAt(r, "patch", TRUE)
              BY <6>1 DEF FinAt, FinType
            <6>2. CASE fin' = FinAt(r, "hooks", failed)
              BY <6>2 DEF FinAt, FinType
            <6> QED
              BY <6>1, <6>2
        <4>2. CASE HooksDone
          <5> PICK failed \in BOOLEAN : failed = (fin.failed \/ HookErrs(fin.r))
            OBVIOUS
          <5>1. fin' = FinAt(fin.r, "results", failed) /\ fin.r \in Restores
            BY <4>2 DEF HooksDone
          <5> QED
            BY <3>0, <5>1 DEF FinAt, FinType
        <4>3. CASE HooksTimeOut
          BY <3>0, <4>3 DEF HooksTimeOut, FinAt, FinType
        <4>4. CASE UpdateResults
          BY <3>0, <4>4 DEF UpdateResults, FinAt, FinType
        <4>5. CASE FinishProcessing
          BY <3>0, <4>5 DEF FinishProcessing
        <4> QED
          BY <1>8, <4>1, <4>2, <4>3, <4>4, <4>5 DEF FinalizerStep
      <3>3. RequestsTypeOK' /\ ReconcilerTypeOK'
        <4>0. "hooks" \in Losses /\ "finalizer" \in Controllers
              /\ "Completed" \in Phases /\ "PartiallyFailed" \in Phases
          BY PhaseNames DEF Losses, Controllers
        <4>1. CASE UNCHANGED <<restores, unseen, mishaps, lost>>
          BY <4>1, <2>1 DEF RequestsTypeOK, ReconcilerTypeOK
        <4>2. CASE Mishap /\ Loses(fin.r, "hooks") /\ UNCHANGED <<restores, unseen>>
                   /\ fin.at # "idle"
          <5>1. mishaps' \in 0 .. MaxMishaps /\ lost' \in [Restores -> SUBSET Losses]
            BY <4>0, <4>2, OneMishap, LossNoted DEF RequestsTypeOK
          <5> QED
            BY <2>1, <4>2, <5>1 DEF RequestsTypeOK, ReconcilerTypeOK
        <4>3. ASSUME NEW phase \in {"PartiallyFailed", "Completed"}, fin.at # "idle",
                     PatchPhase("finalizer", fin.r, phase), UNCHANGED <<mishaps, lost>>
              PROVE  RequestsTypeOK' /\ ReconcilerTypeOK'
          <5>1. /\ restores' \in [Restores -> Object]
                /\ unseen' \in [Restores -> SUBSET Controllers]
            BY <4>0, <4>3, PatchedObjects
          <5> QED
            BY <2>1, <4>3, <5>1 DEF RequestsTypeOK, ReconcilerTypeOK
        <4> QED
          BY <1>8, <4>1, <4>2, <4>3
          DEF FinalizerStep, TakeFinalizing, HooksDone, HooksTimeOut, UpdateResults,
              FinishProcessing, requestVars, reconcilerVars
      <3> QED
        BY <3>1, <3>2, <3>3
    <2>3. HooksTypeOK' /\ GoroutineInv' /\ TrackerInv'
      <3>1. CASE HooksDone
        <4>1. /\ fin.r \in Restores /\ tracker' = [tracker EXCEPT ![fin.r] = NotTracked]
              /\ \A h \in Hooks : tracker[fin.r][h] # "added"
              /\ UNCHANGED <<handler, cancelled, pod, ran, cluster>>
          BY <2>1, <3>1 DEF HooksDone, IsComplete, itemVars
        <4>2. /\ tracker' \in TrackerType
              /\ \A r \in Restores : r # fin.r => tracker'[r] = tracker[r]
              /\ \A h \in Hooks : tracker'[fin.r][h] = "untracked"
          BY <4>1 DEF NotTracked, HooksTypeOK, TrackerType
        <4>3. HooksTypeOK'
          BY <4>1, <4>2 DEF HooksTypeOK, TrackerType
        <4>4. GoroutineInv'
          BY <4>1, <4>2, HookNamed DEF GoroutineInv
        <4>5. TrackerInv'
          <5> SUFFICES ASSUME NEW r \in Restores, NEW q \in Pods,
                              NEW n \in DOMAIN HooksOf[q]
                       PROVE  /\ tracker'[r][<<q, n>>] # "untracked" => cluster'[q] = r
                              /\ tracker'[r][<<q, n>>] = "ok" => ran'[<<q, n>>] = "ok"
            BY DEF TrackerInv
          <5>1. CASE r = fin.r
            BY <5>1, <4>2, HookNamed
          <5>2. CASE r # fin.r
            BY <5>2, <4>1, <4>2 DEF TrackerInv
          <5> QED
            BY <5>1, <5>2
        <4> QED
          BY <4>3, <4>4, <4>5
      <3>2. CASE UNCHANGED tracker
        BY <2>1, <3>2 DEF itemVars, HooksTypeOK, GoroutineInv, TrackerInv
      <3> QED
        BY <1>8, <3>1, <3>2
        DEF FinalizerStep, TakeFinalizing, HooksTimeOut, UpdateResults,
            FinishProcessing, hookVars
    <2> QED
      BY <2>1, <2>2, <2>3 DEF itemVars, ItemsTypeOK, OperationsTypeOK
  <1>9. CASE Restart
    <2>1. RequestsTypeOK'
      <3>1. restores' \in [Restores -> Object]
        <4>1. \A r \in Restores : [restores[r] EXCEPT !.phase = "Failed"] \in Object
          BY PhaseNames, ObjectChanged DEF RequestsTypeOK
        <4>2. CASE restores' = [r \in Restores |->
                      IF restores[r].phase = "InProgress"
                      THEN [restores[r] EXCEPT !.phase = "Failed"]
                      ELSE restores[r]]
          BY <4>1, <4>2 DEF RequestsTypeOK
        <4>3. CASE UNCHANGED restores
          BY <4>3 DEF RequestsTypeOK
        <4> QED
          BY <1>9, <4>2, <4>3 DEF Restart
      <3> QED
        BY <1>9, <3>1, OneMishap DEF Restart, RequestsTypeOK
    <2>2. ReconcilerTypeOK'
      <3>1. /\ hadErrs' = hadErrs
            /\ lost' = [r \in Restores |->
                   lost[r] \cup (IF tracker[r] # NotTracked \/ fin.r = r
                                 THEN {"hooks"} ELSE {})
                           \cup (IF restores'[r].phase = "InProgress"
                                 THEN {"phase"} ELSE {})]
        BY <1>9 DEF Restart
      <3>2. "hooks" \in Losses /\ "phase" \in Losses
        BY DEF Losses
      <3> QED
        BY <3>1, <3>2 DEF ReconcilerTypeOK
    <2>3. OperationsTypeOK' /\ FinalizerTypeOK' /\ fin'.at = "idle"
      BY <1>9
      DEF Restart, OperationsTypeOK, FinalizerTypeOK, NoEntry, Entry, NoOperations,
          OpPhases, FinIdle, FinAt
    <2>4. /\ handler' \in [Pods -> HandlerType]
          /\ \A p \in Pods : handler'[p].state = "none" /\ handler'[p].next = 1
      BY <1>9, NoHandlerMade DEF Restart
    <2>5. /\ tracker' \in TrackerType
          /\ \A r \in Restores : \A h \in Hooks : tracker'[r][h] = "untracked"
      BY <1>9 DEF Restart, NotTracked, TrackerType
    <2>6. \A p \in Pods : handler'[p].next <= Len(HooksOf[p]) + 1
      BY <2>4, HooksCounted
    <2>7. UNCHANGED <<pod, ran, cluster, unbound>> /\ cancelled' = {}
      BY <1>9 DEF Restart
    <2>8. HooksTypeOK'
      BY <2>4, <2>5, <2>6, <2>7 DEF HooksTypeOK, HandlerType, TrackerType
    <2>9. GoroutineInv' /\ TrackerInv'
      BY <2>4, <2>5, HookNamed DEF GoroutineInv, TrackerInv
    <2>10. /\ run' \in RunType /\ run'.at = "idle"
           /\ volume' \in [Pods -> {"none", "restoring", "restored", "failed"}]
      BY <1>9, StartedRun DEF Restart, NotRunning, RunOf, ItemsTypeOK
    <2>11. ItemsTypeOK'
      BY <2>7, <2>10 DEF ItemsTypeOK, RunType
    <2> QED
      BY <2>1, <2>2, <2>3, <2>8, <2>9, <2>10, <2>11
  <1> HIDE DEF Formed
  <1> QED
    BY <1>1, <1>2, <1>3, <1>4, <1>5, <1>6, <1>7, <1>8, <1>9 DEF Next

\* Every variable of the three restore controllers, the hooks' goroutines and
\* the items keeps its type, whatever calls fail and whenever the server
\* restarts.
THEOREM TypeCorrect == Spec => []TypeOK
  <1>1. Spec => []Formed
    BY InitFormed, NextFormed, PTL DEF Spec
  <1> QED
    BY <1>1, PTL DEF Formed

-----------------------------------------------------------------------------
(***************************************************************************)
(* The calls of restoreItem.                                               *)
(***************************************************************************)

\* A call inside another one was made by the additional items of that one;
\* volumes to provision return at once; the items that are being restored are
\* those on the stack, each one once.
StackInv(rn) ==
    /\ \A n \in DOMAIN rn.stack : n # 1 => rn.stack[n].at = "extras"
    /\ \A n \in DOMAIN rn.stack :
           rn.stack[n].item \in Reprovision => rn.stack[n].at = "actions"
    /\ \A n \in DOMAIN rn.stack : rn.result[rn.stack[n].item] = "Pending"
    /\ \A m, n \in DOMAIN rn.stack :
           m # n => rn.stack[m].item # rn.stack[n].item
    /\ \A i \in Items : rn.result[i] = "Pending" =>
           \E n \in DOMAIN rn.stack : rn.stack[n].item = i
    /\ \A v \in Reprovision :
           /\ rn.result[v] \in {"No", "Pending", "Skipped"}
           /\ rn.result[v] = "Skipped" => v \in rn.provision

\* A claim that is being restored has yet to ask for its volume, unless the
\* volume was taken or an error kept it from being; but for volume x.
ClaimsInv(rn, x) ==
    \A n \in DOMAIN rn.stack :
        LET v == ClaimOf[rn.stack[n].item] IN
        v \in Reprovision \ Excluded =>
            \/ \E m \in DOMAIN rn.stack[n].extras : rn.stack[n].extras[m] = v
            \/ rn.result[v] # "No"
            \/ rn.errs
            \/ v = x

\* The claims' action returns the claim's volume as an additional item
\* (pkg/restore/actions/add_pv_from_pvc_action.go).
VolumesFollow ==
    \A i \in Items : ClaimOf[i] \in Reprovision \ Excluded =>
        \E n \in DOMAIN Extra[i] : Extra[i][n] = ClaimOf[i]

LEMMA EnteredStack ==
  ASSUME NEW rn \in RunType, NEW i \in Items, StackInv(rn),
         \A n \in DOMAIN rn.stack : rn.stack[n].at = "extras"
  PROVE  StackInv(Enter(rn, i))
  <1>1. CASE i \in Excluded \/ rn.result[i] # "No"
    BY <1>1 DEF Enter
  <1>2. CASE ~(i \in Excluded \/ rn.result[i] # "No")
    <2> PICK f \in Frames : f = Frame(i, "actions", Extra[i])
      BY ItemsAssumption DEF Frame, Frames
    <2>1. f.item = i /\ f.at = "actions"
      BY DEF Frame
    <2> PICK new : new = <<f>> \o rn.stack
      OBVIOUS
    <2>2. Enter(rn, i) = [rn EXCEPT !.result[i] = "Pending", !.stack = new]
      BY <1>2 DEF Enter
    <2>3. /\ new[1] = f /\ 1 \in DOMAIN new
          /\ \A n \in DOMAIN rn.stack : n + 1 \in DOMAIN new /\ new[n + 1] = rn.stack[n]
          /\ DOMAIN rn.stack \subseteq Nat \ {0} /\ DOMAIN new \subseteq Nat \ {0}
          /\ \A n \in DOMAIN new : n # 1 => n - 1 \in DOMAIN rn.stack
      BY Pushed DEF RunType
    <2>4. \A n \in DOMAIN new : n # 1 =>
             n - 1 \in DOMAIN rn.stack /\ new[n] = rn.stack[n - 1]
      <3> SUFFICES ASSUME NEW n \in DOMAIN new, n # 1
                   PROVE  n - 1 \in DOMAIN rn.stack /\ new[n] = rn.stack[n - 1]
        OBVIOUS
      <3>1. n - 1 \in DOMAIN rn.stack /\ n \in Nat
        BY <2>3
      <3>2. new[(n - 1) + 1] = rn.stack[n - 1]
        BY <2>3, <3>1
      <3> QED
        BY <3>1, <3>2
    <2>5. \A n \in DOMAIN rn.stack : rn.stack[n].item # i
      BY <1>2 DEF StackInv
    <2>6. /\ Enter(rn, i).stack = new
          /\ Enter(rn, i).result = [rn.result EXCEPT ![i] = "Pending"]
          /\ Enter(rn, i).provision = rn.provision
      BY <2>2 DEF RunType
    <2>7. rn.result \in [Items -> Results]
          /\ \A n \in DOMAIN rn.stack : rn.stack[n] \in Frames
      BY DEF RunType
    <2>8. \A m, n \in DOMAIN new : m # n => new[m].item # new[n].item
      <3> SUFFICES ASSUME NEW m \in DOMAIN new, NEW n \in DOMAIN new, m # n
                   PROVE  new[m].item # new[n].item
        OBVIOUS
      <3>1. CASE m = 1 \/ n = 1
        BY <3>1, <2>1, <2>3, <2>4, <2>5
      <3>2. CASE m # 1 /\ n # 1
        <4>1. /\ m - 1 \in DOMAIN rn.stack /\ n - 1 \in DOMAIN rn.stack
              /\ new[m] = rn.stack[m - 1] /\ new[n] = rn.stack[n - 1]
              /\ m - 1 # n - 1
          BY <2>3, <2>4, <3>2
        <4> QED
          BY <4>1 DEF StackInv
      <3> QED
        BY <3>1, <3>2
    <2>9. \A j \in Items : Enter(rn, i).result[j] = "Pending" =>
             \E n \in DOMAIN new : new[n].item = j
      <3> SUFFICES ASSUME NEW j \in Items, Enter(rn, i).result[j] = "Pending"
                   PROVE  \E n \in DOMAIN new : new[n].item = j
        OBVIOUS
      <3>1. CASE j = i
        BY <3>1, <2>1, <2>3
      <3>2. CASE j # i
        <4>1. rn.result[j] = "Pending"
          BY <3>2, <2>6, <2>7
        <4> PICK n \in DOMAIN rn.stack : rn.stack[n].item = j
          BY <4>1 DEF StackInv
        <4>2. n + 1 \in DOMAIN new /\ new[n + 1].item = j
          BY <2>3
        <4> QED
          BY <4>2
      <3> QED
        BY <3>1, <3>2
    <2>10. \A n \in DOMAIN new : Enter(rn, i).result[new[n].item] = "Pending"
      BY <2>1, <2>3, <2>4, <2>6, <2>7 DEF StackInv, Frames
    <2>11. \A n \in DOMAIN new : n # 1 => new[n].at = "extras"
      BY <2>4
    <2>12. \A n \in DOMAIN new : new[n].item \in Reprovision => new[n].at = "actions"
      BY <2>1, <2>3, <2>4 DEF StackInv
    <2>13. \A v \in Reprovision :
              /\ Enter(rn, i).result[v] \in {"No", "Pending", "Skipped"}
              /\ Enter(rn, i).result[v] = "Skipped" => v \in Enter(rn, i).provision
      BY <2>6, <2>7, ItemsAssumption DEF StackInv
    <2> QED
      BY <2>6, <2>8, <2>9, <2>10, <2>11, <2>12, <2>13 DEF StackInv
  <1> QED
    BY <1>1, <1>2

LEMMA EnteredClaims ==
  ASSUME NEW rn \in RunType, NEW i \in Items, VolumesFollow, ClaimsInv(rn, i)
  PROVE  ClaimsInv(Enter(rn, i), NoItem)
  <1>1. CASE i \in Excluded \/ rn.result[i] # "No"
    BY <1>1 DEF Enter, ClaimsInv
  <1>2. CASE ~(i \in Excluded \/ rn.result[i] # "No")
    <2> PICK f \in Frames : f = Frame(i, "actions", Extra[i])
      BY ItemsAssumption DEF Frame, Frames
    <2>1. f.item = i /\ f.extras = Extra[i]
      BY DEF Frame
    <2> PICK new : new = <<f>> \o rn.stack
      OBVIOUS
    <2>2. Enter(rn, i) = [rn EXCEPT !.result[i] = "Pending", !.stack = new]
      BY <1>2 DEF Enter
    <2>3. /\ new[1] = f /\ 1 \in DOMAIN new
          /\ \A n \in DOMAIN rn.stack : n + 1 \in DOMAIN new /\ new[n + 1] = rn.stack[n]
          /\ DOMAIN rn.stack \subseteq Nat \ {0} /\ DOMAIN new \subseteq Nat \ {0}
          /\ \A n \in DOMAIN new : n # 1 => n - 1 \in DOMAIN rn.stack
      BY Pushed DEF RunType
    <2>4. /\ Enter(rn, i).stack = new
          /\ Enter(rn, i).result = [rn.result EXCEPT ![i] = "Pending"]
          /\ Enter(rn, i).errs = rn.errs
          /\ rn.result \in [Items -> Results]
      BY <2>2 DEF RunType
    <2> SUFFICES ASSUME NEW n \in DOMAIN new, ClaimOf[new[n].item] \in Reprovision \ Excluded,
                        Enter(rn, i).result[ClaimOf[new[n].item]] = "No", ~rn.errs
                 PROVE  \E m \in DOMAIN new[n].extras :
                            new[n].extras[m] = ClaimOf[new[n].item]
      BY <2>4 DEF ClaimsInv
    <2>5. CASE n = 1
      BY <2>1, <2>3, <2>5 DEF VolumesFollow
    <2>6. CASE n # 1
      <3>1. n - 1 \in DOMAIN rn.stack /\ n \in Nat
        BY <2>3, <2>6
      <3>2. new[n] = rn.stack[n - 1]
        <4>1. new[(n - 1) + 1] = rn.stack[n - 1]
          BY <2>3, <3>1
        <4> QED
          BY <3>1, <4>1
      <3>3. ClaimOf[new[n].item] # i /\ rn.result[ClaimOf[new[n].item]] = "No"
        BY <2>4, ItemsAssumption
      <3> QED
        BY <3>1, <3>2, <3>3 DEF ClaimsInv
    <2> QED
      BY <2>5, <2>6
  <1> QED
    BY <1>1, <1>2

\* The call at the top of the stack ends.
LEMMA ReturnedStack ==
  ASSUME run \in RunType, run.stack # <<>>, StackInv(run),
         NEW rn \in RunType, NEW result \in {"Created", "Skipped", "Failed"},
         rn.stack = Tail(run.stack),
         rn.result = [run.result EXCEPT ![Top.item] = result],
         run.provision \subseteq rn.provision,
         Top.item \in Reprovision => result = "Skipped" /\ Top.item \in rn.provision
  PROVE  StackInv(rn) /\ \A n \in DOMAIN rn.stack : rn.stack[n].at = "extras"
  <1>1. /\ 1 \in DOMAIN run.stack /\ Top = run.stack[1] /\ Top \in Frames
        /\ \A n \in DOMAIN rn.stack :
              n + 1 \in DOMAIN run.stack /\ rn.stack[n] = run.stack[n + 1] /\ n + 1 # 1
        /\ DOMAIN rn.stack \subseteq Nat \ {0} /\ DOMAIN run.stack \subseteq Nat \ {0}
        /\ \A n \in DOMAIN run.stack : n # 1 => n - 1 \in DOMAIN rn.stack
    BY Popped DEF RunType, Top
  <1>2. Top.item \in Items /\ run.result \in [Items -> Results]
    BY <1>1 DEF Frames, RunType
  <1>3. \A n \in DOMAIN rn.stack : rn.stack[n].item # Top.item
    BY <1>1 DEF StackInv
  <1>4. \A n \in DOMAIN rn.stack : rn.stack[n].at = "extras"
    BY <1>1 DEF StackInv
  <1>5. \A n \in DOMAIN rn.stack :
           rn.stack[n].item \in Reprovision => rn.stack[n].at = "actions"
    BY <1>1 DEF StackInv
  <1>6. \A n \in DOMAIN rn.stack : rn.result[rn.stack[n].item] = "Pending"
    <2> SUFFICES ASSUME NEW n \in DOMAIN rn.stack
                 PROVE  rn.result[rn.stack[n].item] = "Pending"
      OBVIOUS
    <2>1. run.stack[n + 1] \in Frames
      BY <1>1 DEF RunType
    <2>2. rn.stack[n].item \in Items /\ run.result[rn.stack[n].item] = "Pending"
      BY <2>1, <1>1 DEF Frames, StackInv
    <2> QED
      BY <2>2, <1>2, <1>3
  <1>7. \A m, n \in DOMAIN rn.stack : m # n => rn.stack[m].item # rn.stack[n].item
    <2> SUFFICES ASSUME NEW m \in DOMAIN rn.stack, NEW n \in DOMAIN rn.stack, m # n
                 PROVE  rn.stack[m].item # rn.stack[n].item
      OBVIOUS
    <2>1. m + 1 # n + 1
      BY <1>1
    <2> QED
      BY <2>1, <1>1 DEF StackInv
  <1>8. \A i \in Items : rn.result[i] = "Pending" =>
           \E n \in DOMAIN rn.stack : rn.stack[n].item = i
    <2> SUFFICES ASSUME NEW i \in Items, rn.result[i] = "Pending"
                 PROVE  \E n \in DOMAIN rn.stack : rn.stack[n].item = i
      OBVIOUS
    <2>1. i # Top.item /\ run.result[i] = "Pending"
      BY <1>2
    <2> PICK n \in DOMAIN run.stack : run.stack[n].item = i
      BY <2>1 DEF StackInv
    <2>2. n # 1 /\ n \in Nat
      BY <2>1, <1>1
    <2>3. n - 1 \in DOMAIN rn.stack /\ rn.stack[n - 1] = run.stack[(n - 1) + 1]
      BY <2>2, <1>1
    <2>4. (n - 1) + 1 = n
      BY <2>2
    <2> QED
      BY <2>3, <2>4
  <1>9. \A v \in Reprovision :
           /\ rn.result[v] \in {"No", "Pending", "Skipped"}
           /\ rn.result[v] = "Skipped" => v \in rn.provision
    BY <1>2, ItemsAssumption DEF StackInv
  <1> QED
    BY <1>4, <1>5, <1>6, <1>7, <1>8, <1>9 DEF StackInv

LEMMA ReturnedClaims ==
  ASSUME run \in RunType, run.stack # <<>>, ClaimsInv(run, NoItem),
         NEW rn \in RunType, NEW result \in {"Created", "Skipped", "Failed"},
         rn.stack = Tail(run.stack),
         rn.result = [run.result EXCEPT ![Top.item] = result],
         run.errs => rn.errs
  PROVE  ClaimsInv(rn, NoItem)
  <1>1. /\ Top \in Frames
        /\ \A n \in DOMAIN rn.stack :
              n + 1 \in DOMAIN run.stack /\ rn.stack[n] = run.stack[n + 1]
    BY Popped DEF RunType, Top
  <1>2. Top.item \in Items /\ run.result \in [Items -> Results]
    BY <1>1 DEF Frames, RunType
  <1>3. \A v \in Reprovision : run.result[v] # "No" => rn.result[v] # "No"
    BY <1>2, ItemsAssumption
  <1> SUFFICES ASSUME NEW n \in DOMAIN rn.stack,
                      ClaimOf[rn.stack[n].item] \in Reprovision \ Excluded,
                      rn.result[ClaimOf[rn.stack[n].item]] = "No", ~rn.errs
               PROVE  \E m \in DOMAIN rn.stack[n].extras :
                          rn.stack[n].extras[m] = ClaimOf[rn.stack[n].item]
    BY DEF ClaimsInv
  <1>4. run.stack[n + 1] = rn.stack[n] /\ n + 1 \in DOMAIN run.stack
    BY <1>1
  <1>5. ClaimOf[rn.stack[n].item] # NoItem
    BY ItemsAssumption
  <1> QED
    BY <1>3, <1>4, <1>5 DEF ClaimsInv

\* The call at the top of the stack goes on.
LEMMA ExchangedStack ==
  ASSUME run \in RunType, run.stack # <<>>, StackInv(run),
         NEW rn \in RunType, NEW f \in Frames,
         rn.stack = [run.stack EXCEPT ![1] = f], f.item = Top.item,
         rn.result = run.result, rn.provision = run.provision,
         f.at = Top.at \/ Top.item \notin Reprovision
  PROVE  /\ StackInv(rn)
         /\ f.at = "extras" => \A n \in DOMAIN rn.stack : rn.stack[n].at = "extras"
  <1>1. /\ DOMAIN rn.stack = DOMAIN run.stack
        /\ 1 \in DOMAIN run.stack /\ Top = run.stack[1] /\ rn.stack[1] = f
        /\ \A n \in DOMAIN run.stack : n # 1 => rn.stack[n] = run.stack[n]
    BY Popped, Exchanged DEF RunType, Top
  <1>2. \A n \in DOMAIN run.stack : rn.stack[n].item = run.stack[n].item
    BY <1>1
  <1>3. \A n \in DOMAIN rn.stack :
           rn.stack[n].item \in Reprovision => rn.stack[n].at = "actions"
    BY <1>1 DEF StackInv
  <1> QED
    BY <1>1, <1>2, <1>3 DEF StackInv

LEMMA ExchangedClaims ==
  ASSUME run \in RunType, run.stack # <<>>, ClaimsInv(run, NoItem),
         NEW rn \in RunType, NEW f \in Frames, NEW x,
         rn.stack = [run.stack EXCEPT ![1] = f], f.item = Top.item,
         rn.result = run.result, run.errs => rn.errs,
         \A m \in DOMAIN Top.extras :
             Top.extras[m] = x \/ \E k \in DOMAIN f.extras : f.extras[k] = Top.extras[m]
  PROVE  ClaimsInv(rn, x)
  <1>1. /\ DOMAIN rn.stack = DOMAIN run.stack
        /\ 1 \in DOMAIN run.stack /\ Top = run.stack[1] /\ rn.stack[1] = f
        /\ \A n \in DOMAIN run.stack : n # 1 => rn.stack[n] = run.stack[n]
    BY Popped, Exchanged DEF RunType, Top
  <1>2. NoItem \notin Reprovision
    BY ItemsAssumption
  <1> QED
    BY <1>1, <1>2 DEF ClaimsInv

Calls ==
    /\ StackInv(run)
    /\ VolumesFollow => ClaimsInv(run, NoItem) /\ ClaimsFindVolumes

LEMMA EnteredFields ==
  ASSUME NEW rn \in RunType, NEW i \in Items
  PROVE  /\ Enter(rn, i).errs = rn.errs
         /\ \A j \in Items : Enter(rn, i).result[j] = "Created" => rn.result[j] = "Created"
  BY DEF Enter, RunType

LEMMA ItemsCalls ==
  ASSUME Formed, Calls, ItemStep
  PROVE  StackInv(run') /\ (VolumesFollow => ClaimsInv(run', NoItem) /\ ClaimsFindVolumes')
  <1> USE DEF Calls
  <1>0. run \in RunType /\ run' \in RunType /\ NoItem \notin Reprovision
    BY ItemsRun, ItemsAssumption DEF Formed, TypeOK, ItemsTypeOK, RunType
  <1>1. ASSUME NEW rn \in RunType, rn.stack = run.stack, rn.result = run.result,
               rn.provision = run.provision, run.errs => rn.errs
        PROVE  /\ StackInv(rn)
               /\ VolumesFollow => ClaimsInv(rn, NoItem)
    BY <1>1 DEF StackInv, ClaimsInv
  <1>2. ASSUME VolumesFollow, \A i \in Items : run'.result[i] = "Created" =>
                                                  run.result[i] = "Created",
               run.errs => run'.errs, UNCHANGED unbound
        PROVE  ClaimsFindVolumes'
    BY <1>2 DEF ClaimsFindVolumes
  <1>3. ASSUME NEW i \in Items, NextItem(i)
        PROVE  StackInv(run') /\ (VolumesFollow => ClaimsInv(run', NoItem) /\ ClaimsFindVolumes')
    <2> PICK rn : rn = [run EXCEPT !.todo = @ \ {i}]
      OBVIOUS
    <2>1. /\ rn \in RunType /\ rn.stack = run.stack /\ rn.result = run.result
          /\ rn.provision = run.provision /\ rn.errs = run.errs
      BY <1>0 DEF RunType
    <2>2. /\ run' = Enter(rn, i) \/ run' = [rn EXCEPT !.errs = TRUE]
          /\ UNCHANGED unbound
          /\ rn.stack = <<>>
      BY <1>3, <2>1 DEF NextItem
    <2>3. StackInv(rn) /\ (VolumesFollow => ClaimsInv(rn, NoItem))
      BY <1>1, <2>1
    <2>4. CASE run' = Enter(rn, i)
      <3>1. \A n \in DOMAIN rn.stack : rn.stack[n].at = "extras"
        BY <2>2
      <3>2. ClaimsInv(rn, i)
        BY <2>2 DEF ClaimsInv
      <3>3. StackInv(run') /\ (VolumesFollow => ClaimsInv(run', NoItem))
        BY <2>1, <2>3, <2>4, <3>1, <3>2, EnteredStack, EnteredClaims
      <3>4. run.errs => run'.errs
        BY <2>1, <2>4, EnteredFields
      <3>5. \A j \in Items : run'.result[j] = "Created" => run.result[j] = "Created"
        BY <2>1, <2>4, EnteredFields
      <3>6. VolumesFollow => ClaimsFindVolumes'
        BY <1>2, <2>2, <3>4, <3>5
      <3> QED
        BY <3>3, <3>6
    <2>5. CASE run' = [rn EXCEPT !.errs = TRUE]
      <3>1. /\ run'.stack = run.stack /\ run'.result = run.result
            /\ run'.provision = run.provision /\ run'.errs
        BY <2>1, <2>5 DEF RunType
      <3> QED
        BY <1>0, <1>1, <1>2, <2>2, <3>1
    <2> QED
      BY <2>2, <2>4, <2>5
  <1>4. ASSUME Running
        PROVE  /\ Top \in Frames /\ Top = run.stack[1] /\ 1 \in DOMAIN run.stack
               /\ run.stack # <<>> /\ Top.item \in Items
    <2>1. run.stack # <<>> /\ run.stack \in Seq(Frames)
      BY <1>0, <1>4 DEF Running, RunType
    <2>2. Top \in Frames /\ Top = run.stack[1] /\ 1 \in DOMAIN run.stack
      BY <2>1, Popped DEF Top
    <2> QED
      BY <2>1, <2>2 DEF Frames
  <1>5. ASSUME NEW result \in {"Created", "Skipped", "Failed"}, Running,
               run'.stack = Tail(run.stack),
               run'.result = [run.result EXCEPT ![Top.item] = result],
               run.provision \subseteq run'.provision, run.errs => run'.errs,
               Top.item \in Reprovision => result = "Skipped" /\ Top.item \in run'.provision,
               unbound \subseteq unbound',
               VolumesFollow /\ result = "Created" /\ ClaimOf[Top.item] \in Reprovision \ Excluded
                   => Top.item \in unbound' \/ run'.errs
        PROVE  StackInv(run') /\ (VolumesFollow => ClaimsInv(run', NoItem) /\ ClaimsFindVolumes')
    <2>1. StackInv(run')
      BY <1>0, <1>4, <1>5, ReturnedStack
    <2>2. VolumesFollow => ClaimsInv(run', NoItem)
      BY <1>0, <1>4, <1>5, ReturnedClaims
    <2>3. VolumesFollow => ClaimsFindVolumes'
      <3>1. run.result \in [Items -> Results]
        BY <1>0 DEF RunType
      <3> QED
        BY <3>1, <1>4, <1>5 DEF ClaimsFindVolumes
    <2> QED
      BY <2>1, <2>2, <2>3
  <1>6. \A result \in Results, errs \in BOOLEAN :
           /\ Return(result, errs).stack = Tail(run.stack)
           /\ Return(result, errs).result = [run.result EXCEPT ![Top.item] = result]
           /\ Return(result, errs).provision = run.provision
           /\ Return(result, errs).errs = (run.errs \/ errs)
    BY <1>0 DEF Return, RunType
  <1>7. CASE RememberVolume
    <2>1. /\ run'.stack = Tail(run.stack)
          /\ run'.result = [run.result EXCEPT ![Top.item] = "Skipped"]
          /\ run'.provision = run.provision \cup {Top.item}
          /\ run'.errs = run.errs
      BY <1>0, <1>7 DEF RememberVolume, Return, RunType
    <2>2. Running /\ UNCHANGED unbound
      BY <1>7 DEF RememberVolume
    <2> QED
      BY <1>5, <2>1, <2>2
  <1>8. CASE RunActions
    <2>1. Running /\ UNCHANGED unbound /\ Top.item \notin Reprovision
      BY <1>8 DEF RunActions
    <2>2. \/ \E result \in {"Failed", "Skipped"} :
                /\ run'.stack = Tail(run.stack)
                /\ run'.result = [run.result EXCEPT ![Top.item] = result]
                /\ run'.provision = run.provision
                /\ run.errs => run'.errs
          \/ /\ run'.stack = [run.stack EXCEPT ![1].at = "extras"]
             /\ run'.result = run.result
             /\ run'.provision = run.provision
             /\ run'.errs = run.errs
      BY <1>0, <1>8 DEF RunActions, Return, RunType
    <2>3. CASE \E result \in {"Failed", "Skipped"} :
                  /\ run'.stack = Tail(run.stack)
                  /\ run'.result = [run.result EXCEPT ![Top.item] = result]
                  /\ run'.provision = run.provision
                  /\ run.errs => run'.errs
      BY <1>5, <2>1, <2>3
    <2>4. CASE /\ run'.stack = [run.stack EXCEPT ![1].at = "extras"]
               /\ run'.result = run.result
               /\ run'.provision = run.provision
               /\ run'.errs = run.errs
      <3> PICK f : f = [Top EXCEPT !.at = "extras"]
        OBVIOUS
      <3>1. f \in Frames /\ f.item = Top.item /\ f.at = "extras" /\ f.extras = Top.extras
        BY <1>4, <2>1 DEF Frames
      <3>2. run'.stack = [run.stack EXCEPT ![1] = f]
        BY <1>4, <2>1, <2>4
      <3>3. StackInv(run')
        BY <1>0, <1>4, <2>1, <2>4, <3>1, <3>2, ExchangedStack
      <3>4. VolumesFollow => ClaimsInv(run', NoItem)
        BY <1>0, <1>4, <2>1, <2>4, <3>1, <3>2, ExchangedClaims
      <3>5. VolumesFollow => ClaimsFindVolumes'
        BY <1>2, <2>1, <2>4
      <3> QED
        BY <3>3, <3>4, <3>5
    <2> QED
      BY <2>2, <2>3, <2>4
  <1>9. CASE NextExtra
    <2>1. Running /\ UNCHANGED unbound /\ Top.at = "extras" /\ Top.extras # <<>>
      BY <1>9 DEF NextExtra
    <2>rn. PICK rn : rn = [run EXCEPT !.stack[1].extras = Tail(@)]
      OBVIOUS
    <2>f. PICK f : f = [Top EXCEPT !.extras = Tail(@)]
      OBVIOUS
    <2>2. /\ Top.extras \in Seq(Items)
          /\ Tail(Top.extras) \in Seq(Items)
          /\ Head(Top.extras) \in Items /\ Head(Top.extras) = Top.extras[1]
          /\ \A m \in DOMAIN Top.extras : m \in Nat /\
                (m # 1 => m - 1 \in DOMAIN Tail(Top.extras)
                          /\ Tail(Top.extras)[m - 1] = Top.extras[(m - 1) + 1])
      <3>1. Top.extras \in Seq(Items)
        BY <1>4, <2>1 DEF Frames
      <3>2. Top.extras # <<>>
        BY <2>1
      <3>3. /\ Tail(Top.extras) \in Seq(Items)
            /\ Head(Top.extras) \in Items /\ Head(Top.extras) = Top.extras[1]
            /\ DOMAIN Top.extras \subseteq Nat
            /\ \A n \in DOMAIN Tail(Top.extras) : Tail(Top.extras)[n] = Top.extras[n + 1]
            /\ \A m \in DOMAIN Top.extras : m # 1 => m - 1 \in DOMAIN Tail(Top.extras)
        BY <3>1, <3>2, Popped
      <3> QED
        BY <3>1, <3>3
    <2>3. f \in Frames /\ f.item = Top.item /\ f.at = Top.at /\ f.extras = Tail(Top.extras)
      BY <1>4, <2>1, <2>2, <2>f DEF Frames
    <2>4. rn.stack = [run.stack EXCEPT ![1] = f]
      BY <1>0, <1>4, <2>1, <2>rn, <2>f DEF RunType
    <2>5. [run.stack EXCEPT ![1] = f] \in Seq(Frames)
      BY <1>0, <1>4, <2>1, <2>3, Exchanged DEF RunType
    <2>6. /\ rn \in RunType /\ rn.result = run.result /\ rn.provision = run.provision
          /\ rn.errs = run.errs
      BY <1>0, <2>4, <2>5, <2>rn DEF RunType
    <2>7. StackInv(rn) /\ \A n \in DOMAIN rn.stack : rn.stack[n].at = "extras"
      <3>1. run.stack # <<>> /\ f.at = "extras"
        BY <1>4, <2>1, <2>3
      <3>2. f.at = Top.at
        BY <2>3
      <3> QED
        BY <1>0, <2>3, <2>4, <2>6, <3>1, <3>2, ExchangedStack
    <2>8. \A m \in DOMAIN Top.extras :
             Top.extras[m] = Head(Top.extras)
             \/ \E k \in DOMAIN f.extras : f.extras[k] = Top.extras[m]
      <3> SUFFICES ASSUME NEW m \in DOMAIN Top.extras, m # 1
                   PROVE  \E k \in DOMAIN f.extras : f.extras[k] = Top.extras[m]
        BY <2>2
      <3>1. (m - 1) + 1 = m /\ m - 1 \in DOMAIN f.extras
        BY <2>2, <2>3
      <3> QED
        BY <2>2, <2>3, <3>1
    <2>9. VolumesFollow => ClaimsInv(rn, Head(Top.extras))
      <3> SUFFICES ASSUME VolumesFollow PROVE ClaimsInv(rn, Head(Top.extras))
        OBVIOUS
      <3>1. run.stack # <<>> /\ ClaimsInv(run, NoItem) /\ (run.errs => rn.errs)
        BY <1>4, <2>1, <2>6
      <3> PICK x : x = Head(Top.extras)
        OBVIOUS
      <3>2. \A m \in DOMAIN Top.extras :
               Top.extras[m] = x \/ \E k \in DOMAIN f.extras : f.extras[k] = Top.extras[m]
        BY <2>8
      <3>3. /\ f \in Frames /\ f.item = Top.item
            /\ rn \in RunType /\ rn.result = run.result
        BY <2>3, <2>6
      <3>4. ClaimsInv(rn, x)
        BY <1>0, <2>4, <3>1, <3>2, <3>3, ExchangedClaims
      <3> QED
        BY <3>4
    <2>10. run' = Enter(rn, Head(Top.extras)) \/ run' = [rn EXCEPT !.errs = TRUE]
      BY <1>9, <2>rn DEF NextExtra
    <2>11. CASE run' = Enter(rn, Head(Top.extras))
      <3>1. StackInv(run') /\ (VolumesFollow => ClaimsInv(run', NoItem))
        BY <2>2, <2>6, <2>7, <2>9, <2>11, EnteredStack, EnteredClaims
      <3>2. run.errs => run'.errs
        BY <2>2, <2>6, <2>11, EnteredFields
      <3>3. \A j \in Items : run'.result[j] = "Created" => run.result[j] = "Created"
        BY <2>2, <2>6, <2>11, EnteredFields
      <3>4. VolumesFollow => ClaimsFindVolumes'
        BY <1>2, <2>1, <3>2, <3>3
      <3> QED
        BY <3>1, <3>4
    <2>12. CASE run' = [rn EXCEPT !.errs = TRUE]
      <3>1. /\ run'.stack = rn.stack /\ run'.result = rn.result
            /\ run'.provision = rn.provision /\ run'.errs
        BY <2>6, <2>12 DEF RunType
      <3>2. StackInv(run') /\ ClaimsInv(run', NoItem)
        BY <2>7, <3>1 DEF StackInv, ClaimsInv
      <3> QED
        BY <1>2, <2>1, <2>6, <3>1, <3>2
    <2> QED
      BY <2>10, <2>11, <2>12
  <1>10. ASSUME Running, Top.at = "extras"
         PROVE  Top.item \notin Reprovision
    BY <1>4, <1>10 DEF StackInv
  <1>11. CASE DoNotCreate
    <2>1. Running /\ UNCHANGED unbound /\ Top.item \notin Reprovision
      BY <1>10, <1>11 DEF DoNotCreate
    <2>2. \E result \in {"Failed", "Skipped"} :
                /\ run'.stack = Tail(run.stack)
                /\ run'.result = [run.result EXCEPT ![Top.item] = result]
                /\ run'.provision = run.provision
                /\ run.errs => run'.errs
      BY <1>0, <1>11 DEF DoNotCreate, Return, RunType
    <2> QED
      BY <1>5, <2>1, <2>2
  <1>12. ASSUME NEW errs \in BOOLEAN, NEW goesOn \in BOOLEAN, CreateItem(errs, goesOn)
         PROVE  StackInv(run') /\ (VolumesFollow => ClaimsInv(run', NoItem) /\ ClaimsFindVolumes')
    <2>1. /\ Running /\ Top.at = "extras" /\ Top.extras = <<>>
          /\ run' = Return("Created", errs)
          /\ unbound' = IF ClaimOf[Top.item] \in run.provision
                        THEN unbound \cup {Top.item} ELSE unbound
      BY <1>12 DEF CreateItem
    <2>2. Top.item \notin Reprovision
      BY <1>10, <2>1
    <2>3. /\ run'.stack = Tail(run.stack)
          /\ run'.result = [run.result EXCEPT ![Top.item] = "Created"]
          /\ run'.provision = run.provision
          /\ run.errs => run'.errs
      BY <1>0, <2>1 DEF Return, RunType
    <2>4. ASSUME VolumesFollow, ClaimOf[Top.item] \in Reprovision \ Excluded, ~run'.errs
          PROVE  ClaimOf[Top.item] \in run.provision
      <3>1. run.result[ClaimOf[Top.item]] # "No"
        BY <1>0, <1>4, <2>1, <2>3, <2>4 DEF ClaimsInv
      <3>2. run.result[ClaimOf[Top.item]] # "Pending"
        <4> SUFFICES ASSUME run.result[ClaimOf[Top.item]] = "Pending" PROVE FALSE
          OBVIOUS
        <4> PICK n \in DOMAIN run.stack : run.stack[n].item = ClaimOf[Top.item]
          BY <2>4, ItemsAssumption DEF StackInv
        <4>1. run.stack[n].at = "actions"
          BY <2>4 DEF StackInv
        <4>2. n = 1
          BY <4>1 DEF StackInv
        <4> QED
          BY <1>4, <2>1, <4>1, <4>2
      <3> QED
        BY <2>4, <3>1, <3>2 DEF StackInv
    <2> QED
      BY <1>5, <2>1, <2>2, <2>3, <2>4
  <1> QED
    BY <1>3, <1>7, <1>8, <1>9, <1>11, <1>12 DEF ItemStep

LEMMA NextCalls ==
  ASSUME Formed, Calls, [Next]_vars
  PROVE  Calls'
  <1> USE DEF Calls
  <1>0. run \in RunType
    BY DEF Formed, TypeOK, ItemsTypeOK, RunType
  <1>1. ASSUME run'.stack = run.stack, run'.result = run.result,
               run'.provision = run.provision, run.errs => run'.errs,
               UNCHANGED unbound
        PROVE  Calls'
    BY <1>1 DEF StackInv, ClaimsInv, ClaimsFindVolumes
  <1>2. ASSUME run'.stack = <<>>, \A i \in Items : run'.result[i] = "No"
        PROVE  Calls'
    BY <1>2, ItemsAssumption DEF StackInv, ClaimsInv, ClaimsFindVolumes
  <1>3. ASSUME UNCHANGED itemVars
        PROVE  Calls'
    BY <1>1, <1>3 DEF itemVars
  <1>4. CASE UNCHANGED vars
    BY <1>3, <1>4 DEF vars
  <1>5. ASSUME NEW r \in Restores,
               \/ EnvironmentStep(Deliver(r))
               \/ EnvironmentStep(Create(r))
               \/ EnvironmentStep(Delete(r))
               \/ EnvironmentStep(\E i \in Items : OperationEnds(r, i))
        PROVE  Calls'
    BY <1>3, <1>5 DEF EnvironmentStep
  <1>6. CASE EnvironmentStep(BackupGoes)
    BY <1>3, <1>6 DEF EnvironmentStep
  <1>7. ASSUME NEW r \in Restores, OperationsStep(r)
        PROVE  Calls'
    BY <1>3, <1>7
    DEF OperationsStep, BackupMissing, KeepWaiting, TellProgress, UploadFails, PatchFails
  <1>8. ASSUME NEW p \in Pods,
               \/ HooksStep(MayStart(p) /\ ContainerUp(p) /\ UNCHANGED mishaps)
               \/ HooksStep(HandlerStep(p) /\ UNCHANGED mishaps)
               \/ HooksStep(PodEnds(p) /\ Mishap)
        PROVE  Calls'
    BY <1>3, <1>8 DEF HooksStep
  <1>9. ASSUME NEW p \in Pods, VolumeEnds(p)
        PROVE  Calls'
    <2>1. /\ run'.stack = run.stack /\ run'.result = run.result
          /\ run'.provision = run.provision /\ (run.errs => run'.errs)
          /\ UNCHANGED unbound
      BY <1>0, <1>9 DEF VolumeEnds, RunType
    <2> QED
      BY <1>1, <2>1
  <1>10. CASE ItemStep
    BY <1>10, ItemsCalls
  <1>11. ASSUME NEW r \in Restores, Refuse(r) \/ DeleteExternalResources(r)
         PROVE  Calls'
    BY <1>3, <1>11 DEF Refuse, DeleteExternalResources
  <1>12. \A r \in Restores \cup {NoRestore}, todo \in SUBSET Items :
            /\ RunOf(r, todo).stack = <<>>
            /\ \A i \in Items : RunOf(r, todo).result[i] = "No"
    BY DEF RunOf
  <1>13. ASSUME NEW r \in Restores, Start(r)
         PROVE  Calls'
    <2>1. run' = RunOf(r, Items) /\ Items \in SUBSET Items
      BY <1>13 DEF Start
    <2> QED
      BY <1>2, <1>12, <2>1
  <1>14. ASSUME run' = NotRunning
         PROVE  Calls'
    <2>1. NotRunning.stack = <<>> /\ \A i \in Items : NotRunning.result[i] = "No"
      BY DEF NotRunning, RunOf
    <2> QED
      BY <1>2, <1>14, <2>1
  <1>15. ASSUME RunFails \/ \E stored \in BOOLEAN : FinishRun(stored)
         PROVE  Calls'
    <2>1. /\ run'.stack = run.stack /\ run'.result = run.result
          /\ run'.provision = run.provision /\ run'.errs = run.errs
          /\ UNCHANGED unbound
      BY <1>0, <1>15 DEF RunFails, FinishRun, RunType
    <2> QED
      BY <1>1, <2>1
  <1>16. CASE ReconcilerStep
    BY <1>11, <1>13, <1>14, <1>15, <1>16 DEF ReconcilerStep, EndRun
  <1>17. CASE FinalizerStep
    BY <1>3, <1>17
    DEF FinalizerStep, TakeFinalizing, HooksDone, HooksTimeOut, UpdateResults,
        FinishProcessing
  <1>18. CASE Restart
    BY <1>14, <1>18 DEF Restart
  <1> HIDE DEF Calls
  <1> QED
    BY <1>4, <1>5, <1>7, <1>8, <1>9, <1>10, <1>16, <1>17, <1>18,
       <1>6
    DEF Next, ItemsStep, RestoreStep

LEMMA InitCalls ==
  ASSUME Init
  PROVE  Calls
  <1>1. run.stack = <<>> /\ \A i \in Items : run.result[i] = "No"
    BY DEF Init, ItemsInit, NotRunning, RunOf
  <1> QED
    BY <1>1, ItemsAssumption DEF Calls, StackInv, ClaimsInv, ClaimsFindVolumes

\* Within a restore no call of restoreItem is inside another for the same
\* item, whatever additional items the actions return.
THEOREM ItemsOnce == Spec => []NoItemTwice
  <1>1. Formed /\ Calls => NoItemTwice
    BY DEF Calls, StackInv, NoItemTwice
  <1> QED
    BY <1>1, InitFormed, NextFormed, InitCalls, NextCalls, PTL DEF Spec

\* The actions of pkg/restore/actions return a claim's volume as an additional
\* item of the claim; then a claim whose volume is to be provisioned anew is
\* never created with the name of the volume that is gone, unless the restore
\* shows an error.
THEOREM VolumesAreFound == VolumesFollow => (Spec => []ClaimsFindVolumes)
  <1> SUFFICES ASSUME VolumesFollow PROVE Spec => []ClaimsFindVolumes
    OBVIOUS
  <1>1. Formed /\ Calls => ClaimsFindVolumes
    BY DEF Calls
  <1> QED
    BY <1>1, InitFormed, NextFormed, InitCalls, NextCalls, PTL DEF Spec

-----------------------------------------------------------------------------
(***************************************************************************)
(* The phases.  Where every controller sees its own writes, each phase has *)
(* one writer: what a controller reads of a restore that is its own to     *)
(* move is what the restore is, or it is gone.                             *)
(***************************************************************************)
Ph(r) == restores[r].phase

SeenInv(r) ==
    /\ seen[r].phase = "New" /\ "restore" \notin unseen[r] =>
           Ph(r) \in {"New", "Gone"}
    /\ seen[r].phase \in WaitingPhases /\ "operations" \notin unseen[r] =>
           Ph(r) \in {seen[r].phase, "Gone"}
    /\ seen[r].phase \in FinalizingPhases /\ "finalizer" \notin unseen[r] =>
           Ph(r) \in {seen[r].phase, "Gone"}

\* What the two workers hold has not moved, unless it is gone.
HeldInv ==
    /\ run.at # "idle" => Ph(run.r) \in {"InProgress", "Gone"}
    /\ fin.at # "idle" =>
           /\ Ph(fin.r) \in {"Finalizing", "FinalizingPartiallyFailed", "Gone"}
           /\ Ph(fin.r) = "FinalizingPartiallyFailed" => fin.failed

Phased == HeldInv /\ \A r \in Restores : SeenInv(r)

LEMMA PatchedPhase ==
  ASSUME RequestsTypeOK, NEW s \in Restores, NEW c \in Controllers,
         NEW phase \in Phases, PatchPhase(c, s, phase)
  PROVE  /\ Exists(s) => restores'[s].phase = phase
         /\ ~Exists(s) => restores' = restores
         /\ restores'[s].phase # Ph(s) => c \in unseen'[s]
         /\ \A r \in Restores : r # s => restores'[r].phase = Ph(r)
         /\ \A r \in Restores : unseen[r] \subseteq unseen'[r]
  <1>1. restores \in [Restores -> Object] /\ unseen \in [Restores -> SUBSET Controllers]
    BY DEF RequestsTypeOK
  <1>2. restores[s] \in Object
    BY <1>1
  <1>3. [restores[s] EXCEPT !.phase = phase].phase = phase
    BY <1>2 DEF Object
  <1> QED
    BY <1>1, <1>3 DEF PatchPhase, Exists, Ph

\* What each controller writes, it writes to a restore of its own.
LEMMA PhasesKept ==
  ASSUME Phased, \A r \in Restores : restores'[r].phase \in {Ph(r), "Gone"},
         UNCHANGED <<seen, unseen>>,
         run'.at # "idle" => run.at # "idle" /\ run.r \in Restores /\ run'.r = run.r,
         fin'.at # "idle" => /\ fin.at # "idle" /\ fin.r \in Restores /\ fin'.r = fin.r
                             /\ fin.failed => fin'.failed
  PROVE  Phased'
  BY PhaseNames DEF Phased, HeldInv, SeenInv, Ph

LEMMA PhasePatched ==
  ASSUME Phased, NEW s \in Restores,
         \A r \in Restores : r # s => restores'[r].phase = Ph(r),
         \A r \in Restores : unseen[r] \subseteq unseen'[r],
         UNCHANGED seen,
         run'.at # "idle" => run.at # "idle" /\ run.r \in Restores /\ run'.r = run.r /\ run'.r # s,
         fin'.at # "idle" => fin.at # "idle" /\ fin.r \in Restores /\ fin'.r = fin.r /\ fin'.r # s
                             /\ fin'.failed = fin.failed,
         SeenInv(s)'
  PROVE  Phased'
  <1>1. ASSUME NEW r \in Restores, r # s
        PROVE  SeenInv(r)'
    BY <1>1 DEF Phased, SeenInv, Ph
  <1>2. HeldInv'
    BY DEF Phased, HeldInv, Ph
  <1> QED
    BY <1>1, <1>2 DEF Phased

LEMMA InitPhased == Init => Phased
  BY PhaseNames
  DEF Init, RequestsInit, ItemsInit, NotRunning, RunOf, FinalizerInit, FinIdle, FinAt,
      Phased, HeldInv, SeenInv, Ph

LEMMA NextPhased ==
  ASSUME SeesOwnWrites, Formed, Phased, [Next]_vars
  PROVE  Phased'
  <1>0. /\ RequestsTypeOK /\ restores \in [Restores -> Object]
        /\ seen \in [Restores -> Object] /\ unseen \in [Restores -> SUBSET Controllers]
        /\ \A r \in Restores : restores[r] \in Object /\ seen[r] \in Object
        /\ run \in RunType
        /\ run.at # "idle" => run.r \in Restores
        /\ fin.at # "idle" => fin.r \in Restores
        /\ "restore" \in Controllers /\ "operations" \in Controllers
        /\ "finalizer" \in Controllers
    BY DEF Formed, TypeOK, RequestsTypeOK, ItemsTypeOK, RunType, Controllers
  <1>1. ASSUME UNCHANGED <<restores, seen, unseen>>,
               run'.at # "idle" => run.at # "idle" /\ run'.r = run.r,
               UNCHANGED fin
        PROVE  Phased'
    BY <1>0, <1>1, PhasesKept DEF Ph
  <1>2. ASSUME \A r \in Restores : restores'[r].phase \in {Ph(r), "Gone"},
               UNCHANGED <<seen, unseen, run, fin>>
        PROVE  Phased'
    BY <1>0, <1>2, PhasesKept
  <1>3. CASE UNCHANGED vars
    BY <1>1, <1>3 DEF vars, requestVars, itemVars
  <1>4. ASSUME NEW s \in Restores, EnvironmentStep(Deliver(s))
        PROVE  Phased'
    BY <1>0, <1>4 DEF EnvironmentStep, Deliver, itemVars, Phased, HeldInv, SeenInv, Ph
  <1>5. ASSUME NEW s \in Restores, EnvironmentStep(Create(s))
        PROVE  Phased'
    <2>1. /\ Ph(s) = "Absent" /\ UNCHANGED <<seen, unseen, run, fin>>
          /\ \A r \in Restores : r # s => restores'[r].phase = Ph(r)
      BY <1>0, <1>5 DEF EnvironmentStep, Create, itemVars, Ph
    <2>2. SeenInv(s)'
      BY <2>1, PhaseNames DEF Phased, SeenInv
    <2>3. (run.at # "idle" => run.r # s) /\ (fin.at # "idle" => fin.r # s)
      BY <2>1 DEF Phased, HeldInv
    <2> QED
      BY <1>0, <2>1, <2>2, <2>3, PhasePatched
  <1>6. ASSUME NEW s \in Restores, EnvironmentStep(Delete(s))
        PROVE  Phased'
    <2>1. [restores[s] EXCEPT !.deleting = TRUE].phase = Ph(s)
      BY <1>0 DEF Object, Ph
    <2>2. \A r \in Restores : restores'[r].phase \in {Ph(r), "Gone"}
      BY <1>0, <1>6, <2>1 DEF EnvironmentStep, Delete, Gone, Ph
    <2> QED
      BY <1>2, <1>6, <2>2 DEF EnvironmentStep, Delete, itemVars
  <1>7. ASSUME NEW s \in Restores, EnvironmentStep(\E i \in Items : OperationEnds(s, i))
        PROVE  Phased'
    BY <1>1, <1>7 DEF EnvironmentStep, OperationEnds, itemVars
  <1>8. CASE EnvironmentStep(BackupGoes)
    BY <1>1, <1>8 DEF EnvironmentStep, BackupGoes, itemVars
  <1>9. ASSUME NEW s \in Restores, NEW phase \in Phases, Polls(s),
               PatchPhase("operations", s, phase), UNCHANGED <<seen, run, fin>>
        PROVE  Phased'
    <2>1. /\ seen[s].phase \in WaitingPhases /\ "operations" \notin unseen[s]
          /\ Ph(s) \in {seen[s].phase, "Gone"}
      BY <1>9 DEF Polls, Reads, Phased, SeenInv
    <2>2. CASE ~Exists(s)
      BY <1>0, <1>2, <1>9, <2>2, PatchedPhase DEF PatchPhase, Ph
    <2>3. CASE Exists(s)
      <3>1. Ph(s) \in WaitingPhases
        BY <2>1, <2>3 DEF Exists, Ph
      <3>2. (run.at # "idle" => run.r # s) /\ (fin.at # "idle" => fin.r # s)
        BY <3>1, PhaseNames DEF Phased, HeldInv
      <3>3. SeenInv(s)'
        BY <1>0, <1>9, <2>1, PatchedPhase, PhaseNames DEF SeenInv, Ph
      <3> QED
        BY <1>0, <1>9, <3>2, <3>3, PatchedPhase, PhasePatched
    <2> QED
      BY <2>2, <2>3
  <1>10. ASSUME NEW s \in Restores, OperationsStep(s) /\ UNCHANGED fin
         PROVE  Phased'
    <2>1. CASE BackupMissing(s)
      BY <1>9, <1>10, <2>1, PhaseNames DEF BackupMissing, itemVars
    <2>2. CASE TellProgress(s)
      BY <1>9, <1>10, <2>2, PhasesFor DEF TellProgress, NextPhase, itemVars
    <2>3. CASE KeepWaiting(s) \/ UploadFails(s) \/ PatchFails(s)
      BY <1>1, <1>10, <2>3 DEF KeepWaiting, UploadFails, PatchFails, requestVars, itemVars
    <2> QED
      BY <1>10, <2>1, <2>2, <2>3 DEF OperationsStep
  <1>11. ASSUME NEW p \in Pods,
               \/ HooksStep(MayStart(p) /\ ContainerUp(p) /\ UNCHANGED mishaps)
               \/ HooksStep(HandlerStep(p) /\ UNCHANGED mishaps)
               \/ HooksStep(PodEnds(p) /\ Mishap)
         PROVE  Phased'
    BY <1>1, <1>11 DEF HooksStep, itemVars
  <1>12. ASSUME NEW p \in Pods, ItemsStep(VolumeEnds(p))
         PROVE  Phased'
    <2>1. run'.at = run.at /\ run'.r = run.r
      BY <1>0, <1>12 DEF ItemsStep, VolumeEnds, RunType
    <2> QED
      BY <1>1, <1>12, <2>1 DEF ItemsStep, VolumeEnds, requestVars
  <1>13. CASE ItemsStep(ItemStep)
    <2>1. run'.r = run.r /\ run.at # "idle"
      BY <1>13, ItemsRun
      DEF ItemsStep, ItemStep, NextItem, RememberVolume, RunActions, NextExtra,
          DoNotCreate, CreateItem, Running
    <2>2. UNCHANGED <<restores, seen, unseen, fin>>
      BY <1>13
      DEF ItemsStep, ItemStep, NextItem, RememberVolume, RunActions, NextExtra,
          DoNotCreate, CreateItem, requestVars
    <2> QED
      BY <1>1, <2>1, <2>2
  <1>14. ASSUME NEW s \in Restores, Refuse(s) \/ Start(s), UNCHANGED fin
         PROVE  Phased'
    <2>1. /\ seen[s].phase = "New" /\ "restore" \notin unseen[s] /\ Exists(s)
          /\ run.at = "idle" /\ UNCHANGED seen
          /\ unseen' = [unseen EXCEPT ![s] = @ \cup {"restore"}]
      BY <1>14 DEF Refuse, Start, Reads, WorkerFree
    <2>2. Ph(s) = "New"
      BY <2>1 DEF Phased, SeenInv, Exists, Ph
    <2>3. /\ \A r \in Restores : r # s => restores'[r].phase = Ph(r)
          /\ \A r \in Restores : unseen[r] \subseteq unseen'[r]
          /\ "restore" \in unseen'[s]
      BY <1>0, <1>14, <2>1 DEF Refuse, Start, Ph
    <2>4. fin.at # "idle" => fin.r # s
      BY <2>2 DEF Phased, HeldInv
    <2>5. SeenInv(s)'
      BY <2>1, <2>3, PhaseNames DEF SeenInv
    <2>6. run'.at # "idle" => run'.r = s /\ restores'[s].phase = "InProgress"
      BY <1>0, <1>14, <2>1 DEF Refuse, Start, RunOf, itemVars
    <2>7. HeldInv'
      BY <1>0, <1>14, <2>3, <2>4, <2>6 DEF Phased, HeldInv, Ph
    <2>8. ASSUME NEW r \in Restores, r # s
          PROVE  SeenInv(r)'
      BY <2>1, <2>3, <2>8 DEF Phased, SeenInv, Ph
    <2> QED
      BY <2>5, <2>7, <2>8 DEF Phased
  <1>15. ASSUME NEW s \in Restores, DeleteExternalResources(s), UNCHANGED fin
         PROVE  Phased'
    <2>1. \A r \in Restores : restores'[r].phase \in {Ph(r), "Gone"}
      BY <1>0, <1>15 DEF DeleteExternalResources, Gone, Ph
    <2> QED
      BY <1>2, <1>15, <2>1 DEF DeleteExternalResources, itemVars
  <1>16. ASSUME RunFails \/ \E stored \in BOOLEAN : FinishRun(stored), UNCHANGED fin
         PROVE  Phased'
    <2>1. run.at # "idle" /\ run'.r = run.r
      BY <1>0, <1>16 DEF RunFails, FinishRun, ItemsDone, RunType
    <2> QED
      BY <1>1, <1>16, <2>1 DEF RunFails, FinishRun
  <1>17. ASSUME EndRun, UNCHANGED fin
         PROVE  Phased'
    <2>1. run.r \in Restores /\ Ph(run.r) \in {"InProgress", "Gone"}
          /\ run.phase \in Phases /\ run'.at = "idle" /\ UNCHANGED seen
      BY <1>0, <1>17 DEF EndRun, NotRunning, RunOf, Phased, HeldInv, RunType
    <2> PICK s \in Restores : s = run.r
      BY <2>1
    <2>2. CASE UNCHANGED <<restores, unseen>>
      BY <1>1, <1>17, <2>1, <2>2
    <2>3. CASE PatchPhase("restore", s, run.phase) /\ ~Exists(s)
      BY <1>1, <1>17, <2>1, <2>3 DEF PatchPhase
    <2>4. CASE PatchPhase("restore", s, run.phase) /\ Exists(s)
      <3>1. Ph(s) = "InProgress"
        BY <2>1, <2>4 DEF Exists, Ph
      <3>2. fin.at # "idle" => fin.r # s
        BY <3>1 DEF Phased, HeldInv
      <3>3. SeenInv(s)'
        BY <1>0, <2>1, <2>4, <3>1, PatchedPhase, PhaseNames DEF Phased, SeenInv, Ph
      <3> QED
        BY <1>0, <1>17, <2>1, <2>4, <3>2, <3>3, PatchedPhase, PhasePatched
    <2> QED
      BY <1>17, <2>2, <2>3, <2>4 DEF EndRun
  <1>18. ASSUME NEW s \in Restores, TakeFinalizing(s)
         PROVE  Phased'
    <2>1. /\ seen[s].phase \in FinalizingPhases /\ Ph(s) = seen[s].phase
          /\ UNCHANGED <<restores, seen, unseen, run>>
      BY <1>18 DEF TakeFinalizing, Reads, Exists, Phased, SeenInv, Ph, requestVars, itemVars
    <2>2. fin'.r = s /\ (seen[s].phase = "FinalizingPartiallyFailed" => fin'.failed)
      <3> PICK errs \in BOOLEAN :
             fin' = IF backup = "gone" THEN FinAt(s, "patch", TRUE)
                    ELSE FinAt(s, "hooks",
                               errs \/ seen[s].phase = "FinalizingPartiallyFailed")
        BY <1>18 DEF TakeFinalizing
      <3> PICK failed \in BOOLEAN :
             failed = (errs \/ seen[s].phase = "FinalizingPartiallyFailed")
        OBVIOUS
      <3>1. fin' = FinAt(s, "patch", TRUE) \/ fin' = FinAt(s, "hooks", failed)
        OBVIOUS
      <3> QED
        BY <3>1 DEF FinAt
    <2>3. HeldInv'
      BY <2>1, <2>2, PhaseNames DEF Phased, HeldInv, Ph
    <2> QED
      BY <2>1, <2>3 DEF Phased, SeenInv, Ph
  <1>19. CASE HooksDone \/ HooksTimeOut \/ UpdateResults
    <2>1. UNCHANGED <<restores, seen, unseen, run>>
      BY <1>19 DEF HooksDone, HooksTimeOut, UpdateResults, requestVars, itemVars
    <2>2. fin.at # "idle" /\ (fin'.at # "idle" => fin'.r = fin.r /\ (fin.failed => fin'.failed))
      <3> PICK failed \in BOOLEAN : failed = (fin.failed \/ HookErrs(fin.r))
        OBVIOUS
      <3>1. \/ fin' = FinAt(fin.r, "results", failed)
            \/ fin' = FinAt(fin.r, "results", TRUE)
            \/ fin' = FinAt(fin.r, "patch", fin.failed)
            \/ fin' = FinIdle
        BY <1>19 DEF HooksDone, HooksTimeOut, UpdateResults
      <3>2. fin.at # "idle"
        BY <1>19 DEF HooksDone, HooksTimeOut, UpdateResults
      <3>3. FinIdle.at = "idle"
        BY DEF FinIdle, FinAt
      <3>4. FinAt(fin.r, "results", failed).r = fin.r
            /\ (fin.failed => FinAt(fin.r, "results", failed).failed)
        BY DEF FinAt
      <3>5. FinAt(fin.r, "results", TRUE).r = fin.r /\ FinAt(fin.r, "results", TRUE).failed
        BY DEF FinAt
      <3>6. FinAt(fin.r, "patch", fin.failed).r = fin.r
            /\ (fin.failed => FinAt(fin.r, "patch", fin.failed).failed)
        BY DEF FinAt
      <3> QED
        BY <3>1, <3>2, <3>3, <3>4, <3>5, <3>6
    <2> QED
      BY <1>0, <2>1, <2>2, PhasesKept DEF Ph
  <1>20. CASE FinishProcessing
    <2>1. /\ fin.r \in Restores /\ fin'.at = "idle" /\ UNCHANGED <<seen, run>>
          /\ Ph(fin.r) \in {"Finalizing", "FinalizingPartiallyFailed", "Gone"}
      BY <1>0, <1>20 DEF FinishProcessing, FinIdle, FinAt, itemVars, Phased, HeldInv
    <2> PICK s \in Restores : s = fin.r
      BY <2>1
    <2>2. CASE UNCHANGED <<restores, unseen>>
      BY <1>0, <2>1, <2>2, PhasesKept DEF Ph
    <2>3. ASSUME NEW phase \in Phases, PatchPhase("finalizer", s, phase)
          PROVE  Phased'
      <3>1. CASE ~Exists(s)
        BY <2>2, <2>3, <3>1 DEF PatchPhase
      <3>2. CASE Exists(s)
        <4>1. Ph(s) \in FinalizingPhases
          BY <2>1, <3>2, PhaseNames DEF Exists, Ph
        <4>2. run.at # "idle" => run.r # s
          BY <4>1, PhaseNames DEF Phased, HeldInv
        <4>3. SeenInv(s)'
          BY <1>0, <2>1, <2>3, <4>1, PatchedPhase, PhaseNames DEF Phased, SeenInv, Ph
        <4> QED
          BY <1>0, <2>1, <2>3, <4>2, <4>3, PatchedPhase, PhasePatched
      <3> QED
        BY <3>1, <3>2
    <2> QED
      BY <1>20, <2>2, <2>3, PhaseNames DEF FinishProcessing
  <1>21. CASE Restart
    <2>1. seen' = restores' /\ run'.at = "idle" /\ fin'.at = "idle"
      BY <1>21 DEF Restart, NotRunning, RunOf, FinIdle, FinAt
    <2> QED
      BY <2>1 DEF Phased, HeldInv, SeenInv, Ph
  <1> HIDE DEF Phased
  <1> QED
    BY <1>3, <1>4, <1>5, <1>6, <1>7, <1>8, <1>10, <1>11, <1>12, <1>13, <1>14, <1>15,
       <1>16, <1>17, <1>18, <1>19, <1>20, <1>21
    DEF Next, RestoreStep, ReconcilerStep, FinalizerStep

-----------------------------------------------------------------------------
(***************************************************************************)
(* A run that met an error shows in every phase the restore has later.     *)
(***************************************************************************)
Bad == {"Failed", "WaitingForPluginOperationsPartiallyFailed",
        "FinalizingPartiallyFailed"}

Shown == Bad \cup {"InProgress", "Gone", "FailedValidation", "PartiallyFailed"}

Errs ==
    /\ \A r \in Restores : r \in hadErrs => Ph(r) \in Shown
    /\ run.at = "items" => run.r \notin hadErrs
    /\ run.at = "patch" =>
           /\ run.phase \in Bad \cup {"WaitingForPluginOperations", "Finalizing"}
           /\ run.r \in hadErrs => run.phase \in Bad

\* No run ends, and what moves does not hide an error.
LEMMA ErrsKept ==
  ASSUME Errs, UNCHANGED hadErrs,
         \A r \in Restores : r \in hadErrs /\ Ph(r) \in Shown => restores'[r].phase \in Shown,
         run'.at # "idle" => run'.at = run.at /\ run'.r = run.r /\ run'.phase = run.phase
  PROVE  Errs'
  BY DEF Errs, Ph

LEMMA InitErrs == Init => Errs
  BY DEF Init, ItemsInit, ReconcilerInit, NotRunning, RunOf, Errs

LEMMA ErrsTold ==
  ASSUME Formed, NEW phase, NEW s \in Restores, NEW new \in Polled(s, Known(s).list),
         phase = "WaitingForPluginOperationsPartiallyFailed"
  PROVE  NextPhase(phase, PolledEntry(s, new)) \in Bad
  BY DEF NextPhase, PhaseFor, Bad

LEMMA ItemsPhase ==
  ASSUME Formed, ItemStep
  PROVE  /\ run.at = "items" /\ run'.at = "items" /\ run'.r = run.r
         /\ run'.phase = run.phase
         /\ RunActions \/ run'.list = run.list
  <1>0. run \in RunType /\ run'.at = "items" /\ run'.r = run.r
    BY ItemsRun DEF Formed, TypeOK, ItemsTypeOK, RunType
  <1>1. ASSUME NEW rn, "phase" \in DOMAIN rn, NEW i \in Items
        PROVE  /\ Enter(rn, i).phase = rn.phase
               /\ [rn EXCEPT !.errs = TRUE].phase = rn.phase
    BY <1>1 DEF Enter
  <1>2. ASSUME NEW rn, "list" \in DOMAIN rn, NEW i \in Items
        PROVE  /\ Enter(rn, i).list = rn.list
               /\ [rn EXCEPT !.errs = TRUE].list = rn.list
    BY <1>2 DEF Enter
  <1>3. ASSUME NEW i \in Items, NextItem(i)
        PROVE  run'.phase = run.phase /\ run'.list = run.list
    <2>rn. PICK rn : rn = [run EXCEPT !.todo = @ \ {i}]
      OBVIOUS
    <2>1. /\ "phase" \in DOMAIN rn /\ rn.phase = run.phase
          /\ "list" \in DOMAIN rn /\ rn.list = run.list
      BY <1>0, <2>rn DEF RunType
    <2>2. run' = Enter(rn, i) \/ run' = [rn EXCEPT !.errs = TRUE]
      BY <1>3, <2>rn DEF NextItem
    <2>3. /\ Enter(rn, i).phase = rn.phase /\ [rn EXCEPT !.errs = TRUE].phase = rn.phase
          /\ Enter(rn, i).list = rn.list /\ [rn EXCEPT !.errs = TRUE].list = rn.list
      BY <1>1, <1>2, <2>1
    <2> QED
      BY <2>1, <2>2, <2>3
  <1>4. CASE NextExtra
    <2>rn. PICK rn : rn = [run EXCEPT !.stack[1].extras = Tail(@)]
      OBVIOUS
    <2>1. /\ "phase" \in DOMAIN rn /\ rn.phase = run.phase
          /\ "list" \in DOMAIN rn /\ rn.list = run.list
      BY <1>0, <2>rn DEF RunType
    <2>2. Head(Top.extras) \in Items
      <3>1. Top \in Frames /\ Top.extras # <<>>
        BY <1>0, <1>4, Popped DEF NextExtra, Running, Top, RunType
      <3> QED
        BY <3>1, Popped DEF Frames
    <2>i. PICK i \in Items : i = Head(Top.extras)
      BY <2>2
    <2>3. run' = Enter(rn, i) \/ run' = [rn EXCEPT !.errs = TRUE]
      BY <1>4, <2>rn, <2>i DEF NextExtra
    <2>4. /\ Enter(rn, i).phase = rn.phase /\ [rn EXCEPT !.errs = TRUE].phase = rn.phase
          /\ Enter(rn, i).list = rn.list /\ [rn EXCEPT !.errs = TRUE].list = rn.list
      BY <1>1, <1>2, <2>1
    <2>5. run'.phase = run.phase /\ run'.list = run.list
      BY <2>1, <2>3, <2>4
    <2> QED
      BY <1>0, <1>4, <2>5 DEF NextExtra, Running
  <1>5. CASE RememberVolume \/ DoNotCreate \/ \E errs, goesOn \in BOOLEAN : CreateItem(errs, goesOn)
    BY <1>0, <1>5 DEF RememberVolume, DoNotCreate, CreateItem, Return, RunType
  <1>6. CASE RunActions
    BY <1>0, <1>6 DEF RunActions, Return, RunType
  <1>7. run.at = "items"
    BY DEF ItemStep, NextItem, RememberVolume, RunActions, NextExtra, DoNotCreate,
           CreateItem, Running
  <1> QED
    BY <1>0, <1>3, <1>4, <1>5, <1>6, <1>7 DEF ItemStep

LEMMA NextErrs ==
  ASSUME SeesOwnWrites, Formed, Phased, Errs, [Next]_vars
  PROVE  Errs'
  <1>0. /\ RequestsTypeOK
        /\ \A r \in Restores : restores[r] \in Object
        /\ restores \in [Restores -> Object]
        /\ run \in RunType
        /\ run.at # "idle" => run.r \in Restores
        /\ fin.at # "idle" => fin.r \in Restores
        /\ "restore" \in Controllers /\ "operations" \in Controllers
        /\ "finalizer" \in Controllers
    BY DEF Formed, TypeOK, RequestsTypeOK, ItemsTypeOK, RunType, Controllers
  <1>1. ASSUME UNCHANGED <<restores, run, hadErrs>>
        PROVE  Errs'
    BY <1>1 DEF Errs, Ph
  <1>2. CASE UNCHANGED vars
    BY <1>1, <1>2 DEF vars, requestVars, itemVars, reconcilerVars
  <1>3. ASSUME NEW s \in Restores,
               \/ EnvironmentStep(Deliver(s))
               \/ EnvironmentStep(\E i \in Items : OperationEnds(s, i))
        PROVE  Errs'
    BY <1>1, <1>3 DEF EnvironmentStep, Deliver, OperationEnds, itemVars, reconcilerVars
  <1>4. ASSUME NEW s \in Restores, EnvironmentStep(Create(s))
        PROVE  Errs'
    BY <1>0, <1>4, ErrsKept
    DEF EnvironmentStep, Create, itemVars, reconcilerVars, Ph, Shown, Bad
  <1>5. ASSUME NEW s \in Restores, EnvironmentStep(Delete(s))
        PROVE  Errs'
    <2>1. [restores[s] EXCEPT !.deleting = TRUE].phase = Ph(s)
      BY <1>0 DEF Object, Ph
    <2>2. \A r \in Restores : restores'[r].phase \in {Ph(r), "Gone"}
      BY <1>0, <1>5, <2>1 DEF EnvironmentStep, Delete, Gone, Ph
    <2> QED
      BY <1>5, <2>2, ErrsKept DEF EnvironmentStep, itemVars, reconcilerVars, Shown
  <1>6. CASE EnvironmentStep(BackupGoes)
    BY <1>1, <1>6 DEF EnvironmentStep, BackupGoes, itemVars, reconcilerVars
  <1>7. ASSUME NEW s \in Restores, OperationsStep(s) /\ UNCHANGED fin
        PROVE  Errs'
    <2>1. UNCHANGED <<run, hadErrs>>
      BY <1>7 DEF OperationsStep, BackupMissing, KeepWaiting, TellProgress, UploadFails,
                  PatchFails, itemVars, reconcilerVars
    <2>2. CASE KeepWaiting(s) \/ UploadFails(s) \/ PatchFails(s)
      BY <1>1, <2>1, <2>2 DEF KeepWaiting, UploadFails, PatchFails, requestVars
    <2>3. ASSUME NEW phase \in Phases, Polls(s), PatchPhase("operations", s, phase),
                 seen[s].phase = "WaitingForPluginOperationsPartiallyFailed" => phase \in Bad
          PROVE  Errs'
      <3>1. Exists(s) => Ph(s) = seen[s].phase /\ seen[s].phase \in WaitingPhases
        BY <2>3 DEF Polls, Reads, Phased, SeenInv, Exists, Ph
      <3>2. Exists(s) /\ Ph(s) \in Shown => restores'[s].phase \in Shown
        BY <1>0, <2>3, <3>1, PatchedPhase, PhaseNames DEF Shown, Bad
      <3>3. \A r \in Restores : Ph(r) \in Shown => restores'[r].phase \in Shown
        BY <1>0, <2>3, <3>2, PatchedPhase DEF Ph
      <3> QED
        BY <2>1, <3>3, ErrsKept
    <2>4. CASE BackupMissing(s)
      BY <2>3, <2>4, PhaseNames DEF BackupMissing, Bad
    <2>5. CASE TellProgress(s)
      <3> PICK new \in Polled(s, Known(s).list) :
             PatchPhase("operations", s, NextPhase(seen[s].phase, PolledEntry(s, new)))
        BY <2>5 DEF TellProgress
      <3>1. NextPhase(seen[s].phase, PolledEntry(s, new)) \in Phases
        BY PhasesFor DEF NextPhase
      <3> QED
        BY <2>3, <2>5, <3>1, ErrsTold DEF TellProgress
    <2> QED
      BY <1>7, <2>2, <2>4, <2>5 DEF OperationsStep
  <1>8. ASSUME NEW p \in Pods,
               \/ HooksStep(MayStart(p) /\ ContainerUp(p) /\ UNCHANGED mishaps)
               \/ HooksStep(HandlerStep(p) /\ UNCHANGED mishaps)
               \/ HooksStep(PodEnds(p) /\ Mishap)
        PROVE  Errs'
    BY <1>1, <1>8 DEF HooksStep, itemVars, reconcilerVars
  <1>9. ASSUME NEW p \in Pods, ItemsStep(VolumeEnds(p))
        PROVE  Errs'
    <2>1. run'.at = run.at /\ run'.r = run.r /\ run'.phase = run.phase
      BY <1>0, <1>9 DEF ItemsStep, VolumeEnds, RunType
    <2> QED
      BY <1>9, <2>1, ErrsKept DEF ItemsStep, VolumeEnds, requestVars, reconcilerVars, Ph
  <1>10. CASE ItemsStep(ItemStep)
    <2>1. UNCHANGED <<restores, hadErrs>>
      BY <1>10
      DEF ItemsStep, ItemStep, NextItem, RememberVolume, RunActions, NextExtra,
          DoNotCreate, CreateItem, requestVars, reconcilerVars
    <2> QED
      BY <1>10, <2>1, ErrsKept, ItemsPhase DEF ItemsStep, Ph
  <1>11. ASSUME NEW s \in Restores, Refuse(s)
         PROVE  Errs'
    BY <1>0, <1>11, ErrsKept DEF Refuse, itemVars, reconcilerVars, Ph, Shown
  <1>12. ASSUME NEW s \in Restores, Start(s)
         PROVE  Errs'
    <2>1. Ph(s) = "New"
      BY <1>12 DEF Start, Reads, Phased, SeenInv, Exists, Ph
    <2>2. s \notin hadErrs
      BY <2>1 DEF Errs, Shown, Bad
    <2>3. run'.at = "items" /\ run'.r = s /\ UNCHANGED hadErrs
      BY <1>12 DEF Start, RunOf, reconcilerVars
    <2>4. \A r \in Restores : r # s => restores'[r].phase = Ph(r)
      BY <1>0, <1>12 DEF Start, Ph
    <2> QED
      BY <2>2, <2>3, <2>4 DEF Errs, Ph
  <1>13. ASSUME NEW s \in Restores, DeleteExternalResources(s)
         PROVE  Errs'
    <2>1. \A r \in Restores : restores'[r].phase \in {Ph(r), "Gone"}
      BY <1>0, <1>13 DEF DeleteExternalResources, Gone, Ph
    <2> QED
      BY <1>13, <2>1, ErrsKept DEF DeleteExternalResources, itemVars, Shown
  <1>14. CASE RunFails
    <2>1. /\ run.at # "idle" /\ UNCHANGED restores /\ hadErrs' = hadErrs \cup {run.r}
          /\ run'.at = "patch" /\ run'.phase = "Failed"
      BY <1>0, <1>14 DEF RunFails, ItemsDone, RunType
    <2>2. Ph(run.r) \in Shown
      BY <2>1 DEF Phased, HeldInv, Shown
    <2> QED
      BY <2>1, <2>2 DEF Errs, Ph, Bad
  <1>15. ASSUME NEW stored \in BOOLEAN, FinishRun(stored)
         PROVE  Errs'
    <2> PICK new \in Polled(run.r, run.list), log \in BOOLEAN :
           /\ hadErrs' = IF run.errs \/ NewFailure(run.list, new) \/ ~log
                         THEN hadErrs \cup {run.r} ELSE hadErrs
           /\ run' = [run EXCEPT !.at = "patch", !.list = new,
                          !.phase = PhaseFor(run.errs \/ NewFailure(run.list, new) \/ ~log,
                                             StillInProgress(new))]
      BY <1>15 DEF FinishRun
    <2> PICK failed \in BOOLEAN : failed = (run.errs \/ NewFailure(run.list, new) \/ ~log)
      OBVIOUS
    <2>1. /\ hadErrs' = IF failed THEN hadErrs \cup {run.r} ELSE hadErrs
          /\ run' = [run EXCEPT !.at = "patch", !.list = new,
                          !.phase = PhaseFor(failed, StillInProgress(new))]
      OBVIOUS
    <2>2. /\ run.at = "items" /\ UNCHANGED restores
          /\ run'.at = "patch" /\ run'.phase = PhaseFor(failed, StillInProgress(new))
          /\ run'.r = run.r
      BY <1>0, <1>15, <2>1 DEF FinishRun, ItemsDone, RunType
    <2>3. Ph(run.r) \in Shown
      BY <2>2 DEF Phased, HeldInv, Shown
    <2>4. /\ failed => run'.phase \in Bad
          /\ run'.phase \in Bad \cup {"WaitingForPluginOperations", "Finalizing"}
      BY <2>2 DEF PhaseFor, Bad
    <2> QED
      BY <2>1, <2>2, <2>3, <2>4 DEF Errs, Ph
  <1>16. CASE EndRun
    <2>1. run.r \in Restores /\ run.phase \in Phases /\ run'.at = "idle" /\ UNCHANGED hadErrs
      BY <1>0, <1>16 DEF EndRun, NotRunning, RunOf, RunType
    <2> PICK s \in Restores : s = run.r
      BY <2>1
    <2>2. CASE UNCHANGED restores
      BY <2>1, <2>2, ErrsKept DEF Ph
    <2>3. CASE PatchPhase("restore", s, run.phase)
      <3>1. s \in hadErrs => run.phase \in Shown
        BY <1>16 DEF EndRun, Errs, Shown
      <3>2. \A r \in Restores : r \in hadErrs /\ Ph(r) \in Shown => restores'[r].phase \in Shown
        BY <1>0, <2>1, <2>3, <3>1, PatchedPhase DEF Ph
      <3> QED
        BY <2>1, <3>2, ErrsKept
    <2> QED
      BY <1>16, <2>2, <2>3 DEF EndRun
  <1>17. ASSUME NEW s \in Restores, TakeFinalizing(s)
         PROVE  Errs'
    BY <1>1, <1>17 DEF TakeFinalizing, requestVars, itemVars, reconcilerVars
  <1>18. CASE HooksDone \/ HooksTimeOut \/ UpdateResults
    BY <1>1, <1>18 DEF HooksDone, HooksTimeOut, UpdateResults, requestVars, itemVars,
                       reconcilerVars
  <1>19. CASE FinishProcessing
    <2>1. /\ fin.r \in Restores /\ UNCHANGED <<run, hadErrs>>
          /\ Ph(fin.r) \in {"Finalizing", "FinalizingPartiallyFailed", "Gone"}
          /\ Ph(fin.r) = "FinalizingPartiallyFailed" => fin.failed
      BY <1>0, <1>19 DEF FinishProcessing, itemVars, Phased, HeldInv
    <2> PICK s \in Restores : s = fin.r
      BY <2>1
    <2>2. CASE UNCHANGED restores
      BY <1>1, <2>1, <2>2
    <2>3. CASE PatchPhase("finalizer", s, IF fin.failed THEN "PartiallyFailed" ELSE "Completed")
      <3> PICK phase \in Phases : phase = IF fin.failed THEN "PartiallyFailed" ELSE "Completed"
        BY PhaseNames
      <3>1. Exists(s) /\ Ph(s) \in Shown => phase \in Shown
        BY <2>1 DEF Exists, Ph, Shown, Bad
      <3>2. \A r \in Restores : r \in hadErrs /\ Ph(r) \in Shown => restores'[r].phase \in Shown
        BY <1>0, <2>3, <3>1, PatchedPhase DEF Ph
      <3> QED
        BY <2>1, <3>2, ErrsKept
    <2> QED
      BY <1>19, <2>2, <2>3 DEF FinishProcessing
  <1>20. CASE Restart
    <2>1. run'.at = "idle" /\ UNCHANGED hadErrs
      BY <1>20 DEF Restart, NotRunning, RunOf
    <2>2. ASSUME NEW r \in Restores
          PROVE  restores'[r].phase \in {Ph(r), "Failed"}
      BY <1>0, <1>20 DEF Restart, Object, Ph
    <2> QED
      BY <2>1, <2>2, ErrsKept DEF Shown, Bad
  <1> HIDE DEF Errs
  <1> QED
    BY <1>2, <1>3, <1>4, <1>5, <1>6, <1>7, <1>8, <1>9, <1>10, <1>11, <1>12, <1>13,
       <1>14, <1>15, <1>16, <1>17, <1>18, <1>19, <1>20
    DEF Next, RestoreStep, ReconcilerStep, FinalizerStep

-----------------------------------------------------------------------------
(***************************************************************************)
(* What is recorded of the operations is true of them, and no operation is *)
(* left out of what is recorded, unless a failed call lost just that.      *)
(***************************************************************************)
Clean(r) == "list" \notin lost[r] /\ "failure" \notin lost[r]

Fine(r) == \A i \in Items : progress[r][i] \in {"none", "succeeded"}

Truthful(r, list, errs) ==
    \A i \in Items :
        /\ list[i] = "None" => progress[r][i] = "none"
        /\ list[i] = "Completed" => progress[r][i] = "succeeded"
        /\ list[i] = "Failed" => errs

TruthInv(r) ==
    /\ Ph(r) \in {"Absent", "New"} =>
           /\ lists[r] = NoOperations
           /\ \A i \in Items : progress[r][i] = "none"
    /\ Ph(r) \in {"Absent", "New", "InProgress"} => opsMap[r] = NoEntry
    /\ Ph(r) = "InProgress" /\ run.at = "items" /\ run.r = r =>
           /\ lists[r] = NoOperations
           /\ \A i \in Items : \/ run.list[i] = "None" /\ progress[r][i] = "none"
                               \/ run.list[i] = "InProgress"
    /\ Ph(r) = "InProgress" /\ run.at = "patch" /\ run.r = r /\ Clean(r)
       /\ run.phase \in {"WaitingForPluginOperations", "Finalizing"} =>
           /\ Truthful(r, lists[r], FALSE)
           /\ run.phase = "Finalizing" => Fine(r)
    /\ Ph(r) = "WaitingForPluginOperations" /\ Clean(r) =>
           /\ Truthful(r, lists[r], FALSE)
           /\ opsMap[r].list # NoOperations => Truthful(r, opsMap[r].list, opsMap[r].errs)
    /\ Ph(r) \in {"Finalizing", "Completed"} /\ Clean(r) => Fine(r)

\* The phases that show a failure, or say nothing.
Silent == {"Gone", "FailedValidation", "Failed", "PartiallyFailed",
           "WaitingForPluginOperationsPartiallyFailed", "FinalizingPartiallyFailed"}

LEMMA TruthKept ==
  ASSUME NEW r, TruthInv(r), restores'[r].phase \in {Ph(r)} \cup Silent,
         lists'[r] = lists[r], opsMap'[r] = opsMap[r], progress'[r] = progress[r],
         lost[r] \subseteq lost'[r],
         run'.at # "idle" /\ run'.r = r => /\ run'.at = run.at /\ run.r = r
                                          /\ run'.list = run.list /\ run'.phase = run.phase
  PROVE  TruthInv(r)'
  <1>1. CASE restores'[r].phase \in Silent
    BY <1>1 DEF TruthInv, Ph, Silent
  <1>2. CASE restores'[r].phase = Ph(r)
    <2>1. (Clean(r)' => Clean(r)) /\ (Fine(r) => Fine(r)') /\ Ph(r)' = Ph(r)
      BY <1>2 DEF Clean, Fine, Ph
    <2>2. \A list, errs : Truthful(r, list, errs) => Truthful(r, list, errs)'
      BY DEF Truthful
    <2>3. /\ Truthful(r, lists[r], FALSE) => Truthful(r, lists[r], FALSE)'
          /\ Truthful(r, opsMap[r].list, opsMap[r].errs)
                => Truthful(r, opsMap[r].list, opsMap[r].errs)'
      BY DEF Truthful
    <2> QED
      BY <2>1, <2>3 DEF TruthInv
  <1> QED
    BY <1>1, <1>2

LEMMA PolledTruth ==
  ASSUME Formed, NEW r \in Restores, NEW list \in [Items -> OpPhases],
         NEW errs \in BOOLEAN, Truthful(r, list, errs), NEW new \in Polled(r, list),
         NEW now \in BOOLEAN, now = (errs \/ NewFailure(list, new))
  PROVE  /\ Truthful(r, new, now)
         /\ ~StillInProgress(new) /\ ~now => Fine(r)
  <1>1. \A i \in Items : progress[r][i] \in {"none", "running", "succeeded", "failed"}
    BY DEF Formed, TypeOK, RequestsTypeOK
  <1>2. /\ new \in [Items -> OpPhases]
        /\ \A i \in Items : new[i] \in IF list[i] = "InProgress" THEN Answers(r, i) ELSE {list[i]}
    BY DEF Polled
  <1>3. \A i \in Items :
           /\ Answers(r, i) \subseteq {"InProgress", "Completed", "Failed"}
           /\ "Completed" \in Answers(r, i) => progress[r][i] = "succeeded"
    BY <1>1 DEF Answers
  <1>4. Truthful(r, new, now)
    <2> SUFFICES ASSUME NEW i \in Items
                 PROVE  /\ new[i] = "None" => progress[r][i] = "none"
                        /\ new[i] = "Completed" => progress[r][i] = "succeeded"
                        /\ new[i] = "Failed" => now
      BY DEF Truthful
    <2>1. CASE list[i] = "InProgress"
      BY <1>2, <1>3, <2>1 DEF NewFailure
    <2>2. CASE list[i] # "InProgress"
      BY <1>2, <2>2 DEF Truthful
    <2> QED
      BY <2>1, <2>2
  <1>5. ASSUME ~StillInProgress(new), ~now
        PROVE  Fine(r)
    BY <1>2, <1>4, <1>5 DEF StillInProgress, Truthful, Fine, OpPhases
  <1> QED
    BY <1>4, <1>5

LEMMA InitTruth ==
  ASSUME Init, NEW r \in Restores
  PROVE  TruthInv(r)
  BY DEF Init, RequestsInit, OperationsInit, ReconcilerInit, TruthInv, Ph

\* The operations controller: the restore it polls is what it read.
LEMMA OperationsTruth ==
  ASSUME SeesOwnWrites, Formed, Phased, NEW s \in Restores, OperationsStep(s),
         NEW r \in Restores, TruthInv(r)
  PROVE  TruthInv(r)'
  <1>0. /\ RequestsTypeOK
        /\ \A q \in Restores : restores[q] \in Object
        /\ restores \in [Restores -> Object]
        /\ lists \in [Restores -> [Items -> OpPhases]]
        /\ lost \in [Restores -> SUBSET Losses]
        /\ opsMap \in [Restores -> [list : [Items -> OpPhases], errs : BOOLEAN]]
        /\ "operations" \in Controllers
    BY DEF Formed, TypeOK, RequestsTypeOK, ReconcilerTypeOK, OperationsTypeOK, Controllers
  <1>1. UNCHANGED <<seen, progress, run, hadErrs>> /\ Polls(s)
    BY DEF OperationsStep, BackupMissing, KeepWaiting, TellProgress, UploadFails, PatchFails,
           requestVars, itemVars, reconcilerVars
  <1>2. lost[r] \subseteq lost'[r]
    <2>1. UNCHANGED lost \/ Loses(s, "failure")
      BY DEF OperationsStep, BackupMissing, KeepWaiting, TellProgress, UploadFails,
             PatchFails, reconcilerVars
    <2> QED
      BY <1>0, <2>1 DEF Loses
  <1>3. CASE r # s
    <2>1. UNCHANGED restores \/ \E phase \in Phases : PatchPhase("operations", s, phase)
      BY PhasesFor, PhaseNames
      DEF OperationsStep, BackupMissing, KeepWaiting, TellProgress, UploadFails, PatchFails,
          NextPhase, requestVars
    <2>2. restores'[r].phase = Ph(r)
      BY <1>0, <1>3, <2>1, PatchedPhase DEF Ph
    <2>3. lists'[r] = lists[r] /\ opsMap'[r] = opsMap[r]
      BY <1>0, <1>3
      DEF OperationsStep, BackupMissing, KeepWaiting, TellProgress, UploadFails, PatchFails,
          requestVars
    <2> QED
      BY <1>1, <1>2, <2>2, <2>3, TruthKept
  <1>4. CASE r = s /\ ~Exists(r)
    <2>1. Ph(r) \in {"Absent", "Gone"}
      BY <1>4 DEF Exists, Ph
    <2>2. Ph(r) # "Absent"
      BY <1>1, <1>4, PhaseNames DEF Polls, Reads, Phased, SeenInv
    <2>3. restores' = restores
      BY <1>4
      DEF OperationsStep, BackupMissing, KeepWaiting, TellProgress, UploadFails, PatchFails,
          PatchPhase, requestVars
    <2> QED
      BY <2>1, <2>2, <2>3 DEF TruthInv, Ph
  <1>5. CASE r = s /\ Exists(r)
    <2>1. Ph(r) = seen[r].phase /\ Ph(r) \in WaitingPhases
      BY <1>1, <1>5 DEF Polls, Reads, Phased, SeenInv, Exists, Ph
    <2>2. CASE Ph(r) = "WaitingForPluginOperationsPartiallyFailed"
      <3>1. \/ UNCHANGED restores
            \/ PatchPhase("operations", r, "FinalizingPartiallyFailed")
            \/ \E new \in Polled(r, Known(r).list) :
                  PatchPhase("operations", r, NextPhase(seen[r].phase, PolledEntry(r, new)))
        BY <1>5
        DEF OperationsStep, BackupMissing, KeepWaiting, TellProgress, UploadFails, PatchFails,
            requestVars
      <3>2. restores'[r].phase \in {"WaitingForPluginOperationsPartiallyFailed"} \cup Bad
        <4>1. CASE UNCHANGED restores
          BY <2>2, <4>1 DEF Ph
        <4>2. ASSUME NEW phase \in Phases, phase \in Bad, PatchPhase("operations", r, phase)
              PROVE  restores'[r].phase \in Bad
          BY <1>0, <1>5, <4>2, PatchedPhase
        <4>3. "FinalizingPartiallyFailed" \in Phases \cap Bad
          BY PhaseNames DEF Bad
        <4>4. ASSUME NEW new \in Polled(r, Known(r).list)
              PROVE  NextPhase(seen[r].phase, PolledEntry(r, new)) \in Phases \cap Bad
          BY <2>1, <2>2, ErrsTold, PhasesFor DEF NextPhase
        <4> QED
          BY <3>1, <4>1, <4>2, <4>3, <4>4
      <3> QED
        BY <3>2 DEF Bad, TruthInv, Ph
    <2>3. CASE Ph(r) = "WaitingForPluginOperations" /\ ~Clean(r)'
      <3>1. restores'[r].phase \notin {"Absent", "New", "InProgress"}
        <4>1. \/ UNCHANGED restores
              \/ \E phase \in WaitingPhases \cup FinalizingPhases :
                    phase \in Phases /\ PatchPhase("operations", r, phase)
          BY <1>5, PhasesFor, PhaseNames
          DEF OperationsStep, BackupMissing, KeepWaiting, TellProgress, UploadFails,
              PatchFails, NextPhase, requestVars
        <4> QED
          BY <1>0, <1>5, <2>3, <4>1, PatchedPhase, PhaseNames DEF Ph
      <3> QED
        BY <2>3, <3>1 DEF TruthInv, Ph
    <2>4. CASE Ph(r) = "WaitingForPluginOperations" /\ Clean(r)'
      <3>1. Clean(r)
        BY <1>2, <2>4 DEF Clean
      <3>2. /\ Known(r).list \in [Items -> OpPhases] /\ Known(r).errs \in BOOLEAN
            /\ Truthful(r, Known(r).list, Known(r).errs)
            /\ Truthful(r, lists[r], FALSE)
        BY <1>0, <2>4, <3>1 DEF TruthInv, Known, Entry
      <3>3. ASSUME NEW list, NEW errs, Truthful(r, list, errs)
            PROVE  Truthful(r, list, errs)'
        BY <1>1, <3>3 DEF Truthful
      <3>4. CASE BackupMissing(r)
        <4>1. restores'[r].phase = "FinalizingPartiallyFailed"
          BY <1>0, <1>5, <3>4, PatchedPhase, PhaseNames DEF BackupMissing
        <4> QED
          BY <4>1 DEF TruthInv, Ph
      <3>5. ASSUME NEW new \in Polled(r, Known(r).list)
            PROVE  /\ new \in [Items -> OpPhases]
                   /\ PolledEntry(r, new).list = new
                   /\ PolledEntry(r, new).errs \in BOOLEAN
                   /\ Truthful(r, new, PolledEntry(r, new).errs)
                   /\ ~StillInProgress(new) /\ ~PolledEntry(r, new).errs => Fine(r)
        <4> PICK now \in BOOLEAN : now = (Known(r).errs \/ NewFailure(Known(r).list, new))
          OBVIOUS
        <4>1. PolledEntry(r, new) = [list |-> new, errs |-> now]
          BY DEF PolledEntry, Entry
        <4>2. new \in [Items -> OpPhases]
          BY <3>2 DEF Polled
        <4>3. Truthful(r, new, now) /\ (~StillInProgress(new) /\ ~now => Fine(r))
          BY <3>2, PolledTruth
        <4> QED
          BY <4>1, <4>2, <4>3
      <3>6. ASSUME NEW list, NEW errs, opsMap'[r] = Entry(list, errs), Truthful(r, list, errs),
                   UNCHANGED restores, lists'[r] = lists[r] \/ Truthful(r, lists'[r], FALSE)
            PROVE  TruthInv(r)'
        <4>1. Truthful(r, lists[r], FALSE)'
          BY <1>1, <3>2, <3>6 DEF Truthful
        <4>2. Truthful(r, opsMap[r].list, opsMap[r].errs)'
          BY <1>1, <3>6 DEF Truthful, Entry
        <4> QED
          BY <2>4, <3>6, <4>1, <4>2 DEF TruthInv, Ph
      <3>7. CASE KeepWaiting(r)
        <4> PICK new \in Polled(r, Known(r).list) :
               opsMap' = [opsMap EXCEPT ![r] = PolledEntry(r, new)]
          BY <3>7 DEF KeepWaiting
        <4>1. opsMap'[r] = Entry(new, PolledEntry(r, new).errs)
          BY <1>0, <3>5 DEF PolledEntry, Entry
        <4> QED
          BY <3>5, <3>6, <3>7, <4>1 DEF KeepWaiting, requestVars
      <3>8. CASE TellProgress(r)
        <4> PICK new \in Polled(r, Known(r).list) :
               /\ PolledEntry(r, new).errs \/ ~StillInProgress(new)
               /\ PatchPhase("operations", r, NextPhase(seen[r].phase, PolledEntry(r, new)))
          BY <3>8 DEF TellProgress
        <4>1. NextPhase(seen[r].phase, PolledEntry(r, new)) \in Phases
          BY PhasesFor DEF NextPhase
        <4>2. restores'[r].phase = NextPhase(seen[r].phase, PolledEntry(r, new))
          BY <1>0, <1>5, <4>1, PatchedPhase
        <4>3. CASE PolledEntry(r, new).errs
          <5>1. NextPhase(seen[r].phase, PolledEntry(r, new)) \in Bad
            BY <4>3 DEF NextPhase, PhaseFor, Bad
          <5> QED
            BY <4>2, <5>1 DEF Bad, TruthInv, Ph
        <4>4. CASE ~PolledEntry(r, new).errs /\ ~StillInProgress(new)
          <5>1. Fine(r)'
            BY <1>1, <3>5, <4>4 DEF Fine
          <5>2. NextPhase(seen[r].phase, PolledEntry(r, new)) \in FinalizingPhases
            BY <3>5, <4>4, PhaseNames DEF NextPhase, PhaseFor
          <5> QED
            BY <4>2, <5>1, <5>2, PhaseNames DEF TruthInv, Ph
        <4> QED
          BY <4>3, <4>4
      <3>9. CASE UploadFails(r)
        <4> PICK new \in Polled(r, Known(r).list) :
               \/ opsMap' = [opsMap EXCEPT ![r] = PolledEntry(r, new)]
               \/ opsMap' = [opsMap EXCEPT ![r] = Known(r)]
          BY <3>9 DEF UploadFails
        <4>1. \/ opsMap'[r] = Entry(new, PolledEntry(r, new).errs)
              \/ opsMap'[r] = Known(r)
          BY <1>0, <3>5 DEF PolledEntry, Entry
        <4>2. Known(r) = Entry(Known(r).list, Known(r).errs)
          BY <1>0 DEF Known, Entry
        <4> QED
          BY <3>2, <3>5, <3>6, <3>9, <4>1, <4>2 DEF UploadFails
      <3>10. CASE PatchFails(r)
        <4> PICK new \in Polled(r, Known(r).list) :
               /\ lists' = [lists EXCEPT ![r] = IF new = NoOperations THEN @ ELSE new]
               /\ opsMap' = [opsMap EXCEPT ![r] = Entry(new, FALSE)]
               /\ IF PolledEntry(r, new).errs THEN Loses(r, "failure") ELSE UNCHANGED lost
          BY <3>10 DEF PatchFails
        <4>1. ~PolledEntry(r, new).errs
          BY <1>0, <2>4 DEF Loses, Clean
        <4>2. Truthful(r, new, FALSE)
          BY <3>5, <4>1 DEF Truthful
        <4>3. opsMap'[r] = Entry(new, FALSE) /\ lists'[r] \in {lists[r], new}
          BY <1>0
        <4> QED
          BY <3>6, <3>10, <4>2, <4>3 DEF PatchFails
      <3> QED
        BY <1>5, <3>4, <3>7, <3>8, <3>9, <3>10 DEF OperationsStep
    <2> QED
      BY <2>1, <2>2, <2>3, <2>4, PhaseNames
  <1> QED
    BY <1>3, <1>4, <1>5

LEMMA NextTruth ==
  ASSUME SeesOwnWrites, Formed, Phased, Errs, [Next]_vars, NEW r \in Restores, TruthInv(r)
  PROVE  TruthInv(r)'
  <1>0. /\ RequestsTypeOK
        /\ \A q \in Restores : restores[q] \in Object
        /\ restores \in [Restores -> Object]
        /\ lists \in [Restores -> [Items -> OpPhases]]
        /\ progress \in [Restores -> [Items -> {"none", "running", "succeeded", "failed"}]]
        /\ lost \in [Restores -> SUBSET Losses]
        /\ opsMap \in [Restores -> [list : [Items -> OpPhases], errs : BOOLEAN]]
        /\ run \in RunType
        /\ run.at # "idle" => run.r \in Restores
        /\ fin.at # "idle" => fin.r \in Restores
        /\ "restore" \in Controllers /\ "finalizer" \in Controllers
    BY DEF Formed, TypeOK, RequestsTypeOK, ReconcilerTypeOK, OperationsTypeOK,
           ItemsTypeOK, RunType, Controllers
  <1>1. ASSUME restores'[r].phase \in {Ph(r)} \cup Silent,
               lost[r] \subseteq lost'[r], UNCHANGED <<lists, opsMap, progress, run>>
        PROVE  TruthInv(r)'
    BY <1>1, TruthKept
  <1>2. ASSUME UNCHANGED <<restores, lost, lists, opsMap, progress, run>>
        PROVE  TruthInv(r)'
    BY <1>1, <1>2 DEF Ph
  <1>3. CASE UNCHANGED vars
    BY <1>2, <1>3 DEF vars, requestVars, itemVars, reconcilerVars
  <1>4. ASSUME NEW s \in Restores, EnvironmentStep(Deliver(s))
        PROVE  TruthInv(r)'
    BY <1>2, <1>4 DEF EnvironmentStep, Deliver, itemVars, reconcilerVars
  <1>5. ASSUME NEW s \in Restores, EnvironmentStep(Create(s))
        PROVE  TruthInv(r)'
    <2>1. UNCHANGED <<lost, lists, opsMap, progress, run>>
      BY <1>5 DEF EnvironmentStep, Create, itemVars, reconcilerVars
    <2>2. CASE r # s
      BY <1>0, <1>1, <1>5, <2>1, <2>2 DEF EnvironmentStep, Create, Ph
    <2>3. CASE r = s
      <3>1. Ph(r) = "Absent" /\ restores'[r].phase = "New"
        BY <1>0, <1>5, <2>3 DEF EnvironmentStep, Create, Ph, Object
      <3> QED
        BY <2>1, <3>1 DEF TruthInv, Ph
    <2> QED
      BY <2>2, <2>3
  <1>6. ASSUME NEW s \in Restores, EnvironmentStep(Delete(s))
        PROVE  TruthInv(r)'
    <2>1. [restores[s] EXCEPT !.deleting = TRUE].phase = Ph(s)
      BY <1>0 DEF Object, Ph
    <2>2. restores'[r].phase \in {Ph(r), "Gone"}
      BY <1>0, <1>6, <2>1 DEF EnvironmentStep, Delete, Gone, Ph
    <2> QED
      BY <1>1, <1>6, <2>2 DEF EnvironmentStep, Delete, itemVars, reconcilerVars, Silent
  <1>7. ASSUME NEW s \in Restores, NEW i \in Items, EnvironmentStep(OperationEnds(s, i))
        PROVE  TruthInv(r)'
    <2>1. /\ UNCHANGED <<restores, lists, lost, opsMap, run>>
          /\ progress[s][i] = "running"
      BY <1>7 DEF EnvironmentStep, OperationEnds, itemVars, reconcilerVars
    <2>2. \A j \in Items : /\ progress[r][j] # "running" => progress'[r][j] = progress[r][j]
      BY <1>0, <1>7 DEF EnvironmentStep, OperationEnds
    <2>3. Fine(r) => Fine(r)'
      BY <2>2 DEF Fine
    <2>4. \A list, errs : Truthful(r, list, errs) => Truthful(r, list, errs)'
      BY <2>2 DEF Truthful
    <2>5. /\ Truthful(r, lists[r], FALSE) => Truthful(r, lists[r], FALSE)'
          /\ Truthful(r, opsMap[r].list, opsMap[r].errs)
                => Truthful(r, opsMap[r].list, opsMap[r].errs)'
      BY <2>1, <2>2 DEF Truthful
    <2>6. \A j \in Items : progress[r][j] = "none" => progress'[r][j] = "none"
      BY <2>2
    <2>7. Ph(r)' = Ph(r) /\ (Clean(r)' <=> Clean(r))
      BY <2>1 DEF Ph, Clean
    <2> QED
      BY <2>1, <2>3, <2>5, <2>6, <2>7 DEF TruthInv
  <1>8. CASE EnvironmentStep(BackupGoes)
    BY <1>2, <1>8 DEF EnvironmentStep, BackupGoes, itemVars, reconcilerVars
  <1>9. ASSUME NEW s \in Restores, OperationsStep(s) /\ UNCHANGED fin
        PROVE  TruthInv(r)'
    BY <1>9, OperationsTruth
  <1>10. ASSUME NEW p \in Pods,
               \/ HooksStep(MayStart(p) /\ ContainerUp(p) /\ UNCHANGED mishaps)
               \/ HooksStep(HandlerStep(p) /\ UNCHANGED mishaps)
               \/ HooksStep(PodEnds(p) /\ Mishap)
         PROVE  TruthInv(r)'
    BY <1>2, <1>10 DEF HooksStep, itemVars, reconcilerVars
  <1>11. ASSUME NEW p \in Pods, ItemsStep(VolumeEnds(p))
         PROVE  TruthInv(r)'
    <2>1. run'.at = run.at /\ run'.r = run.r /\ run'.phase = run.phase /\ run'.list = run.list
      BY <1>0, <1>11 DEF ItemsStep, VolumeEnds, RunType
    <2>2. UNCHANGED <<restores, lost, lists, opsMap, progress>>
      BY <1>11 DEF ItemsStep, VolumeEnds, requestVars, reconcilerVars
    <2> QED
      BY <2>1, <2>2, TruthKept DEF Ph
  <1>12. CASE ItemsStep(ItemStep)
    <2>1. /\ run.at = "items" /\ run'.at = "items" /\ run'.r = run.r /\ run.r \in Restores
          /\ RunActions \/ run'.list = run.list
      BY <1>12, ItemsRun, ItemsPhase DEF ItemsStep
    <2>2. UNCHANGED <<restores, lost, lists, opsMap>>
      BY <1>12
      DEF ItemsStep, ItemStep, NextItem, RememberVolume, RunActions, NextExtra,
          DoNotCreate, CreateItem, requestVars, reconcilerVars
    <2>3. RunActions \/ UNCHANGED progress
      BY <1>12
      DEF ItemsStep, ItemStep, NextItem, RememberVolume, NextExtra, DoNotCreate,
          CreateItem, requestVars
    <2>4. CASE run'.list = run.list /\ UNCHANGED progress
      <3> QED
        BY <2>1, <2>2, <2>4 DEF TruthInv, Ph, Clean, Fine, Truthful
    <2>5. CASE RunActions
      <3>1. Top.item \in Items
        <4>1. Top \in Frames
          BY <1>0, <2>5, Popped DEF RunActions, Running, Top, RunType
        <4> QED
          BY <4>1 DEF Frames
      <3> PICK begins \in BOOLEAN :
             /\ run'.list = [run.list EXCEPT ![Top.item] = IF begins THEN "InProgress" ELSE @]
             /\ progress' = IF begins THEN [progress EXCEPT ![run.r][Top.item] = "running"]
                            ELSE progress
        BY <1>0, <2>5 DEF RunActions, Return, RunType
      <3>2. CASE ~begins
        <4>1. run'.list = run.list /\ UNCHANGED progress
          BY <1>0, <3>2 DEF RunType
        <4> QED
          BY <2>4, <4>1
      <3>3. CASE begins /\ r # run.r
        <4>1. progress'[r] = progress[r]
          BY <1>0, <3>3
        <4> QED
          BY <2>1, <2>2, <3>3, <4>1, TruthKept DEF Ph
      <3>4. CASE begins /\ r = run.r
        <4>1. Ph(r) \in {"InProgress", "Gone"}
          BY <2>1, <3>4 DEF Phased, HeldInv
        <4>2. \A j \in Items : \/ run'.list[j] = "InProgress"
                               \/ /\ run'.list[j] = run.list[j]
                                  /\ progress'[r][j] = progress[r][j]
          BY <1>0, <2>1, <3>1, <3>4 DEF RunType
        <4> QED
          BY <2>1, <2>2, <4>1, <4>2 DEF TruthInv, Ph
      <3> QED
        BY <3>2, <3>3, <3>4
    <2> QED
      BY <2>1, <2>3, <2>4, <2>5
  <1>13. ASSUME NEW s \in Restores, Refuse(s), UNCHANGED opsMap
         PROVE  TruthInv(r)'
    <2>1. restores'[r].phase \in {Ph(r), "FailedValidation"}
      BY <1>0, <1>13 DEF Refuse, Ph
    <2> QED
      BY <1>1, <1>13, <2>1 DEF Refuse, itemVars, reconcilerVars, Silent
  <1>14. ASSUME NEW s \in Restores, Start(s), UNCHANGED opsMap
         PROVE  TruthInv(r)'
    <2>1. Ph(s) = "New"
      BY <1>14 DEF Start, Reads, Phased, SeenInv, Exists, Ph
    <2>2. /\ run'.at = "items" /\ run'.r = s /\ run'.list = NoOperations
          /\ UNCHANGED <<lists, opsMap, progress, lost>>
      BY <1>14 DEF Start, RunOf, reconcilerVars
    <2>3. CASE r # s
      <3>1. restores'[r].phase = Ph(r)
        BY <1>0, <1>14, <2>3 DEF Start, Ph
      <3> QED
        BY <2>2, <2>3, <3>1, TruthKept
    <2>4. CASE r = s
      <3>1. restores'[r].phase = "InProgress"
        BY <1>0, <1>14, <2>4 DEF Start
      <3> QED
        BY <2>1, <2>2, <2>4, <3>1 DEF TruthInv, Ph, NoOperations
    <2> QED
      BY <2>3, <2>4
  <1>15. ASSUME NEW s \in Restores, DeleteExternalResources(s), UNCHANGED opsMap
         PROVE  TruthInv(r)'
    <2>1. run.at = "idle" /\ UNCHANGED <<progress, run>>
      BY <1>15 DEF DeleteExternalResources, WorkerFree, itemVars
    <2>2. restores'[r].phase \in {Ph(r), "Gone"} /\ (r # s => lists'[r] = lists[r])
      <3>1. restores'[r].phase \in {Ph(r), "Gone"}
        <4>1. restores' = [restores EXCEPT ![s] = Gone] \/ UNCHANGED restores
          BY <1>15 DEF DeleteExternalResources
        <4> QED
          <5>1. restores'[r] \in {restores[r], Gone}
            BY <1>0, <4>1
          <5> QED
            BY <5>1 DEF Gone, Ph
      <3>2. r # s => lists'[r] = lists[r]
        BY <1>0, <1>15 DEF DeleteExternalResources
      <3> QED
        BY <3>1, <3>2
    <2>3. \/ restores' = [restores EXCEPT ![s] = Gone] /\ UNCHANGED lost
          \/ Loses(s, "list") /\ UNCHANGED restores
      BY <1>15 DEF DeleteExternalResources
    <2>4. lost[r] \subseteq lost'[r]
      BY <1>0, <2>3 DEF Loses
    <2>5. CASE r # s
      BY <1>15, <2>1, <2>2, <2>4, <2>5, TruthKept DEF Silent
    <2>6. CASE r = s /\ restores' = [restores EXCEPT ![s] = Gone]
      <3>1. restores'[r].phase = "Gone"
        BY <1>0, <2>6 DEF Gone
      <3> QED
        BY <3>1 DEF TruthInv, Ph
    <2>7. CASE r = s /\ Loses(s, "list") /\ UNCHANGED restores
      <3>1. ~Clean(r)'
        BY <1>0, <2>7 DEF Loses, Clean
      <3>2. lists'[r] \in {lists[r], NoOperations}
        BY <1>0, <1>15, <2>7 DEF DeleteExternalResources
      <3> QED
        BY <1>15, <2>1, <2>7, <3>1, <3>2 DEF TruthInv, Ph
    <2> QED
      BY <2>3, <2>5, <2>6, <2>7
  <1>16. ASSUME RunFails, UNCHANGED opsMap
         PROVE  TruthInv(r)'
    <2>1. /\ run'.at = "patch" /\ run'.phase = "Failed" /\ run'.r = run.r
          /\ UNCHANGED <<restores, lists, progress, lost>>
      BY <1>0, <1>16 DEF RunFails, RunType
    <2> QED
      BY <1>16, <2>1 DEF TruthInv, Ph, Clean, Fine, Truthful
  <1>17. ASSUME NEW stored \in BOOLEAN, FinishRun(stored), UNCHANGED opsMap
         PROVE  TruthInv(r)'
    <2> PICK new \in Polled(run.r, run.list), log \in BOOLEAN :
           /\ lists' = [lists EXCEPT ![run.r] = IF stored THEN new ELSE @]
           /\ IF stored \/ new = NoOperations THEN UNCHANGED lost
              ELSE Loses(run.r, "list")
           /\ run' = [run EXCEPT !.at = "patch", !.list = new,
                          !.phase = PhaseFor(run.errs \/ NewFailure(run.list, new) \/ ~log,
                                             StillInProgress(new))]
      BY <1>17 DEF FinishRun
    <2> PICK failed \in BOOLEAN : failed = (run.errs \/ NewFailure(run.list, new) \/ ~log)
      OBVIOUS
    <2>1. run' = [run EXCEPT !.at = "patch", !.list = new,
                          !.phase = PhaseFor(failed, StillInProgress(new))]
      OBVIOUS
    <2>2. /\ run.at = "items" /\ run.r \in Restores /\ UNCHANGED <<restores, progress>>
          /\ run'.at = "patch" /\ run'.phase = PhaseFor(failed, StillInProgress(new))
          /\ run'.r = run.r
      BY <1>0, <1>17, <2>1 DEF FinishRun, ItemsDone, RunType
    <2>3. lost[r] \subseteq lost'[r]
      BY <1>0 DEF Loses
    <2>4. CASE r # run.r
      BY <1>0, <1>17, <2>2, <2>3, <2>4, TruthKept DEF Ph
    <2>5. CASE r = run.r /\ Ph(r) # "InProgress"
      <3>1. Ph(r) = "Gone"
        BY <2>2, <2>5 DEF Phased, HeldInv
      <3> QED
        BY <2>2, <3>1 DEF TruthInv, Ph
    <2>6. CASE r = run.r /\ Ph(r) = "InProgress"
      <3>1. /\ lists[r] = NoOperations /\ opsMap[r] = NoEntry
            /\ run.list \in [Items -> OpPhases]
            /\ Truthful(r, run.list, FALSE)
        BY <1>0, <2>2, <2>6 DEF TruthInv, Truthful, RunType
      <3> PICK now \in BOOLEAN : now = (FALSE \/ NewFailure(run.list, new))
        OBVIOUS
      <3>2. Truthful(r, new, now) /\ (~StillInProgress(new) /\ ~now => Fine(r))
        BY <2>6, <3>1, PolledTruth
      <3>3. ~failed => ~now
        OBVIOUS
      <3>4. failed => run'.phase \notin {"WaitingForPluginOperations", "Finalizing"}
        BY <2>2 DEF PhaseFor
      <3>5. ASSUME ~failed, Clean(r)'
            PROVE  Truthful(r, lists[r], FALSE)' /\ (run'.phase = "Finalizing" => Fine(r)')
        <4>1. lists'[r] = new
          <5>1. stored \/ new = NoOperations
            BY <1>0, <2>6, <3>5 DEF Loses, Clean
          <5> QED
            BY <1>0, <2>6, <3>1, <5>1
        <4>2. Truthful(r, new, FALSE)'
          BY <2>2, <3>2, <3>3, <3>5 DEF Truthful
        <4>3. run'.phase = "Finalizing" => ~StillInProgress(new)
          BY <2>2 DEF PhaseFor
        <4>4. Fine(r) => Fine(r)'
          BY <2>2 DEF Fine
        <4> QED
          BY <3>2, <3>3, <3>5, <4>1, <4>2, <4>3, <4>4
      <3>6. Ph(r)' = "InProgress" /\ opsMap'[r] = NoEntry
        BY <1>17, <2>2, <2>6, <3>1 DEF Ph
      <3> QED
        BY <2>2, <3>4, <3>5, <3>6 DEF TruthInv
    <2> QED
      BY <2>4, <2>5, <2>6
  <1>18. ASSUME EndRun, UNCHANGED opsMap
         PROVE  TruthInv(r)'
    <2>1. /\ run.at = "patch" /\ run.r \in Restores /\ run.phase \in Phases
          /\ run'.at = "idle" /\ UNCHANGED <<lists, progress>>
      BY <1>0, <1>18 DEF EndRun, NotRunning, RunOf, RunType
    <2> PICK s \in Restores : s = run.r
      BY <2>1
    <2>2. CASE UNCHANGED restores /\ Loses(s, "phase")
      <3>1. lost[r] \subseteq lost'[r]
        BY <1>0, <2>2 DEF Loses
      <3> QED
        BY <1>18, <2>1, <2>2, <3>1, TruthKept DEF Ph
    <2>3. CASE PatchPhase("restore", s, run.phase) /\ UNCHANGED lost
      <3>1. CASE r # s \/ ~Exists(r)
        <4>1. restores'[r].phase = Ph(r)
          BY <1>0, <2>1, <2>3, <3>1, PatchedPhase DEF Ph
        <4> QED
          BY <1>18, <2>1, <2>3, <4>1, TruthKept
      <3>2. CASE r = s /\ Exists(r)
        <4>1. Ph(r) = "InProgress" /\ restores'[r].phase = run.phase
          BY <1>0, <2>1, <2>3, <3>2, PatchedPhase DEF Phased, HeldInv, Exists, Ph
        <4>2. opsMap'[r].list = NoOperations /\ opsMap'[r] = NoEntry
          BY <1>18, <4>1 DEF TruthInv, NoEntry, Entry
        <4>3. run.phase \in Bad \cup {"WaitingForPluginOperations", "Finalizing"}
          BY <2>1 DEF Errs
        <4>4. Clean(r)' => Clean(r)
          BY <2>3 DEF Clean
        <4>5. /\ Truthful(r, lists[r], FALSE) => Truthful(r, lists[r], FALSE)'
              /\ Fine(r) => Fine(r)'
          BY <2>1 DEF Truthful, Fine
        <4> QED
          BY <2>1, <3>2, <4>1, <4>2, <4>3, <4>4, <4>5 DEF TruthInv, Ph, Bad
      <3> QED
        BY <3>1, <3>2
    <2> QED
      BY <1>18, <2>2, <2>3 DEF EndRun
  <1>19. ASSUME NEW s \in Restores, TakeFinalizing(s)
         PROVE  TruthInv(r)'
    BY <1>2, <1>19 DEF TakeFinalizing, requestVars, itemVars, reconcilerVars
  <1>20. CASE HooksDone \/ HooksTimeOut \/ UpdateResults
    <2>1. UNCHANGED <<restores, lists, opsMap, progress, run>>
      BY <1>20 DEF HooksDone, HooksTimeOut, UpdateResults, requestVars, itemVars,
                   reconcilerVars
    <2>2. UNCHANGED lost \/ Loses(fin.r, "hooks")
      BY <1>20 DEF HooksDone, HooksTimeOut, UpdateResults, reconcilerVars
    <2>3. lost[r] \subseteq lost'[r]
      BY <1>0, <2>2 DEF Loses
    <2> QED
      BY <1>1, <2>1, <2>3 DEF Ph
  <1>21. CASE FinishProcessing
    <2>1. /\ fin.r \in Restores /\ UNCHANGED <<lists, opsMap, progress, run>>
          /\ Ph(fin.r) \in {"Finalizing", "FinalizingPartiallyFailed", "Gone"}
          /\ Ph(fin.r) = "FinalizingPartiallyFailed" => fin.failed
      BY <1>0, <1>21 DEF FinishProcessing, itemVars, Phased, HeldInv
    <2> PICK s \in Restores : s = fin.r
      BY <2>1
    <2>2. CASE UNCHANGED restores /\ Loses(s, "hooks")
      <3>1. lost[r] \subseteq lost'[r]
        BY <1>0, <2>2 DEF Loses
      <3> QED
        BY <1>1, <2>1, <2>2, <3>1 DEF Ph
    <2>3. CASE /\ PatchPhase("finalizer", s, IF fin.failed THEN "PartiallyFailed" ELSE "Completed")
               /\ UNCHANGED lost
      <3> PICK phase \in Phases : phase = IF fin.failed THEN "PartiallyFailed" ELSE "Completed"
        BY PhaseNames
      <3>1. PatchPhase("finalizer", s, phase)
        BY <2>3
      <3>2. CASE r # s \/ ~Exists(r) \/ fin.failed
        <4>1. restores'[r].phase \in {Ph(r)} \cup Silent
          BY <1>0, <3>1, <3>2, PatchedPhase DEF Ph, Silent
        <4> QED
          BY <1>1, <2>1, <2>3, <4>1
      <3>3. CASE r = s /\ Exists(r) /\ ~fin.failed
        <4>1. Ph(r) = "Finalizing" /\ restores'[r].phase = "Completed"
          BY <1>0, <2>1, <3>1, <3>3, PatchedPhase DEF Exists, Ph
        <4>2. Clean(r)' => Fine(r)'
          BY <2>1, <2>3, <4>1 DEF TruthInv, Clean, Fine
        <4> QED
          BY <4>1, <4>2 DEF TruthInv, Ph
      <3> QED
        BY <3>2, <3>3
    <2> QED
      BY <1>21, <2>2, <2>3 DEF FinishProcessing
  <1>22. CASE Restart
    <2>1. /\ run'.at = "idle" /\ opsMap'[r] = NoEntry /\ UNCHANGED <<lists, progress>>
          /\ lost[r] \subseteq lost'[r]
      BY <1>0, <1>22 DEF Restart, NotRunning, RunOf
    <2>2. restores'[r].phase \in {Ph(r), "Failed"}
      BY <1>0, <1>22 DEF Restart, Object, Ph
    <2>3. CASE restores'[r].phase = "Failed"
      BY <2>3 DEF TruthInv, Ph
    <2>4. CASE restores'[r].phase = Ph(r)
      <3>1. (Clean(r)' => Clean(r)) /\ Ph(r)' = Ph(r) /\ (Fine(r) => Fine(r)')
            /\ (Truthful(r, lists[r], FALSE) => Truthful(r, lists[r], FALSE)')
        BY <2>1, <2>4 DEF Clean, Ph, Fine, Truthful
      <3>2. opsMap'[r].list = NoOperations
        BY <2>1 DEF NoEntry, Entry
      <3> QED
        BY <2>1, <3>1, <3>2 DEF TruthInv
    <2> QED
      BY <2>2, <2>3, <2>4
  <1>23. ASSUME NEW s \in Restores, EnvironmentStep(\E i \in Items : OperationEnds(s, i))
         PROVE  TruthInv(r)'
    BY <1>7, <1>23 DEF EnvironmentStep
  <1> QED
    BY <1>3, <1>4, <1>5, <1>6, <1>8, <1>9, <1>10, <1>11, <1>12, <1>13, <1>14, <1>15,
       <1>16, <1>17, <1>18, <1>19, <1>20, <1>21, <1>22, <1>23
    DEF Next, RestoreStep, ReconcilerStep, FinalizerStep

-----------------------------------------------------------------------------
(***************************************************************************)
(* The hooks of what a restore created are in its tracker until the        *)
(* finalizer asks for them, or an error shows; and when it asked and met   *)
(* no failure, every one of them has run.                                  *)
(***************************************************************************)
Under(r) ==
    \/ Ph(r) \in WaitingPhases \cup FinalizingPhases
    \/ Ph(r) = "InProgress" /\ run.at # "idle" /\ run.r = r

Asked(r) == fin.r = r /\ fin.at \in {"results", "patch"}

Erring(r) == r \in hadErrs \/ (run.at = "items" /\ run.r = r /\ run.errs)

AllTracked(r) ==
    \A p \in Pods : cluster[p] = r =>
        \A n \in DOMAIN HooksOf[p] : tracker[r][<<p, n>>] # "untracked"

AllRan(r) ==
    \A p \in Pods : cluster[p] = r =>
        \A n \in DOMAIN HooksOf[p] : ran[<<p, n>>] = "ok"

HookInv(r) ==
    /\ Ph(r) \in {"Absent", "New"} => \A p \in Pods : cluster[p] # r
    /\ "hooks" \notin lost[r] /\ Under(r) /\ ~Asked(r) => Erring(r) \/ AllTracked(r)
    /\ "hooks" \notin lost[r]
       /\ (Ph(r) = "Completed" \/ (Ph(r) \in FinalizingPhases /\ Asked(r) /\ ~fin.failed)) =>
           tracker[r] = NotTracked /\ AllRan(r)

Ended == {"Gone", "FailedValidation", "Failed", "PartiallyFailed"}

LEMMA HooksKept ==
  ASSUME NEW r, HookInv(r), UNCHANGED <<cluster, tracker, ran>>,
         lost[r] \subseteq lost'[r],
         restores'[r].phase = Ph(r) \/ restores'[r].phase \in Ended,
         run'.at # "idle" /\ run'.r = r => run.at # "idle" /\ run.r = r,
         Under(r)' /\ Erring(r) => Erring(r)',
         UNCHANGED fin
  PROVE  HookInv(r)'
  <1>1. CASE restores'[r].phase \in Ended
    BY <1>1, PhaseNames DEF HookInv, Under, Ph, Ended
  <1>2. CASE restores'[r].phase = Ph(r)
    <2>1. (Under(r)' => Under(r)) /\ (Asked(r)' <=> Asked(r)) /\ Ph(r)' = Ph(r)
          /\ (AllTracked(r)' <=> AllTracked(r)) /\ (AllRan(r)' <=> AllRan(r))
      BY <1>2 DEF Under, Asked, AllTracked, AllRan, Ph
    <2> QED
      BY <2>1 DEF HookInv
  <1> QED
    BY <1>1, <1>2

\* A restore whose hooks were not asked for yet moves on.
LEMMA HooksMoved ==
  ASSUME NEW r, HookInv(r), UNCHANGED <<cluster, tracker, ran, fin>>,
         lost[r] \subseteq lost'[r],
         restores'[r].phase \in WaitingPhases \cup FinalizingPhases \cup Ended,
         Under(r), ~Asked(r), Erring(r) => Erring(r)'
  PROVE  HookInv(r)'
  <1>1. ~Asked(r)' /\ (AllTracked(r) <=> AllTracked(r)') /\ Ph(r)' \notin {"Absent", "New", "Completed"}
    BY PhaseNames DEF Asked, AllTracked, Ph, Ended
  <1> QED
    BY <1>1 DEF HookInv

LEMMA InitHooks ==
  ASSUME Init, NEW r \in Restores
  PROVE  HookInv(r)
  <1>1. Ph(r) = "Absent" /\ \A p \in Pods : cluster[p] # r
    BY HooksAssumption, RequestsAssumption, ItemsAssumption
    DEF Init, RequestsInit, ItemsInit, Ph
  <1> QED
    BY <1>1, PhaseNames DEF HookInv, Under

\* The goroutines of the pods.
LEMMA PodsHooks ==
  ASSUME Formed, NEW p \in Pods, HandlerStep(p) \/ ContainerUp(p) \/ PodEnds(p),
         UNCHANGED <<restores, lost, hadErrs, run, fin, cluster>>,
         NEW r \in Restores, HookInv(r)
  PROVE  HookInv(r)'
  <1>1. /\ tracker \in TrackerType
        /\ ran \in [Hooks -> {"no", "ok", "failed", "skipped"}]
        /\ \A q \in Pods : \A n \in DOMAIN HooksOf[q] : <<q, n>> \in Hooks
    BY HookNamed DEF Formed, TypeOK, HooksTypeOK, TrackerType
  <1>2. CASE UNCHANGED <<tracker, ran>>
    BY <1>2, HooksKept DEF Ph, Erring
  <1>3. ASSUME handler[p].state # "none", handler[p].r \in Restores,
               NEW hs \in SUBSET HooksIn(p), NEW how \in {"ok", "failed"},
               tracker' = Recorded(handler[p].r, hs, how),
               \A h \in hs : tracker[handler[p].r][h] = "added",
               \A h \in Hooks : h \notin hs => ran'[h] = ran[h]
        PROVE  HookInv(r)'
    <2>1. cluster[p] = handler[p].r
      BY <1>3 DEF Formed, GoroutineInv
    <2>2. \A q \in Restores : \A h \in Hooks : tracker[q][h] # "untracked" => tracker'[q][h] # "untracked"
      BY <1>1, <1>3, RecordedHooks
    <2>3. AllTracked(r) => AllTracked(r)'
      BY <1>1, <2>2 DEF AllTracked
    <2>4. CASE r # handler[p].r
      <3>1. tracker'[r] = tracker[r]
        BY <1>1, <1>3, <2>4, RecordedHooks
      <3>2. \A q \in Pods : cluster[q] = r =>
               \A n \in DOMAIN HooksOf[q] : <<q, n>> \notin hs
        BY <1>3, <2>1, <2>4 DEF HooksIn
      <3>3. AllRan(r) => AllRan(r)'
        BY <1>1, <1>3, <3>2 DEF AllRan
      <3> QED
        BY <2>3, <3>1, <3>3 DEF HookInv, Under, Asked, Erring, Ph
    <2>5. CASE r = handler[p].r /\ hs # {}
      <3>1. tracker[r] # NotTracked
        <4> PICK h \in hs : TRUE
          BY <2>5
        <4>1. h \in Hooks
          BY <1>3 DEF Hooks
        <4> QED
          BY <1>3, <2>5, <4>1 DEF NotTracked
      <3> QED
        BY <2>3, <3>1 DEF HookInv, Under, Asked, Erring, Ph
    <2>6. CASE r = handler[p].r /\ hs = {}
      <3>1. \A h \in Hooks : tracker'[r][h] = tracker[r][h] /\ ran'[h] = ran[h]
        BY <1>1, <1>3, <2>6, RecordedHooks
      <3>2. tracker[r] = NotTracked => tracker'[r] = NotTracked
        <4>1. Recorded(handler[p].r, hs, how) \in TrackerType
          BY <1>1, <1>3, RecordedHooks
        <4> QED
          BY <1>3, <3>1, <4>1 DEF NotTracked, TrackerType
      <3>3. AllRan(r) => AllRan(r)'
        BY <1>1, <3>1 DEF AllRan
      <3> QED
        BY <2>3, <3>2, <3>3 DEF HookInv, Under, Asked, Erring, Ph
    <2> QED
      BY <2>4, <2>5, <2>6
  <1>4. CASE ContainerUp(p) \/ StopWaiting(p) \/ PodEnds(p)
    BY <1>2, <1>4 DEF ContainerUp, StopWaiting, PodEnds
  <1>5. ASSUME handler[p].state # "none"
        PROVE  /\ handler[p].r \in Restores
               /\ handler[p].state \in {"waiting", "running"} =>
                      handler[p].next \in DOMAIN HooksOf[p]
               /\ \A n \in DOMAIN HooksOf[p] :
                      n >= handler[p].next => tracker[handler[p].r][<<p, n>>] = "added"
    BY <1>5 DEF Formed, GoroutineInv
  <1>6. CASE RunHook(p) \/ RunExpiredHook(p)
    <2>1. handler[p].state = "running" /\ handler[p].next \in DOMAIN HooksOf[p]
      BY <1>5, <1>6 DEF RunHook, RunExpiredHook
    <2>2. HookAt(p) \in HooksIn(p) /\ tracker[handler[p].r][HookAt(p)] = "added"
      <3>1. handler[p].next >= handler[p].next
        BY <2>1, HooksCounted
      <3> QED
        BY <1>5, <2>1, <3>1 DEF HookAt, HooksIn
    <2>3. \E how \in {"ok", "failed"} : tracker' = Recorded(handler[p].r, {HookAt(p)}, how)
      BY <1>6 DEF RunHook, RunExpiredHook
    <2>4. \A h \in Hooks : h \notin {HookAt(p)} => ran'[h] = ran[h]
      BY <1>1, <1>6 DEF RunHook, RunExpiredHook
    <2>5. {HookAt(p)} \in SUBSET HooksIn(p)
          /\ \A h \in {HookAt(p)} : tracker[handler[p].r][h] = "added"
      BY <2>2
    <2> QED
      BY <1>3, <1>5, <2>1, <2>3, <2>4, <2>5
  <1>7. CASE LeaveHooks(p)
    <2>1. /\ handler[p].state = "leaving"
          /\ tracker' = Recorded(handler[p].r, Unexecuted(p), "failed")
          /\ \A h \in Hooks : h \notin Unexecuted(p) => ran'[h] = ran[h]
      BY <1>7 DEF LeaveHooks
    <2>2. Unexecuted(p) \in SUBSET HooksIn(p)
      BY DEF Unexecuted
    <2>3. \A h \in Unexecuted(p) : tracker[handler[p].r][h] = "added"
      BY <1>5, <2>1 DEF Unexecuted, HooksIn
    <2> QED
      BY <1>3, <1>5, <2>1, <2>2, <2>3
  <1> QED
    BY <1>4, <1>6, <1>7 DEF HandlerStep

LEMMA ItemsErrs ==
  ASSUME Formed, ItemStep
  PROVE  run.errs => run'.errs
  <1>0. run \in RunType
    BY DEF Formed, TypeOK, ItemsTypeOK, RunType
  <1> SUFFICES ASSUME run.errs PROVE run'.errs
    OBVIOUS
  <1>1. ASSUME NEW rn, "errs" \in DOMAIN rn, rn.errs = TRUE, NEW i \in Items
        PROVE  Enter(rn, i).errs /\ [rn EXCEPT !.errs = TRUE].errs
    BY <1>1 DEF Enter
  <1>2. run.errs = TRUE
    BY <1>0 DEF RunType
  <1>3. ASSUME NEW i \in Items, NextItem(i)
        PROVE  run'.errs
    <2>rn. PICK rn : rn = [run EXCEPT !.todo = @ \ {i}]
      OBVIOUS
    <2>1. "errs" \in DOMAIN rn /\ rn.errs = TRUE
      BY <1>0, <1>2, <2>rn DEF RunType
    <2>2. run' = Enter(rn, i) \/ run' = [rn EXCEPT !.errs = TRUE]
      BY <1>3, <2>rn DEF NextItem
    <2>3. Enter(rn, i).errs /\ [rn EXCEPT !.errs = TRUE].errs
      BY <1>1, <2>1
    <2> QED
      BY <2>2, <2>3
  <1>4. CASE NextExtra
    <2>rn. PICK rn : rn = [run EXCEPT !.stack[1].extras = Tail(@)]
      OBVIOUS
    <2>1. "errs" \in DOMAIN rn /\ rn.errs = TRUE
      BY <1>0, <1>2, <2>rn DEF RunType
    <2>2. Head(Top.extras) \in Items
      <3>1. Top \in Frames /\ Top.extras # <<>>
        BY <1>0, <1>4, Popped DEF NextExtra, Running, Top, RunType
      <3> QED
        BY <3>1, Popped DEF Frames
    <2>i. PICK i \in Items : i = Head(Top.extras)
      BY <2>2
    <2>3. run' = Enter(rn, i) \/ run' = [rn EXCEPT !.errs = TRUE]
      BY <1>4, <2>rn, <2>i DEF NextExtra
    <2>4. Enter(rn, i).errs /\ [rn EXCEPT !.errs = TRUE].errs
      BY <1>1, <2>1
    <2> QED
      BY <2>3, <2>4
  <1>5. CASE RememberVolume \/ DoNotCreate
    BY <1>0, <1>2, <1>5 DEF RememberVolume, DoNotCreate, Return, RunType
  <1>6. ASSUME NEW errs \in BOOLEAN, NEW goesOn \in BOOLEAN, CreateItem(errs, goesOn)
        PROVE  run'.errs
    BY <1>0, <1>2, <1>6 DEF CreateItem, Return, RunType
  <1>7. CASE RunActions
    BY <1>0, <1>2, <1>7 DEF RunActions, Return, RunType
  <1> QED
    BY <1>3, <1>4, <1>5, <1>6, <1>7 DEF ItemStep

\* The restoring of the items: a pod that is created has its hooks tracked at
\* once, unless an error came first.
LEMMA ItemsHooks ==
  ASSUME Formed, Phased, ItemStep, UNCHANGED <<lost, hadErrs, fin>>,
         NEW r \in Restores, HookInv(r)
  PROVE  HookInv(r)'
  <1>0. /\ run \in RunType /\ run.at = "items" /\ run'.at = "items" /\ run'.r = run.r
        /\ run.r \in Restores /\ (run.errs => run'.errs)
        /\ tracker \in TrackerType
        /\ cluster \in [Items -> Restores \cup {NoRestore, "before"}]
        /\ \A q \in Pods : \A n \in DOMAIN HooksOf[q] : <<q, n>> \in Hooks
        /\ Ph(run.r) \in {"InProgress", "Gone"}
    BY ItemsRun, ItemsPhase, ItemsErrs, HookNamed
    DEF Formed, TypeOK, HooksTypeOK, ItemsTypeOK, RunType, TrackerType, Phased, HeldInv
  <1>1. UNCHANGED <<restores, ran>>
    BY DEF ItemStep, NextItem, RememberVolume, RunActions, NextExtra, DoNotCreate,
           CreateItem, requestVars, hookVars
  <1>2. Erring(r) => Erring(r)'
    BY <1>0 DEF Erring
  <1>3. CASE UNCHANGED <<tracker, cluster>>
    BY <1>0, <1>1, <1>2, <1>3, HooksKept DEF Ph
  <1>4. ASSUME NEW errs \in BOOLEAN, NEW goesOn \in BOOLEAN, CreateItem(errs, goesOn)
        PROVE  HookInv(r)'
    <2>1. Top.item \in Items
      <3>1. Top \in Frames
        BY <1>0, <1>4, Popped DEF CreateItem, Running, Top, RunType
      <3> QED
        BY <3>1 DEF Frames
    <2> PICK i \in Items : i = Top.item
      BY <2>1
    <2>2. /\ cluster[i] = NoRestore /\ cluster' = [cluster EXCEPT ![i] = run.r]
          /\ goesOn \/ errs
          /\ run' = Return("Created", errs)
      BY <1>4 DEF CreateItem
    <2>3. errs => run'.errs
      BY <1>0, <2>2 DEF Return, RunType
    <2>4. \/ UNCHANGED tracker
          \/ tracker' = [tracker EXCEPT ![run.r] = Added(run.r, HooksIn(i))]
      BY <1>4 DEF CreateItem, StartHooks
    <2>5. i \in Pods /\ goesOn => tracker' = [tracker EXCEPT ![run.r] = Added(run.r, HooksIn(i))]
      BY <1>4 DEF CreateItem, StartHooks
    <2>6. CASE r # run.r
      <3>1. tracker'[r] = tracker[r]
        BY <1>0, <2>4, <2>6 DEF TrackerType
      <3>2. \A q \in Pods : cluster'[q] = r <=> cluster[q] = r
        BY <1>0, <2>2, <2>6, RequestsAssumption
      <3>3. (AllTracked(r) => AllTracked(r)') /\ (AllRan(r) => AllRan(r)')
        BY <1>1, <3>1, <3>2 DEF AllTracked, AllRan
      <3>4. Ph(r)' = Ph(r) /\ (Under(r)' => Under(r)) /\ (Asked(r)' <=> Asked(r))
        BY <1>0, <1>1 DEF Ph, Under, Asked
      <3> QED
        BY <1>2, <3>1, <3>2, <3>3, <3>4 DEF HookInv
    <2>7. CASE r = run.r /\ Ph(r) = "Gone"
      BY <1>1, <2>7, PhaseNames DEF HookInv, Under, Ph
    <2>8. CASE r = run.r /\ Ph(r) = "InProgress"
      <3>1. Ph(r)' = "InProgress" /\ Under(r) /\ (Asked(r)' <=> Asked(r))
        BY <1>0, <1>1, <2>8 DEF Ph, Under, Asked
      <3>2. \A h \in Hooks : tracker[r][h] # "untracked" => tracker'[r][h] # "untracked"
        BY <1>0, <2>4, <2>8 DEF TrackerType, Added
      <3>3. ASSUME i \in Pods, goesOn, NEW n \in DOMAIN HooksOf[i]
            PROVE  tracker'[r][<<i, n>>] # "untracked"
        <4>1. <<i, n>> \in Hooks /\ <<i, n>> \in HooksIn(i)
          BY <1>0, <3>3 DEF HooksIn
        <4>2. tracker'[r] = Added(r, HooksIn(i))
          BY <1>0, <2>5, <2>8, <3>3 DEF TrackerType
        <4> QED
          BY <4>1, <4>2 DEF Added
      <3>4. ASSUME ~errs, AllTracked(r)
            PROVE  AllTracked(r)'
        <4> SUFFICES ASSUME NEW q \in Pods, cluster'[q] = r, NEW n \in DOMAIN HooksOf[q]
                     PROVE  tracker'[r][<<q, n>>] # "untracked"
          BY DEF AllTracked
        <4>1. CASE q = i
          BY <2>2, <3>3, <3>4, <4>1
        <4>2. CASE q # i
          <5>1. cluster[q] = r /\ <<q, n>> \in Hooks
            BY <1>0, <2>2, <4>2, HooksAssumption
          <5> QED
            BY <3>2, <3>4, <5>1 DEF AllTracked
        <4> QED
          BY <4>1, <4>2
      <3>5. errs => Erring(r)'
        BY <1>0, <2>3, <2>8 DEF Erring
      <3> QED
        BY <1>2, <3>1, <3>4, <3>5, PhaseNames DEF HookInv
    <2> QED
      BY <1>0, <2>6, <2>7, <2>8
  <1>5. CASE \/ \E i \in Items : NextItem(i)
             \/ RememberVolume \/ RunActions \/ NextExtra \/ DoNotCreate
    BY <1>3, <1>5
    DEF NextItem, RememberVolume, RunActions, NextExtra, DoNotCreate, hookVars
  <1> QED
    BY <1>4, <1>5 DEF ItemStep

LEMMA NextHooks ==
  ASSUME SeesOwnWrites, Formed, Phased, Errs, [Next]_vars, NEW r \in Restores, HookInv(r)
  PROVE  HookInv(r)'
  <1>0. /\ RequestsTypeOK
        /\ \A q \in Restores : restores[q] \in Object
        /\ restores \in [Restores -> Object]
        /\ lost \in [Restores -> SUBSET Losses]
        /\ tracker \in TrackerType
        /\ run \in RunType
        /\ run.at # "idle" => run.r \in Restores
        /\ fin.at # "idle" => fin.r \in Restores
        /\ "restore" \in Controllers /\ "finalizer" \in Controllers
        /\ "operations" \in Controllers
    BY DEF Formed, TypeOK, RequestsTypeOK, ReconcilerTypeOK, HooksTypeOK, TrackerType,
           ItemsTypeOK, RunType, Controllers
  <1>1. ASSUME UNCHANGED <<cluster, tracker, ran, run, hadErrs, fin>>,
               lost[r] \subseteq lost'[r],
               restores'[r].phase = Ph(r) \/ restores'[r].phase \in Ended
        PROVE  HookInv(r)'
    BY <1>1, HooksKept DEF Erring
  <1>2. ASSUME UNCHANGED <<restores, cluster, tracker, ran, run, hadErrs, fin, lost>>
        PROVE  HookInv(r)'
    BY <1>1, <1>2 DEF Ph
  <1>3. CASE UNCHANGED vars
    BY <1>2, <1>3 DEF vars, requestVars, hookVars, itemVars, reconcilerVars
  <1>4. ASSUME NEW s \in Restores,
               \/ EnvironmentStep(Deliver(s))
               \/ EnvironmentStep(\E i \in Items : OperationEnds(s, i))
        PROVE  HookInv(r)'
    BY <1>2, <1>4
    DEF EnvironmentStep, Deliver, OperationEnds, hookVars, itemVars, reconcilerVars
  <1>5. ASSUME NEW s \in Restores, EnvironmentStep(Create(s))
        PROVE  HookInv(r)'
    <2>1. UNCHANGED <<cluster, tracker, ran, run, hadErrs, fin, lost>>
      BY <1>5 DEF EnvironmentStep, Create, hookVars, itemVars, reconcilerVars
    <2>2. CASE r # s
      <3>1. restores'[r].phase = Ph(r)
        BY <1>0, <1>5, <2>2 DEF EnvironmentStep, Create, Ph
      <3> QED
        BY <1>1, <2>1, <3>1
    <2>3. CASE r = s
      <3>1. Ph(r) = "Absent" /\ restores'[r].phase = "New"
        BY <1>0, <1>5, <2>3 DEF EnvironmentStep, Create, Ph, Object
      <3> QED
        BY <2>1, <3>1, PhaseNames DEF HookInv, Under, Ph
    <2> QED
      BY <2>2, <2>3
  <1>6. ASSUME NEW s \in Restores, EnvironmentStep(Delete(s))
        PROVE  HookInv(r)'
    <2>1. [restores[s] EXCEPT !.deleting = TRUE].phase = Ph(s)
      BY <1>0 DEF Object, Ph
    <2>2. restores'[r].phase \in {Ph(r), "Gone"}
      BY <1>0, <1>6, <2>1 DEF EnvironmentStep, Delete, Gone, Ph
    <2> QED
      BY <1>1, <1>6, <2>2 DEF EnvironmentStep, hookVars, itemVars, reconcilerVars, Ended
  <1>7. CASE EnvironmentStep(BackupGoes)
    BY <1>2, <1>7 DEF EnvironmentStep, BackupGoes, hookVars, itemVars, reconcilerVars
  <1>8. ASSUME NEW s \in Restores, OperationsStep(s) /\ UNCHANGED fin
        PROVE  HookInv(r)'
    <2>1. UNCHANGED <<cluster, tracker, ran, run, hadErrs, fin>> /\ Polls(s)
      BY <1>8 DEF OperationsStep, BackupMissing, KeepWaiting, TellProgress, UploadFails,
                  PatchFails, hookVars, itemVars, reconcilerVars
    <2>2. lost[r] \subseteq lost'[r]
      <3>1. UNCHANGED lost \/ Loses(s, "failure")
        BY <1>8 DEF OperationsStep, BackupMissing, KeepWaiting, TellProgress, UploadFails,
                    PatchFails, reconcilerVars
      <3> QED
        BY <1>0, <3>1 DEF Loses
    <2>3. \/ UNCHANGED restores
          \/ \E phase \in WaitingPhases \cup FinalizingPhases :
                phase \in Phases /\ PatchPhase("operations", s, phase)
      BY <1>8, PhasesFor, PhaseNames
      DEF OperationsStep, BackupMissing, KeepWaiting, TellProgress, UploadFails,
          PatchFails, NextPhase, requestVars
    <2>4. CASE UNCHANGED restores
      BY <1>1, <2>1, <2>2, <2>4 DEF Ph
    <2>5. ASSUME NEW phase \in WaitingPhases \cup FinalizingPhases, phase \in Phases,
                 PatchPhase("operations", s, phase)
          PROVE  HookInv(r)'
      <3>1. CASE r # s \/ ~Exists(s)
        <4>1. restores'[r].phase = Ph(r)
          BY <1>0, <2>5, <3>1, PatchedPhase DEF Ph
        <4> QED
          BY <1>1, <2>1, <2>2, <4>1
      <3>2. CASE r = s /\ Exists(s)
        <4>1. Ph(r) \in WaitingPhases
          BY <2>1, <3>2 DEF Polls, Reads, Phased, SeenInv, Exists, Ph
        <4>2. Under(r) /\ ~Asked(r)
          BY <4>1, PhaseNames DEF Under, Asked, Phased, HeldInv
        <4>3. restores'[r].phase = phase
          BY <1>0, <2>5, <3>2, PatchedPhase
        <4> QED
          BY <2>1, <2>2, <2>5, <4>2, <4>3, HooksMoved DEF Erring
      <3> QED
        BY <3>1, <3>2
    <2> QED
      BY <2>3, <2>4, <2>5
  <1>9. ASSUME NEW p \in Pods,
               \/ HooksStep(MayStart(p) /\ ContainerUp(p) /\ UNCHANGED mishaps)
               \/ HooksStep(HandlerStep(p) /\ UNCHANGED mishaps)
               \/ HooksStep(PodEnds(p) /\ Mishap)
        PROVE  HookInv(r)'
    BY <1>9, PodsHooks DEF HooksStep, itemVars, reconcilerVars
  <1>10. ASSUME NEW p \in Pods, ItemsStep(VolumeEnds(p))
         PROVE  HookInv(r)'
    <2>1. run'.at = run.at /\ run'.r = run.r /\ (run.errs => run'.errs)
      BY <1>0, <1>10 DEF ItemsStep, VolumeEnds, RunType
    <2>2. UNCHANGED <<restores, cluster, tracker, ran, hadErrs, fin, lost>>
      BY <1>10 DEF ItemsStep, VolumeEnds, requestVars, hookVars, reconcilerVars
    <2>3. Erring(r) => Erring(r)'
      BY <2>1, <2>2 DEF Erring
    <2> QED
      BY <2>1, <2>2, <2>3, HooksKept DEF Ph
  <1>11. CASE ItemsStep(ItemStep)
    BY <1>11, ItemsHooks DEF ItemsStep, reconcilerVars
  <1>12. ASSUME NEW s \in Restores, Refuse(s), UNCHANGED fin
         PROVE  HookInv(r)'
    <2>1. restores'[r].phase \in {Ph(r), "FailedValidation"}
      BY <1>0, <1>12 DEF Refuse, Ph
    <2> QED
      BY <1>1, <1>12, <2>1 DEF Refuse, hookVars, itemVars, reconcilerVars, Ended
  <1>13. ASSUME NEW s \in Restores, Start(s), UNCHANGED fin
         PROVE  HookInv(r)'
    <2>1. Ph(s) = "New"
      BY <1>13 DEF Start, Reads, Phased, SeenInv, Exists, Ph
    <2>2. /\ run.at = "idle" /\ run'.at = "items" /\ run'.r = s
          /\ UNCHANGED <<cluster, tracker, ran, hadErrs, fin, lost>>
      BY <1>13 DEF Start, WorkerFree, RunOf, reconcilerVars
    <2>3. CASE r # s
      <3>1. restores'[r].phase = Ph(r)
        BY <1>0, <1>13, <2>3 DEF Start, Ph
      <3>2. Erring(r) => Erring(r)'
        BY <2>2 DEF Erring
      <3> QED
        BY <2>2, <2>3, <3>1, <3>2, HooksKept
    <2>4. CASE r = s
      <3>1. restores'[r].phase = "InProgress"
        BY <1>0, <1>13, <2>4 DEF Start
      <3>2. AllTracked(r)'
        BY <2>1, <2>2, <2>4 DEF HookInv, AllTracked
      <3> QED
        BY <3>1, <3>2, PhaseNames DEF HookInv, Ph
    <2> QED
      BY <2>3, <2>4
  <1>14. ASSUME NEW s \in Restores, DeleteExternalResources(s), UNCHANGED fin
         PROVE  HookInv(r)'
    <2>1. \/ restores' = [restores EXCEPT ![s] = Gone] /\ UNCHANGED lost
          \/ Loses(s, "list") /\ UNCHANGED restores
      BY <1>14 DEF DeleteExternalResources
    <2>2. lost[r] \subseteq lost'[r]
      BY <1>0, <2>1 DEF Loses
    <2>3. restores'[r].phase \in {Ph(r), "Gone"}
      <3>1. restores'[r] \in {restores[r], Gone}
        BY <1>0, <2>1
      <3> QED
        BY <3>1 DEF Gone, Ph
    <2> QED
      BY <1>1, <1>14, <2>2, <2>3 DEF DeleteExternalResources, hookVars, itemVars, Ended
  <1>15. ASSUME RunFails \/ \E stored \in BOOLEAN : FinishRun(stored), UNCHANGED fin
         PROVE  HookInv(r)'
    <2>1. /\ run.at = "items" /\ run'.r = run.r /\ run'.at = "patch"
          /\ UNCHANGED <<restores, cluster, tracker, ran>>
      BY <1>0, <1>15 DEF RunFails, FinishRun, ItemsDone, RunType, hookVars
    <2>2. /\ hadErrs \subseteq hadErrs' /\ (run.errs => run.r \in hadErrs')
      BY <1>15 DEF RunFails, FinishRun
    <2>3. lost[r] \subseteq lost'[r]
      <3>1. UNCHANGED lost \/ Loses(run.r, "list")
        BY <1>15 DEF RunFails, FinishRun
      <3> QED
        BY <1>0, <2>1, <3>1 DEF Loses
    <2>4. Erring(r) => Erring(r)'
      BY <2>2 DEF Erring
    <2> QED
      BY <1>15, <2>1, <2>3, <2>4, HooksKept DEF Ph
  <1>16. ASSUME EndRun, UNCHANGED fin
         PROVE  HookInv(r)'
    <2>1. /\ run.at = "patch" /\ run.r \in Restores /\ run.phase \in Phases
          /\ run'.at = "idle" /\ UNCHANGED <<cluster, tracker, ran, hadErrs, fin>>
      BY <1>0, <1>16 DEF EndRun, NotRunning, RunOf, RunType, hookVars
    <2> PICK s \in Restores : s = run.r
      BY <2>1
    <2>2. Erring(r) => Erring(r)'
      BY <2>1 DEF Erring
    <2>3. CASE UNCHANGED restores /\ Loses(s, "phase")
      <3>1. lost[r] \subseteq lost'[r]
        BY <1>0, <2>3 DEF Loses
      <3> QED
        BY <2>1, <2>2, <2>3, <3>1, HooksKept DEF Ph
    <2>4. CASE PatchPhase("restore", s, run.phase) /\ UNCHANGED lost
      <3>1. CASE r # s \/ ~Exists(r)
        <4>1. restores'[r].phase = Ph(r)
          BY <1>0, <2>1, <2>4, <3>1, PatchedPhase DEF Ph
        <4> QED
          BY <2>1, <2>2, <2>4, <4>1, HooksKept
      <3>2. CASE r = s /\ Exists(r)
        <4>1. Ph(r) = "InProgress" /\ restores'[r].phase = run.phase
          BY <1>0, <2>1, <2>4, <3>2, PatchedPhase DEF Phased, HeldInv, Exists, Ph
        <4>2. Under(r) /\ ~Asked(r)
          BY <2>1, <3>2, <4>1 DEF Under, Asked, Phased, HeldInv
        <4>3. run.phase \in WaitingPhases \cup FinalizingPhases \cup Ended
          BY <2>1, PhaseNames DEF Errs, Bad, Ended
        <4> QED
          BY <2>1, <2>2, <2>4, <4>1, <4>2, <4>3, HooksMoved
      <3> QED
        BY <3>1, <3>2
    <2> QED
      BY <1>16, <2>3, <2>4 DEF EndRun
  <1>17. ASSUME NEW s \in Restores, TakeFinalizing(s)
         PROVE  HookInv(r)'
    <2>1. /\ fin.at = "idle"
          /\ UNCHANGED <<restores, cluster, tracker, ran, run, hadErrs, lost>>
      BY <1>17 DEF TakeFinalizing, requestVars, hookVars, itemVars, reconcilerVars
    <2>2. /\ ~Asked(r)
          /\ Asked(r)' => fin'.failed
      <3>1. ~Asked(r)
        BY <2>1 DEF Asked
      <3> PICK errs \in BOOLEAN :
             fin' = IF backup = "gone" THEN FinAt(s, "patch", TRUE)
                    ELSE FinAt(s, "hooks",
                               errs \/ seen[s].phase = "FinalizingPartiallyFailed")
        BY <1>17 DEF TakeFinalizing
      <3> PICK failed \in BOOLEAN :
             failed = (errs \/ seen[s].phase = "FinalizingPartiallyFailed")
        OBVIOUS
      <3>2. fin' = FinAt(s, "patch", TRUE) \/ fin' = FinAt(s, "hooks", failed)
        OBVIOUS
      <3> QED
        BY <3>1, <3>2 DEF Asked, FinAt
    <2>3. /\ Ph(r)' = Ph(r) /\ (Under(r)' <=> Under(r)) /\ (Erring(r)' <=> Erring(r))
          /\ (AllTracked(r)' <=> AllTracked(r)) /\ (AllRan(r)' <=> AllRan(r))
      BY <2>1 DEF Ph, Under, Erring, AllTracked, AllRan
    <2> QED
      BY <2>1, <2>2, <2>3 DEF HookInv
  <1>18. CASE HooksDone
    <2> PICK failed \in BOOLEAN : failed = (fin.failed \/ HookErrs(fin.r))
      OBVIOUS
    <2>1. /\ fin.at = "hooks" /\ fin.r \in Restores /\ IsComplete(fin.r)
          /\ fin' = FinAt(fin.r, "results", failed)
          /\ tracker' = [tracker EXCEPT ![fin.r] = NotTracked]
          /\ UNCHANGED <<restores, cluster, ran, run, hadErrs, lost>>
      BY <1>0, <1>18 DEF HooksDone, requestVars, itemVars, reconcilerVars
    <2>2. fin'.r = fin.r /\ fin'.at = "results" /\ fin'.failed = failed
      BY <2>1 DEF FinAt
    <2>3. /\ Ph(r)' = Ph(r) /\ (Under(r)' <=> Under(r)) /\ (Erring(r)' <=> Erring(r))
          /\ (AllRan(r)' <=> AllRan(r)) /\ ~Asked(fin.r)
      BY <2>1 DEF Ph, Under, Erring, AllRan, Asked
    <2>4. CASE r # fin.r
      <3>1. tracker'[r] = tracker[r]
        BY <1>0, <2>1, <2>4 DEF TrackerType
      <3>2. (AllTracked(r)' <=> AllTracked(r)) /\ (Asked(r)' <=> Asked(r))
        BY <2>1, <2>2, <2>4, <3>1 DEF AllTracked, Asked
      <3>3. ~Asked(r)'
        BY <2>2, <2>4 DEF Asked
      <3> QED
        BY <2>1, <2>3, <3>1, <3>2, <3>3 DEF HookInv
    <2>5. CASE r = fin.r
      <3>1. tracker'[r] = NotTracked /\ Asked(r)'
        BY <1>0, <2>1, <2>2, <2>5 DEF TrackerType, Asked
      <3>2. Ph(r) \in {"Finalizing", "FinalizingPartiallyFailed", "Gone"}
            /\ (Ph(r) = "FinalizingPartiallyFailed" => fin.failed)
        BY <2>1, <2>5 DEF Phased, HeldInv
      <3>3. ASSUME "hooks" \notin lost[r], Ph(r) \in FinalizingPhases, ~failed
            PROVE  AllRan(r)
        <4>1. Under(r) /\ ~Asked(r) /\ Ph(r) = "Finalizing" /\ ~HookErrs(r)
          BY <2>3, <2>5, <3>2, <3>3, PhaseNames DEF Under
        <4>2. ~Erring(r)
          BY <4>1 DEF Erring, Errs, Shown, Bad, Phased, HeldInv
        <4>3. AllTracked(r)
          BY <3>3, <4>1, <4>2 DEF HookInv
        <4>4. \A q \in Pods : \A n \in DOMAIN HooksOf[q] :
                 tracker[r][<<q, n>>] # "untracked" => tracker[r][<<q, n>>] = "ok"
          BY <1>0, <2>1, <2>5, <4>1, HookNamed DEF IsComplete, HookErrs, TrackerType
        <4> QED
          BY <4>3, <4>4 DEF AllTracked, AllRan, Formed, TrackerInv
      <3> QED
        BY <2>1, <2>2, <2>3, <3>1, <3>2, <3>3 DEF HookInv
    <2> QED
      BY <2>4, <2>5
  <1>19. CASE HooksTimeOut
    <2>1. /\ fin' = FinAt(fin.r, "results", TRUE) /\ fin.at = "hooks" /\ fin.r \in Restores
          /\ UNCHANGED <<restores, cluster, tracker, ran, run, hadErrs, lost>>
      BY <1>0, <1>19 DEF HooksTimeOut, requestVars, hookVars, itemVars, reconcilerVars
    <2>2. /\ Ph(r)' = Ph(r) /\ (Under(r)' <=> Under(r)) /\ (Erring(r)' <=> Erring(r))
          /\ (AllTracked(r)' <=> AllTracked(r)) /\ (AllRan(r)' <=> AllRan(r))
      BY <2>1 DEF Ph, Under, Erring, AllTracked, AllRan
    <2>3. ~Asked(r) /\ fin'.failed
      BY <2>1 DEF Asked, FinAt
    <2> QED
      BY <2>1, <2>2, <2>3 DEF HookInv
  <1>20. CASE UpdateResults
    <2>1. /\ fin.at = "results" /\ fin.r \in Restores
          /\ UNCHANGED <<restores, cluster, tracker, ran, run, hadErrs>>
      BY <1>0, <1>20 DEF UpdateResults, hookVars, itemVars
    <2>2. /\ Ph(r)' = Ph(r) /\ (Under(r)' <=> Under(r)) /\ (Erring(r)' <=> Erring(r))
          /\ (AllTracked(r)' <=> AllTracked(r)) /\ (AllRan(r)' <=> AllRan(r))
      BY <2>1 DEF Ph, Under, Erring, AllTracked, AllRan
    <2>3. CASE fin' = FinAt(fin.r, "patch", fin.failed) /\ UNCHANGED lost
      <3>1. (Asked(r)' <=> Asked(r)) /\ fin'.failed = fin.failed
        BY <2>1, <2>3 DEF Asked, FinAt
      <3> QED
        BY <2>1, <2>2, <2>3, <3>1 DEF HookInv
    <2>4. CASE fin' = FinIdle /\ Loses(fin.r, "hooks")
      <3>1. ~Asked(r)'
        BY <2>4 DEF Asked, FinIdle, FinAt
      <3>2. lost[r] \subseteq lost'[r]
        BY <1>0, <2>1, <2>4 DEF Loses
      <3>3. r = fin.r => "hooks" \in lost'[r]
        BY <1>0, <2>1, <2>4 DEF Loses
      <3>4. r # fin.r => ~Asked(r)
        BY DEF Asked
      <3> QED
        BY <2>1, <2>2, <3>1, <3>2, <3>3, <3>4 DEF HookInv
    <2> QED
      BY <1>20, <2>3, <2>4 DEF UpdateResults
  <1>21. CASE FinishProcessing
    <2>1. /\ fin.at = "patch" /\ fin.r \in Restores /\ fin' = FinIdle
          /\ UNCHANGED <<cluster, tracker, ran, run, hadErrs>>
          /\ Ph(fin.r) \in {"Finalizing", "FinalizingPartiallyFailed", "Gone"}
      BY <1>0, <1>21 DEF FinishProcessing, hookVars, itemVars, Phased, HeldInv
    <2> PICK s \in Restores : s = fin.r
      BY <2>1
    <2>2. /\ ~Asked(r)' /\ (r # s => ~Asked(r)) /\ Asked(s)
          /\ (AllTracked(r)' <=> AllTracked(r)) /\ (AllRan(r)' <=> AllRan(r))
          /\ (Erring(r)' <=> Erring(r))
      BY <2>1 DEF Asked, FinIdle, FinAt, AllTracked, AllRan, Erring
    <2>3. CASE UNCHANGED restores /\ Loses(s, "hooks")
      <3>1. lost[r] \subseteq lost'[r] /\ (r = s => "hooks" \in lost'[r])
        BY <1>0, <2>3 DEF Loses
      <3>2. Ph(r)' = Ph(r) /\ (Under(r)' <=> Under(r))
        BY <2>1, <2>3 DEF Ph, Under
      <3> QED
        BY <2>1, <2>2, <3>1, <3>2 DEF HookInv
    <2>4. CASE /\ PatchPhase("finalizer", s, IF fin.failed THEN "PartiallyFailed" ELSE "Completed")
               /\ UNCHANGED lost
      <3> PICK phase \in Phases : phase = IF fin.failed THEN "PartiallyFailed" ELSE "Completed"
        BY PhaseNames
      <3>1. PatchPhase("finalizer", s, phase)
        BY <2>4
      <3>2. CASE r # s
        <4>1. restores'[r].phase = Ph(r)
          BY <1>0, <3>1, <3>2, PatchedPhase
        <4>2. Ph(r)' = Ph(r) /\ (Under(r)' <=> Under(r))
          BY <2>1, <4>1 DEF Ph, Under
        <4> QED
          BY <2>1, <2>2, <2>4, <3>2, <4>2 DEF HookInv
      <3>3. CASE r = s /\ ~Exists(r)
        <4>1. Ph(r)' = "Gone"
          BY <1>0, <2>1, <3>1, <3>3, PatchedPhase DEF Exists, Ph
        <4> QED
          BY <4>1, PhaseNames DEF HookInv, Under
      <3>4. CASE r = s /\ Exists(r)
        <4>1. Ph(r) \in FinalizingPhases /\ Ph(r)' = phase
          BY <1>0, <2>1, <3>1, <3>4, PatchedPhase, PhaseNames DEF Exists, Ph
        <4>2. phase \in {"PartiallyFailed", "Completed"} /\ (phase = "Completed" => ~fin.failed)
          OBVIOUS
        <4>3. ~Under(r)'
          BY <4>1, <4>2, PhaseNames DEF Under
        <4> QED
          BY <2>1, <2>2, <2>4, <3>4, <4>1, <4>2, <4>3, PhaseNames DEF HookInv
      <3> QED
        BY <3>2, <3>3, <3>4
    <2> QED
      BY <1>21, <2>3, <2>4 DEF FinishProcessing
  <1>22. CASE Restart
    <2>1. /\ run'.at = "idle" /\ fin'.at = "idle" /\ tracker'[r] = NotTracked
          /\ UNCHANGED <<cluster, ran, hadErrs>>
      BY <1>22 DEF Restart, NotRunning, RunOf, FinIdle, FinAt
    <2>2. restores'[r].phase \in {Ph(r), "Failed"}
      BY <1>0, <1>22 DEF Restart, Object, Ph
    <2>3. /\ lost[r] \subseteq lost'[r]
          /\ "hooks" \notin lost'[r] => tracker[r] = NotTracked /\ fin.r # r
      BY <1>0, <1>22 DEF Restart
    <2>4. CASE restores'[r].phase = "Failed"
      BY <2>4, PhaseNames DEF HookInv, Under, Ph
    <2>5. CASE restores'[r].phase = Ph(r)
      <3>1. /\ Ph(r)' = Ph(r) /\ (AllRan(r)' <=> AllRan(r)) /\ ~Asked(r)'
            /\ (r \in hadErrs' <=> r \in hadErrs)
        BY <2>1, <2>5 DEF Ph, AllRan, Asked
      <3>2. Under(r)' => Under(r) /\ Ph(r) # "InProgress"
        BY <2>1, <3>1, PhaseNames DEF Under
      <3>3. Ph(r) # "InProgress" => (Erring(r) => r \in hadErrs \/ Ph(r) = "Gone")
        BY DEF Erring, Phased, HeldInv
      <3>4. "hooks" \notin lost'[r] => (AllTracked(r) <=> AllTracked(r)') /\ ~Asked(r)
        BY <2>1, <2>3 DEF AllTracked, Asked
      <3>5. Ph(r) = "Gone" => ~Under(r)
        BY PhaseNames DEF Under
      <3>6. r \in hadErrs => Erring(r)'
        BY <2>1 DEF Erring
      <3> QED
        BY <2>1, <2>3, <3>1, <3>2, <3>3, <3>4, <3>5, <3>6 DEF HookInv
    <2> QED
      BY <2>2, <2>4, <2>5
  <1> QED
    BY <1>3, <1>4, <1>5, <1>6, <1>7, <1>8, <1>9, <1>10, <1>11, <1>12, <1>13, <1>14,
       <1>15, <1>16, <1>17, <1>18, <1>19, <1>20, <1>21, <1>22
    DEF Next, RestoreStep, ReconcilerStep, FinalizerStep

-----------------------------------------------------------------------------
(***************************************************************************)
(* What a restore that is Completed has done.                              *)
(***************************************************************************)
Sound ==
    /\ Formed
    /\ Phased
    /\ Errs
    /\ \A r \in Restores : TruthInv(r) /\ HookInv(r)

\* Where no controller takes a restore again before the cache shows what that
\* controller last wrote to it, a restore that is Completed has had no error,
\* its operations have all succeeded and its hooks have all run without a
\* failure, unless a failed call or a restart took just that with it.
THEOREM CompletedTellsTheTruth == SeesOwnWrites => (Spec => []CompletedIsTrue)
  <1> SUFFICES ASSUME SeesOwnWrites PROVE Spec => []CompletedIsTrue
    OBVIOUS
  <1>1. Init => Sound
    BY InitFormed, InitPhased, InitErrs, InitTruth, InitHooks DEF Sound
  <1>2. Sound /\ [Next]_vars => Sound'
    BY NextFormed, NextPhased, NextErrs, NextTruth, NextHooks DEF Sound
  <1>3. Sound => CompletedIsTrue
    <2> SUFFICES ASSUME Sound, NEW r \in Restores, restores[r].phase = "Completed"
                 PROVE  /\ r \notin hadErrs
                        /\ lost[r] \cap {"list", "failure"} = {} => Fine(r)
                        /\ "hooks" \notin lost[r] =>
                               \A p \in Pods : cluster[p] = r =>
                                   \A h \in HooksIn(p) : ran[h] = "ok"
      BY DEF CompletedIsTrue, Fine
    <2>1. r \notin hadErrs
      BY DEF Sound, Errs, Shown, Bad, Ph
    <2>2. lost[r] \cap {"list", "failure"} = {} => Fine(r)
      BY DEF Sound, TruthInv, Clean, Ph
    <2>3. "hooks" \notin lost[r] => AllRan(r)
      BY DEF Sound, HookInv, Ph
    <2>4. AllRan(r) => \A p \in Pods : cluster[p] = r => \A h \in HooksIn(p) : ran[h] = "ok"
      BY DEF AllRan, HooksIn
    <2> QED
      BY <2>1, <2>2, <2>3, <2>4
  <1> QED
    BY <1>1, <1>2, <1>3, PTL DEF Spec
=============================================================================
