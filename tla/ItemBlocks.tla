------------------------------ MODULE ItemBlocks ------------------------------
(***************************************************************************)
(* The item part of a backup.  The main loop forms blocks of items that    *)
(* belong together and sends them to the workers; a worker runs the pre    *)
(* hooks of a block's pods, backs up its items, waits for the pods' PVBs   *)
(* and runs the post hooks; in the end the loop waits for all PVBs.        *)
(*                                                                         *)
(* First, how a worker backs up one item: the checks, the item actions and *)
(* the items they add, which come first, the data of a volume or of a      *)
(* pod's claims, and the write to the archive.  The workers share the set  *)
(* of items backed up, the tracker of pod volumes and the tracker of       *)
(* skipped volumes.                                                        *)
(***************************************************************************)
EXTENDS PodVolumeBackupper

ASSUME WorkersAssumption == IsFiniteSet(Worker)

VARIABLES
    counted,         \* BackedUpItems
    tracker,         \* podVolumeSnapshotTracker
    skipped,         \* SkippedVolumeTracker: volumes
    taken,           \*   and the included volumes
    snapshots,       \* snapshots of a claim's volume, of either kind
    archive,         \* how often an item is in the archive
    failed,          \* an error has been logged
    workers

itemVars == <<counted, tracker, skipped, taken, snapshots, archive, failed>>

Steps == {"check", "add", "act", "descend", "data", "volumes", "write"}

Frame == [item : Item, at : Steps, todo : SUBSET Item, vols : SUBSET Claim,
          made : SUBSET Claim, err : BOOLEAN]

Idle == [at |-> "idle", block |-> <<>>, hooked |-> {}, frames |-> <<>>]

ItemsTypeOK ==
    /\ counted \subseteq Item
    /\ tracker \in [Claim -> {"none", "tracked", "taken", "optedout"}]
    /\ skipped \subseteq Volume /\ taken \subseteq Volume
    /\ skipped \cap taken = {}
    /\ snapshots \in [Claim -> Nat]
    /\ archive \in [Item -> Nat]
    /\ failed \in BOOLEAN
    /\ workers \in [Worker ->
           [at : {"idle", "items", "post", "wait"}, block : Seq(Item),
            hooked : SUBSET Pod, frames : Seq(Frame)]]

ItemsInit ==
    /\ counted = {} /\ skipped = {} /\ taken = {} /\ failed = FALSE
    /\ tracker = [c \in Claim |-> "none"]
    /\ snapshots = [c \in Claim |-> 0]
    /\ archive = [i \in Item |-> 0]
    /\ workers = [w \in Worker |-> Idle]

-----------------------------------------------------------------------------
(* The trackers. *)

VolumesOf(S) == {BoundTo[c] : c \in S \cap Claim} \cup (S \cap Volume)

\* A volume that was taken is never skipped again.
TrackSkipped(S) ==
    /\ skipped' = skipped \cup (VolumesOf(S) \ taken)
    /\ UNCHANGED taken

Untrack(S) ==
    /\ skipped' = skipped \ VolumesOf(S)
    /\ taken' = taken \cup VolumesOf(S)

Skipping == UNCHANGED <<skipped, taken>>

-----------------------------------------------------------------------------
(* The items a worker is at: one and, below it, those that added it. *)

At(w, step) ==
    /\ workers[w].at = "items"
    /\ workers[w].frames # <<>>
    /\ Last(workers[w].frames).at = step

Top(w) == Last(workers[w].frames)

Becomes(w, fs) == workers' = [workers EXCEPT ![w].frames = fs]
Goes(w, f) == Becomes(w, Append(Front(workers[w].frames), f))
FrameOf(i) == [item |-> i, at |-> "check", todo |-> {}, vols |-> {},
               made |-> {}, err |-> FALSE]
Pop(w) == Becomes(w, Front(workers[w].frames))
GoesTo(w, step) == Goes(w, [Top(w) EXCEPT !.at = step])

Fail_Silently(w) == UNCHANGED failed /\ Becomes(w, <<>>)

\* An error ends an item and those that added it.
Fail(w) == failed' = TRUE /\ Becomes(w, <<>>)

-----------------------------------------------------------------------------
\* Items that are excluded or backed up already are passed over.
Consider(w) ==
    LET i == Top(w).item
    IN  /\ At(w, "check")
        /\ IF Included(i) /\ i \notin counted
           THEN GoesTo(w, "add") /\ Skipping
           ELSE Pop(w) /\ TrackSkipped({i} \cap cluster.excluded)
        /\ UNCHANGED <<pvbVars, mishaps, counted, tracker, snapshots, archive,
                       failed>>

\* What a pod's claims are to the tracker once the pod is looked at.
TrackVolumes(p) ==
    [c \in Claim |->
        IF c \notin Mounted(p) \/ tracker[c] # "none" THEN tracker[c]
        ELSE IF ShouldPerformFSBackup(p, c) THEN "tracked" ELSE "optedout"]

VolumesToBackUp_TakenToo(p) ==
    {c \in Mounted(p) : ShouldPerformFSBackup(p, c)}

\* A claim that another pod's backup has taken is not copied once more.
VolumesToBackUp(p) ==
    {c \in Mounted(p) : ShouldPerformFSBackup(p, c) /\ tracker[c] # "taken"}

AddItem(w) ==
    LET i == Top(w).item
    IN  /\ At(w, "add")
        /\ counted' = counted \cup {i}
        /\ IF i \in Pod
           THEN /\ tracker' = TrackVolumes(i)
                /\ Goes(w, [Top(w) EXCEPT !.at = "act",
                                          !.vols = VolumesToBackUp(i)])
           ELSE GoesTo(w, "act") /\ UNCHANGED tracker
        /\ TrackSkipped({c \in {i} \cap Claim : tracker[c] = "optedout"})
        /\ UNCHANGED <<pvbVars, mishaps, snapshots, archive, failed>>

-----------------------------------------------------------------------------
(* The item actions. *)

\* The action of the CSI plugin: a snapshot of a claim that is to have one.
TakeCSISnapshot(c) ==
    IF ShouldPerformSnapshot(c) /\ cluster.driver[c] = "csi"
    THEN snapshots' = [snapshots EXCEPT ![c] = @ + 1] /\ Untrack({c})
    ELSE UNCHANGED snapshots /\ TrackSkipped({c})

Executed(w) ==
    /\ Goes(w, [Top(w) EXCEPT !.at = "descend",
                              !.todo = AdditionalItems(Top(w).item)])
    /\ UNCHANGED <<pvbVars, counted, tracker, archive, failed>>

\* An action leaves the item out, fails, or names the items to add.
ExecuteActions(w) ==
    LET i == Top(w).item
    IN  /\ At(w, "act")
        /\ IF i \in cluster.omitted
           THEN /\ counted' = counted \ {i}
                /\ Pop(w) /\ Skipping
                /\ UNCHANGED <<pvbVars, mishaps, tracker, snapshots, archive,
                               failed>>
           ELSE \/ /\ Executed(w) /\ Fails(0)
                   /\ IF i \in Claim THEN TakeCSISnapshot(i)
                      ELSE Skipping /\ UNCHANGED snapshots
                \/ /\ Fail(w) /\ Fails(1) /\ Skipping
                   /\ UNCHANGED <<pvbVars, counted, tracker, snapshots, archive>>

BackUpAdditionalItem(w) ==
    LET todo == Top(w).todo
    IN  /\ At(w, "descend")
        /\ \/ todo = {} /\ GoesTo(w, "data")
           \/ \E i \in todo :
                  /\ IsFirst(i, todo)
                  /\ Becomes(w, Append(Append(Front(workers[w].frames),
                                    [Top(w) EXCEPT !.todo = todo \ {i}]),
                                FrameOf(i)))
        /\ UNCHANGED <<pvbVars, mishaps, itemVars>>

-----------------------------------------------------------------------------
(* The data. *)

TakePVSnapshot(w) ==
    LET v == Top(w).item
        c == ClaimOf(v)
    IN  /\ At(w, "data") /\ v \in Volume
        /\ IF ~ShouldPerformSnapshot(c) \/ cluster.driver[c] = "other"
           THEN /\ TrackSkipped({v}) /\ GoesTo(w, "write") /\ Fails(0)
                /\ UNCHANGED <<snapshots, failed>>
           ELSE IF cluster.driver[c] = "csi"
           THEN /\ Skipping /\ GoesTo(w, "write") /\ Fails(0)
                /\ UNCHANGED <<snapshots, failed>>
           ELSE /\ Untrack({v})
                /\ \/ /\ snapshots' = [snapshots EXCEPT ![c] = @ + 1]
                      /\ GoesTo(w, "write") /\ Fails(0)
                      /\ UNCHANGED failed
                   \/ /\ Fail(w) /\ Fails(1)
                      /\ UNCHANGED snapshots
        /\ UNCHANGED <<pvbVars, counted, tracker, archive>>

\* The volumes of a pod that does not run are skipped, and those of a pod
\* whose node agent or repository is missing.
BackupPodVolumes(w) ==
    LET p == Top(w).item
        vols == Top(w).vols
        all == TrackSkipped(vols)
    IN  /\ At(w, "data") /\ p \in Pod
        /\ \/ /\ vols = {} \/ p \notin cluster.running
              /\ all /\ GoesTo(w, "write") /\ Fails(0)
           \/ /\ vols # {} /\ p \in cluster.running
              /\ Skipping /\ GoesTo(w, "volumes") /\ Fails(0)
           \/ /\ vols # {} /\ p \in cluster.running
              /\ all /\ Fails(1)
              /\ Goes(w, [Top(w) EXCEPT !.at = "write", !.err = TRUE])
        /\ UNCHANGED <<pvbVars, counted, tracker, snapshots, archive, failed>>

BackupPodVolume(w) ==
    LET f == Top(w)
    IN  /\ At(w, "volumes")
        /\ \E c \in f.vols, created \in BOOLEAN :
               /\ IsFirst(c, f.vols)
               /\ Fails(IF created THEN 0 ELSE 1)
               /\ CreatePVB(<<f.item, c>>, created)
               /\ Goes(w, [f EXCEPT
                      !.vols = @ \ {c},
                      !.made = IF created THEN @ \cup {c} ELSE @,
                      !.err = @ \/ ~created])
        /\ UNCHANGED itemVars

\* The claims whose PVBs were created are taken.
PodVolumesTaken(w) ==
    LET f == Top(w)
    IN  /\ At(w, "volumes") /\ f.vols = {}
        /\ tracker' = [c \in Claim |->
               IF c \in f.made /\ tracker[c] = "tracked" THEN "taken"
               ELSE tracker[c]]
        /\ Untrack(f.made)
        /\ GoesTo(w, "write")
        /\ UNCHANGED <<pvbVars, mishaps, counted, snapshots, archive, failed>>

NoData(w) ==
    /\ At(w, "data") /\ Top(w).item \in Claim
    /\ GoesTo(w, "write")
    /\ UNCHANGED <<pvbVars, mishaps, itemVars>>

\* An item whose data could not be copied is not written.
WriteItem(w) ==
    /\ At(w, "write")
    /\ IF Top(w).err
       THEN Fail(w) /\ UNCHANGED archive
       ELSE /\ archive' = [archive EXCEPT ![Top(w).item] = @ + 1]
            /\ Pop(w) /\ UNCHANGED failed
    /\ UNCHANGED <<pvbVars, mishaps, counted, tracker, skipped, taken, snapshots>>

ItemStep(w) ==
    \/ Consider(w) \/ AddItem(w) \/ ExecuteActions(w)
    \/ BackUpAdditionalItem(w) \/ TakePVSnapshot(w) \/ BackupPodVolumes(w)
    \/ BackupPodVolume(w) \/ PodVolumesTaken(w) \/ NoData(w) \/ WriteItem(w)

-----------------------------------------------------------------------------
(* The blocks. *)

VARIABLES
    main,            \* the main loop: what it is at, its item, the items that
                     \* have a block or are passed over, the block that grows and
                     \* what may yet be added to it, last related items first
    blocks,          \* blocks sent and not yet taken
    pending,         \* blocks sent and not yet processed
    quiesced,        \* pods whose pre hooks have run
    released         \* pods whose post hooks have run

hookVars == <<quiesced, released>>
loopVars == <<main, blocks, pending>>
vars == <<cluster, pvbVars, mishaps, itemVars, workers, loopVars, hookVars>>

TypeOK ==
    /\ BackupperTypeOK /\ ItemsTypeOK
    /\ main \in [at : {"sending", "waiting", "canceled", "done"},
                 nth : 0 .. Len(Order) + 1, seen : SUBSET Item,
                 items : Seq(Item), todo : Seq(SUBSET Item)]
    /\ pending \in 0 .. Len(Order) /\ blocks \in Seq(Seq(Item))
    /\ released \subseteq quiesced /\ quiesced \subseteq Pod

Init ==
    /\ cluster \in Clusters
    /\ BackupperInit /\ ItemsInit
    /\ main = [at |-> "sending", nth |-> 0, seen |-> {}, items |-> <<>>,
               todo |-> <<>>]
    /\ blocks = <<>> /\ pending = 0
    /\ quiesced = {} /\ released = {}

-----------------------------------------------------------------------------
(* The main loop. *)

\* What is next to be added to the block: related items go deep first.
IsNext(i) ==
    \E n \in DOMAIN main.todo :
        /\ IsFirst(i, main.todo[n])
        /\ \A m \in 1 .. n - 1 : main.todo[m] = {}

\* What has been looked at is not looked at again.
Unseen(groups, seen) == [n \in DOMAIN groups |-> groups[n] \ seen]

\* One item is looked at.  One that cannot be read or is excluded is passed
\* over, another is added, and then what is related to it.  That it cannot be
\* read, or its action fails, is logged, and the loop goes on.
AddToBlock(i) ==
    LET seen == main.seen \cup {i}
        added == Included(i) /\ i \notin cluster.unread
    IN  /\ main.at = "sending" /\ IsNext(i)
        /\ main' = IF added
               THEN [main EXCEPT !.seen = seen, !.items = Append(@, i),
                                 !.todo = Unseen(RelatedItems(i) \o @, seen)]
               ELSE [main EXCEPT !.seen = seen, !.todo = Unseen(@, seen)]
        /\ TrackSkipped(({i} \cap cluster.excluded) \ cluster.unread)
        /\ failed' = (failed \/ i \in cluster.unread
                             \/ (added /\ i \in cluster.unlisted))
        /\ UNCHANGED <<cluster, pvbVars, mishaps, counted, tracker, snapshots,
                       archive, workers, blocks, pending, hookVars>>

\* With nothing left to add the block is sent, if it has items, unless the
\* next item is to be added too; then it is the turn of that item.
SendItemBlock ==
    LET n == main.nth
        sends == main.items # <<>> /\ ~AddNextToBlock(n)
    IN  /\ main.at = "sending" /\ n <= Len(Order)
        /\ \A k \in DOMAIN main.todo : main.todo[k] = {}
        /\ main' = [main EXCEPT
               !.nth = n + 1, !.items = IF sends THEN <<>> ELSE @,
               !.todo = IF n < Len(Order)
                        THEN Unseen(<<{Order[n + 1]}>>, main.seen) ELSE <<>>]
        /\ blocks' = IF sends THEN Append(blocks, main.items) ELSE blocks
        /\ pending' = IF sends THEN pending + 1 ELSE pending
        /\ UNCHANGED <<cluster, pvbVars, mishaps, itemVars, workers, hookVars>>

MainGoes(at) ==
    /\ main' = [main EXCEPT !.at = at]
    /\ UNCHANGED <<cluster, blocks, pending, itemVars, workers, hookVars>>

BlocksProcessed ==
    /\ main.at = "sending" /\ main.nth > Len(Order) /\ pending = 0
    /\ MainGoes("waiting")
    /\ UNCHANGED <<pvbVars, mishaps>>

\* All PVBs have ended, or there were none.
PodVolumesProcessed ==
    /\ main.at \in {"waiting", "canceled"}
    /\ wg = 0 \/ Tracked = {}
    /\ MainGoes("done")
    /\ UNCHANGED <<pvbVars, mishaps>>

PodVolumesTimedOut ==
    /\ main.at = "waiting" /\ Tracked # {} /\ timeUp
    /\ CancelPVBs
    /\ MainGoes("canceled")

MainLoop == \/ \E i \in Item : AddToBlock(i)
            \/ SendItemBlock \/ BlocksProcessed \/ PodVolumesProcessed
            \/ PodVolumesTimedOut

-----------------------------------------------------------------------------
(* A worker. *)

\* The pods that are not yet counted have their pre hooks run.  One whose
\* hook fails is counted, so that it is passed over.
StartItemBlock(w) ==
    LET b == Head(blocks)
        pods == {p \in ToSet(b) \cap Pod : p \notin counted}
        failing == {p \in pods : cluster.hooks[p] = "fails"}
    IN  /\ workers[w].at = "idle" /\ w \in cluster.pool /\ blocks # <<>>
        /\ blocks' = Tail(blocks)
        /\ workers' = [workers EXCEPT ![w] =
               [at |-> "items", block |-> b, hooked |-> pods \ failing,
                frames |-> <<>>]]
        /\ counted' = counted \cup failing
        /\ failed' = (failed \/ failing # {})
        /\ quiesced' = quiesced \cup
               {p \in pods : cluster.hooks[p] = "ok"}
        /\ UNCHANGED <<cluster, pvbVars, mishaps, tracker, skipped, taken,
                       snapshots, archive, main, pending, released>>

BetweenItems(w) == workers[w].at = "items" /\ workers[w].frames = <<>>

NextItem(w) ==
    LET b == workers[w].block
    IN  /\ BetweenItems(w) /\ b # <<>>
        /\ workers' = [workers EXCEPT ![w].block = Tail(b),
                                      ![w].frames = <<FrameOf(Head(b))>>]
        /\ UNCHANGED <<cluster, pvbVars, mishaps, itemVars, loopVars, hookVars>>

EndItemBlock(w) ==
    /\ workers' = [workers EXCEPT ![w] = Idle]
    /\ pending' = pending - 1
    /\ UNCHANGED <<cluster, pvbVars, mishaps, counted, tracker, skipped, taken,
                   snapshots, archive, main, blocks, quiesced>>

\* If pods have hooks to run, the first look at their PVBs is taken.
ItemsDone(w) ==
    /\ BetweenItems(w) /\ workers[w].block = <<>>
    /\ IF workers[w].hooked = {}
       THEN EndItemBlock(w) /\ UNCHANGED <<failed, released>>
       ELSE /\ workers' = [workers EXCEPT ![w].at =
                   IF AllProcessed(workers[w].hooked) THEN "post" ELSE "wait"]
            /\ UNCHANGED <<cluster, pvbVars, mishaps, itemVars, loopVars,
                           hookVars>>

PostHooks_Unawaited(w) ==
    /\ workers[w].at \in {"post", "wait"}
    /\ released' = released \cup (workers[w].hooked \cap quiesced)
    /\ EndItemBlock(w)
    /\ UNCHANGED failed

\* The post hooks wait until the PVBs of the block's pods have ended ...
PostHooks(w) ==
    /\ workers[w].at \in {"post", "wait"}
    /\ AllProcessed(workers[w].hooked)
    /\ released' = released \cup (workers[w].hooked \cap quiesced)
    /\ EndItemBlock(w)
    /\ UNCHANGED failed

\* ... and do not run if the time is up first; what has ended since the last
\* look is not seen.
NoPostHooks(w) ==
    /\ workers[w].at = "wait" /\ timeUp
    /\ failed' = TRUE
    /\ EndItemBlock(w)
    /\ UNCHANGED released

BackupItemBlock(w) ==
    \/ StartItemBlock(w) \/ NextItem(w) \/ ItemsDone(w)
    \/ PostHooks(w) \/ NoPostHooks(w)
    \/ ItemStep(w) /\ UNCHANGED <<cluster, loopVars, hookVars>>

Others == UNCHANGED <<cluster, itemVars, workers, loopVars, hookVars>>

Next ==
    \/ MainLoop
    \/ \E w \in Worker : BackupItemBlock(w)
    \/ \E k \in PVB : EndPVB(k) /\ Others
    \/ \E k \in PVB : UpdatePVB(k) /\ Others
    \/ TimeOut /\ Others

Spec == Init /\ [][Next]_vars

\* The server goes on, the time runs, events arrive; a node agent need only
\* end a PVB that is cancelled.
FairSpec ==
    /\ Spec
    /\ WF_vars(MainLoop)
    /\ \A w \in Worker : WF_vars(BackupItemBlock(w))
    /\ WF_vars(TimeOut /\ Others)
    /\ \A k \in PVB :
           /\ WF_vars(objects[k].cancel /\ EndPVB(k) /\ Others)
           /\ WF_vars(UpdatePVB(k) /\ Others)

-----------------------------------------------------------------------------
(***************************************************************************)
(* While the data of a claim is copied from the file system, every running *)
(* pod that mounts it and whose hooks work has been quiesced and not yet   *)
(* released, also a pod other than the one whose PVB it is: the block has  *)
(* all of them, and its post hooks wait for all its PVBs.  Items that the  *)
(* user excludes are not held back.  Nor does it hold if one of the three  *)
(* items could not be read or its item block action failed when the block  *)
(* was formed: that is logged, and the copy is taken all the same.  An     *)
(* error of anything else does not excuse it.                              *)
(***************************************************************************)
Resolved(i) == i \notin cluster.unread \cup cluster.unlisted

QuiescedWhileCopied ==
    \A k \in Running : \A p \in UsersOf(k[2]) \cap cluster.running :
        /\ cluster.hooks[p] = "ok" /\ Included(p) /\ Included(k[2])
        /\ \A i \in {k[1], k[2], p} : Resolved(i)
        => p \in quiesced \ released

Copies(c) == snapshots[c] + Cardinality({p \in Pod : objects[<<p, c>>].phase # "None"})

(***************************************************************************)
(* When the backup is done, each claim in the archive has had its data     *)
(* taken, by a snapshot or by a PVB, once and never by both, and is not    *)
(* listed as skipped; or it is listed as skipped and has had nothing       *)
(* taken; or an error has been logged.  (More than one worker may take a   *)
(* snapshot twice, and pods that disagree may copy a claim twice.)         *)
(***************************************************************************)
DataAccountedFor ==
    main.at = "done" =>
        \A c \in Claim : archive[c] > 0 =>
            \/ failed
            \/ Copies(c) = 1 /\ BoundTo[c] \notin skipped
            \/ Copies(c) = 0 /\ BoundTo[c] \in skipped

(***************************************************************************)
(* When the backup is done without an error, everything selected that no   *)
(* action leaves out is in the archive, although items are counted as      *)
(* backed up before they are.                                              *)
(***************************************************************************)
NothingLost ==
    main.at = "done" /\ ~failed =>
        \A i \in Item \ (cluster.excluded \cup cluster.omitted) :
            archive[i] > 0

(***************************************************************************)
(* A backup comes to the end of its items, whatever fails and although     *)
(* node agents may never end a PVB that is not cancelled: the timeout ends *)
(* the wait for post hooks and cancels what is left.                       *)
(***************************************************************************)
BackupEnds == <>(main.at = "done")

(***************************************************************************)
(* backup-hooks.md:17: the items of a block are backed up, "then all post  *)
(* hooks are run".  A backup all of whose PVBs have ended in time leaves   *)
(* no pod quiesced.                                                        *)
(***************************************************************************)
QuiescedPodsReleased == main.at = "done" => quiesced \subseteq released

(***************************************************************************)
(* item_backupper.go, backupItemInternal: "we don't need >1 backup per     *)
(* PVC" where the volume has "been backed up from another pod".            *)
(***************************************************************************)
ClaimCopiedOnce ==
    \A c \in Claim : Cardinality({p \in Pod : index[<<p, c>>] # "None"}) <= 1
=============================================================================
