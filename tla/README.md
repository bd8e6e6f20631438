# TLA+ models of the Velero server and its node agents

Velero backs up and restores the objects and volumes of a Kubernetes cluster.
Its server is a set of controllers in one process: each one reconciles one
kind of custom resource, reads from a shared informer cache, writes to the
Kubernetes API server, and shares a few in-memory objects with the others. A
node agent on every node runs further controllers, which move the data of
volumes in pods of their own. These modules model that protocol: who may move
which object from which phase to which, what it knew when it decided, and what
a lost call, a stale read, a restart or a delay between two steps does to it.

* `*.tla` without prefix or suffix: the models. `MC*.tla` and `*.cfg`: the
  small instances TLC checks. `*_proofs.tla`: theorems and their TLAPS proofs.
* `PROJECT.json`: for every definition the lines it models, for every run and
  theorem what it establishes, and the hazards the properties were chosen for.

## 1. The system

### Components

Paths are under `src/`. "Ctl" abbreviates `pkg/controller`.

| Component | State | Operations | What makes it correct |
|---|---|---|---|
| Backup queue controller (`Ctl/backup_queue_controller.go`) | phase and queue position of the Backup objects | queue a new backup, dequeue a queued one, renumber the rest | overlapping backups never run together; the limit; the order; nobody waits for ever |
| Backup tracker (`Ctl/backup_tracker.go`) | three in-memory sets of keys | add, move, delete, count | counts exactly the backups that run |
| Backup controller (`Ctl/backup_controller.go`) | phase of the backup | validate, run, upload, final patch | one run per backup; it ends; the tracker is told |
| Item backupper and pod volume backupper (`pkg/backup`, `pkg/podvolume`) | set of backed-up items, worker pool, PVBs, hooks | form blocks, back up items, wait for volumes | nothing is missing; data is taken once; copied while quiesced |
| Backup operations controller (`Ctl/backup_operations_controller.go`, `pkg/itemoperationmap`) | in-memory map of asynchronous operations, their copy in the store | poll plugins, upload progress, move to Finalizing | no operation is lost or reported twice; timeouts |
| Backup finalizer controller (`Ctl/backup_finalizer_controller.go`) | phase | rewrite contents, upload, final phase | the final phase is written after the upload |
| Backup deletion controller (`Ctl/backup_deletion_controller.go`) | DeleteBackupRequests | delete snapshots, store, restores, object | never a backup that runs; leftovers can be deleted again |
| Sync controller (`Ctl/backup_sync_controller.go`) | - | store to cluster, remove orphans | only finished backups appear; no finished one disappears for good |
| GC and schedule controllers (`Ctl/gc_controller.go`, `Ctl/schedule_controller.go`) | last backup and last skip of a schedule | submit backups, request deletion of expired ones | one backup per run; expired backups go |
| Backup store (`pkg/persistence`) | the objects of each backup in a bucket | put, get, list, delete | what looks complete is complete |
| Restore controllers, item restorer, hooks (`Ctl/restore_*_controller.go`, `pkg/restore`, `internal/hook`) | Restore objects, operations map, goroutines per pod | validate, restore items, run hooks, finalize | Completed is true; nothing waits for ever |
| Data upload / download, pod volume backup / restore controllers (`Ctl/data_*`, `Ctl/pod_volume_*`) | their custom resources, on every node | accept, expose, prepare, run, cancel | one node runs a request; resources are released; cancellation wins |
| Data path (`pkg/datapath`, `pkg/datamover`, `pkg/podvolume`, `pkg/uploader`) | the process in a pod, its watcher | reserve, start, watch, close | success is of data that was moved; one result |
| Block uploader (`pkg/uploader/block`, `pkg/repository/udmrepo`) | bitmap, buffers, block writes | copy the changed blocks of a volume, restore them | what is saved is the volume |
| CSI snapshots (`pkg/backup/actions/csi`, `pkg/restore/actions/csi`, `internal/volume`, `pkg/exposer`) | VSs and VSCs | take, hand over, move, restore, delete | kept as long as needed, and gone after |
| Backup repositories (`Ctl/backup_repository_controller.go`, `pkg/repository`) | BackupRepository objects, maintenance jobs | connect, invalidate, maintain | Ready means connected with the location as it is; one job at a time |
| Backup storage locations (`Ctl/backup_storage_location_controller.go`) | their phase | validate | used only when available |
| Plugins (`pkg/plugin`), policies, includes and excludes | child processes; none | start, dispatch; decide | a dead process is replaced |

`PROJECT.json` lists all of them, with what is modelled and what is not.

### How they interact

```
 user, schedule --create--> Backup "New"
 queue controller:   New -> Queued -> ReadyToStart     (tracker: ready)
 backup controller:  ReadyToStart -> InProgress -> ... (tracker: inProgress, then post)
     item blocks --create--> PVBs, VSs, DataUploads (asynchronous operations)
 operations ctl:     Waiting* -> Finalizing*
 finalizer ctl:      Finalizing* -> Completed | PartiallyFailed (tracker: removed)
 deletion ctl:       asks the tracker, -> Deleting, removes store and object
 sync ctl:           store <-> cluster

 node agents:        DataUpload, DataDownload, PodVolumeBackup, PodVolumeRestore
     New -> Accepted -> Prepared -> InProgress -> Completed | Failed | Canceled
     each exposes a pod; the pod's process moves the data; a watcher reports
```

In the server almost every arrow is a merge patch. A patch carries no resource
version, so the API server applies it whatever has happened since the
controller read the object; controllers are kept out of each other's way by
phases, by the tracker and by having one worker each. The node agents write
exclusively (the update is refused if the object has changed) or retry a
read and write on conflict. All are woken by informer events, filtered by
predicates, by periodic sources, and by work queue retries after an error.

### What is hard

Reads are stale; two writes of one reconciliation are not atomic; a reply may
be lost; the tracker and the operations maps vanish on restart while the
objects do not; predicates drop events that would have been needed; two node
agents want the same request; a cancellation meets a result; a channel has no
buffer; a snapshot has an object in two worlds, and deleting one may delete the
other. The hazards of `PROJECT.json` point at the lines.

## 2. The modules

| Module | Models | Extends |
|---|---|---|
| `BackupApi` | API server, watch stream, cache; reads and patches | |
| `BackupReconciler` | `backup_tracker.go` as operators on a record; the backup controller; what a restart does to the objects | `BackupApi` |
| `BackupQueue` | the queue controller, events, users, restart; the whole | `BackupReconciler` |
| `BackupAdmission` | the promise: who may be let in when | |
| `BackupStore` | the bucket: directories of objects, calls that fail | `BackupApi` |
| `BackupUpload` | running the backup, its operations, the upload | `BackupReconciler`, `BackupStore` |
| `BackupOperations` | the operations controller and its map, the finalizer controller | `BackupUpload` |
| `BackupDeletion` | the deletion controller and its requests | `BackupReconciler`, `BackupStore` |
| `BackupSync` | the sync controller | `BackupStore` |
| `BackupLifecycle` | all of these in one server; events, users, restart | `BackupOperations`, `BackupDeletion`, `BackupSync` |
| `DataMoverPods` | the requests as the node agents see them, the hosting pods | |
| `DataMoverController` | what the four node agent controllers share | `DataMoverPods` |
| `DataTransfers` | data upload and download controllers; giving a restored volume to its claim, call by call | `DataMoverController` |
| `PodVolumeTransfers` | pod volume backup and restore controllers | `DataMoverController` |
| `DataMovement` | the node agents of a cluster, users, pods, restarts | `DataTransfers`, `PodVolumeTransfers` |
| `DataPath` | the goroutine that moves one volume, through kopia or by blocks | |
| `MicroServices` | the process in the pod with its goroutines, and the watcher | `DataPath` |
| `BlockUploader` | bitmap, reader and writer, block objects: one backup or restore of a raw volume | |
| `RestoreRequests` | Restore objects, the caches, operations lists | |
| `RestoreHooks` | hook tracker, one goroutine per pod | `RestoreRequests` |
| `RestoreItems` | restoring the items, the volumes and the claims | `RestoreHooks` |
| `RestoreReconciler` | the restore controller, what a restart does | `RestoreItems` |
| `RestoreOperations` | the restore operations and the restore finalizer controllers | `RestoreReconciler` |
| `RestoreLifecycle` | the whole, with users, failing calls and restarts | `RestoreOperations` |
| `BackupLocations` | the storage location, its controller, the clock | |
| `BackupRepositories` | repository objects, initialisation, maintenance, the ensurer | `BackupLocations` |
| `Schedules` | schedule and GC controllers | `BackupLocations` |
| `CsiSnapshots` | the VSs and VSCs of one volume, from snapshot to deletion | `BackupLocations` |
| `Upkeep` | the last three in one server | `BackupRepositories`, `Schedules`, `CsiSnapshots` |
| `PodVolumeBackupper` | pods, claims and volumes; the PVBs of one backup | |
| `ItemBlocks` | backing up one item, with what its actions add; the main loop, the workers, hooks, the waits | `PodVolumeBackupper` |
| `MCBackupQueue`, `MCBackupLifecycle`, `MCDataMovement`, `MCDataPaths`, `MCRestoreLifecycle`, `MCUpkeep`, `MCItemBlocks` | instances | |
| `BackupQueue_proofs` | theorems about `BackupQueue` | `BackupQueue`, `TLAPS` |
| `BackupLifecycle_proofs` | theorems about the life of a backup, from ReadyToStart to the end | `BackupLifecycle`, `FiniteSetTheorems`, `SequenceTheorems`, `TLAPS` |
| `BackupDeletion_proofs` | theorems about the life of a backup next to requests to delete it | `BackupLifecycle_proofs` |
| `DataPaths_proofs` | theorems about the process in the pod, and the node agents around it (data movement) | `MicroServices`, `DataMovement`, `FiniteSetTheorems`, `TLAPS` |
| `Upkeep_proofs` | theorems about snapshots, repositories and schedules, in `Upkeep` | `Upkeep`, `FiniteSetTheorems`, `SequenceTheorems`, `TLAPS` |
| `BlockUploader_proofs` | theorems about copying a raw volume, block by block | `BlockUploader`, `FiniteSetTheorems`, `SequenceTheorems`, `TLAPS` |
| `ItemBlocks_proofs` | theorems about the items of a backup | `ItemBlocks`, `FiniteSetTheorems`, `TLAPS` |
| `RestoreLifecycle_proofs` | theorems about the life of a restore | `RestoreLifecycle`, `SequenceTheorems`, `TLAPS` |

A reconciliation that makes several calls is several actions, one per call
whose order or failure matters, so that everything else interleaves.

### The queue

`BackupApi`: `api` holds the objects (phase and queue position: the two fields
the protocol reads), `watch` the changes the informer has not applied, `cache`
what Get and List return. `PatchOk` is a patch that is acknowledged;
`PatchError` one that returns an error: the object is gone, the request was
lost, or (with `LostReplies`) it was applied and the reply was lost.

`FreshReads` is the one assumption worth arguing about. controller-runtime's
cache lags; the queue controller does nothing about it and normally wins the
race because a reconciliation is slower than the watch. With `FreshReads` FALSE
exclusion fails (section 4); with TRUE a read waits until the cache has
caught up, and everything between two reads of one reconciliation still
interleaves.

`BackupReconciler`: one record per key, `bw[b]`, is the worker's place in
`Reconcile` and its local copy of the phase. `TakeBackup` is the read and the
phase check, `PatchStarted` the first patch (validation's verdict is its
parameter), `TrackStarted` the call of `tracker.Add`, `RunBackup` the run with
the phase it decides, `PatchFinished` the patch with retries, `LeaveBackup` the
deferred update of the tracker.

`BackupQueue`: `q` is the single worker: key, position read, the list it will
renumber. `TakeKey`, `ListForNew`, `Enqueue` queue a new backup. `TakeKey`,
`ListForQueued`, `Admit`, `Dequeue`, `Renumber`, `RenumberDone` dequeue one; the
order `Admit` (tracker) before `Dequeue` (patch) is the code's. Namespace
selection is abstracted to the constant set `NsOf[b]`. Events: `Deliver` applies
a change to the cache and enqueues the keys the predicates let through;
`Resync` is the informer's own; `PeriodicEnqueue` the one-minute source.
`Restart` clears the memory, fails what was InProgress, relists the cache and
enqueues what the first list makes the queue controller see as created.

### The life of a backup

`BackupStore`: a backup's directory has three objects: the metadata (all that
matters of it is the phase written into it), the contents and the list of
operations, which stands for the other lists that `PutBackup` uploads in the
same loop. `BackupUpload` refines `RunBackup` into `runBackup` and
`persistBackup`: `BackUp`, `PutMetadata`, `PutContents`, `PutLists`, the two
deletions after an error, and `BackedUp`. `plugin[b][o]` is what the plugin
would answer to a poll of operation `o`.

`BackupOperations`: `bo` is the operations controller's single worker with its
copy of the map's entry: `TakeWaiting`, `Poll`, `PutPhase`, `PutOps`,
`PatchPolled` and the deferred `LeaveOperations`. `bf` is the finalizer's worker:
`Prepare`, `PutFinalMetadata`, `PutFinalContents`, `TrackFinal` and `PatchFinal`,
the deferred function, which stays where it is after an error, because the
constructor does not keep the time limit it is given.

`BackupDeletion`: `req` has the phase of each request; `bd` is the worker, one
action per call whose failure the code treats differently; `DeleteObject` takes
the objects in any order, as the bucket may list them. `BackupSync`: `sy` is the
sync worker for one location, with its listing of the store; each backup's
check and creation is a step.

`BackupLifecycle` is the composition. Each controller's step leaves the private
state of the others alone; they meet in `api`, `store` and `tracker`. The queue is
reduced to `LetIn`. `Restart` empties the memory of all of them and leaves
bucket, plugins and requests.

### The items of a backup

`PodVolumeBackupper` has the cluster (pods, the claims they mount, volumes;
which pods run, have hooks, are opted in; policies, drivers, exclusions) and the
PVBs with the informer, the index and the wait group. In `ItemBlocks` a worker's
`frames` are `backupItemInternal` as a call stack: checks, actions and their additional
items first, the data of a volume or of a pod's claims, the archive. `main` is the main
loop at its `nth` item: `AddToBlock` adds one item to the block `items` and puts what is
related to it in front of `todo`, so that related items go deep first as in
`executeItemBlockActions`; `seen` are the items with `inItemBlockOrExcluded`;
`SendItemBlock` sends a block to which nothing is left to add and turns to the next item.
Around the items a worker runs the pre hooks of a block and, when its items are done,
waits for their PVBs and runs the post hooks before it takes another block.
What cannot be put into a block is chosen with the cluster: `unread` are the items whose
file cannot be opened or decoded, `unlisted` those whose item block action fails (for a
claim, the list of the pods that use it). Each item is read and asked once, so that
choosing it at the start is choosing it at the call. Both are logged, and the block goes on
without the item, or without what is related to it. Every item is one that was collected: the
look-up in the cluster of related items that were not (`backup.go:807-831`) and the
grouping of PVCs into volume group snapshots do not arise. A create of a PVB whose call
fails has not been applied.
`Clusters` are the clusters to start from, `Timely` says that PVBs end before the
time-out, `CancelsFail` that the cancelling update may fail.

### Data movement

`DataMoverPods`: `req[r]` are the objects in the API server, `cache[n][r]` the
copies in node `n`'s informer, `WriteNow` an exclusive update (`UpToDate` is the
equality of resource versions) and `UpdateWithRetry` the retried one. `pod[r]` is
the hosting pod from pending to its end, `podNews` an update its node agent has
not handled. `DataMoverController`: `work[n][r]` is where the reconcile worker of
`n` is with `r`, `event` the pod handler, `tracker` the data path and its callbacks,
`resume` the goroutine after a restart. The four controllers are the same
definitions with different guards and writes. `DataTransfers` has `RebindVolume`
call by call, any of which may fail (`RebindMayFail`) or be the last before a
crash; `volume[r]` says whom the volume is bound to, whether it is retained, and
whether its storage exists. `Timely` is the assumption that no delay of minutes
expires between two calls of one worker.

`DataPath` and `MicroServices`: `main` is the process's main goroutine from the
creation of its clients to its end, `dp` the data path's goroutine (for kopia:
find the parent, set the policy, upload, save, apply retention, flush, report;
for a restore: load, restore, flush the volume; for blocks: one step whose result
`BlockUploader` explains), `canceling` the goroutine that tells the uploader,
`watcher` the node agent's watcher with its verdict, and the events between them.

`BlockUploader`: a device is a function from positions to 0 or 1, read in blocks
of `BlockSize`; changed ranges come from the changed block service or a whole
read; a reader and a writer are joined by a channel and a list of `Buffers` free
buffers; the object's blocks are written by up to `AsyncWrites` goroutines, each
of which may fail and stops the whole.

### Restores

`RestoreItems` restores item after item, each with the additional items its
actions return first (`run.stack`), and starts for a restored pod the goroutines
of its volumes and hooks (`RestoreHooks`, with the tracker that counts them).
`RestoreReconciler`, `RestoreOperations` and `RestoreLifecycle` are, as for
backups, the three workers with one action per call, the map of operations, the
files in the store, deletion and restart. `lost[r]` records what a failed call or
a restart has taken from the restore, so that the properties can tell such a
loss from a wrong step. `SeesOwnWrites` says that the finalizer's cache has its
own last write.

### Upkeep

`BackupLocations`: the location with its configuration and phase, and the clock.
`BackupRepositories`: one worker with its copy of the repository; `unseen` are
changes of the location that have not been handled; jobs run, end or are deleted
next to it. `Schedules`: a schedule is due at every multiple of `Period`;
submissions and skips carry times. `CsiSnapshots`: `vs` and `vsc` have the objects
by who made them (`"taken"` by the backup, `"mover"` by the exposer, `"restored"`,
`"temporary"` by the deletion action), `storage` the snapshot itself, `taking` and
`exposing` the stages of the backup and of the data mover; `missed` records that a
call failed which nobody repeats. The external snapshotter, which binds and
deletes, is modelled from how the code uses it.

`Upkeep` is the composition. `InUse` says what an installation uses, so that
parts without common state beyond the location and the clock can be checked one
after the other in one run; `LastTick` bounds the time per part. `Undisturbed`:
no change of the location is overtaken by the end of a connection begun before
it, missed by the event handler, or lost with the process;
`SubmissionsRecorded`: the patch that records a submission does not fail;
`LeftoversStay`: users do not delete a VS that the finalization left behind.

## 3. The runs

| Run | Instance | Shows |
|---|---|---|
| `queue` | 3 backups, b2 overlaps b1 and b3; 2 slots; a restart | exclusion, positions and order, also when the server stops amid a renumbering |
| `queue_faults` | 2 overlapping backups, deletable; one lost call or reply, one restart, two changes in flight | nothing runs twice; refinement of `BackupAdmission` |
| `queue_live` | 2 backups that do not overlap, 1 slot, a restart, fairness | the tracker's count alone enforces the limit; every backup gets its turn and ends |
| `lifecycle` | 1 backup with an operation, a failing call, a restart, a download, fairness | what is Completed is stored as a whole, nothing finalized early, phases as designed, failures show; a started backup ends |
| `deletion` | 1 backup with an operation, a request to delete it, a failing call, a location that goes away, fairness | one writer per directory, the object goes last; the request is answered |
| `sync` | a bucket that may hold a backup and lose directories, a user who deletes objects, a failing call, fairness | stored backups get an object, Completed objects without a directory go |
| `failed_operation_forgotten` | 1 operation, a failing call | **violated**: Completed although it failed |
| `datamove` | `MCDataPaths`, three parts, chosen at the start: a request of any kind on 2 nodes, cancelled, with a restart and failing rebinding; the process in a pod, 8 jobs, a failing call; a volume of 3 to 7 positions copied by blocks, 45 jobs, a failing call | one exposer; Completed and success are true; nothing is left behind; nobody waits for what does not come; what is saved is the volume |
| `datamove_live` | 1 node, a request of any kind, cancelled and deleted, a restart, an update that fails for good, fairness | a cancelled request ends, a deleted one disappears |
| `restore` | 1 restore of a volume, its claim and 2 pods with hooks, an asynchronous operation; one of: a failing call, a restart, a deletion, a pod that ends | Completed is true; claims find their volumes; nothing waits for ever |
| `upkeep` | three installations: a repository, a job, a caller; a schedule whose backups expire; a snapshot. Two of: a failing call, a deleted job, a restart | suspicion is not undone, one job, one backup per run, expired backups go; snapshots are kept and go |
| `items` | 2 pods with 2 claims in 22 clusters, 2 workers in one of them, an item that cannot be read or whose item block action fails in two each; one of: a call, hook or action that fails; time-outs at any moment; fairness | copies are of quiesced pods; data is accounted for; nothing is lost; the backup ends |

### Properties, with the hazard each is about

The queue:

* `NoConflictingActive` - backups with a common namespace are never both
  ReadyToStart or InProgress.
* `QueuePositions` - queued backups have distinct positive positions, active
  ones 0; `earlierThan` and the sort rely on it.
* `WithinLimit` - the limit, until a call fails or the server restarts.
* `PhasesGoForward` - no backup is run twice or revived.
* `StartsInOrder` - no overtaking between overlapping backups.
* `EveryBackupRuns` - liveness. `ImplementsAdmission` - refinement.

The life of a backup:

* `CompletedIsStored` - object and directory agree at the end, over four uploads
  by three controllers, any of which may fail or be cut off by a restart.
* `NoUnfinishedOperations`, `FailuresShowUndisturbed` - what the operations came to
  is what the phase says, although map, store and object are written separately;
  the latter while no call fails and the server does not restart, since otherwise
  it does not hold (`FailedOperationsShow`, section 4).
* `PhasesFollowDesign` - no controller undoes another's move.
* `SingleWriter`, `NothingLeftBehind` - no two controllers work on one directory;
  after a successful deletion, nothing is in the bucket.
* `StoredBackupsAppear`, `OrphansGo` - sync, next to everything that changes what
  it has listed; `OrphansGo` is of Completed objects (section 4 on the others). `BackupsEnd`, `RequestsEnd` - liveness.

Items:

* `QuiescedWhileCopied` - while a claim is copied, every running pod that mounts it
  is quiesced: also a pod other than the one that is backed up. Only if the claim or one of
  the two pods could not be read, or its item block action failed, may it not be: the code
  logs that and goes on (section 4). TLC finds the property violated when any of the three is
  not excused.
* `DataAccountedFor` - each claim's data is taken exactly as often as reported.
* `NothingLost` - without an error everything selected is in the archive,
  although items count as backed up before they are. `BackupEnds` - liveness.

Moving data:

* `OneExposer` - one node agent exposes a request, although all of them try.
* `CompletedIsMoved` - a completed request's data was moved, and for a restore the
  volume is bound to its claim and its storage exists.
* `NothingLeft` - without a restart no pod and no restore PVC survives a request.
* `SuccessIsMoved` - success is reported only of a volume moved as a whole, however
  result, cancellation and the end of the process interleave.
* `MoverGoesOn`, `BlockGoesOn` - the process, and the block job, wait for nothing
  that does not come; the former names the two cases in which they do (section 4).
* `SavedIsSource`, `RestoredIsSaved` - the block uploader copies faithfully,
  whatever the parent, the changed ranges and the order of the writes.
* `CancelEnds`, `DeletedDisappears` - liveness.

Restores: `CompletedIsTrue`, `ClaimsFindVolumes`, `NoneStuck`. Upkeep:
`ReadyIsCurrent`, `OneJobAtATime`, `OneBackupPerRun`, `ExpiredBackupsGo`, and
`SnapshotKept` (whoever gives up its objects, a snapshot that is needed stays) and
`SnapshotGone` (one that nobody needs goes).

`MoverGoesOn`, `BlockGoesOn` and `NoneStuck` say that a step is possible until the end is
reached. In these parts no step goes back except retries, which are bounded, so
that with weak fairness of the goroutines this is what termination needs, and it
is much cheaper to check than a liveness property over all the jobs.

### Bounds and why they suffice

The queue: three backups are the smallest set in which one is blocked by two
disjoint ones and can be overtaken. `MaxLag = 1` delays a write until the last
change has been delivered; the run with faults allows 2, so that a deletion can
overtake a worker. One fault and one restart suffice for a step to be lost
between any two others; every position of the fault is tried. Two backups that do
not overlap and one slot leave nothing but the tracker to hold the second back.

The lifecycle: one backup suffices for most questions, since the controllers
share nothing between backups but their workers. One operation may be running,
failed, out of time or done; the theorems of section 5 are about any number.
`LostReplies` is FALSE:
with it neither `PhasesFollowDesign` nor `SingleWriter` holds (section 4).
`BackupsEnd` promises nothing once a call has failed: the patch that takes a
backup out of InProgress is given up after a time limit, and the backup stays
InProgress until the next restart, which the code accepts. The instance with
deletions has no restart, for the tracker comes up empty, and a backup that is
being polled can then be deleted. A directory disappears in one step
(`EmptyDirectory`), as another server's deletion would make it.

Moving data: requests share only the limit on data paths; two nodes are what it
takes for two to want one request. One restart and rebinding that fails anywhere
cut every callback at every point. `Timely` is TRUE, since a worker held up for
minutes between two calls lets the cancel delay of another node clean up before
it exposes; the theorems of section 5 do without it where they can. The jobs of
the process are those that differ in a branch; the devices those with a whole, a
short, an unchanged and a zero block, with parents of the same, a smaller or
another volume. Two buffers and two asynchronous writes let the reader overtake
the writer and writes overtake each other.

`MCDataPaths` makes three bounds beyond its constants. What a part does not use starts
in one way only. `Alone`: a volume that is to get another mode is restored without
the second node, which would do there what it does for the other requests: accept, or
cancel. `NotBoth`: a restore to a claim of the same mode is
cancelled by a user or sees a restart, not both in one behaviour; the other kinds see
both. `MCUpkeep` starts the installations that do not use a part in one way too
(`MCInit`); `MaxMishaps = 2` is the smallest number with which a job can be lost sight
of and then vanish.

Restores: two pods, of which one mounts the claim, give one hook that fails and
one that continues, and additional items that refer back. `MaxMishaps = 1` is one
of everything that can go wrong. Upkeep: time to 2 for the repository and 4 for the
schedule, with two backups, one change of the location, two jobs; snapshots do not
look at the clock. The three use separate installations because their state is
separate: location and clock apart, no step of one is enabled or changed by
another. Items: the clusters are those in which a decision differs: who runs, who
is opted in, policy and driver, what is excluded or left out by an action, a hook
that fails, an item that cannot be read, an item block action that fails, two workers.

Deadlock is not checked where the system may stop: when the backups, requests,
restores or volumes of the instance are done, or when nothing is to be done any
more. It is checked in the runs of the queue, in `sync` and in
`failed_operation_forgotten`.

### Fairness

`FairSpec` of `BackupQueue` assumes: the informer delivers (`WF Deliver`); its resync
and the one-minute timer fire (`WF`); the controllers' workers take steps (calls
return or time out); a key in a work queue is taken at some point (`SF`: the queue
is first in, first out, but the worker is not always idle). Nothing is assumed
about users, faults or restarts. The resync matters: a backup left ReadyToStart
by a restart is started by nothing else.

`BackupLifecycle` assumes the same of its workers and events, and that the periodic
sources of the operations and sync controllers keep firing. Plugins may never
answer, but every operation has a time limit: when a backup is polled again and
again, some poll finds what still runs out of time (`SF` of `TimeIsUp`). The workers'
conditions are strong because a fresh read is not enabled while a change is in
flight.

`DataMovement`: workers, handlers, watchers, the resuming goroutine and watches go
on for every node and request, and pods make progress (`PodRuns`: the scheduler
finds a node and the data path ends). Restarts are bounded and not fair. `ItemBlocks`:
the main loop, the workers, the informer and the time-out go on; node agents only
end PVBs that were cancelled. `Upkeep`: only the garbage collection, the deletion
and the backups themselves go on, in the installation with the schedule.

## 4. Where code and documents differ

Shown by a run: a Completed backup has run without errors, says its type; the
error of an operation is dropped when it has been uploaded, and lost if the patch
that should record it fails or the server stops before it
(`failed_operation_forgotten`).

Seen with other values of the constants, and the reason why a property is checked
under a condition. Definitions named here that no run checks are kept in their
modules for this purpose.

The queue and the life of a backup:

* `FreshReads = FALSE` violates `NoConflictingActive`: with a cache one change behind
  two overlapping backups run (`backup_queue_controller.go:351`), which the design
  excludes (`design/Implemented/concurrent-backup-processing.md:9`, `:206`).
* `WithinLimit` fails after a restart: the in-memory count forgets the backups that
  are ReadyToStart. `NoTrackerLeak` and `RunningCountSettles` (what is counted runs, and
  is taken off again) hold in `queue` and `queue_live`, and fail when a backup is
  deleted while it is ReadyToStart: it stays counted.
* `OrderKept` and `StartedBackupsFinish` (a half-done renumbering keeps the order, a
  started backup ends) hold in the instances of `queue` and `queue_live`; the first
  follows from the proofs' `OrderInv`.
* With InProgress in `DeletableIn`, `SingleWriter` is violated: between its patch to
  InProgress and the tracker's `Add` (`backup_controller.go:328`) a backup can be
  deleted, although in-progress ones are to be refused
  (`backup_deletion_controller.go:168`). So it is after a restart, which empties the
  tracker, for a backup that is being polled.
* With two backups, one of them deleted, `BackupsEnd` is violated: the finalizer's
  deferred patch is retried for ever and blocks the only worker, as the time limit
  is dropped by the constructor (`backup_finalizer_controller.go:88`, comment `:274`).
* `EndedBackupsForgotten` is violated: `Delete` tells the tracker that a backup has
  ended, but a later deferred `AddPostProcessing` (`backup_controller.go:331`,
  `backup_tracker.go:34`) puts it back.
* `LostReplies = TRUE` violates `PhasesFollowDesign`: the patch out of InProgress is
  retried without looking at the phase, which another controller may have changed.
  With deletion requests the finalizer's patch may overwrite Deleting.
* Sync deletes the objects of PartiallyFailed backups whose directory is gone, too
  (`backup_sync_controller.go:367`; its test expects that,
  `backup_sync_controller_test.go:881-883`). The comment of the function says Completed
  (`:348-349`), and `how-velero-works.md:109-110` that Failed and PartiallyFailed backups are
  not removed. The model deletes what the code deletes; `OrphansGo` states only what code and
  documents agree on.
* Sync may delete the object of a backup that was finished while it listed;
  `StoredBackupsAppear` says that it comes back.

Items:

* When the list of the pods that use a claim fails (`pvc_action.go:119-121`) its other pods are
  not in its block: the claim is copied while they are not quiesced, and all there is is an
  error in the log (`backup.go:780-784`). The same happens when the file of the claim
  or of a pod cannot be read (`itemblock.go:52-63`). `backup-hooks.md:16` says without
  exception that the pods of a shared volume have their hooks run first.
  `QuiescedWhileCopied` names these cases through `Resolved`.
* A create of a PVB that is applied but whose reply is lost would be counted down at once and
  again when the PVB ends (`podvolume/backupper.go:376-383`), below zero if nothing else is
  counted: the panic that the comment at `:196-198` wants to avoid. The runs and `WaitsForEach`
  take a create that fails as not applied.
* `ClaimCopiedOnce` is violated with three pods and one claim: a pod that is not
  opted in comes first, and its entry in the tracker is not replaced when the claim
  is tracked and taken for the others, so that both copy it
  (`item_backupper.go:242-245`, `snapshot_tracker.go:81-99`). With two workers the check
  and the entry are two steps (`item_backupper.go:216-221`).
* `QuiescedPodsReleased` is violated with `Timely = TRUE`: the failed creation of one PVB
  makes the pod's others unknown to the wait, and the post hooks do not run
  (`podvolume/backupper.go:373-384`, `backup-hooks.md:17`). A pre hook that fails after one
  that has frozen the pod skips the post hooks as well.
* `CancelsFail = TRUE` violates `BackupEnds`: a PVB that is deleted, or whose cancelling
  update fails, is waited for for ever.

Moving data:

* `EveryRequestEnds` is violated: when rebinding fails a DataDownload stays InProgress
  (`data_download_controller.go:491`, `csi-snapshot-data-movement.md:360`). A crash in the
  middle of rebinding makes the next attempt read Retain as the original policy; the
  error path deletes a retained volume object and leaves its storage. `FinalStays`
  is proved (section 5); its exception is that an accepting node of a pod volume request
  may resurrect one that was canceled (`pod_volume_backup_controller.go:407`).
  `AcceptedGoesOn` holds on one node.
* `Timely = FALSE` violates `NothingLeft`: the cancel delay of another node cleans up
  before the accepting node exposes. So does a crash between the final write and
  `CleanUp`. A final write that fails leaves a request InProgress without a data path
  until it is cancelled. Resuming ignores the limit (`datapath/manager.go:64`,
  `node-agent-concurrency.md:19`). A running pod is not noticed after a restart until
  the prepare time-out (its create event is filtered).
* The process: the result channel has no buffer. When the main goroutine has taken
  the result of the cancelled context, the data path's own is never taken and closing
  waits for it until the pod is killed; so does a cancellation that comes before the
  data path exists. `MoverGoesOn` names both. A cancellation seen while the main goroutine
  still polls makes the process panic (the request fails instead of being canceled),
  as does one between creating and initialising the data path.
* Kopia's own uploader, when cancelled, returns an incomplete manifest without an
  error; that only the following flush, with a cancelled context, fails is an assumption
  (`FlushSnapshot`). `ChangeID` is assumed to name the parent's snapshot, as
  `design/Implemented/block-data-mover/block-data-mover.md` says.

CSI snapshots:

* `LeftoversStay = FALSE` violates `SnapshotKept`: when the patch to Retain fails in the
  finalization it is only logged (`volume_snapshot.go:676-690`), the VS stays, and a
  user who deletes it destroys the snapshot of a Completed backup
  (`site/content/docs/main/csi.md:121`).
* `missed` stands for calls that nobody repeats: a failed label patch
  (`volumesnapshot_action.go:197-204`) makes the deletion skip the VSC
  (`volumesnapshotcontent_action.go:74`); a failed annotation patch (`:213-220`) leaves VS
  and snapshot; a class with Retain and a failure or cancellation before the handoff
  leaves the snapshot (`csi-snapshot-data-movement.md:118`, `:121`).

Restores:

* `SeesOwnWrites = FALSE` violates `CompletedIsTrue`: a second pass of the finalizer over a
  stale copy turns PartiallyFailed into Completed (`restore_types.go:337`).
* A failed upload of the operations list is only logged, and the operations are
  forgotten; hook results are lost on a restart; the final patch is given up and the
  restore stays InProgress until a restart (`restore_controller.go:296-306`).
  `CompletedIsTrue` and `NoneStuck` name these through `lost`.
* A hook that fails in Continue mode cancels the hooks of other pods
  (`restore.go:2408-2425`, `restore-hooks.md:179`). An excluded volume leaves its claim with
  the name of a volume that will not exist (`restore.go:1813`). `NoItemTwice` holds and is
  what ends the recursion over additional items.

Upkeep:

* `Undisturbed = FALSE` violates `ReadyIsCurrent`: a reconciliation with an older copy
  patches Ready over a suspicion (`backup_repository_controller.go:140-165`, `:319-346`).
* `SubmissionsRecorded = FALSE` violates `OneBackupPerRun` (`schedule_controller.go:267-286`):
  a backup whose submission was not recorded is submitted again once it has run; the
  check for one in progress ignores Queued and ReadyToStart (`:228-252`).
* A deleted job is waited for for ever and blocks the only worker
  (`maintenance.go:119-154`); one long job blocks every other repository. A request left
  InProgress by a restart blocks garbage collection until it is removed after a day.

## 5. Proofs

The theorems hold for every value of the constants within the modules' `ASSUME`s, so for
any number of backups, nodes, requests, repositories, faults and restarts. A condition
besides is a hypothesis of the theorem and named below. All but `FinalPhaseStays`,
`ItemsOnce`, `WaitsForEach`, `AllEndAtLast` and `SkippedIsUncopied` state a property that a
run checks, or the invariant behind it; every inductive invariant was checked by TLC before it was proved.

| Theorem | States | Under |
|---|---|---|
| `TypeCorrect` | `[]TypeOK` of `BackupQueue` | |
| `Exclusion` | `[]NoConflictingActive` | `FreshReads` |
| `Forward` | `PhasesGoForward` | `FreshReads` |
| `Refinement` | `ImplementsAdmission` | `FreshReads` |
| `Positions`, `InOrder` | `[]QueuePositions`, `StartsInOrder` | `FreshReads` |
| `Limit` | `[]WithinLimit` | `FreshReads` |
| `TypeCorrect` (of `BackupLifecycle_proofs`) | `[]TypeOK` of `BackupLifecycle` | |
| `Design` | `PhasesFollowDesign` | `Undisturbed` (of the lifecycle) |
| `OperationsEnd` | `[]NoUnfinishedOperations` | `Undisturbed` |
| `CompletedBackupsStored` | `[]CompletedIsStored` | `Undisturbed`, `MayEmpty = {}` |
| `FailuresShow` | `[]FailuresShowUndisturbed` | `Undisturbed` |
| `OneWriter` | `[]SingleWriter` | `Orderly` |
| `GivenUpEmpty` | `NothingLeftBehind` | `Orderly` |
| `Success` | `[]SuccessIsMoved` | |
| `CompletedMoved`, `ExposedOnce` | `[]CompletedIsMoved`, `[]OneExposer` | |
| `FinalPhaseStays` | `FinalStays` | |
| `FinalIsClean` | `[]NothingLeft` | `Timely` |
| `SnapshotIsTheVolume` | `[]SavedIsSource` | |
| `RestoreIsTheSnapshot` | `[]RestoredIsSaved` | |
| `Kept` | `[]SnapshotKept` | `LeftoversStay` |
| `GoesAway` | `[]SnapshotGone` | |
| `OneAtATime` | `[]OneJobAtATime` | |
| `Current` | `[]ReadyIsCurrent` | `Undisturbed` (of `Upkeep`) |
| `OnePerRun` | `OneBackupPerRun` | `SubmissionsRecorded` |
| `TypeCorrect` (of `RestoreLifecycle_proofs`) | `[]TypeOK` of `RestoreLifecycle` | |
| `ItemsOnce` | `[]NoItemTwice` | |
| `VolumesAreFound` | `[]ClaimsFindVolumes` | `VolumesFollow` |
| `CompletedTellsTheTruth` | `[]CompletedIsTrue` | `SeesOwnWrites` |
| `TypeCorrect` (of `ItemBlocks_proofs`) | `[]TypeOK` of `ItemBlocks` | |
| `QuiescedThroughout` | `[]QuiescedWhileCopied` | |
| `NothingIsLost` | `[]NothingLost` | |
| `WaitsForEach` | `[](wg = Cardinality(Waited))` | |
| `AllEndAtLast` | `[](main.at = "done" => Waited = {})` | |
| `SkippedIsUncopied` | `[]Reported` | |
| `EachCopiedOnce` | `[]DataAccountedFor` | `Sole`, `Agreed` (of the cluster) |

### The queue (`BackupQueue_proofs`)

`NoConflictingActive` is not inductive: the worker decides in `ListForQueued` and
patches in `Dequeue`, with other steps in between. `ExclusionInv` says why that is
harmless. `CacheBehind`: for a key with no change in flight the cache is the API
server's object, else the last change in flight is, so that a fresh read is a true one.
`PosInv`: exactly the queued backups have a positive position, so that `EarlierThan`
includes every active backup. `DeciderInv`: between decision and patch the worker's
backup is still queued at the position read (or deleted) and no active backup overlaps
it, since only this worker makes backups ReadyToStart. `RenumberInv`: the backups to be
renumbered are still queued where the list had them, so that a renumbering patch revives
nothing. `WorkerInv`: the backup controller's workers move only their own backup, along
ReadyToStart, InProgress and after.

`StepEffect` then reduces every step of the queue to what it does to the objects: it
changes none, or one in a way that `MayBecome` lists, or is a restart. From that follow
that phases go forward and that each step is one of `BackupAdmission` or a stutter: the
initial states map to initial states, and the steps of the specification without fairness
map to steps (the abstract specification states none).

`OrderInv` is about the positions in the middle of a renumbering. `DistinctInv` alone is
not inductive: two patches could give the same position. `HandedOutInv` says that the
positions handed out so far are below the next one and the rest are not; `TodoInv`
that the list of those to renumber leaves none out; `BehindInv` that a new backup goes
behind all others; `AheadInv` that between decision and patch nothing ahead of the
worker's backup overlaps it.

`LimitInv` ties the tracker to what runs while no call has failed and the server has not
restarted (`Calm`; afterwards the limit does not hold, section 4): every active backup,
and every one that a worker is about to start, is tracked (`TrackedInv`); it is taken off
only when it is done (`LeavingInv`); nobody is at the backup the queue worker is about to
dequeue (`UntouchedInv`); the worker has seen room for one more (`CountInv`).

### The life of a backup (`BackupLifecycle_proofs`)

`Undisturbed` says that reads are fresh, that a patch reported as failed was not applied,
that nobody asks for a deletion and that nothing is synced from the store. Calls that
fail, restarts, objects that users delete under way, directories that are emptied,
downloads of operations and locations that go are all allowed. Each part is needed:
without the first two a controller patches a phase it does not know, and deletion and
sync put a backup outside the phases the design draws. `TypeCorrect` needs none of them.

The controllers share the objects, the store and the map of operations and take no lock.
`PhaseInv` says why that is harmless: a controller takes a backup in phases that no other
writes, so that from its read to its patch the phase stays (`WorkerInv`, `PollerInv`,
`DecisionInv`), or the backup is gone and the patch fails. `PhasesFollowDesign` follows
for each patch. The four invariants that rest on it are sorted by what they are about:

* `MapInv`: the map has something to tell only of a backup that still waits for its
  operations, or was given up. It is why a user's download of the operations, which
  writes to the store at any time, cannot disturb a backup that is being finalized.
* `OverInv`: once a controller has decided on a finalizing phase, no operation is left
  running in what it has recorded or is about to record. The poller writes no operations
  when it knows of none, so that the invariant has to say that then there are none in the
  store (`PollOver`). With `HonestInv`, that only operations that have completed are
  recorded so, it gives `NoUnfinishedOperations`.
* `StoredInv`: what the contents and the metadata are at each place of the upload and of
  the finalizer, in each phase. A finalization that fails halfway leaves the contents it
  has rewritten, so that a backup that is being finalized may have either.
* `TellInv`: while nothing has failed, a recorded failure shows in the phase, or the
  operations controller is about to patch it (`PhaseTells`).

The steps of each controller are reduced to what they do to the phases (`ReconcileMoves`,
`PollMoves`, `FinalizeMoves`, `UploadMoves`); an invariant then has one lemma for each
controller.

### Deletion (`BackupDeletion_proofs`)

`Orderly` allows requests to delete backups, and says that reads are fresh, that a patch
reported as failed was not applied, that nothing is synced, that the server does not
restart and that nobody asks to delete a backup that has not run yet. Without either of
the last two `SingleWriter` does not hold: the tracker comes up empty after a restart, and
a backup that is about to run is in the tracker only after it is InProgress (section 4).
Syncing is excluded because the invariant is about backups that have run here.

The deletion controller asks the tracker once, when it takes a request, and then reads,
marks and deletes in eight further steps. `TrackerInv` says why one question is enough:
the tracker has every backup that is uploaded, that waits for operations or finalization,
or that the operations controller or the finalizer holds - but for the finalizer's last
patch, which it makes after it has told the tracker (`FinalIsOut`), and which writes
nothing to the store. `DeleterInv` says that it stays enough: on a backup that is being
deleted nobody works, and it is in no phase in which somebody would take it. For that, a
backup must not run again (`PassedInv`: every request, and every worker but the backup
controller's, is about a backup that has run), and the backup controller's deferred
function must not take out of the tracker a backup that goes on (`LeaverInv`).
`SingleWriter` follows, since each pair of writers is excluded by `PassedInv`, `OneKey`
or `DeleterInv`.

`NothingLeftBehind` needs, besides, that nothing comes back into the directory after the
deletion controller has listed it (`LeftInv`: what is stored is on its list of objects
still to delete, unless an error has been seen, which keeps the backup). The one writer
that asks nobody is a user's download of the operations, which uploads what the map has to
tell. `UntoldInv` closes that gap: while the map has something to tell of a backup, or the
operations controller is about to put it there, the backup is in the tracker, so that it
is not being deleted; and `ToldInv`, that a backup is moved on to finalization only when
nothing is left to tell.

### The process in the pod (`DataPaths_proofs`)

`ServicesInv` joins the data path's goroutine, the main goroutine and the watcher.
`PathInv` says what has been done to the volume by the time the data path has come to
each of its steps; the one delicate conjunct is that the incomplete manifest a cancelled
uploader leaves is never flushed without an error, because a context that is cancelled
stays so. `MainInv`: only the main goroutine makes and starts the data path.
`SuccessInv`: whoever says that the volume was moved has it from the data path. The
assumption on jobs, `PathAssumption`, says that a block copy has no unreadable entries,
which only files have.

### Node agents (`DataPaths_proofs`)

`MovementInv` has seven conjuncts for each request. `ExposerInv`: a node about to expose
a request has it for itself, a data transfer because the exclusive update has accepted it,
a pod volume because it is at home there. `FreshInv`: until then there is no pod, no data
path and no volume. `TrackerInv`: only the node of the pod has a data path for a data
transfer. `VolumeInv`: the storage of a volume that is bound, or about to be, exists,
because a volume is released only when it is retained. `MovedInv`: nothing is completed,
or being rebound, that was not moved. `RestoredInv`: nobody touches the volume of a
completed DataDownload any more. `PodInv`: a pod that succeeded has moved its data. No
conjunct needs `Timely`: exposing twice and completing too much are excluded by the
exclusive update, not by delays that are long enough.

Steps are sorted by what they may disturb: `StepIsMove` splits `Next` into moves of one
request on one node; `MoveSame` says that other requests are left alone, `MoveKeeps` that
each move keeps the conjuncts of its own.

`NothingLeft` does need `Timely`, and that no node agent has restarted; `Tidy` says what
then holds between two steps of the agents. A pod is made only while a request is Accepted
(`AcceptedInv`): no other node ends the request under the hands of the node that exposes
it, because the delays have not expired, there is no pod yet whose failure could be seen,
and nobody has a data path or a failure to report (`HomeInv`, `FailingInv`). For a pod
volume request, which its node accepts with a retried update and could accept again from a
stale cache, `HomeInv` says that while the cache still shows it as new, or the node is
about to expose it, nothing has been made; `NewInv` that no cache goes back. Who writes an
outcome after a clean-up finds it still clean (`CleanedInv`); who writes one before it is
there to clean up (`CleaningInv`).

### Blocks (`BlockUploader_proofs`)

Both theorems hold for devices of any size, any block size, any number of buffers and of
asynchronous writes, whatever calls fail and whenever the context is cancelled. They rest
on `JobsAssumption`: a device is a function from its positions to 0 or 1, a restore has
the snapshot it restores, and the snapshots a job finds hold the volume they were made of
- which is what `SnapshotIsTheVolume` says of the backup that made them.

`Stage` says what holds at each stage of a job. Before the copying, `BackupCovered` and
`RestoreCovered`: what the bitmap leaves out is in the parent (or zero where there is
none), or on the device already. That is arithmetic about ranges, blocks and a last block
that is filled in part (`BitmapCovers`, `BackupBitmapCovers`, `SameBlock`): a backup skips
only whole blocks, and a fallback to the allocated ranges drops the parent. During the
copying, `QueueInv`: the blocks between reader and writer are in order, and none that is
neither written nor on its way is missing; it needs that the iterator goes through the
bitmap in order (`LeastIsFirst`). `CountInv` is why a writer that only counts the blocks
knows that all were written. `ObjInv`: the first entries of the object are those of the
volume, or their goroutine is still to write them, or an error is known; `FillTo` adds
only entries of blocks that the bitmap leaves out (`FilledRight`). `DestInv`: a position of the
device is as it should be, or its block is still to come, or it is among the zeros that
are put off, which are those of the source.

### Snapshots (`Upkeep_proofs`)

`SnapshotKept` depends on who may still destroy the snapshot, and `SnapshotGone` on who
still will. `StageInv` and `ContentInv` say which VSs and VSCs exist at each stage and
with which deletion policy; `TakenInv` what holds of the VSC that the backup made until it
is recorded or handed over; `KeptInv` that afterwards the storage has the snapshot and
nobody who releases the VSC destroys it (`TakenSafe`), or still holds both objects;
`GoneInv` that at the end of each path of removal somebody with a deletable VSC is bound
to release it. `Kept` needs `LeftoversStay`, without which it does not hold (section 4).

### Repositories (`Upkeep_proofs`)

`JobsInv`: of a repository's jobs only the youngest may run, and none when the worker is
about to start one; that needs `LatestLast`, that the window of `HistoryLimit` jobs which
the recall looks at includes the last. `CurrentInv`: while no change waits for its event,
what is Ready was connected with the location as it is; and what is being connected is
connected with it. It is preserved because a patch writes the phase only if the worker
changed it in its copy (`PatchedPhase`, `WritePhase`): the patches of a maintenance, made
from a copy that was Ready, do not undo a suspicion.

### Schedules (`Upkeep_proofs`)

`MadeInv`: every backup was made no later than the schedule's recorded last run, or than
the submission that is about to be recorded, and none of these is in the future. `DueAfter`
then says that whatever was submitted or skipped, the next run after it is over when
another backup is due; it rests on `RunsInOrder`, that a later instant has no earlier next
run.

### Restores (`RestoreLifecycle_proofs`)

`TypeCorrect` already needs `GoroutineInv` and `TrackerInv`, since the type of the hooks'
tracker says nothing of a goroutine that outlives its restore's items. `StackInv` is about
the calls of restoreItem inside one another: the items that are being restored are those
on the stack, each once, and only the topmost call is not waiting for its additional
items; `ItemsOnce` is its fourth part. `ClaimsInv` adds that a claim on the stack has yet
to ask for its volume, or has it. That needs `VolumesFollow`, what the claims' action
returns (`pkg/restore/actions/add_pv_from_pvc_action.go`).

`CompletedIsTrue` is the end of four invariants. `Phased`: each phase has one writer, and
what a controller has read of a restore that is its to move still holds, or the restore is
gone. `Errs`: a run that met an error shows in every later phase. `TruthInv`: what the map
and the list in the store record of an operation is true of it, and an operation that
runs is in both, so that Finalizing is reached when all have ended. `HookInv`: the hooks
of every pod that the restore created are in the tracker until the finalizer asks for
them; after it met no failure all have run. All need `SeesOwnWrites`: without it the
finalizer takes a restore a second time and finds the tracker empty (section 4).

### The items of a backup (`ItemBlocks_proofs`)

The theorems are about every number of pods, claims and workers and every cluster, while
the run looks at twenty-two clusters.

`QuiescedWhileCopied` spans the whole way of a pod. `LinkInv`: a running pod and a claim it
mounts, neither of them excluded, unread or with an item block action that failed, are in
the same block, also while that block grows,
where what is linked to an item of it is in it or in `todo`. `StartInv`: a pod whose block no
worker has taken has not been counted, quiesced or copied; hence the worker that takes
the block finds all its pods, runs the hooks of all of them, and no other worker has any
(`HookedInv`). `ToComeInv` and `FramesInv`: a PVB is created only by the worker that holds
the pod, before its items are done. `PVBInv` is then what the theorem needs: a PVB that
runs is one of a pod whose worker has yet to run the post hooks, which wait for it; or the
time was up and the hooks of all pods with its claim were given up, so that they stay
quiesced.

`NothingLost` holds although an item is counted before it is written. `CoverInv`: while no
error was logged, what has been seen is in the growing block, in a block sent, with a
worker, or in the archive; what is counted is in the archive or on a worker's stack past
the point where it was counted, so that a worker that passes it over leaves it to one that
has it. `LoopInv` says that the loop has seen every item it has passed, and `PendingInv`
that `pending` counts the blocks sent and the busy workers, so that nothing is on its way when
the loop has ended.

`GroupInv`: the group counts the PVBs that exist and whose end is not in the index. It
needs that the index never goes back from an end and that a PVB is created once
(`Fresh`), and gives `WaitsForEach`, that the group is never counted below zero, and
`AllEndAtLast`: a backup is not done before each of its PVBs has ended, timed out or not.

`DataAccountedFor` says two things, and they need different conditions. What is listed as
skipped is what has not been copied (`SkippedIsUncopied`): that holds of every cluster.
Copies and lists are written in different steps, by different workers, and a volume may
be skipped for one pod and taken for another; `AccountInv` says that while no error was
logged a volume is among those taken if its claim has a snapshot or a PVB, but for the PVBs of
a pod whose volumes are not done, and that a claim past its actions has its volume on one
of the lists, which it never leaves for neither.

That a claim is copied at most once (`EachCopiedOnce`) is not true of every cluster. Two workers
may both take a snapshot, since an item is looked up and counted in two steps; hence
`Sole`: the pool has one worker, as `DefaultItemBlockWorkerCount` in
`pkg/cmd/server/config/config.go` has it. And if a pod opts out of copying a claim that two
others opt in to, the tracker says "optedout" for good and both copy it; hence `Agreed`: of
the pods that share a claim at most one has it copied, or all have. Under these `OnceInv` is
inductive. The items on the stack are of increasing depth (`DepthInv`), so that none is there
twice and what one step finds not counted is not counted in the next. A snapshot is
taken by the claim's own action or by its volume's step, and only before it is past that;
it is not taken where a pod has the claim copied. A claim that is in the volumes of the pod
at work has no PVB yet, and one that has a PVB is "taken" once that pod's volumes are done,
if all pods have it copied. Both conditions hold in most of the run's clusters, and TLC has
checked both invariants there.

### What is only checked

Liveness properties, and anything with fairness or ENABLED (`MoverGoesOn`, `BlockGoesOn`,
`NoneStuck`): out of the prover's reach.
## 6. Plan

Every component with a protocol of its own has its module, and every safety invariant
that the runs check and that is within the prover's reach has its theorem. What is left:

1. How often a claim may be copied with several workers: a theorem that bounds its snapshots
   by the number of workers.
2. The components that are modelled in part (their notes in `PROJECT.json`).
## 7. Not modelled, and why

* Backups: log files and results, volume group snapshots, several storage locations,
  progress counters, metrics; collecting items from the API server and the tarball: they
  carry data through, or report. Namespaces selected by label (a hazard without a
  property): the queue's model compares one fixed set per backup.
* Plugins: the framework restarts a process that died and passes calls through. What a
  plugin answers is a choice of the module that calls it.
* Restores: resources other than pods, claims and volumes, merging with what is there,
  resource modifiers and mappings of names: transformations of single objects.
* Schedules and locations: parsing of cron expressions (a schedule is due at given
  ticks), the choice of the default location.
* Policies, includes and excludes: evaluated per object; their verdicts are inputs.
* Data movement: how pods are built, node affinity and load configuration, caching,
  deletion of snapshots that were moved, the legacy restic controller. Kopia's uploader
  and repository are external and modelled from how they are called.
* CSI: a failed reply of a call that was carried out, a snapshot that loses its
  readiness after it has a handle, a server that stops while it takes one; a second node
  that cleans up while the first exposes is left to `DataMovement`.
* Command line, installer, manifests, generated code: no protocol.

`PROJECT.json` says for every component what of it is modelled.
