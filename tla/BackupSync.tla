------------------------------ MODULE BackupSync ------------------------------
(***************************************************************************)
(* The sync controller (pkg/controller/backup_sync_controller.go): once a  *)
(* period, for a backup storage location, it lists the store and the       *)
(* cluster, creates the objects of the backups that are only in the store, *)
(* and then deletes those of finished backups that the store does not      *)
(* have.                                                                   *)
(***************************************************************************)
EXTENDS BackupStore

CONSTANT Syncing   \* TRUE: the location is available and synced

ASSUME SyncAssumption == Syncing \in BOOLEAN

VARIABLE sy   \* the worker

SyPc == {"idle", "cluster", "check", "create", "delete"}

\* Where it is, the backups it has found in the store, those it has still to
\* look at, and the object it is about to create.
SyAt(pc, listed, todo, key, phase) ==
    [pc |-> pc, listed |-> listed, todo |-> todo, key |-> key,
     phase |-> phase]

SyIdle == SyAt("idle", {}, {}, NoBackup, "New")

SyncTypeOK ==
    sy \in [pc : SyPc, listed : SUBSET Backup, todo : SUBSET Backup,
            key : Backup \cup {NoBackup},
            phase : {"New", "Completed", "PartiallyFailed", "Failed"}]

SyncInit == sy = SyIdle

\* Look at the next backup.
Skip(b) == sy' = SyAt("check", sy.listed, sy.todo \ {b}, NoBackup, "New")

-----------------------------------------------------------------------------
ListStore_NothingIfEmpty ==
    /\ Syncing
    /\ sy.pc = "idle"
    /\ sy' = IF ListBackups = {} THEN SyIdle
             ELSE SyAt("cluster", ListBackups, {}, NoBackup, "New")
    /\ UNCHANGED <<apiVars, store>>

\* List the store; an error ends the reconciliation.
ListStore ==
    /\ Syncing
    /\ sy.pc = "idle"
    /\ sy' = SyAt("cluster", ListBackups, {}, NoBackup, "New")
    /\ UNCHANGED <<apiVars, store>>

\* List the cluster; without an answer every listed backup is looked at.
ListCluster ==
    /\ sy.pc = "cluster"
    /\ \/ /\ CanRead
          /\ sy' = SyAt("check", sy.listed,
                        {b \in sy.listed : ~Exists(cache[b])}, NoBackup, "New")
          /\ UNCHANGED <<faults, store>>
       \/ /\ ReadError
          /\ sy' = SyAt("check", sy.listed, sy.listed, NoBackup, "New")
    /\ UNCHANGED <<api, watch, cache>>

\* Read the metadata of a backup: one that is finished is created as it is,
\* one that is not only if it has expired, for the garbage collector.
CheckStored_FailedSkipped(b) ==
    LET Create(phase) == sy' = SyAt("create", sy.listed, sy.todo, b, phase) IN
    /\ sy.pc = "check"
    /\ b \in sy.todo
    /\ IF store[b].meta \in {"Completed", "PartiallyFailed"}
       THEN Create(store[b].meta)
       ELSE Skip(b)
    /\ UNCHANGED <<apiVars, store>>

CheckStored(b) ==
    LET Create(phase) == sy' = SyAt("create", sy.listed, sy.todo, b, phase) IN
    /\ sy.pc = "check"
    /\ b \in sy.todo
    /\ \/ /\ store[b].meta \in {"Completed", "PartiallyFailed", "Failed"}
          /\ Create(store[b].meta)
          /\ UNCHANGED <<faults, store>>
       \/ /\ store[b].meta \in PostPhases
          /\ Create("PartiallyFailed") \/ Skip(b)
          /\ UNCHANGED <<faults, store>>
       \/ /\ store[b].meta = "none"
          /\ Skip(b)
          /\ UNCHANGED <<faults, store>>
       \/ /\ ReadError
          /\ Skip(b)
    /\ UNCHANGED <<api, watch, cache>>

\* Create the object, unless there is one by now.
CreateSynced ==
    LET b == sy.key
        synced == [phase |-> sy.phase, pos |-> 0]
    IN
    /\ sy.pc = "create"
    /\ \/ /\ ~Exists(api[b])
          /\ Store(b, synced)
          /\ UNCHANGED faults
       \/ /\ Exists(api[b])
          /\ UNCHANGED <<api, watch, faults>>
       \/ /\ faults < MaxFaults
          /\ faults' = faults + 1
          /\ UNCHANGED <<api, watch>>
    /\ Skip(b)
    /\ UNCHANGED <<cache, store>>

\* List the cluster again, for the orphans: the backups without a failure, or
\* with one in part, that the store did not have.
ListOrphans ==
    /\ sy.pc = "check"
    /\ sy.todo = {}
    /\ \/ /\ CanRead
          /\ sy' = SyAt("delete", sy.listed,
                        {b \in Backup \ sy.listed :
                            cache[b].phase \in {"Completed",
                                               "PartiallyFailed"}},
                        NoBackup, "New")
          /\ UNCHANGED <<faults, store>>
       \/ /\ ReadError
          /\ sy' = SyIdle
    /\ UNCHANGED <<api, watch, cache>>

\* Delete the object of one, whatever the answer.
DeleteOrphan(b) ==
    /\ sy.pc = "delete"
    /\ b \in sy.todo
    /\ PatchOk(b, Gone) \/ PatchError(b, Gone)
    /\ sy' = SyAt("delete", sy.listed, sy.todo \ {b}, NoBackup, "New")
    /\ UNCHANGED <<cache, store>>

Synced ==
    /\ sy.pc = "delete"
    /\ sy.todo = {}
    /\ sy' = SyIdle
    /\ UNCHANGED <<apiVars, store>>

Sync ==
    \/ ListStore
    \/ ListCluster
    \/ \E b \in Backup : CheckStored(b)
    \/ CreateSynced
    \/ ListOrphans
    \/ \E b \in Backup : DeleteOrphan(b)
    \/ Synced

=============================================================================
