----------------------------- MODULE BackupStore -----------------------------
(***************************************************************************)
(* The object storage bucket as the controllers use it                     *)
(* (pkg/persistence/object_store.go).  A backup is a directory of objects, *)
(* each written by a call of its own: the metadata (the backup as JSON,    *)
(* with the phase it then had), the contents (the tarball, rewritten when  *)
(* the backup is finalized) and the list of its asynchronous operations,   *)
(* which stands for the other lists too.  The log is left out.             *)
(***************************************************************************)
EXTENDS BackupApi

CONSTANTS
    Op,          \* the asynchronous operations plugins start for a backup
    Found,       \* the phases of the backups an earlier server, or that of
                 \* another cluster, may have left in the bucket
    NoBackup     \* no key: a worker is idle

ASSUME StoreAssumption ==
    /\ IsFiniteSet(Op)
    /\ Found \subseteq {"Completed", "PartiallyFailed", "Failed"}
    /\ NoBackup \notin Backup

VARIABLE store  \* the objects of each backup in the bucket

OpStatuses == {"new", "completed", "failed"}

NoOps == [o \in Op |-> "none"]

Operations == [Op -> OpStatuses]

Directory ==
    [meta : Phases \cup {"none"}, contents : {"none", "initial", "final"},
     ops : Operations \cup {NoOps}]

Empty == [meta |-> "none", contents |-> "none", ops |-> NoOps]

StoreTypeOK == store \in [Backup -> Directory]

StoreInit ==
    store \in [Backup ->
        {Empty} \cup [meta : Found, contents : {"initial"}, ops : {NoOps}]]

-----------------------------------------------------------------------------
\* The directory of b after one of its objects has been written or deleted.
WithMeta(b, phase) ==
    [meta |-> phase, contents |-> store[b].contents, ops |-> store[b].ops]

WithContents(b, contents) ==
    [meta |-> store[b].meta, contents |-> contents, ops |-> store[b].ops]

WithOps(b, ops) ==
    [meta |-> store[b].meta, contents |-> store[b].contents, ops |-> ops]

\* A call that the bucket applies and acknowledges.
StoreOk(b, dir) ==
    /\ store' = [store EXCEPT ![b] = dir]
    /\ UNCHANGED faults

\* A call that returns an error, whether or not the bucket has applied it.
StoreError(b, dir) ==
    /\ faults < MaxFaults
    /\ faults' = faults + 1
    /\ store' \in {store, [store EXCEPT ![b] = dir]}

\* A read that fails.
ReadError ==
    /\ faults < MaxFaults
    /\ faults' = faults + 1
    /\ UNCHANGED store

\* ListBackups lists the directories, BackupExists looks for the metadata.
ListBackups == {b \in Backup : store[b] # Empty}

BackupExists(b) == store[b].meta # "none"

=============================================================================
