--------------------------- MODULE RestoreRequests ---------------------------
(***************************************************************************)
(* The Restore objects of the API server, the cache the server's three     *)
(* restore controllers read them from, the backup they restore and the     *)
(* operations lists they keep in the object store.  A restore is a name,   *)
(* and every name is used once.                                            *)
(***************************************************************************)
EXTENDS Naturals, FiniteSets, Sequences

CONSTANTS
    Restores,       \* the restores a user creates
    Items,          \* the items of the backup
    MayDelete,      \* the restores a user may delete
    SeesOwnWrites,  \* TRUE: no controller takes a restore again before the
                    \* cache shows what that controller last wrote to it
    MaxMishaps,     \* how many of these happen: calls of the API server or
                    \* the store that fail, restarts, deletions, pods ending
    NoRestore

ASSUME RequestsAssumption ==
    /\ MayDelete \subseteq Restores
    /\ SeesOwnWrites \in BOOLEAN
    /\ MaxMishaps \in Nat
    /\ NoRestore \notin Restores

VARIABLES
    restores,  \* the objects
    seen,      \* the objects as the cache shows them
    unseen,    \* the controllers whose last write the cache does not show
    backup,    \* whether the backup is there
    lists,     \* the operations list of each restore in the object store
    progress,  \* the asynchronous operations, as their plugins know them
    mishaps    \* the failed calls, restarts, deletions and pods' ends so far

requestVars == <<restores, seen, unseen, backup, lists, progress, mishaps>>

WaitingPhases == {"WaitingForPluginOperations",
                  "WaitingForPluginOperationsPartiallyFailed"}

FinalizingPhases == {"Finalizing", "FinalizingPartiallyFailed"}

EndPhases == {"FailedValidation", "Completed", "PartiallyFailed", "Failed"}

\* "Absent": not created yet.  "Gone": deleted.
Phases == {"Absent", "New", "InProgress", "Gone"}
              \cup WaitingPhases \cup FinalizingPhases \cup EndPhases

Controllers == {"restore", "operations", "finalizer"}

\* An operations list: what is recorded of the operation of every item.
OpPhases == {"None", "InProgress", "Completed", "Failed"}

NoOperations == [i \in Items |-> "None"]

StillInProgress(list) == \E i \in Items : list[i] = "InProgress"

Object == [phase : Phases, deleting : BOOLEAN, finalizer : BOOLEAN]

RequestsTypeOK ==
    /\ restores \in [Restores -> Object]
    /\ seen \in [Restores -> Object]
    /\ unseen \in [Restores -> SUBSET Controllers]
    /\ backup \in {"usable", "gone"}
    /\ lists \in [Restores -> [Items -> OpPhases]]
    /\ progress \in [Restores -> [Items -> {"none", "running", "succeeded",
                                            "failed"}]]
    /\ mishaps \in 0 .. MaxMishaps

RequestsInit ==
    LET absent == [phase |-> "Absent", deleting |-> FALSE,
                   finalizer |-> FALSE]
    IN  /\ restores = [r \in Restores |-> absent]
        /\ seen = restores
        /\ unseen = [r \in Restores |-> {}]
        /\ backup = "usable"
        /\ lists = [r \in Restores |-> NoOperations]
        /\ progress = [r \in Restores |-> [i \in Items |-> "none"]]
        /\ mishaps = 0

Exists(r) == restores[r].phase \notin {"Absent", "Gone"}

Gone == [phase |-> "Gone", deleting |-> FALSE, finalizer |-> FALSE]

-----------------------------------------------------------------------------

(***************************************************************************)
(* What controllers do with a restore.                                     *)
(***************************************************************************)

\* A controller takes a restore with the phase the cache shows.
Reads(c, r, phases) ==
    /\ seen[r].phase \in phases
    /\ SeesOwnWrites => c \notin unseen[r]

\* A merge patch of the phase: it looks at no resource version, so it goes
\* on top of whatever the object has become; only a missing object fails it.
PatchPhase(c, r, phase) ==
    IF Exists(r) /\ restores[r].phase # phase
    THEN /\ restores' = [restores EXCEPT ![r].phase = phase]
         /\ unseen' = [unseen EXCEPT ![r] = @ \cup {c}]
    ELSE UNCHANGED <<restores, unseen>>

\* One more mishap: a call that fails, for instance.
Mishap ==
    /\ mishaps < MaxMishaps
    /\ mishaps' = mishaps + 1

-----------------------------------------------------------------------------

(***************************************************************************)
(* The cache, the user, the plugins, and the backup's own deletion.        *)
(***************************************************************************)
Deliver(r) ==
    /\ seen[r] # restores[r]
    /\ seen' = [seen EXCEPT ![r] = restores[r]]
    /\ unseen' = [unseen EXCEPT ![r] = {}]
    /\ UNCHANGED <<restores, backup, lists, progress, mishaps>>

Create(r) ==
    /\ restores[r].phase = "Absent"
    /\ restores' = [restores EXCEPT ![r].phase = "New"]
    /\ UNCHANGED <<seen, unseen, backup, lists, progress, mishaps>>

\* An object with a finalizer is only marked.
Delete(r) ==
    /\ r \in MayDelete
    /\ Exists(r)
    /\ ~restores[r].deleting
    /\ Mishap
    /\ restores' = [restores EXCEPT ![r] =
                        IF @.finalizer THEN [@ EXCEPT !.deleting = TRUE]
                        ELSE Gone]
    /\ UNCHANGED <<seen, unseen, backup, lists, progress>>

\* A plugin's operation ends, or is past its timeout and counts as failed.
OperationEnds(r, i) ==
    /\ progress[r][i] = "running"
    /\ \E end \in {"succeeded", "failed"} :
           progress' = [progress EXCEPT ![r][i] = end]
    /\ UNCHANGED <<restores, seen, unseen, backup, lists, mishaps>>

\* The backup is deleted by name; what the deletion does to its restores is
\* the user's Delete of each.
BackupGoes ==
    /\ backup = "usable"
    /\ backup' = "gone"
    /\ Mishap
    /\ UNCHANGED <<restores, seen, unseen, lists, progress>>
=============================================================================
