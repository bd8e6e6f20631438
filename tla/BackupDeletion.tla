---------------------------- MODULE BackupDeletion ----------------------------
(***************************************************************************)
(* The backup deletion controller                                          *)
(* (pkg/controller/backup_deletion_controller.go).  A user, or the garbage *)
(* collector, creates a DeleteBackupRequest; the controller's one worker   *)
(* refuses it or deletes the backup's snapshots, its directory in the      *)
(* store and its object, in this order.  The requests are read from the    *)
(* API server: they are written by their creator and this worker only.     *)
(***************************************************************************)
EXTENDS BackupReconciler, BackupStore

CONSTANTS
    Request,       \* the DeleteBackupRequest objects
    Target,        \* the backup each one names
    DeletableIn,   \* the phases of a backup in which users ask to delete it
    NoRequest      \* no request: the worker is idle

ASSUME DeletionAssumption ==
    /\ IsFiniteSet(Request)
    /\ Target \in [Request -> Backup]
    /\ DeletableIn \subseteq Phases
    /\ NoRequest \notin Request

VARIABLES
    req,   \* the phase of each request
    bd     \* the worker

deletionVars == <<req, bd>>

RequestPhases == {"Absent", "New", "InProgress", "Processed", "Gone"}

BdPc == {"idle", "refuse", "get", "accept", "mark", "clean", "list",
         "objects", "backup", "finish", "sweep"}

Parts == {"meta", "contents", "ops"}

\* Where the worker is, the request, whether the backup it read was being
\* deleted already, the objects still to delete, and whether there was an
\* error that keeps the backup.
BdAt(pc, r, again, todo, errs) ==
    [pc |-> pc, req |-> r, again |-> again, todo |-> todo, errs |-> errs]

BdIdle == BdAt("idle", NoRequest, FALSE, {}, FALSE)

DeletionTypeOK ==
    /\ req \in [Request -> RequestPhases]
    /\ bd \in [pc : BdPc, req : Request \cup {NoRequest}, again : BOOLEAN,
               todo : SUBSET Parts, errs : BOOLEAN]

DeletionInit ==
    /\ req = [r \in Request |-> "Absent"]
    /\ bd = BdIdle

\* The worker goes on.
BdNext(pc, errs) == bd' = BdAt(pc, bd.req, bd.again, bd.todo, errs)

-----------------------------------------------------------------------------
\* A user asks for the backup to be deleted.
CreateRequest(r) ==
    /\ req[r] = "Absent"
    /\ api[Target[r]].phase \in DeletableIn
    /\ req' = [req EXCEPT ![r] = "New"]
    /\ UNCHANGED <<apiVars, reconcilerVars, store, bd>>

\* Patch the request that the worker handles.
RequestOk(phase) ==
    /\ req' = [req EXCEPT ![bd.req] = phase]
    /\ UNCHANGED faults

RequestError(phase) ==
    /\ faults < MaxFaults
    /\ faults' = faults + 1
    /\ req' \in {req, [req EXCEPT ![bd.req] = phase]}

\* Take a new request, delete the others for the same backup, and ask the
\* tracker whether the backup is in progress.
Others(r) ==
    {s \in Request \ {r} : Target[s] = Target[r] /\ req[s] # "Absent"}

WithoutRequests(gone) ==
    [s \in Request |-> IF s \in gone THEN "Gone" ELSE req[s]]

TakeRequest_PostIgnored(r) ==
    /\ bd.pc = "idle"
    /\ req[r] = "New"
    /\ req' = WithoutRequests(Others(r))
    /\ bd' = BdAt(IF Target[r] \in tracker.inProgress THEN "refuse" ELSE "get",
                  r, FALSE, {}, FALSE)
    /\ UNCHANGED <<apiVars, reconcilerVars, store>>

TakeRequest(r) ==
    /\ bd.pc = "idle"
    /\ req[r] = "New"
    /\ \/ /\ req' = WithoutRequests(Others(r))
          /\ bd' = BdAt(IF Contains(tracker, Target[r])
                        THEN "refuse" ELSE "get",
                        r, FALSE, {}, FALSE)
          /\ UNCHANGED <<faults, store>>
       \/ /\ ReadError
          /\ \E gone \in SUBSET Others(r) : req' = WithoutRequests(gone)
          /\ UNCHANGED bd
    /\ UNCHANGED <<api, watch, cache, reconcilerVars>>

\* Read the backup and its location, which refuses if it is missing,
\* read-only or unavailable; after an error the request is taken again.
GetBackup ==
    LET b == Target[bd.req] IN
    /\ bd.pc = "get"
    /\ \/ /\ CanRead
          /\ bd' = IF Exists(cache[b])
                   THEN BdAt("accept", bd.req, cache[b].phase = "Deleting",
                             {}, FALSE)
                   ELSE BdAt("refuse", bd.req, FALSE, {}, FALSE)
          /\ UNCHANGED <<faults, store>>
       \/ /\ ReadError
          /\ bd' = BdIdle \/ BdNext("refuse", FALSE)
    /\ UNCHANGED <<api, watch, cache, reconcilerVars, req>>

\* The request is Processed, with an error that says why; if the patch
\* fails, the request is taken again.
Refuse_Unwritten ==
    /\ bd.pc = "refuse"
    /\ bd' = BdIdle
    /\ UNCHANGED <<apiVars, reconcilerVars, store, req>>

Refuse ==
    /\ bd.pc = "refuse"
    /\ RequestOk("Processed") \/ RequestError("Processed")
    /\ bd' = BdIdle
    /\ UNCHANGED <<api, watch, cache, reconcilerVars, store>>

\* The request is InProgress.  A worker that comes upon such a request
\* skips it, so that it does not go on with one it has lost.
Accept ==
    /\ bd.pc = "accept"
    /\ \/ /\ RequestOk("InProgress")
          /\ BdNext("mark", FALSE)
       \/ /\ RequestError("InProgress")
          /\ bd' = BdIdle
    /\ UNCHANGED <<api, watch, cache, reconcilerVars, store>>

\* The backup is Deleting.
MarkDeleting ==
    LET b == Target[bd.req]
        deleting == IF bd.again THEN api[b]
                    ELSE [phase |-> "Deleting", pos |-> api[b].pos]
    IN
    /\ bd.pc = "mark"
    /\ \/ /\ PatchOk(b, deleting)
          /\ BdNext("clean", FALSE)
       \/ /\ PatchError(b, deleting)
          /\ BdNext("refuse", FALSE)
    /\ UNCHANGED <<cache, reconcilerVars, store, req>>

\* Delete the snapshots and whatever plugins have to delete: done, given up
\* at once, or done in part.
CleanUp ==
    /\ bd.pc = "clean"
    /\ \/ /\ BdNext("list", FALSE)
          /\ UNCHANGED <<faults, store>>
       \/ /\ ReadError
          /\ \/ BdNext("refuse", FALSE)
             \/ BdNext("finish", TRUE)
    /\ UNCHANGED <<api, watch, cache, reconcilerVars, req>>

\* List the objects of the directory and delete each of them, going on
\* after an error.
Stored(b) ==
    {part \in Parts :
        \/ part = "meta" /\ store[b].meta # "none"
        \/ part = "contents" /\ store[b].contents # "none"
        \/ part = "ops" /\ store[b].ops # NoOps}

Without(b, part) ==
    IF part = "meta" THEN WithMeta(b, "none")
    ELSE IF part = "contents" THEN WithContents(b, "none")
    ELSE WithOps(b, NoOps)

ListObjects ==
    /\ bd.pc = "list"
    /\ \/ /\ bd' = BdAt("objects", bd.req, bd.again, Stored(Target[bd.req]),
                        FALSE)
          /\ UNCHANGED <<faults, store>>
       \/ /\ ReadError
          /\ BdNext("finish", TRUE)
    /\ UNCHANGED <<api, watch, cache, reconcilerVars, req>>

DeleteObject_ErrorIgnored(part) ==
    LET b == Target[bd.req] IN
    /\ bd.pc = "objects"
    /\ part \in bd.todo
    /\ StoreOk(b, Without(b, part)) \/ StoreError(b, Without(b, part))
    /\ bd' = BdAt("objects", bd.req, bd.again, bd.todo \ {part}, bd.errs)
    /\ UNCHANGED <<api, watch, cache, reconcilerVars, req>>

DeleteObject(part) ==
    LET b == Target[bd.req]
        Go(errs) == bd' = BdAt("objects", bd.req, bd.again,
                               bd.todo \ {part}, errs)
    IN
    /\ bd.pc = "objects"
    /\ part \in bd.todo
    /\ \/ StoreOk(b, Without(b, part)) /\ Go(bd.errs)
       \/ StoreError(b, Without(b, part)) /\ Go(TRUE)
    /\ UNCHANGED <<api, watch, cache, reconcilerVars, req>>

\* Then the backup's restores.  Without any error, delete its object.
ObjectsDone ==
    /\ bd.pc = "objects"
    /\ bd.todo = {}
    /\ \/ /\ BdNext(IF bd.errs THEN "finish" ELSE "backup", bd.errs)
          /\ UNCHANGED <<faults, store>>
       \/ /\ ReadError
          /\ BdNext("finish", TRUE)
    /\ UNCHANGED <<api, watch, cache, reconcilerVars, req>>

DeleteBackup ==
    /\ bd.pc = "backup"
    /\ \/ /\ PatchOk(Target[bd.req], Gone)
          /\ BdNext("finish", FALSE)
       \/ /\ PatchError(Target[bd.req], Gone)
          /\ BdNext("finish", TRUE)
    /\ UNCHANGED <<cache, reconcilerVars, store, req>>

\* The request is Processed and, without an error, all the requests for the
\* backup are deleted.
Finish ==
    /\ bd.pc = "finish"
    /\ \/ /\ RequestOk("Processed")
          /\ IF bd.errs THEN bd' = BdIdle ELSE BdNext("sweep", FALSE)
       \/ /\ RequestError("Processed")
          /\ bd' = BdIdle
    /\ UNCHANGED <<api, watch, cache, reconcilerVars, store>>

Sweep ==
    LET swept == WithoutRequests(Others(bd.req) \cup {bd.req}) IN
    /\ bd.pc = "sweep"
    /\ \/ /\ req' = swept
          /\ UNCHANGED faults
       \/ /\ faults < MaxFaults
          /\ faults' = faults + 1
          /\ req' \in {req, swept}
    /\ bd' = BdIdle
    /\ UNCHANGED <<api, watch, cache, reconcilerVars, store>>

\* A request that has been taken before is deleted when it is a day old.
ExpireRequest(r) ==
    /\ bd.pc = "idle"
    /\ req[r] \in {"InProgress", "Processed"}
    /\ req' = [req EXCEPT ![r] = "Gone"]
    /\ UNCHANGED <<apiVars, reconcilerVars, store, bd>>

ReconcileDeletion ==
    \/ GetBackup
    \/ Refuse
    \/ Accept
    \/ MarkDeleting
    \/ CleanUp
    \/ ListObjects
    \/ \E part \in Parts : DeleteObject(part)
    \/ ObjectsDone
    \/ DeleteBackup
    \/ Finish
    \/ Sweep

=============================================================================
