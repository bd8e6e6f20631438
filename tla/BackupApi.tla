------------------------------ MODULE BackupApi ------------------------------
(***************************************************************************)
(* The Backup custom resources as the controllers see them.  The           *)
(* Kubernetes API server holds the authoritative objects (api); it streams *)
(* their changes, in order, to the manager's informer (watch), which keeps *)
(* the cache that every controller's Get and List reads (cache).  Writes   *)
(* go to the API server as JSON merge patches that carry only the fields   *)
(* the controller changed and no resource version: a patch computed from a *)
(* stale read is applied like any other (pkg/util/kube/client.go).         *)
(*                                                                         *)
(* The API server and the informer are external to the repository; what is *)
(* modelled of them is what the controllers rely on.                       *)
(***************************************************************************)
EXTENDS Naturals, Sequences, FiniteSets

CONSTANTS
    Backup,        \* the names of the Backup objects users create
    FreshReads,    \* TRUE: a controller reads the cache only once the cache
                   \* has caught up with every write; FALSE: it may lag
    MaxLag,        \* bound: changes the cache may be behind the API server
    LostReplies,   \* TRUE: a patch may be applied and its reply be lost
    MaxFaults      \* bound: calls whose request or reply is lost

ASSUME ApiAssumption ==
    /\ IsFiniteSet(Backup)
    /\ FreshReads \in BOOLEAN
    /\ LostReplies \in BOOLEAN
    /\ MaxLag \in Nat \ {0}
    /\ MaxFaults \in Nat

VARIABLES
    api,      \* the objects at the API server
    watch,    \* their changes the informer has not applied yet, oldest first
    cache,    \* the informer's copy of the objects
    faults    \* calls that have failed so far

apiVars == <<api, watch, cache, faults>>

PostPhases == {"WaitingForPluginOperations",
               "WaitingForPluginOperationsPartiallyFailed",
               "Finalizing", "FinalizingPartiallyFailed"}

TerminalPhases == {"Completed", "PartiallyFailed", "Failed",
                   "FailedValidation"}

Phases == {"New", "Queued", "ReadyToStart", "InProgress", "Deleting"}
              \cup PostPhases \cup TerminalPhases

\* "Absent" and "Gone" stand for an object not created yet and one deleted.
Object == [phase : Phases \cup {"Absent", "Gone"}, pos : Nat]

Absent == [phase |-> "Absent", pos |-> 0]
Gone == [phase |-> "Gone", pos |-> 0]

Exists(o) == o.phase \notin {"Absent", "Gone"}

Change == [key : Backup, obj : Object]

ApiTypeOK ==
    /\ api \in [Backup -> Object]
    /\ cache \in [Backup -> Object]
    /\ watch \in Seq(Change)
    /\ faults \in 0 .. MaxFaults

ApiInit ==
    /\ api = [b \in Backup |-> Absent]
    /\ cache = api
    /\ watch = <<>>
    /\ faults = 0

-----------------------------------------------------------------------------
(***************************************************************************)
(* Reads.                                                                  *)
(***************************************************************************)

\* A read of the cache may be served now.
CanRead == FreshReads => watch = <<>>

-----------------------------------------------------------------------------
(***************************************************************************)
(* Writes.                                                                 *)
(***************************************************************************)

\* The API server stores o under b and tells the informer if that changed
\* anything.  The bound on the lag delays a write, it never drops one.
Store(b, o) ==
    /\ api' = [api EXCEPT ![b] = o]
    /\ IF o = api[b]
       THEN watch' = watch
       ELSE /\ Len(watch) < MaxLag
            /\ watch' = Append(watch, [key |-> b, obj |-> o])

\* A patch that the API server applies and acknowledges.
PatchOk(b, o) ==
    /\ Exists(api[b])
    /\ Store(b, o)
    /\ UNCHANGED faults

\* A patch for which the caller gets an error: the object is gone, the
\* request was lost, or the request was applied and the reply was lost.
PatchError(b, o) ==
    \/ /\ ~Exists(api[b])
       /\ UNCHANGED <<api, watch, faults>>
    \/ /\ faults < MaxFaults
       /\ faults' = faults + 1
       /\ UNCHANGED <<api, watch>>
    \/ /\ LostReplies
       /\ faults < MaxFaults
       /\ faults' = faults + 1
       /\ Exists(api[b])
       /\ Store(b, o)

=============================================================================
