--------------------------- MODULE BackupAdmission ---------------------------
(***************************************************************************)
(* What the queue promises the users of the server (design/Implemented/    *)
(* concurrent-backup-processing.md): a backup that is submitted waits      *)
(* until no running backup includes one of its namespaces, runs once and   *)
(* is over.  How the controllers get there, with their work queues, caches *)
(* and queue positions, is not its concern: BackupQueue implements it.     *)
(***************************************************************************)
CONSTANTS
    Backup,   \* the backups
    NsOf      \* the namespaces each of them includes

VARIABLE stage   \* where each backup is in its life

StageTypeOK == stage \in [Backup -> {"absent", "waiting", "running", "over"}]

StageInit == stage = [b \in Backup |-> "absent"]

Submit(b) ==
    /\ stage[b] = "absent"
    /\ stage' = [stage EXCEPT ![b] = "waiting"]

\* A waiting backup is let in when nothing that runs shares a namespace.
LetIn(b) ==
    /\ stage[b] = "waiting"
    /\ \A r \in Backup \ {b} :
          stage[r] = "running" => NsOf[b] \cap NsOf[r] = {}
    /\ stage' = [stage EXCEPT ![b] = "running"]

\* Running backups end, or waiting or running ones are deleted: several at
\* once when the server restarts.
Leave(S) ==
    /\ \A b \in S : stage[b] \in {"waiting", "running"}
    /\ stage' = [b \in Backup |-> IF b \in S THEN "over" ELSE stage[b]]

StageNext ==
    \/ \E b \in Backup : Submit(b) \/ LetIn(b)
    \/ \E S \in SUBSET Backup : Leave(S)

StageSpec == StageInit /\ [][StageNext]_stage

=============================================================================
