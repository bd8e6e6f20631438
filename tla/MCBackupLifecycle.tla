-------------------------- MODULE MCBackupLifecycle --------------------------
(***************************************************************************)
(* Small instances of BackupLifecycle: one backup, with or without an       *)
(* asynchronous operation and a request to delete it.                      *)
(***************************************************************************)
EXTENDS BackupLifecycle, TLC

CONSTANTS b1, b2, o1, o2, r1, r2, noKey

MCOneBackup == {b1}
MCOneOp == {o1}
MCOneRequest == {r1}
MCTarget == r1 :> b1
MCNoTarget == <<>>
MCNone == {}
MCFound == {"Completed"}
MCRunOutcomes == PostPhases \cup {"Failed"}
MCSomeOutcomes == {"WaitingForPluginOperations", "Finalizing", "Failed"}
MCSyncedOutcomes == {"Finalizing", "Failed"}

\* Users ask to delete a backup that has run.
MCRan == PostPhases \cup TerminalPhases \cup {"Deleting"}

=============================================================================
