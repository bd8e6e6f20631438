---------------------------- MODULE MCBackupQueue ----------------------------
(***************************************************************************)
(* Small instances of BackupQueue: three backups, of which the second      *)
(* shares a namespace with each of the others.                             *)
(***************************************************************************)
EXTENDS BackupQueue, TLC

CONSTANTS b1, b2, b3, n1, n2, n3

MCBackup == {b1, b2, b3}
MCNamespace == {n1, n2, n3}
MCNsOf == b1 :> {n1} @@ b2 :> {n1, n2} @@ b3 :> {n2}
MCOneOutcome == {"Finalizing"}
MCNone == {}

\* Two backups that share a namespace.
MCTwoBackups == {b1, b2}
MCTwoNsOf == b1 :> {n1} @@ b2 :> {n1, n2}

\* Two that do not.
MCTwoDisjointNsOf == b1 :> {n1} @@ b2 :> {n2}

=============================================================================
