--------------------------- MODULE MCDataMovement ---------------------------
(***************************************************************************)
(* Small instances of DataMovement: one or two nodes, and one request of   *)
(* any kind.                                                               *)
(***************************************************************************)
EXTENDS DataMovement, TLC

CONSTANTS n1, n2, r1, noNode

MCOneNode == {n1}
MCTwoNodes == {n1, n2}
MCOneRequest == {r1}
MCNobody == {}
MCAnyKind == [{r1} -> Kinds]
MCDownload == [{r1} -> {"DataDownload"}]
MCHome == [{r1} -> {n1}]
=============================================================================
