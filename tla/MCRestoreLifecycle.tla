--------------------------- MODULE MCRestoreLifecycle ---------------------------
(***************************************************************************)
(* Small instances of RestoreLifecycle: a backup of a volume, its claim    *)
(* and two pods, one of which mounts the claim.                            *)
(***************************************************************************)
EXTENDS RestoreLifecycle, TLC

CONSTANTS r1, r2, p1, p2, pvc, pv, noRestore, noItem

MCOneRestore == {r1}
MCTwoRestores == {r1, r2}
MCItems == {p1, p2, pvc, pv}
MCPods == {p1, p2}
MCHooks == (p1 :> <<"Fail", "Continue">>) @@ (p2 :> <<"Continue">>)
MCNone == {}
MCExtra == (p1 :> <<pvc>>) @@ (p2 :> <<>>) @@ (pvc :> <<pv, p1>>) @@ (pv :> <<>>)
MCClaim == {pvc}
MCFirstPod == {p1}
MCSecondPod == {p2}
MCVolume == {pv}
MCClaimOf == [i \in MCItems |-> IF i = pvc THEN pv ELSE noItem]
MCPriority == (pv :> 1) @@ (pvc :> 2) @@ (p1 :> 3) @@ (p2 :> 4)
=============================================================================
