----------------------------- MODULE MCItemBlocks -----------------------------
(***************************************************************************)
(* Two pods, of which the first mounts both claims and the second may      *)
(* share the first claim, in the clusters in which a decision of the item  *)
(* backupper differs.                                                      *)
(***************************************************************************)
EXTENDS ItemBlocks

CONSTANTS p1, p2, c1, c2, v1, v2, w1, w2

MCBoundTo == c1 :> v1 @@ c2 :> v2
MCOrder == <<p1, p2, c1, c2, v1, v2>>

\* Both pods run, have hooks and are opted in.
Shared ==
    [mounts |-> p1 :> {c1, c2} @@ p2 :> {c1}, running |-> {p1, p2},
     hooks |-> p1 :> "ok" @@ p2 :> "ok", optIn |-> {p1, p2},
     policy |-> c1 :> "none" @@ c2 :> "none",
     driver |-> c1 :> "csi" @@ c2 :> "native",
     excluded |-> {}, omitted |-> {}, ordered |-> {}, unread |-> {},
     unlisted |-> {}, pool |-> {w1}]

\* Each pod has a claim, and only the first is opted in.
Apart == [Shared EXCEPT !.mounts = p1 :> {c1} @@ p2 :> {c2}, !.optIn = {p1}]

Mixed == [Shared EXCEPT !.optIn = {p1}]

\* With two workers the second has the items of the second pod.
MCClusters ==
    {[Shared EXCEPT !.running = {p1}], Mixed, [Shared EXCEPT !.optIn = {p2}],
     [Apart EXCEPT !.ordered = Item],
     [Apart EXCEPT !.pool = {w1, w2}, !.excluded = {c2}],
     [Apart EXCEPT !.hooks[p2] = "none"], [Mixed EXCEPT !.omitted = {c1}]}
    \cup {[Shared EXCEPT !.optIn = {}, !.driver[c1] = d] : d \in Drivers}
    \cup {[Mixed EXCEPT !.policy[c1] = y] : y \in {"fs", "snapshot", "skip"}}
    \cup {[Mixed EXCEPT !.hooks[p] = "fails"] : p \in Pod}
    \cup {[Mixed EXCEPT !.excluded = {i}] : i \in {p2, c1, v1}}
    \cup {[Mixed EXCEPT !.unread = {i}] : i \in {p2, c1}}
    \cup {[Mixed EXCEPT !.unlisted = {i}] : i \in {p1, c1}}
=============================================================================
