------------------------------- MODULE MCUpkeep -------------------------------
(***************************************************************************)
(* A small instance of Upkeep: one repository and one call for it, one     *)
(* schedule, and one snapshot, each in an installation of its own, for     *)
(* they share nothing but the location and the clock.                      *)
(***************************************************************************)
EXTENDS Upkeep

CONSTANTS r1, c1

MCWants == [c \in Callers |-> r1]
MCApart == {{"volumes"}, {"schedule"}, {"snapshots"}}
MCLastTick == [volumes |-> 2, schedule |-> 4, snapshots |-> 0]

\* What an installation does not use starts in one way only.
MCInit ==
    /\ Init
    /\ "schedule" \notin uses => ~schedule.paused /\ schedule.skip = "no"
    /\ "snapshots" \notin uses => order = CHOOSE o \in SnapshotOrder : TRUE

MCSpec == MCInit /\ [][Next]_vars /\ Fairness
=============================================================================
