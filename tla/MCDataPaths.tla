---------------------------- MODULE MCDataPaths ----------------------------
(***************************************************************************)
(* The data path in small: a request on two nodes that is moved through    *)
(* the controllers (module DataMovement), the process in one pod (module   *)
(* MicroServices), and one volume that is copied block by block (module    *)
(* BlockUploader).  Every behaviour is one of these three; what belongs to *)
(* the other two stays as it is at the start.                              *)
(***************************************************************************)
EXTENDS MCDataMovement, MicroServices, BlockUploader

VARIABLE part   \* "requests", "process" or "blocks"

mcVars == <<vars, msVars, blockVars, part>>

-----------------------------------------------------------------------------
(***************************************************************************)
(* The processes: each kind of request, cancelled or its pod terminated,   *)
(* and a backup with entries that cannot be read.                          *)
(***************************************************************************)
AVolume == [kind |-> "DataUpload", uploader |-> "kopia", cancellable |-> FALSE,
            terminable |-> FALSE, entries |-> "good", forceFull |-> FALSE]

MCMoverJobs ==
    {[AVolume EXCEPT !.kind = k, !.cancellable = c, !.terminable = ~c] :
        k \in {"PodVolumeBackup", "PodVolumeRestore"}, c \in BOOLEAN}
    \cup {[AVolume EXCEPT !.kind = k, !.uploader = "block", !.cancellable = TRUE] :
              k \in {"DataUpload", "DataDownload"}}
    \cup {[AVolume EXCEPT !.entries = "unknown", !.forceFull = TRUE],
          [AVolume EXCEPT !.entries = "unreadable"]}

-----------------------------------------------------------------------------
(***************************************************************************)
(* The volumes copied by blocks: five positions or four, in blocks of two. *)
(***************************************************************************)
Dev(seq) == [p \in 0 .. Len(seq) - 1 |-> seq[p + 1]]

Tags(change, vol, requester, uploader) ==
    [change |-> change, volume |-> vol, requester |-> requester,
     uploader |-> uploader]

Good == Tags(TRUE, "v", TRUE, TRUE)

\* Tags of another volume, another uploader, or none.
OtherTags == {Tags(FALSE, "v", TRUE, TRUE), Tags(TRUE, "w", TRUE, TRUE),
              Tags(TRUE, "none", TRUE, TRUE), Tags(TRUE, "v", FALSE, TRUE),
              Tags(TRUE, "v", TRUE, FALSE)}

SnapOf(dev, tags, start, sized) ==
    [device |-> dev, object |-> ObjectOf(dev), tags |-> tags,
     start |-> start, sized |-> sized]

New == Dev(<<1, 0, 0, 0, 1>>)
Old == Dev(<<1, 0, 1, 1, 0>>)
Older == Dev(<<0, 1, 1, 0, 1>>)
Small == Dev(<<1, 1, 1>>)
Even == Dev(<<1, 0, 0, 1>>)
EvenOld == Dev(<<1, 0, 1, 1>>)
Large == Dev(<<1, 1, 1, 1, 1, 1, 1>>)
Sparse == Dev(<<0, 0, 0, 0, 1, 1, 0>>)

ABackup ==
    [kind |-> "backup", device |-> New, snaps |-> <<SnapOf(Old, Good, 1, TRUE)>>,
     given |-> 0, forceFull |-> FALSE, service |-> TRUE, named |-> TRUE,
     changedFails |-> FALSE, allocatedFails |-> FALSE, volume |-> "v",
     incremental |-> FALSE, cancellable |-> FALSE]

BackupJobs ==
    {[ABackup EXCEPT !.changedFails = c, !.allocatedFails = a] : c, a \in BOOLEAN}
    \cup {[ABackup EXCEPT !.cancellable = TRUE], [ABackup EXCEPT !.service = FALSE],
          [ABackup EXCEPT !.named = FALSE], [ABackup EXCEPT !.forceFull = TRUE],
          [ABackup EXCEPT !.volume = "none"],
          [ABackup EXCEPT !.snaps = <<SnapOf(Small, Good, 1, TRUE)>>],
          [ABackup EXCEPT !.device = Even],
          [ABackup EXCEPT !.device = Even,
                          !.snaps = <<SnapOf(EvenOld, Good, 1, TRUE)>>]}
    \cup {[ABackup EXCEPT !.snaps = <<SnapOf(Old, t, 1, TRUE)>>, !.given = g] :
              t \in OtherTags, g \in {0, 1}}
    \cup {[ABackup EXCEPT !.snaps = <<SnapOf(Old, Good, 2, TRUE),
                                       SnapOf(Older, Good, 1, TRUE)>>,
                           !.given = g] : g \in 0 .. 2}

ARestore == [ABackup EXCEPT !.kind = "restore", !.device = Old,
                            !.snaps = <<SnapOf(New, Good, 1, TRUE)>>]

RestoreJobs ==
    {[ARestore EXCEPT !.incremental = i, !.changedFails = c, !.cancellable = ~c] :
        i, c \in BOOLEAN}
    \cup {[ARestore EXCEPT !.incremental = TRUE, !.volume = v,
                            !.snaps = <<SnapOf(New, t, 1, TRUE)>>] :
              v \in {"v", "none"}, t \in {Good, Tags(FALSE, "v", TRUE, TRUE)}}
    \cup {[ARestore EXCEPT !.device = d, !.snaps = <<SnapOf(n, Good, 1, s)>>] :
              d \in {Even, Large}, n \in {New, Even, Sparse}, s \in BOOLEAN}

MCJobs == BackupJobs \cup RestoreJobs

-----------------------------------------------------------------------------
MCInit ==
    /\ Init /\ MicroServicesInit /\ BlockInit
    /\ \/ part = "requests"
       \/ part = "process"
       \/ part = "blocks"
    /\ part # "requests" => /\ kind = CHOOSE k \in KindsOf : TRUE
                            /\ \A r \in Requests : ~changesMode[r]
    /\ part # "process" => mover = CHOOSE j \in MoverJobs : TRUE
    /\ part # "blocks" => job = CHOOSE j \in Jobs : TRUE

\* A volume that gets another mode is restored without the second node, which
\* has no part in it but to accept or to cancel.
Alone ==
    (\E r \in Requests : changesMode[r]) =>
        /\ UNCHANGED <<work[n2], event[n2], tracker[n2], cache[n2]>>
        /\ \A r \in Requests : podNode'[r] # n2

\* The others are cancelled by a user, or a node agent restarts.
NotBoth ==
    \A r \in Requests : DataDownload(r) /\ ~changesMode[r] =>
        /\ restarts = MaxRestarts => ~User(r)
        /\ restarts' # restarts => ~req[r].cancel

MCNext ==
    \/ /\ part = "requests"
       /\ Next /\ Alone /\ NotBoth
       /\ UNCHANGED <<msVars, blockVars, part>>
    \/ part = "process" /\ MicroServicesNext /\ UNCHANGED <<vars, blockVars, part>>
    \/ part = "blocks" /\ BlockNext /\ UNCHANGED <<vars, msVars, part>>

MCSpec == MCInit /\ [][MCNext]_mcVars

=============================================================================
