SPECIFICATION MCSpec

CONSTANTS
    n1 = n1
    n2 = n2
    r1 = r1
    noNode = noNode
    None <- noNode
    Nodes <- MCTwoNodes
    Requests <- MCOneRequest
    KindsOf <- MCAnyKind
    HomesOf <- MCHome
    ConcurrentNum = 1
    Timely = TRUE
    MaxRestarts = 1
    MaxFaults = 0
    RebindMayFail = TRUE
    MayCancel <- MCOneRequest
    MayDelete <- MCNobody
    MoverJobs <- MCMoverJobs
    MaxPathFaults = 1
    Jobs <- MCJobs
    BlockSize = 2
    Buffers = 2
    AsyncWrites = 2
    MaxBlockFaults = 1

INVARIANTS
    CompletedIsMoved
    NothingLeft
    OneExposer
    SuccessIsMoved
    MoverGoesOn
    SavedIsSource
    RestoredIsSaved
    BlockGoesOn

CHECK_DEADLOCK FALSE
