SPECIFICATION FairSpec

CONSTANTS
    n1 = n1
    n2 = n2
    r1 = r1
    noNode = noNode
    None <- noNode
    Nodes <- MCOneNode
    Requests <- MCOneRequest
    KindsOf <- MCAnyKind
    HomesOf <- MCHome
    ConcurrentNum = 1
    Timely = TRUE
    MaxRestarts = 1
    MaxFaults = 1
    RebindMayFail = TRUE
    MayCancel <- MCOneRequest
    MayDelete <- MCOneRequest

PROPERTIES
    CancelEnds
    DeletedDisappears

CHECK_DEADLOCK FALSE
