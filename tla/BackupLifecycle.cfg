SPECIFICATION FairSpec

CONSTANTS
    b1 = b1
    b2 = b2
    o1 = o1
    o2 = o2
    r1 = r1
    r2 = r2
    noKey = noKey
    Backup <- MCOneBackup
    Op <- MCOneOp
    Request <- MCNone
    Target <- MCNoTarget
    DeletableIn <- MCNone
    MayDelete <- MCNone
    MayEmpty <- MCNone
    MayDownload <- MCOneBackup
    Found <- MCNone
    NoBackup = noKey
    NoRequest = noKey
    FreshReads = TRUE
    MaxLag = 2
    LostReplies = FALSE
    MaxFaults = 1
    MaxRestarts = 1
    LocationMayGo = FALSE
    Syncing = FALSE
    RunOutcomes <- MCRunOutcomes
    ConcurrentBackups = 1

INVARIANTS
    FailuresShowUndisturbed
    CompletedIsStored
    NoUnfinishedOperations

PROPERTIES
    PhasesFollowDesign
    BackupsEnd

CHECK_DEADLOCK FALSE
