SPECIFICATION FairSpec

CONSTANTS
    b1 = b1
    b2 = b2
    o1 = o1
    o2 = o2
    r1 = r1
    r2 = r2
    noKey = noKey
    Backup <- MCOneBackup
    Op <- MCOneOp
    Request <- MCOneRequest
    Target <- MCTarget
    DeletableIn <- MCRan
    MayDelete <- MCNone
    MayEmpty <- MCNone
    MayDownload <- MCNone
    Found <- MCNone
    NoBackup = noKey
    NoRequest = noKey
    FreshReads = TRUE
    MaxLag = 1
    LostReplies = FALSE
    MaxFaults = 1
    MaxRestarts = 0
    LocationMayGo = TRUE
    Syncing = FALSE
    RunOutcomes <- MCSomeOutcomes
    ConcurrentBackups = 1

INVARIANTS
    SingleWriter

PROPERTIES
    NothingLeftBehind
    RequestsEnd

CHECK_DEADLOCK FALSE
