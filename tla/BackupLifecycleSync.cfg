SPECIFICATION FairSpec

CONSTANTS
    b1 = b1
    b2 = b2
    o1 = o1
    o2 = o2
    r1 = r1
    r2 = r2
    noKey = noKey
    Backup <- MCOneBackup
    Op <- MCNone
    Request <- MCNone
    Target <- MCNoTarget
    DeletableIn <- MCRan
    MayDelete <- MCOneBackup
    MayEmpty <- MCOneBackup
    MayDownload <- MCNone
    Found <- MCFound
    NoBackup = noKey
    NoRequest = noKey
    FreshReads = TRUE
    MaxLag = 2
    LostReplies = FALSE
    MaxFaults = 1
    MaxRestarts = 0
    LocationMayGo = FALSE
    Syncing = TRUE
    RunOutcomes <- MCSyncedOutcomes
    ConcurrentBackups = 1

PROPERTIES
    StoredBackupsAppear
    OrphansGo
