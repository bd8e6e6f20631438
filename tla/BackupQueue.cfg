SPECIFICATION Spec
CONSTANTS
    b1 = b1
    b2 = b2
    b3 = b3
    n1 = n1
    n2 = n2
    n3 = n3
    Backup <- MCBackup
    Namespace <- MCNamespace
    NsOf <- MCNsOf
    FreshReads = TRUE
    MaxLag = 1
    LostReplies = TRUE
    MaxFaults = 0
    ConcurrentBackups = 2
    RunOutcomes <- MCOneOutcome
    MayDelete <- MCNone
    MaxRestarts = 1
    NoBackup = NoBackup
INVARIANTS
    NoConflictingActive
    QueuePositions
PROPERTIES
    StartsInOrder
