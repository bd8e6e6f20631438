SPECIFICATION Spec
CONSTANTS
    b1 = b1
    b2 = b2
    b3 = b3
    n1 = n1
    n2 = n2
    n3 = n3
    Backup <- MCTwoBackups
    Namespace <- MCNamespace
    NsOf <- MCTwoNsOf
    FreshReads = TRUE
    MaxLag = 2
    LostReplies = TRUE
    MaxFaults = 1
    ConcurrentBackups = 2
    RunOutcomes <- MCOneOutcome
    MayDelete <- MCTwoBackups
    MaxRestarts = 1
    NoBackup = NoBackup
PROPERTIES
    PhasesGoForward
    ImplementsAdmission
