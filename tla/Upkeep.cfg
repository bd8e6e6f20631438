SPECIFICATION MCSpec

CONSTANTS
    MaxTime = 4
    MaxChanges = 1
    MaxMishaps = 2
    Undisturbed = TRUE
    r1 = r1
    c1 = c1
    NoRepo = NoRepo
    Repos = {r1}
    Frequency = 0
    MaxJobs = 2
    HistoryLimit = 1
    KeepJobs = 1
    Callers = {c1}
    Wants <- MCWants
    Period = 2
    TTL = 1
    MaxBackups = 2
    ServerSkips = TRUE
    SubmissionsRecorded = TRUE
    LeftoversStay = TRUE
    InUse <- MCApart
    LastTick <- MCLastTick

INVARIANTS
    ReadyIsCurrent
    OneJobAtATime
    SnapshotKept
    SnapshotGone

PROPERTIES
    OneBackupPerRun
    ExpiredBackupsGo

CHECK_DEADLOCK FALSE
