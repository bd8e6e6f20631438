SPECIFICATION Spec

CONSTANTS
    r1 = r1
    r2 = r2
    p1 = p1
    p2 = p2
    pvc = pvc
    pv = pv
    noRestore = noRestore
    noItem = noItem
    NoRestore <- noRestore
    NoItem <- noItem
    Restores <- MCOneRestore
    Items <- MCItems
    MayDelete <- MCOneRestore
    SeesOwnWrites = TRUE
    MaxMishaps = 1
    Pods <- MCPods
    HooksOf <- MCHooks
    WaitsLimited <- MCSecondPod
    NoContainer <- MCNone
    Extra <- MCExtra
    Asynchronous <- MCClaim
    Excluded <- MCNone
    InCluster <- MCSecondPod
    HasVolume <- MCFirstPod
    Reprovision <- MCVolume
    ClaimOf <- MCClaimOf
    Priority <- MCPriority

INVARIANTS
    CompletedIsTrue
    ClaimsFindVolumes
    NoneStuck

CHECK_DEADLOCK FALSE
