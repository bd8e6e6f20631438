SPECIFICATION FairSpec

CONSTANTS
    p1 = p1
    p2 = p2
    c1 = c1
    c2 = c2
    v1 = v1
    v2 = v2
    w1 = w1
    w2 = w2
    Pod = {p1, p2}
    Claim = {c1, c2}
    Volume = {v1, v2}
    Worker = {w1, w2}
    BoundTo <- MCBoundTo
    Order <- MCOrder
    Clusters <- MCClusters
    Timely = FALSE
    CancelsFail = FALSE
    MaxMishaps = 1

INVARIANTS
    QuiescedWhileCopied
    DataAccountedFor
    NothingLost

PROPERTIES
    BackupEnds

CHECK_DEADLOCK FALSE
