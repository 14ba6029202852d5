SPECIFICATION FairSpec
CONSTANTS
    c1 = c1
    c2 = c2
    Callers = {c1, c2}
    Keys = {1, 2}
    Needs <- PairNeeds
    Skew <- PairSkew
    MaxSkew = 1
    None = None
    Orphan = Orphan
    Lease = 3
    Renew = 1
    Latency = 1
    MaxGap = 2
    Timeout = 6
    MayStall = FALSE
INVARIANTS
    HolderKeepsRow
    NoWaitCycle
    TimeoutMeansContention
PROPERTIES
    AcquireEnds
    MutexSpec
