SPECIFICATION FairSpec
CONSTANTS
    Procs = {p1, p2, p3}
    Files = {f1, f2, f3}
    None = None
    UnlinkOpen = FALSE
    MaxFaults = 2
INVARIANTS
    TypeOK
    MutualExclusion
    TokenIntact
PROPERTIES
    IsExclusiveLock
    LockedMeansRunning
    LockEnds
