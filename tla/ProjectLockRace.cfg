SPECIFICATION Spec
CONSTANTS
    Procs = {p1, p2, p3}
    Files = {f1, f2, f3, f4}
    None = None
    UnlinkOpen = TRUE
    MaxFaults = 0
INVARIANT
    MutualExclusion
