SPECIFICATION FairSpec
CONSTANTS
    NumPaths = 3
    Nested = {1, 3}
    Checked = {1, 2, 3}
    MaxFaults = 2
    MaxEdits = 1
INVARIANTS
    TypeOK
    WriteAhead
    ConflictNeedsUser
    RolledBackClean
    FinalizedWhole
    CleanAbort
PROPERTIES
    NeverOverwrite
    ManifestLast
    JournalForward
    KeepsPromise
    LivesLife
    CommandEnds
    Recovers
CHECK_DEADLOCK FALSE
