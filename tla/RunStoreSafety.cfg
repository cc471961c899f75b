SPECIFICATION Spec
CONSTANTS
    Commands = {c1, c2}
    Runs = {1, 2}
    None = None
    Empty = Empty
    Other = Other
    MaxListed = 2
    MaxFaults = 1
    MaxEdits = 1
SYMMETRY Symmetry
INVARIANTS
    TypeOK
    EvidenceWhole
    OneProject
    FilesHaveRun
PROPERTY
    PlanFailsClosed
    RunsLive
