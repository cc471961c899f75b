SPECIFICATION Spec
CONSTANTS
    Commands = {c1}
    Runs = {1, 2}
    None = None
    Empty = Empty
    Other = Other
    MaxListed = 2
    MaxFaults = 1
    MaxEdits = 0
SYMMETRY Symmetry
PROPERTY
    RollbackOwnFiles
