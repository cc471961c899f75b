SPECIFICATION Spec
CONSTANTS
    Commands = {c1}
    Runs = {1, 2, 3}
    None = None
    Empty = Empty
    Other = Other
    MaxListed = 1
    MaxFaults = 1
    MaxEdits = 0
SYMMETRY Symmetry
PROPERTY
    PlanFailsClosed
