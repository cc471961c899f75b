SPECIFICATION Spec
CONSTANTS
    NumPaths = 3
    Nested = {1, 3}
    Checked = {1, 2, 3}
    MaxFaults = 2
    MaxEdits = 1
PROPERTY
    OnlyMatchedRemoved
CHECK_DEADLOCK FALSE
