SPECIFICATION Spec
CONSTANTS
    Commands = {c1}
    Branches = {b1, b2}
    TaskIDs = {t1, t2}
    Specs = {s1}
    PlanIDs = {i1, i2}
    None = None
    Stranger = Stranger
    MaxDrafts = 1
    MaxFaults = 0
    MaxEdits = 0
SYMMETRY Symmetry
PROPERTY
    Reusable
