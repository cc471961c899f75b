SPECIFICATION Spec
CONSTANTS
    Commands = {c1, c2}
    Branches = {b1, b2}
    TaskIDs = {t1, t2, t3}
    Specs = {s1}
    PlanIDs = {i1, i2}
    None = None
    Stranger = Stranger
    MaxDrafts = 1
    MaxFaults = 2
    MaxEdits = 1
SYMMETRY Symmetry
INVARIANTS
    TypeOK
    UniqueTasks
    AnswerStored
    WholeDrafts
PROPERTIES
    RecordsImmutable
    ResumeUnlessDamaged
