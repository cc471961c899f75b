SPECIFICATION Spec
CONSTANTS
    Order <- MCOrder
    Dir <- MCDir
    Root = "."
    Fold <- MCFold
    Core <- MCCore
    Bridges <- MCBridges
    Harmless <- MCHarmless
    Contents <- MCContents
    Says <- MCSays
    Branches <- MCBranches
    BranchKey <- MCBranchKey
    Reserved <- MCReserved
    Worlds <- MCWorlds
    GitStates <- MCGitStates
    Nodes <- MCNodes
    Jobs <- MCJobs
    None = None
    MaxEdits = 1
    MaxFaults = 1
INVARIANTS
    TypeOK
    FittingPlanIsFree
    FittingReviewIsRight
    FailsClosed
