SPECIFICATION Spec
CONSTANTS
    Core <- MCCore
    Bridge <- MCBridge
    Manifests <- MCManifests
    Emitted <- MCEmitted
    Current <- MCCurrent
    None = None
    MaxEdits = 1
    MaxFaults = 1
INVARIANTS
    TypeOK
    AnalysedSeen
    AutomaticIsSafe
    StoppedForReason
    FittingPlanIsRight
