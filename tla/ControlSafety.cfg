SPECIFICATION Spec
CONSTANTS
    SelfUse = SelfUse
    Discharge = Discharge
    Unknown = Unknown
    reg = reg
    rc = rc
    lo = lo
    hi = hi
    NoMode = NoMode
    NoRead = NoRead
    Modes <- MCModes
    Overrides <- NoOverride
    Targets <- MCTargets
    Points <- MCPoints
    Values <- MCValues
    InitialDelay = 1
    PollInterval = 1
    Window = 1
    DriftCycles = 2
    MaxLag = 1
    MaxLoad = 2
INVARIANTS
    Lockstep
    PendingIsWatched
PROPERTIES
    GivesUpAfterRetry
    OkNeedsEvidence
