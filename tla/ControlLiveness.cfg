SPECIFICATION FairSpec
CONSTANTS
    SelfUse = SelfUse
    Discharge = Discharge
    Unknown = Unknown
    reg = reg
    rc = rc
    lo = lo
    hi = hi
    NoMode = NoMode
    NoRead = NoRead
    Modes <- OneModes
    Overrides <- OneModes
    Targets <- OneTargets
    Points <- OnePoints
    Values <- MCValues
    InitialDelay = 1
    PollInterval = 1
    Window = 1
    DriftCycles = 2
    MaxLag = 0
    MaxLoad = 2
PROPERTIES
    VerifySettles
    WritesCease
    DriftIsRepaired
