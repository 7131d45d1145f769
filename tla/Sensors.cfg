SPECIFICATION MCSpec
CONSTANTS
    SelfUse = SelfUse
    Discharge = Discharge
    None = None
    Modes <- MCModes
    Passive <- MCPassive
    Exports <- MCExports
    Yields <- MCYields
    Threshold = 1
    Persist = 3
    ClearAfter = 2
    MaxGap = 1
    Cadence = 2
    Horizon = 7
    Home = Home
    Cabin = Cabin
    Installs <- MCInstalls
    Grace = 3
    RetryAfter = 2
    MaxReloads = 2
    CycleLength = 2
    Lag = 1
    Followed = 11
    Plants <- MCPlants
    Configs <- MCConfigs
    Frail = "grid_power"
    DayLength = 4
    Overlap = 2
    Pause = 1
    MaxAge = 8
    Kept = 7
    Span = 9
SYMMETRY MCSymmetry
INVARIANTS
    TracksExport
    OutageReported
    StreamsFaithful
    ReadingsTrue
PROPERTIES
    TripsOnExport
    ClearsOnQuiet
    ReloadsMeasured
CHECK_DEADLOCK FALSE
