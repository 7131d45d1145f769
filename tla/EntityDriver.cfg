SPECIFICATION Spec
CONSTANTS
    ExportCap = 3
    Rated = 5
    Charge = 4
    Discharge = 4
    Tight = 2
    Deadman = 3
    MaxFaults = 1
INVARIANTS
    SettledShows
    ForceFollowsMode
