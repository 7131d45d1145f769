SPECIFICATION FairSpec
\* Two forced modes of opposite power and a passive one.
CONSTANTS
    NoMode = NoMode
    Modes = {SelfUse, Discharge, GridCharge}
    Forced = {Discharge, GridCharge}
    Failsafe = 2
    LinkFails = TRUE
    Restarts = TRUE
INVARIANTS
    RepairsArmed
PROPERTIES
    KeepsPromise
    ForcedTakes
