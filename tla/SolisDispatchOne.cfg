SPECIFICATION Spec
\* Two forced modes of opposite power and a passive one.
CONSTANTS
    NoMode = NoMode
    Modes = {SelfUse, Discharge, GridCharge}
    Forced = {Discharge, GridCharge}
    Failsafe = 2
    LinkFails = FALSE
    Restarts = TRUE
INVARIANTS
    OneMechanism
