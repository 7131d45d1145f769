SPECIFICATION FairSpec
\* Two forced modes of opposite power and a passive one.
CONSTANTS
    NoMode = NoMode
    Modes = {SelfUse, Discharge, GridCharge}
    Forced = {Discharge, GridCharge}
    Interval = 3
    Expiry = 5
    RevertAfter = 2
    MaxLag = 1
INVARIANTS
    
    NeverLapses
PROPERTIES
    KeepsPromise
    ForcedRecovers
