SPECIFICATION PlanSpec
CONSTANTS
    Loss = 4
    Leg = 2
    VatUnit = 1
    Hours = 2
    Wear = 2
    Tilt = 50
    Discount = 80
    Now = 1
    Buckets = 5
    Nearly = 0
    Requests <- Calls
    Spots <- MCSpots
    Suns <- MCSuns
    Charges = {2, 8, 12, 20}
    Settings = 6
INVARIANTS
    PlanHolds
    ExportPays
    PlanIsBest
CHECK_DEADLOCK FALSE
