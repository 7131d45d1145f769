SPECIFICATION MCSpec
\* In the accounts a day is one hour of two quarter slots, and the second day is the first of a month.
CONSTANTS
    Ticks = 2
    Coarse = 2
    Import = Import
    Export = Export
    Dedicated = {Import, Export}
    WindowTick = 1
    Cutoff = 1
    Unit = 6
    MonthStarts = {1}
    NoShape = NoShape
    ErrorDays = 14
    MaxFaults = 2
    LastTick = 6
    EtaNum = 9
    EtaDen = 10
    MinSwing = 5
    NominalEps = 100
    Schema = 2
    TicksPerDay = 2
    LastMove = 4
    MaxWindow = 2
    EmitSwing = 10
    Purity = 15
    ResetEps = 50
    SocRange <- MCSoc
    Moves <- MCMoves
    Availability <- MCAvail
    BmsOffsets <- MCOffsets
    Packs <- MCPacks
    OldDisks <- MCOld
    MaxObs = 2
    MaxRestarts = 1
    SlotsPerDay = 4
    MinTrade = 5
    Keep = 9
    MinHistory = 2
    RankWindow = 3
    LastDay = 1
    Markets <- MCMarkets
    Trades <- MCTrades
    Weekend <- MCWeekend
    Holidays <- MCHoliday
    Histories <- MCHist
    Retention = 3
    LevelConfigs <- MCLevels
    HoursPerDay = 3
    StepsPerHour = 2
    WindowDays = 4
    MinDays = 3
    MinBucketDays = 2
    MinComplete = 80
    FloorPct = 15
    FallbackPct = 20
    Stub = 2
    HorizonSteps = 12
    LastDate = 5
    DayLoads <- MCLoads
    Charges <- MCCharges
    Subjects = {"accounts", "battery", "market", "house"}
INVARIANTS
    FrozenIsTrue
    BillIsTrue
    DaysSettleOnce
    EstimateTrue
    SignalsTrue
    RuntimeHonest
PROPERTIES
    SameClassPlainRank
CHECK_DEADLOCK FALSE
