SPECIFICATION LearningSpec
CONSTANTS
    EtaNum = 9
    EtaDen = 10
    MinSwing = 5
    NominalEps = 100
    Schema = 2
    TicksPerDay = 2
    LastMove = 4
    MaxWindow = 2
    EmitSwing = 10
    Purity = 15
    ResetEps = 50
    SocRange <- MCSoc
    Moves <- MCMoves
    Availability <- MCAvail
    BmsOffsets <- MCOffsets
    Packs <- MCPacks
    OldDisks <- MCOld
    MaxObs = 2
    MaxRestarts = 1
    SlotsPerDay = 4
    MinTrade = 5
    Keep = 9
    MinHistory = 2
    RankWindow = 3
    LastDay = 1
    Markets <- MCMarkets
    Trades <- MCTrades
    Weekend <- MCWeekend
    Holidays <- MCHoliday
    Histories <- MCHist
    Retention = 3
    LevelConfigs <- MCLevels
    HoursPerDay = 3
    StepsPerHour = 2
    WindowDays = 4
    MinDays = 3
    MinBucketDays = 2
    MinComplete = 80
    FloorPct = 15
    FallbackPct = 20
    Stub = 2
    HorizonSteps = 12
    LastDate = 5
    DayLoads <- MCLoads
    Charges <- MCCharges
    Subjects = {"market"}
PROPERTIES
    SalesAreLearnt
CHECK_DEADLOCK FALSE
