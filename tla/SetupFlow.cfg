SPECIFICATION Spec
CONSTANTS
    VatUnit = 10
    Platforms <- MCPlatforms
    Solis = "solis"
    Kinds <- MCKinds
    Writable = {"setpoint"}
    Telemetry = {"soc"}
    Counters = {"import_today"}
    HandRoles <- MCHandRoles
    SourceSpecs <- MCSourceSpecs
    ByHandId <- MCByHandId
    NoEntity = ""
    Rejected = {"kostal"}
    VendorIds = {"s1", "s2", "h1"}
    PlatformOf <- MCPlatformOf
    Entities <- MCEntities
    PriceSensors <- MCPriceSensors
    DefaultSource0 = "nordpool"
    Batteries = {"bms", "s1"}
    BatteryForms <- MCBatteryForms
    FormulaForms <- MCFormulaForms
    FeeForms <- MCFeeForms
    ScheduleForms <- MCScheduleForms
    FeedForms <- MCFeedForms
    LevelForms <- MCLevelForms
    ForecastForms <- MCForecastForms
    HandPicks = {"meter"}
    Installed <- MCInstalled
    Present <- MCPresent
    MaxForms = 3
    MaxSaves = 1
    MaxChanges = 1
INVARIANTS
    EntryServes
    RolesBound
PROPERTIES
    SavesMeant
CHECK_DEADLOCK FALSE
