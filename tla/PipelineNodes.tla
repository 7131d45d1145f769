------------------------------ MODULE PipelineNodes ------------------------------
(***************************************************************************)
(* The computation nodes the coordinator builds (pipeline/nodes/, registered *)
(* in coordinator.py, async_setup): what each deposits, the types that gate   *)
(* it, and those it only reads after their producers.  The arithmetic of a    *)
(* node is modelled in the module of the function it wraps, where there is    *)
(* one; reads that neither gate nor order a node are left out.  The sample    *)
(* histories of the translators of one step are one type.                     *)
(***************************************************************************)
EXTENDS TLC

Node(output, consumes)        == [output |-> output, consumes |-> consumes, optional |-> {}]
Late(output, consumes, after) == [output |-> output, consumes |-> consumes, optional |-> after]

Sources == [
    Pricing         |-> Node("PriceSeries", {"PriceFeedData", "YesterdayPrices"}),
    BatteryState    |-> Node("BatteryState", {"BatteryReading", "EstimatedCapacity"}),
    BatteryStatus   |-> Node("BatteryStatus", {"BatteryReading"}),
    BaseLoadProfile |-> Node("BaseLoadProfile", {"ConsumptionDailyBuckets"})]

Forward == [
    PriceLevel     |-> Node("PriceLevelSeries", {"PriceSeries"}),
    Generation     |-> Node("GenerationSeries", {"SolarData", "PriceSeries"}),
    Degradation    |-> Node("DegradationCost", {"BatteryState"}),
    BatteryRuntime |-> Node("BatteryRuntimeEstimate", {"BatteryStatus", "BaseLoadProfile"})]

Observed == [
    ObservedGeneration  |-> Node("ObservedGenerationSeries",
                                 {"SampleHistories", "PriceSeries", "BakedObservedHistory"}),
    ObservedGrid        |-> Node("ObservedGridSeries",
                                 {"SampleHistories", "PriceSeries", "BakedObservedHistory"}),
    ObservedConsumption |-> Node("ObservedConsumptionSeries",
                                 {"DerivedPowerHistory", "PriceSeries", "BakedObservedHistory"}),
    ObservedLosses      |-> Node("ObservedLossesSeries",
                                 {"DerivedPowerHistory", "PriceSeries", "BakedObservedHistory"}),
    Profitability       |-> Node("ProfitabilityScore", {"PriceSeries", "PriceHistory"})]

Accounts == [
    ForecastAccuracy |-> Node("ForecastAccuracyResult",
                              {"GenerationSeries", "ObservedGenerationSeries"}),
    MonthlyBill      |-> Node("MonthlyBillResult", {"PriceSeries", "ObservedGridSeries"}),
    Lockout          |-> Node("CalculationResult",
                              {"PriceSeries", "GenerationSeries", "BatteryState"}),
    ArrayCalibration |-> Node("ArrayCalibration", {"GenerationSeries"})]

Decisions == [
    PriceForecast |-> Late("PriceForecast", {"PriceSeries", "GenerationSeries"},
                           {"BatteryStatus", "BaseLoadProfile"})]

Planning == [
    Schedule |-> Late("Schedule",
                      {"PriceSeries", "CalculationResult", "GenerationSeries", "BatteryState",
                       "DegradationCost", "BaseLoadProfile", "SchedulePolicy"},
                      {"ProfitabilityScore"})]

\* The list handed to DagEngine; SolarHealthNode is not on it.
Pipeline == Sources @@ Forward @@ Observed @@ Accounts @@ Decisions @@ Planning
=============================================================================
