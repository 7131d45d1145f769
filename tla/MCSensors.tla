------------------------------- MODULE MCSensors -------------------------------
(* What the integration makes of other integrations' sensors, one subject to a *)
(* behaviour: the export guard, in units of 40 s and of 1 kW with the excess    *)
(* below, at or above the threshold; two watchdogs of one price sensor; and the *)
(* resampler, from the middle of a recorded day to the next midnight.           *)
EXTENDS ExportGuard, PriceFeedWatchdog, RecorderResample, TLC

CONSTANTS SelfUse, Discharge, Home, Cabin

VARIABLE subject

MCModes    == {SelfUse, Discharge}
MCPassive  == {SelfUse}
MCExports  == {0, 2}
MCYields   == {0, 1}
MCInstalls == {Home, Cabin}
MCSymmetry == Permutations(MCInstalls)

Flow(sol, bat, load) == [solar |-> sol, battery |-> bat, load |-> load, loss |-> 1, backup |-> 1]

\* One plant charges and exports, the other discharges and imports.
MCPlants  == {Flow(6, 2, 1), Flow(0, -3, 5)}
MCConfigs ==
    {[platform |-> "solis", mapped |-> Entities],
     [platform |-> "generic",
      mapped   |-> Entities \ {"battery_power_signed", "grid_power_fallback",
                               "grid_import_power", "grid_export_power"}]}

\* The parts that are not the subject rest in one of their first states.
MCInit ==
    /\ Init
    /\ WatchdogInit
    /\ ResampleInit
    /\ subject \in {"guard", "feed", "history"}
    /\ subject # "guard"   => grid = {} /\ pv = {}
    /\ subject # "feed"    => owned
    /\ subject # "history" => config.platform = "generic" /\ past[1].plant = Flow(6, 2, 1)

MCNext ==
    \/ subject = "guard"   /\ Next         /\ UNCHANGED <<subject, feed, recording>>
    \/ subject = "feed"    /\ WatchdogNext /\ UNCHANGED <<subject, vars, recording>>
    \/ subject = "history" /\ ResampleNext /\ UNCHANGED <<subject, vars, feed>>

MCSpec == MCInit /\ [][MCNext]_<<subject, vars, feed, recording>>
================================================================================
