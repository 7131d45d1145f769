------------------------------- MODULE Telemetry -------------------------------
(***************************************************************************)
(* How sensor states become power flows (inbound/telemetry, the readers of    *)
(* outbound/inverter.py and the derived-power sample of observer/derived.py).  *)
(*                                                                           *)
(* Every vendor publishes in its own directions; the codec of the platform    *)
(* turns each role into sunSale's: a battery that charges and a grid that is   *)
(* imported from are positive, the AC port keeps the inverter's direction.     *)
(* Units of power are left out: a reading is a whole number of one unit.       *)
(***************************************************************************)
EXTENDS Integers, SequencesExt

Platforms == {"solis", "generic"}

Positive(x) == IF x > 0 THEN x ELSE 0

-----------------------------------------------------------------------------
(* The plant, and what the integrations publish of it *)

Plant == [solar : Nat, battery : Int, load : Nat, loss : Nat, backup : Nat]

AcPort(p)  == p.solar - p.battery - p.loss - p.backup   \* inverter to grid side
GridNet(p) == p.load - AcPort(p)                        \* import

Magnitude(x) == IF x < 0 THEN -x ELSE x

\* On Solis the net battery sensor is positive when it discharges, the other one
\* has no direction, and the stand-in for the meter is the inverter's own port.
\* A mapping by hand is expected in sunSale's directions.
Published(platform, p) ==
    [pv_power             |-> p.solar,
     ac_port_power        |-> AcPort(p),
     backup_power         |-> p.backup,
     battery_power_signed |-> IF platform = "solis" THEN -p.battery ELSE p.battery,
     battery_power        |-> IF platform = "solis" THEN Magnitude(p.battery) ELSE p.battery,
     grid_power           |-> GridNet(p),
     grid_power_fallback  |-> IF platform = "solis" THEN AcPort(p) ELSE GridNet(p),
     grid_import_power    |-> Positive(GridNet(p)),
     grid_export_power    |-> Positive(-GridNet(p)),
     signed_grid_power    |-> GridNet(p),
     battery_soc          |-> 1]

Entities == {"pv_power", "ac_port_power", "backup_power", "battery_power_signed",
             "battery_power", "grid_power", "grid_power_fallback", "grid_import_power",
             "grid_export_power", "signed_grid_power", "battery_soc"}

-----------------------------------------------------------------------------
(* Bindings: an entity and the role in which it stands for a signal *)

Bound(entity, role) == [entity |-> entity, role |-> role]

Directional(entity, mapped) ==
    IF entity \in mapped THEN <<Bound(entity, "primary")>>
                         ELSE <<Bound("signed_grid_power", "signed_net")>>

\* resolve_bindings: battery and grid have a stand-in for when the first choice
\* cannot be read; every other signal has one entity, picked by configuration.
Candidates(signal, mapped) ==
    CASE signal = "battery" -> <<Bound("battery_power_signed", "signed_net"),
                                 Bound("battery_power", "primary")>>
      [] signal = "grid"    -> <<Bound("grid_power", "primary"),
                                 Bound("grid_power_fallback", "fallback")>>
      [] signal = "import"  -> Directional("grid_import_power", mapped)
      [] signal = "export"  -> Directional("grid_export_power", mapped)
      [] signal = "pv"      -> <<Bound("pv_power", "primary")>>
      [] signal = "ac_port" -> <<Bound("ac_port_power", "primary")>>
      [] signal = "backup"  -> <<Bound("backup_power", "primary")>>

\* What is left of them, by place: an entity that is not mapped binds nothing.
Chain(signal, mapped) ==
    {i \in 1..Len(Candidates(signal, mapped)) : Candidates(signal, mapped)[i].entity \in mapped}

\* The roles whose Solis convention is the opposite of sunSale's
Flipped(platform, signal, role) ==
    /\ platform = "solis"
    /\ <<signal, role>> \in {<<"battery", "signed_net">>, <<"grid", "fallback">>}

\* to_canonical
Canonical(platform, signal, role, raw) ==
    CASE signal \in {"pv", "backup", "import"} -> Positive(raw)
      [] signal = "export"                     -> Positive(IF role = "signed_net" THEN -raw ELSE raw)
      [] OTHER                                 -> IF Flipped(platform, signal, role) THEN -raw ELSE raw

\* HaTelemetryReader.read: the first binding that can be read, as a set of one
\* value or none.  states maps each entity to its reading, again one or none.
Read(platform, signal, mapped, states) ==
    LET bindings == Candidates(signal, mapped)
        readable == {i \in Chain(signal, mapped) : states[bindings[i].entity] # {}}
        first    == bindings[CHOOSE i \in readable : \A j \in readable : i <= j]
    IN  IF readable = {} THEN {}
        ELSE {Canonical(platform, signal, first.role, raw) : raw \in states[first.entity]}

-----------------------------------------------------------------------------
(* The derived-power sample *)

\* get_battery_power and get_grid_power: no reading is no flow.
OrZero(reading) == IF reading = {} THEN {0} ELSE reading

\* BatteryTranslator and build_derived_power_sample: without a state of charge
\* there is no battery reading, and without any one of the readings no sample.
LiveSample(platform, mapped, states) ==
    {[solar |-> sol, ac |-> ac, backup |-> b, battery |-> bat, grid |-> g] :
        sol \in Read(platform, "pv", mapped, states),
        ac  \in Read(platform, "ac_port", mapped, states),
        b   \in Read(platform, "backup", mapped, states),
        bat \in IF states["battery_soc"] = {} THEN {}
                ELSE OrZero(Read(platform, "battery", mapped, states)),
        g   \in OrZero(Read(platform, "grid", mapped, states))}

\* Mutation: what the backup port feeds is not consumption.
ConsumptionAtPort(s) == Positive(s.ac + s.grid)

Consumption(s) == Positive(s.backup + s.ac + s.grid)

Losses(s) == Positive(s.solar - s.battery - s.ac - s.backup)

================================================================================
