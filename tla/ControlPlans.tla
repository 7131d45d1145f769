------------------------------- MODULE ControlPlans -------------------------------
(***************************************************************************)
(* What each inverter platform writes for a storage mode, and how it decodes  *)
(* what it reads back: the tables of outbound/huawei_driver.py, solax_,        *)
(* sungrow_, goodwe_ and deye_driver.py, and of storage_mode_specs.py with the *)
(* register order of inverter.py for Solis.                                    *)
(*                                                                           *)
(* A plan is the sequence of its writes; powers and currents are small         *)
(* numbers of one unit.                                                        *)
(***************************************************************************)
EXTENDS Integers, Sequences, FiniteSetsExt

CONSTANTS
    ExportCap,      \* export_limit_w
    Rated,          \* inverter_max_power_w
    Charge,         \* the battery's charge limit
    Discharge       \* the battery's discharge limit

ASSUME PowersAssumption ==
    /\ {ExportCap, Rated, Charge, Discharge} \subseteq Nat \ {0}
    /\ Charge <= Rated

Platforms == {"huawei", "solax", "sungrow", "goodwe", "deye", "solis"}
Dispatched == {"SelfUse", "FeedIn", "NoExport", "StandBy", "GridCharge", "Discharge"}
Forced == {"GridCharge", "Discharge"}

Write(kind, role, value) == [kind |-> kind, role |-> role, value |-> value, row |-> TRUE]
Number(role, value) == Write("number", role, value)
Select(role, value) == Write("select", role, value)
Switch(role, value) == Write("switch", role, value)
Service(call)       == [kind |-> "service", role |-> "device", value |-> call, row |-> FALSE]
Unseen(write)       == [write EXCEPT !.row = FALSE]

\* Mutation: no plan stops the timed command.
HuaweiNeverStops == [
    SelfUse    |-> <<Select("mode", "self"), Number("export", ExportCap)>>,
    FeedIn     |-> <<Select("mode", "fed"), Number("export", ExportCap)>>,
    NoExport   |-> <<Select("mode", "self"), Number("export", 0)>>,
    StandBy    |-> <<Select("mode", "self"), Number("export", 0)>>,
    GridCharge |-> <<Select("mode", "self"), Switch("grid_charge", TRUE), Service("charge")>>,
    Discharge  |-> <<Select("mode", "self"), Number("export", ExportCap), Service("discharge")>>]

Huawei == [
    SelfUse    |-> <<Select("mode", "self"), Number("export", ExportCap)>>,
    FeedIn     |-> <<Select("mode", "fed"), Number("export", ExportCap)>>,
    NoExport   |-> <<Select("mode", "self"), Number("export", 0)>>,
    StandBy    |-> <<Select("mode", "self"), Service("stop")>>,
    GridCharge |-> <<Select("mode", "self"), Switch("grid_charge", TRUE), Service("charge")>>,
    Discharge  |-> <<Select("mode", "self"), Number("export", ExportCap), Service("discharge")>>]

Solax == [
    SelfUse    |-> <<Select("mode", "self"), Number("export", ExportCap)>>,
    FeedIn     |-> <<Select("mode", "fed"), Number("export", ExportCap)>>,
    NoExport   |-> <<Select("mode", "self"), Number("export", 0)>>,
    StandBy    |-> <<Select("mode", "manual"), Select("direction", "stop")>>,
    GridCharge |-> <<Select("mode", "manual"), Select("direction", "charge")>>,
    Discharge  |-> <<Select("mode", "manual"), Select("direction", "discharge"),
                     Number("export", ExportCap)>>]

Sungrow == [
    SelfUse    |-> <<Select("mode", "self"), Number("export", ExportCap)>>,
    FeedIn     |-> <<Select("mode", "self"), Number("export", ExportCap)>>,
    NoExport   |-> <<Select("mode", "self"), Number("export", 0)>>,
    StandBy    |-> <<Select("mode", "manual"), Select("direction", "stop")>>,
    GridCharge |-> <<Select("mode", "manual"), Select("direction", "charge"),
                     Number("power", Charge)>>,
    Discharge  |-> <<Select("mode", "manual"), Select("direction", "discharge"),
                     Number("power", Rated), Number("export", ExportCap)>>]

Goodwe == [
    SelfUse    |-> <<Select("mode", "general"), Number("export", ExportCap)>>,
    FeedIn     |-> <<Select("mode", "general"), Number("export", ExportCap)>>,
    NoExport   |-> <<Select("mode", "general"), Number("export", 0)>>,
    StandBy    |-> <<Select("mode", "eco_charge"), Number("power", 0)>>,
    GridCharge |-> <<Select("mode", "eco_charge"), Number("power", Charge)>>,
    Discharge  |-> <<Select("mode", "eco_discharge"), Number("power", Rated),
                     Number("export", ExportCap)>>]

Deye == [
    SelfUse    |-> <<Select("mode", "zero_ct"), Number("export", ExportCap)>>,
    FeedIn     |-> <<Select("mode", "selling"), Number("export", ExportCap)>>,
    NoExport   |-> <<Select("mode", "zero_load"), Number("export", 0)>>,
    StandBy    |-> <<Select("mode", "zero_ct"), Switch("grid_charge", FALSE)>>,
    GridCharge |-> <<Select("mode", "zero_ct"), Switch("grid_charge", TRUE)>>,
    Discharge  |-> <<Select("mode", "selling"), Number("export", Rated)>>]

\* _apply_43110_bits: the switches of bits 0, 1, 5 and 6 of the storage control word.
Word(on) == LET bits == <<"self_use", "tou", "grid_charge", "feed_in">>
            IN  [i \in 1..4 |-> Switch(bits[i], bits[i] \in on)]

\* Mutation: a passive mode leaves the remote control as it is.
RemoteControlKept(setpoint) ==
    IF setpoint # 0
    THEN <<Select("rc", "engaged"), Unseen(Number("rc_timeout", 1)), Number("rc_setpoint", setpoint)>>
    ELSE <<>>

\* apply_mode: selector, timeout and setpoint to engage the remote control; to release
\* it, the setpoint first.
RemoteControl(setpoint) ==
    IF setpoint # 0
    THEN <<Select("rc", "engaged"), Unseen(Number("rc_timeout", 1)), Number("rc_setpoint", setpoint)>>
    ELSE <<Number("rc_setpoint", 0), Unseen(Select("rc", "off"))>>

Registers(on, charge, discharge, export, setpoint) ==
    Word(on) \o <<Number("charge", charge), Number("discharge", discharge), Number("export", export)>>
             \o RemoteControl(setpoint)

\* build_specs, without TRACK, which is never dispatched.
Solis == [
    FeedIn     |-> Registers({"feed_in"}, Charge, Discharge, ExportCap, 0),
    SelfUse    |-> Registers({"self_use"}, Charge, Discharge, ExportCap, 0),
    NoExport   |-> Registers({"self_use"}, Charge, Discharge, 0, 0),
    Discharge  |-> Registers({"feed_in"}, 0, Discharge, ExportCap, Rated),
    GridCharge |-> Registers({"self_use", "grid_charge"}, Charge, 0, 0, -Min({Charge, Rated})),
    StandBy    |-> Registers({"self_use"}, Charge, 0, 0, 0)]

\* make_inverter_driver.
Plans == [huawei |-> Huawei, solax |-> Solax, sungrow |-> Sungrow, goodwe |-> Goodwe,
          deye |-> Deye, solis |-> Solis]

\* ControlPlan.keepalive, and _is_rc_backed.
KeepsAlive(platform, mode) == platform \in {"huawei", "solis"} /\ mode \in Forced

\* What a beat writes again: refresh_rc rewrites the remote control only, the entity
\* driver the whole plan.
Renewed(platform, plan) ==
    IF platform = "solis" THEN SubSeq(plan, 8, Len(plan)) ELSE plan

----------------------------------------------------------------------------
\* Decoding: the mode state, and the second select where the first leaves it open.

Unknown == "UNKNOWN"

Decode == [
    huawei  |-> [self |-> "SelfUse", fed |-> "FeedIn"],
    solax   |-> [self |-> "SelfUse", fed |-> "FeedIn"],
    sungrow |-> [self |-> "SelfUse"],
    goodwe  |-> [general |-> "SelfUse", eco_charge |-> "GridCharge", eco_discharge |-> "Discharge"],
    deye    |-> [zero_ct |-> "SelfUse", zero_load |-> "NoExport", selling |-> "FeedIn"]]

SubDecode == [stop |-> "StandBy", charge |-> "GridCharge", discharge |-> "Discharge"]

\* Mutation: the second select is asked first.
DecodeSubFirst(platform, mode, direction) ==
    IF platform \in {"solax", "sungrow"} /\ direction # Unknown
    THEN SubDecode[direction]
    ELSE IF mode \in DOMAIN Decode[platform] THEN Decode[platform][mode] ELSE Unknown

\* decode_observed: a second select that is still set from an earlier mode counts only
\* under the primary state that defers to it.
DecodeState(platform, mode, direction) ==
    IF mode = Unknown THEN Unknown
    ELSE IF mode \in DOMAIN Decode[platform] THEN Decode[platform][mode]
    ELSE IF platform \in {"solax", "sungrow"} /\ direction # Unknown THEN SubDecode[direction]
    ELSE Unknown

\* decode_mode: the word, then the one register that separates its modes.
DecodeRegisters(on, discharge, setpoint, export, engaged) ==
    CASE on = {"self_use", "grid_charge"} -> "GridCharge"
      [] on = {"feed_in"} /\ setpoint > 0 /\ engaged -> "Discharge"
      [] on = {"feed_in"} /\ ~(setpoint > 0 /\ engaged) -> "FeedIn"
      [] on = {"self_use"} /\ discharge = 0 -> "StandBy"
      [] on = {"self_use"} /\ discharge # 0 /\ export = 0 -> "NoExport"
      [] on = {"self_use"} /\ discharge # 0 /\ export # 0 -> "SelfUse"
      [] OTHER -> Unknown
=============================================================================
