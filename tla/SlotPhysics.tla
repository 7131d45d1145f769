----------------------------- MODULE SlotPhysics -----------------------------
(***************************************************************************)
(* What one storage mode does in one price slot (pipeline/slot_physics.py):   *)
(* the flows between sun, house, battery and grid, the state of charge they   *)
(* leave, and what they earn.                                                *)
(*                                                                           *)
(* Energies are whole numbers.  A kWh stored delivers 1/Loss kWh to the AC    *)
(* side, charging is free of loss; the state of charge is counted in storage  *)
(* kWh.  Prices are whole numbers too, per kWh.                              *)
(***************************************************************************)
EXTENDS Integers

CONSTANT Loss       \* storage energy drained per unit of energy delivered

ASSUME LossAssumption == Loss \in Nat \ {0}

\* DISPATCHABLE_MODES, in their order; any other mode is idle.
Dispatchable == <<"SelfUse", "NoExport", "StandBy", "GridCharge", "Discharge", "FeedIn">>
Mode  == {"SelfUse", "NoExport", "StandBy", "GridCharge", "Discharge", "FeedIn"}

Uncapped == -1

\* The battery's envelope and power per slot, the export cap of the site, and the
\* cap of the operator on discharging to the grid.
Site == [min : Nat, max : Nat, charge : Nat, discharge : Nat,
         export : Nat \cup {Uncapped}, to_grid : Nat \cup {Uncapped}]

Flows == [grid_in : Nat, grid_out : Nat, charge : Nat, discharge : Nat, curtailed : Nat]

Smaller(a, b) == IF a < b THEN a ELSE b
Larger(a, b)  == IF a > b THEN a ELSE b

\* max(0, a - b): the headroom, the drawdown, the deficit, the surplus
Over(a, b) == IF a > b THEN a - b ELSE 0

\* _export_or_curtail
Exported(surplus, cap) == IF cap = Uncapped THEN surplus ELSE Smaller(surplus, cap)

-----------------------------------------------------------------------------
(* The flows of each family of modes *)

\* _simulate_idle
Idling(solar, load) ==
    [grid_in |-> Over(load, solar), grid_out |-> 0, charge |-> 0, discharge |-> 0,
     curtailed |-> Over(solar, load)]

\* _simulate_self_use: the battery balances solar and load, the rest is exported
SelfUse(solar, load, room, power, deliverable, cap) ==
    LET deficit == Over(load, solar)
        surplus == Over(solar, load)
        given   == Smaller(deficit, deliverable)
        stored  == Smaller(surplus, Smaller(room, power))
        out     == Exported(surplus - stored, cap)
    IN  [grid_in |-> deficit - given, grid_out |-> out, charge |-> stored,
         discharge |-> given, curtailed |-> surplus - stored - out]

\* _simulate_grid_charge: full power, the sun first; nothing is exported
GridCharge(solar, load, room, power) ==
    LET stored  == Smaller(room, power)
        surplus == Over(solar, load)
        sunny   == Smaller(surplus, stored)
    IN  [grid_in |-> Over(load, solar) + stored - sunny, grid_out |-> 0, charge |-> stored,
         discharge |-> 0, curtailed |-> surplus - sunny]

\* _simulate_discharge: the sun exports first, the battery covers the load and
\* then fills what is left of the cap
Discharge(solar, load, deliverable, cap) ==
    LET deficit == Over(load, solar)
        surplus == Over(solar, load)
        sunny   == Exported(surplus, cap)
        given   == Smaller(deficit, deliverable)
        sold    == IF cap = Uncapped THEN deliverable - given
                   ELSE Smaller(deliverable - given, cap - sunny)
    IN  [grid_in |-> deficit - given, grid_out |-> sunny + sold, charge |-> 0,
         discharge |-> given + sold, curtailed |-> surplus - sunny]

\* _simulate_feed_in: the sun exports up to the cap and charges with the rest
FeedIn(solar, load, room, power, deliverable, cap) ==
    LET deficit == Over(load, solar)
        surplus == Over(solar, load)
        given   == Smaller(deficit, deliverable)
        out     == Exported(surplus, cap)
        stored  == Smaller(surplus - out, Smaller(room, power))
    IN  [grid_in |-> deficit - given, grid_out |-> out, charge |-> stored,
         discharge |-> given, curtailed |-> surplus - out - stored]

-----------------------------------------------------------------------------
(* simulate_slot *)

\* Mutation: a battery below its minimum delivers a negative amount.
UnboundedDeliverable(site, soc) == Smaller(site.discharge, (soc - site.min) \div Loss)

\* What the battery can deliver in the slot above its minimum
Deliverable(site, soc) == Smaller(site.discharge, Over(soc, site.min) \div Loss)

\* The operator's cap bears on discharging to the grid alone.
ForGrid(site, soc) ==
    IF site.to_grid = Uncapped THEN Deliverable(site, soc)
    ELSE Smaller(Deliverable(site, soc), site.to_grid)

FlowsOf(site, mode, soc, solar, load) ==
    LET room == Over(site.max, soc)
        give == Deliverable(site, soc)
    IN  CASE mode = "StandBy"    -> SelfUse(solar, load, room, site.charge, 0, 0)
          [] mode = "SelfUse"    -> SelfUse(solar, load, room, site.charge, give, site.export)
          [] mode = "NoExport"   -> SelfUse(solar, load, room, site.charge, give, 0)
          [] mode = "GridCharge" -> GridCharge(solar, load, room, site.charge)
          [] mode = "Discharge"  -> Discharge(solar, load, ForGrid(site, soc), site.export)
          [] mode = "FeedIn"     -> FeedIn(solar, load, room, site.charge, give, site.export)
          [] OTHER               -> Idling(solar, load)

\* _new_soc, before the clamp
NewSoc(soc, flows) == soc + flows.charge - Loss * flows.discharge

\* _clamp: a battery below its minimum is lifted by what was charged only
Clamp(value, lo, hi) == IF value < lo THEN lo ELSE IF value > hi THEN hi ELSE value

SocOut(site, soc, flows) == Clamp(NewSoc(soc, flows), Smaller(site.min, soc), site.max)

\* _storage_throughput
Throughput(flows) == flows.charge + Loss * flows.discharge

Reward(flows, buy, sell, wear) ==
    flows.grid_out * sell - flows.grid_in * buy - Throughput(flows) * wear

SimulateSlot(site, mode, soc, solar, load, buy, sell, wear) ==
    LET flows == FlowsOf(site, mode, soc, solar, load)
    IN  [flows |-> flows, soc_out |-> SocOut(site, soc, flows),
         reward |-> Reward(flows, buy, sell, wear)]

=============================================================================
