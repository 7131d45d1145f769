--------------------------- MODULE CapacityLearning ---------------------------
(***************************************************************************)
(* A battery that is charged and discharged, the readings of it that reach    *)
(* the coordinator, and the estimator that learns from them                  *)
(* (_build_capacity_observation of orchestration/coordinator.py, CapacityStep, *)
(* inbound/battery.py, inbound/battery_source.py).                           *)
(*                                                                           *)
(* The energy counters are the inverter's, of the day, and start again at     *)
(* midnight; the state of charge comes from a BMS when it answers and from    *)
(* the inverter otherwise.  A cycle runs every few minutes: a tick of the      *)
(* model is the several hours the battery takes to move, Midnight the cycle    *)
(* that follows the counters' reset.                                         *)
(***************************************************************************)
EXTENDS CapacityEstimator, FiniteSets

CONSTANTS
    TicksPerDay, LastMove,      \* ticks in a day, and in a behaviour
    MaxWindow,                  \* CAPACITY_OBS_MAX_WINDOW_S, in ticks
    EmitSwing,                  \* CAPACITY_OBS_EMIT_SOC_DELTA
    Purity,                     \* CAPACITY_OBS_PURITY_FRACTION, in percent
    ResetEps,                   \* CAPACITY_OBS_COUNTER_RESET_EPS_KWH
    SocRange, Moves,            \* states of charge; what one tick may move it by
    Availability,               \* which sources answer a cycle
    BmsOffsets,                 \* how far the BMS gauge is from the inverter's
    Packs,                      \* [nominal, capacity]: as configured, and in truth
    OldDisks,                   \* what a store may hold at the first start
    MaxObs, MaxRestarts         \* bounds

Missing == -1       \* None: a reading that is not there
NoAnchor == [soc |-> Missing, in |-> Missing, out |-> Missing, at |-> Missing]

VARIABLES
    tick, rest,     \* ticks so far; TRUE once this midnight's cycle has run
    battery,        \* [soc, in, out]: the battery, and its counters of the day
    pack,           \* the member of Packs installed
    offset,         \* the BMS gauge's offset, Missing when there is no BMS
    est,            \* the estimator
    disk,           \* the last estimator written
    anchor,         \* _cap_anchor_reading, _cap_anchor_at
    gauge, spans,   \* history: the anchor's gauge; TRUE when its window spans a midnight
    tainted,        \* history: an observation came from a window that is not clean
    restarts

capacityVars == <<tick, rest, battery, pack, offset, est, disk, anchor, gauge, spans, tainted, restarts>>

CapacityTypeOK ==
    /\ tick \in 0..LastMove /\ rest \in BOOLEAN /\ restarts \in 0..MaxRestarts
    /\ battery.soc \in SocRange /\ battery.in \in Nat /\ battery.out \in Nat
    /\ pack \in Packs /\ offset \in BmsOffsets
    /\ disk \in OldDisks \/ disk.schema = Schema
    /\ est.nominal = pack.nominal /\ \A i \in DOMAIN est.obs : est.obs[i] \in Observation
    /\ anchor = NoAnchor \/ anchor.at \in 0..tick
    /\ gauge \in {"none", "bms", "inverter"} /\ spans \in BOOLEAN /\ tainted \in BOOLEAN

-----------------------------------------------------------------------------
(* The reading of a cycle *)

\* ChainedBatterySource, of one field: the primary, or the fallback
Chained(primary, fallback) == IF primary = Missing THEN fallback ELSE primary

\* JkBmsBatterySource.soc; a BMS has no counters.
BmsSoc(b, avail) == IF offset # Missing /\ avail.bms THEN b.soc + offset ELSE Missing

\* InverterBatterySource
InverterValue(value, ok) == IF ok THEN value ELSE Missing

\* BatteryTranslator.translate: without a state of charge there is no reading.
Reading(b, avail) ==
    [soc |-> Chained(BmsSoc(b, avail), InverterValue(b.soc, avail.soc)),
     in  |-> Chained(Missing, InverterValue(b.in, avail.counters)),
     out |-> Chained(Missing, InverterValue(b.out, avail.counters))]

GaugeOf(b, avail) == IF BmsSoc(b, avail) # Missing THEN "bms" ELSE "inverter"

-----------------------------------------------------------------------------
(* _build_capacity_observation *)

\* The anchor moves to this reading and nothing is learnt from the window.
MustReanchor(cur, now) ==
    \/ anchor = NoAnchor
    \/ Missing \in {cur.in, cur.out, anchor.in, anchor.out}
    \/ cur.in < anchor.in - ResetEps
    \/ cur.out < anchor.out - ResetEps
    \/ now - anchor.at > MaxWindow

Swung(cur) == Distance(cur.soc, anchor.soc) >= EmitSwing

WindowSample(cur) ==
    LET up == cur.soc > anchor.soc
    IN  [soc_start |-> anchor.soc, soc_end |-> cur.soc,
         energy    |-> IF up THEN cur.in - anchor.in ELSE cur.out - anchor.out,
         direction |-> IF up THEN "charge" ELSE "discharge"]

OffEnergy(cur) == IF cur.soc > anchor.soc THEN cur.out - anchor.out ELSE cur.in - anchor.in

\* Energy went one way, nearly all of it
Pure(cur) == WindowSample(cur).energy > 0 /\ 100 * OffEnergy(cur) <= Purity * WindowSample(cur).energy

\* CapacityStep.persist, after the reading: the anchor, the sample, the estimator.
\* The window after this cycle began with it, or it is the window before, which
\* spans a midnight if it did so already.
Observe(b, avail, now, spanned) ==
    \E cur \in {Reading(b, avail)} :
        IF cur.soc = Missing
        THEN spans' = spanned /\ UNCHANGED <<est, anchor, gauge, tainted>>
        ELSE \E fresh \in {MustReanchor(cur, now)} : \E moved \in {fresh \/ Swung(cur)} :
             /\ est' = IF moved /\ ~fresh /\ Pure(cur) THEN AddObservation(est, WindowSample(cur)) ELSE est
             /\ anchor' = IF moved THEN [soc |-> cur.soc, in |-> cur.in, out |-> cur.out, at |-> now]
                          ELSE anchor
             /\ gauge' = IF moved THEN GaugeOf(b, avail) ELSE gauge
             /\ tainted' = (tainted \/ (est' # est /\ (spans \/ GaugeOf(b, avail) # gauge)))
             /\ spans' = (spanned /\ ~moved)

-----------------------------------------------------------------------------
CapacityInit ==
    /\ tick = 0 /\ rest = TRUE /\ restarts = 0
    /\ pack \in Packs /\ offset \in BmsOffsets
    /\ battery = [soc |-> 30, in |-> 0, out |-> 0]
    /\ disk \in OldDisks
    /\ est = FromDict(disk, pack.nominal)
    /\ anchor = NoAnchor /\ gauge = "none"
    /\ spans = FALSE /\ tainted = FALSE

\* Charging by m percent takes more from the AC side than it stores.
Moved(m) ==
    [soc |-> battery.soc + m,
     in  |-> battery.in + (IF m > 0 THEN (m * pack.capacity * EtaDen) \div (100 * EtaNum) ELSE 0),
     out |-> battery.out + (IF m < 0 THEN (-m * pack.capacity * EtaNum) \div (100 * EtaDen) ELSE 0)]

\* The battery moves, and a cycle runs.
Tick(m, avail) ==
    /\ tick < LastMove
    /\ tick % TicksPerDay = 0 => rest
    /\ Len(est.obs) < MaxObs
    /\ battery.soc + m \in SocRange
    /\ tick' = tick + 1 /\ rest' = FALSE
    /\ battery' = Moved(m)
    /\ Observe(battery', avail, tick + 1, spans)
    /\ UNCHANGED <<pack, offset, disk, restarts>>

\* The counters start again, and the cycle right after reads them, if it can.
Midnight(avail) ==
    /\ tick % TicksPerDay = 0 /\ ~rest
    /\ rest' = TRUE
    /\ battery' = [battery EXCEPT !.in = 0, !.out = 0]
    /\ Observe(battery', avail, tick, TRUE)
    /\ UNCHANGED <<tick, pack, offset, disk, restarts>>

\* A restart, of the same pack or of another configured with it.  The write of
\* the store is debounced: a crash may have lost it.
Restart(saved, p) ==
    /\ restarts < MaxRestarts
    /\ restarts' = restarts + 1
    /\ pack' = p
    /\ disk' = saved
    /\ est' = FromDict(saved, p.nominal)
    /\ anchor' = NoAnchor /\ gauge' = "none" /\ spans' = FALSE
    /\ tainted' = (tainted /\ est'.obs # <<>>)
    /\ UNCHANGED <<tick, rest, battery, offset>>

CapacityNext ==
    \/ \E m \in Moves, avail \in Availability : Tick(m, avail)
    \/ \E avail \in Availability : Midnight(avail)
    \/ \E p \in Packs, saved \in {disk, ToDict(est)} : Restart(saved, p)

-----------------------------------------------------------------------------
(* Properties *)

\* What an observation of a clean window says of the pack is at least the truth,
\* and at most the truth with the impurity the window was allowed on top:
\* implied * (1 - Purity / eta^2) <= capacity.
Fits(implied, capacity) ==
    /\ implied >= capacity
    /\ implied * (100 * EtaNum * EtaNum - Purity * EtaDen * EtaDen) <= capacity * 100 * EtaNum * EtaNum

\* Whatever was learnt before a restart, and whatever an older version stored, the
\* estimate is of the pack that is installed (from_dict, estimated_capacity_kwh).
EstimateFitsPack ==
    ~tainted /\ est.obs # <<>> => Fits(Estimate(est), pack.capacity)

\* Readings lost over midnight and a gauge that changes under a window do get
\* through; the estimate stays between half and twice the nameplate even then.
EstimatePlausible ==
    /\ pack.nominal <= 2 * Estimate(est)
    /\ Estimate(est) <= 2 * pack.nominal
===============================================================================
