------------------------------ MODULE ObservedDay ------------------------------
(***************************************************************************)
(* Observed grid energy (inbound/observer/engine.py, grid.py, bake_in.py),   *)
(* the counter snapshots and the resolver of yesterday's total.              *)
(*                                                                           *)
(* Samples are averaged into the slots of the price grid.  After midnight a   *)
(* day is baked, once per side: its slots are scaled to the day's counter     *)
(* total, or kept as they are when no total turns up before the cutoff.       *)
(***************************************************************************)
EXTENDS PriceGrid

CONSTANTS
    Import, Export,     \* GRID_IMPORT_SIDE_ID, GRID_EXPORT_SIDE_ID
    Dedicated,          \* the sides that have a yesterday-total sensor mapped
    WindowTick,         \* the quarter slot of the snapshot window, 23:30-23:59
    Cutoff,             \* BAKE_IN_HARD_CUTOFF_LOCAL, as a quarter slot of the day
    Unit                \* energy of one quarter slot at the low rate

ASSUME SidesAssumption == Import # Export /\ Dedicated \subseteq {Import, Export}
ASSUME DayAssumption ==
    /\ WindowTick = Ticks - 1
    /\ Cutoff \in 1..Ticks - 1
    /\ Unit \in Nat \ {0}

Sides == {Import, Export}

\* What the house really exchanges: two rates that take turns day by day, so
\* that the total of one day cannot pass for that of the next.
Rate(side, d)  == Unit * (1 + ((IF side = Import THEN d ELSE d + 1) % 2))
Total(side, d) == Rate(side, d) * Ticks

-----------------------------------------------------------------------------
(* Snapshots and the resolver *)

Snapshot == [side : Sides, at : Nat, total : Nat]

\* maybe_capture_snapshots: captures of one quarter slot replace each other,
\* because the resolver looks at the latest only.
Capture(snaps, now, readings) ==
    LET kept == {s \in snaps : s.at >= now - 2 * Ticks}
    IN  IF now % Ticks = WindowTick
        THEN {s \in kept : s.at # now \/ \A r \in readings : r.side # s.side} \cup readings
        ELSE kept

\* resolve_yesterday_total: the dedicated sensor, whatever day it is of, else the
\* latest snapshot of the date.
Resolve(side, d, sensor, snaps) ==
    IF side \in Dedicated /\ sensor # {}
    THEN {[source |-> "dedicated", total |-> Total(side, x)] : x \in sensor}
    ELSE {[source |-> "snapshot", total |-> s.total] :
            s \in {x \in snaps : /\ x.side = side
                                 /\ DayOf(x.at) = d
                                 /\ \A y \in snaps : y.side = side /\ DayOf(y.at) = d => y.at <= x.at}}

-----------------------------------------------------------------------------
(* Slots *)

Smaller(x, y) == IF x <= y THEN x ELSE y

Energy(slots) == FoldSeq(LAMBDA s, e : e + s.kwh, 0, slots)

\* build_slots_for_window, one side: the mean of a slot's samples times its
\* length, nothing where there is no sample.
Raw(side, series, seen, lo, hi) ==
    LET Of(s) == LET end == Smaller(s.start + s.len, hi)
                 IN  [start |-> s.start,
                      kwh |-> IF seen \cap s.start..end - 1 = {} THEN 0
                              ELSE Rate(side, DayOf(s.start)) * (end - s.start)]
        slots == Window(series, lo, hi)
    IN  [i \in DOMAIN slots |-> Of(slots[i])]

\* apply_proportional_bake_in: the slots scaled to the total, unless they sum to
\* nothing or the factor is out of [1/2, 2].
Bake(slots, total) ==
    LET sum == Energy(slots)
    IN  IF sum <= 0 \/ 2 * total < sum \/ total > 2 * sum THEN slots
        ELSE [i \in DOMAIN slots |-> [slots[i] EXCEPT !.kwh = (@ * total) \div sum]]

-----------------------------------------------------------------------------
(* The bake-in *)

Record(d, side, source, slots) == [day |-> d, side |-> side, source |-> source, slots |-> slots]

Has(baked, d, side) == \E r \in baked : r.day = d /\ r.side = side

\* Mutation: a day is baked in every cycle.
BakedAgain(baked, side, d, tick, slots, found) ==
    IF (found = {} /\ tick < Cutoff) \/ slots = <<>> THEN {}
    ELSE IF found = {} THEN {Record(d, side, "failed", slots)}
    ELSE {Record(d, side, x.source, Bake(slots, x.total)) : x \in found}

\* What try_bake_yesterday adds for a side at a quarter slot of the day after.
Baked(baked, side, d, tick, slots, found) ==
    IF Has(baked, d, side) \/ (found = {} /\ tick < Cutoff) \/ slots = <<>> THEN {}
    ELSE IF found = {} THEN {Record(d, side, "failed", slots)}
    ELSE {Record(d, side, x.source, Bake(slots, x.total)) : x \in found}

TryBake(baked, series, seen, snaps, sensor, now) ==
    LET today == DayOf(now)
        d     == today - 1
    IN  baked \cup UNION {Baked(baked, side, d, now % Ticks,
                                Raw(side, series, seen, DayStart(d), DayStart(today)),
                                Resolve(side, d, sensor, snaps)) : side \in Sides}

\* build_observed_grid_series: baked slots where a day has them, raw ones where
\* it has not; the sides are paired slot by slot, by position.
ObservedGrid(baked, series, seen, now) ==
    LET today == DayOf(now)
        Past(side, d) == IF Has(baked, d, side)
                         THEN (CHOOSE r \in baked : r.day = d /\ r.side = side).slots
                         ELSE Raw(side, series, seen, DayStart(d), DayStart(d + 1))
        Sided(side) == Past(side, today - 2) \o Past(side, today - 1)
                       \o Raw(side, series, seen, DayStart(today), now + 1)
        i == Sided(Import)
        e == Sided(Export)
    IN  IF seen = {} THEN <<>>
        ELSE [k \in 1..Smaller(Len(i), Len(e)) |->
                [start |-> i[k].start, imported |-> i[k].kwh, exported |-> e[k].kwh]]

================================================================================
