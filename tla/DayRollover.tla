------------------------------ MODULE DayRollover ------------------------------
(***************************************************************************)
(* A day's accounts across midnight: one coordinator cycle at a time over     *)
(* the day buckets, the snapshots, the samples, the bake-in, the bill's       *)
(* ledger, the daily consumption and the price-curve history                  *)
(* (orchestration/coordinator.py, cycle_steps.py).                           *)
(*                                                                           *)
(* Home Assistant runs cycles, at least one in each quarter slot while it is   *)
(* up.  What can go wrong around them is bounded by MaxFaults: the price feed  *)
(* drops out or rolls late, the meter or the yesterday-total sensor drops out  *)
(* or is stale, the inverter's counters reset before local midnight, Home      *)
(* Assistant is stopped, or crashes with some stores not yet on disk.         *)
(***************************************************************************)
EXTENDS MonthlyBill, PriceCurve

CONSTANTS
    MaxFaults,      \* bound: how many things go wrong
    LastTick        \* bound: how long a behaviour is followed

ASSUME BoundsAssumption == MaxFaults \in Nat /\ LastTick \in Nat

VARIABLES
    now,            \* the quarter slot that is under way
    up,             \* Home Assistant runs
    cycled,         \* a cycle has run in this quarter slot
    feed_up, feed_day,  \* the price feed, and the day it shows as today
    meter,          \* the meter's entities are available
    sensor,         \* the day whose total the yesterday-total sensor shows, or {}
    reset,          \* the inverter's counters have started the next day early
    outlook,        \* a weather or solar forecast for tomorrow is available
    faults,
    buckets, snaps, seen, baked, ledger, consumption, curve,   \* the stores
    total,          \* MonthlyBillResult.total_month_eur
    calm,           \* history: cycles in a row today that were not disturbed
    exact,          \* history: days whose last snapshot holds the day's total
    fed,            \* history: days whose prices the day's last cycle saw
    midnight,       \* history: the samples in store when a day ended
    due             \* history: days that were priced to their end

world  == <<now, up, cycled, feed_up, feed_day, meter, sensor, reset, outlook, faults>>
stores == <<buckets, snaps, seen, baked, ledger, consumption, curve>>
ghosts == <<calm, exact, fed, midnight, due>>
vars   == <<world, stores, total, ghosts>>

today == DayOf(now)

Days == 0..DayOf(LastTick) + 1

TypeOK ==
    /\ now \in 0..LastTick
    /\ {up, cycled, feed_up, meter, reset, outlook} \subseteq BOOLEAN
    /\ feed_day \in {today - 1, today}
    /\ sensor \subseteq -1..today - 1
    /\ faults \in 0..MaxFaults
    /\ buckets \in Buckets(Days \cup {-1})
    /\ snaps \subseteq Snapshot
    /\ seen \subseteq 0..now
    /\ \A r \in baked : r.day \in -1..today - 1 /\ r.side \in Sides
    /\ DOMAIN ledger \subseteq 0..today - 1
    /\ \A r \in consumption : r.day \in 0..today - 1 /\ r.samples \subseteq 0..now
    /\ curve.vintages \subseteq Days
    /\ curve.predictions \cup curve.errors \subseteq Prediction

-----------------------------------------------------------------------------
(* One cycle *)

\* What the feed shows: tomorrow's prices come with the auction, in the second
\* half of the day; a feed that has not rolled shows its tomorrow anyway.
Shown == IF ~feed_up THEN {}
         ELSE IF feed_day < today \/ (now % Ticks) * 2 >= Ticks THEN {feed_day, feed_day + 1}
         ELSE {feed_day}

Grid == Series(YesterdayPrices(buckets, today), Shown, today)

\* The daily counters, in energy since the inverter's midnight
Readings ==
    IF ~meter THEN {}
    ELSE {[side |-> s, at |-> now,
           total |-> IF reset THEN 0 ELSE Rate(s, today) * ((now % Ticks) + 1)] : s \in Sides}

\* append_and_trim: two days of samples
Sampled == IF meter THEN {t \in seen : t >= now - 2 * Ticks} \cup {now} ELSE seen

OfDay(S, d) == {t \in S : DayOf(t) = d}

\* Mutation: today is finalised as well.
FinalisedEarly(records, samples, days) ==
    records \cup {[day |-> d, samples |-> OfDay(samples, d)] :
                    d \in {x \in days \cup {today} : /\ \A r \in records : r.day # x
                                                     /\ OfDay(samples, x) # {}}}

\* try_finalise_dates: each day once, from the samples at hand, if there are any
Finalised(records, samples, days) ==
    records \cup {[day |-> d, samples |-> OfDay(samples, d)] :
                    d \in {x \in days : /\ \A r \in records : r.day # x
                                        /\ OfDay(samples, x) # {}}}

\* The stores as a cycle leaves them: the steps before the graph, the graph, and
\* the outputs persisted after it.  The graph reads the bake of the cycle before.
After ==
    LET grid     == Grid
        captured == Capture(snaps, now, Readings)
        samples  == Sampled
        observed == ObservedGrid(baked, grid, samples, now)
        bill     == Bill(ledger, observed, grid, now)
    IN  [buckets     |-> Rotate(buckets, today, Shown),
         snaps       |-> captured,
         seen        |-> samples,
         baked       |-> TryBake(baked, grid, samples, captured, sensor, now),
         ledger      |-> bill.ledger,
         consumption |-> Finalised(consumption, samples, {today - 1}),
         curve       |-> SaveCurve(curve, grid, outlook, now),
         total       |-> bill.total]

\* Yesterday may be baked from the total the sensor shows of another day, or over
\* the doubled slots of a feed that still shows yesterday.
Misled == IF sensor \subseteq {today - 1} /\ feed_day = today THEN {} ELSE {today - 1}

Add(S, x, in) == IF in THEN S \cup {x} ELSE S \ {x}

\* A cycle whose writes reach the disk before the next event
Saves(after) ==
    /\ buckets' = after.buckets
    /\ snaps' = after.snaps
    /\ seen' = after.seen
    /\ baked' = after.baked
    /\ ledger' = after.ledger
    /\ consumption' = after.consumption
    /\ curve' = after.curve
    /\ total' = after.total
    /\ cycled' = TRUE
    /\ calm' = IF feed_day = today THEN Smaller(calm + 1, 2) ELSE 0
    /\ exact' = (IF now % Ticks = WindowTick /\ meter THEN Add(exact, today, ~reset) ELSE exact) \ Misled
    /\ fed' = Add(fed, today, today \in Shown)
    /\ UNCHANGED <<now, up, feed_up, feed_day, meter, sensor, reset, outlook, faults>>
    /\ UNCHANGED <<midnight, due>>

\* PersistentStore.save is debounced store by store, by the same delay: a crash
\* soon after a cycle finds the stores written up to some place in the order of
\* their saves, and the rest as they were.
Crashes(after) ==
    /\ faults < MaxFaults
    /\ \E written \in 0..7 :
        LET Disk(place, old, new) == IF place <= written THEN new ELSE old
        IN  /\ buckets' = Disk(1, buckets, after.buckets)
            /\ seen' = Disk(2, seen, after.seen)
            /\ snaps' = Disk(3, snaps, after.snaps)
            /\ consumption' = Disk(4, consumption, after.consumption)
            /\ baked' = Disk(5, baked, after.baked)
            /\ ledger' = Disk(6, ledger, after.ledger)
            /\ curve' = Disk(7, curve, after.curve)
    /\ up' = FALSE
    /\ faults' = faults + 1
    /\ calm' = 0
    /\ exact' = exact \ ({today} \cup Misled)
    /\ fed' = fed \ {today}
    /\ UNCHANGED <<now, cycled, feed_up, feed_day, meter, sensor, reset, outlook, total, midnight, due>>

Cycle == up /\ \E after \in {After} : Saves(after) \/ Crashes(after)

Stop ==
    /\ up /\ cycled
    /\ faults < MaxFaults
    /\ up' = FALSE
    /\ faults' = faults + 1
    /\ UNCHANGED <<now, cycled, feed_up, feed_day, meter, sensor, reset, outlook>>
    /\ UNCHANGED <<stores, total, ghosts>>

\* async_setup finalises whatever ended days the stored samples still cover.
Start ==
    /\ ~up
    /\ up' = TRUE
    /\ consumption' = Finalised(consumption, seen, {DayOf(t) : t \in seen} \ {today})
    /\ UNCHANGED <<now, cycled, feed_up, feed_day, meter, sensor, reset, outlook, faults>>
    /\ UNCHANGED <<buckets, snaps, seen, baked, ledger, curve, total, ghosts>>

-----------------------------------------------------------------------------
(* The world *)

\* A fault begins, or ends, in one of the things the cycle reads.
Turn(x, good) ==
    /\ x' = ~x
    /\ IF x = good THEN faults < MaxFaults /\ faults' = faults + 1 ELSE UNCHANGED faults

FeedTurns == Turn(feed_up, TRUE) /\ UNCHANGED <<feed_day, meter, reset, outlook, sensor>>
MeterTurns == Turn(meter, TRUE) /\ UNCHANGED <<feed_up, feed_day, reset, outlook, sensor>>
OutlookTurns == Turn(outlook, TRUE) /\ UNCHANGED <<feed_up, feed_day, meter, reset, sensor>>

\* An inverter clock that runs ahead
CountersReset ==
    /\ now % Ticks = WindowTick /\ ~reset
    /\ Turn(reset, FALSE)
    /\ UNCHANGED <<feed_up, feed_day, meter, outlook, sensor>>

FeedRolls ==
    /\ feed_day' = today /\ feed_day # today
    /\ UNCHANGED <<feed_up, meter, reset, outlook, sensor, faults>>

SensorTurns ==
    /\ \/ /\ sensor = {today - 1} /\ sensor' = {}
          /\ faults < MaxFaults /\ faults' = faults + 1
       \/ sensor # {today - 1} /\ sensor' = {today - 1} /\ UNCHANGED faults
    /\ UNCHANGED <<feed_up, feed_day, meter, reset, outlook>>

\* Nothing looks at the world while Home Assistant is down.
WorldChanges ==
    /\ up
    /\ FeedTurns \/ MeterTurns \/ OutlookTurns \/ CountersReset \/ FeedRolls \/ SensorTurns
    /\ UNCHANGED <<now, up, cycled, stores, total, ghosts>>

\* At midnight the feed and the yesterday-total sensor roll, or lag behind.
Rolls ==
    /\ \E late \in SUBSET {"feed", "sensor"} :
        /\ faults' = faults + Cardinality(late) /\ faults' <= MaxFaults
        /\ feed_day' = IF "feed" \in late THEN today ELSE today'
        /\ sensor' = {x + 1 : x \in IF "sensor" \in late THEN {} ELSE sensor}
                       \cup {x \in sensor : "sensor" \in late}
    /\ reset' = FALSE
    /\ midnight' = [midnight EXCEPT ![today] = OfDay(seen, today)]
    /\ calm' = 0
    /\ due' = IF calm = 2 /\ today - 1 \in fed THEN due \cup {today - 1} ELSE due

Pass ==
    /\ now < LastTick
    /\ up => cycled
    /\ now' = now + 1
    /\ cycled' = FALSE
    /\ IF today' = today THEN UNCHANGED <<feed_day, sensor, reset, faults, midnight, calm, due>>
                         ELSE Rolls
    /\ UNCHANGED <<up, feed_up, meter, outlook, stores, total, exact, fed>>

Init ==
    /\ now = 0
    /\ up = TRUE /\ cycled = FALSE
    /\ feed_up = TRUE /\ feed_day = 0
    /\ meter = TRUE
    /\ sensor = {-1}
    /\ reset = FALSE
    /\ outlook = TRUE
    /\ faults = 0
    /\ buckets = [yesterday_date |-> -1, yesterday |-> {}, today_date |-> -1, today |-> {}]
    /\ snaps = {} /\ seen = {} /\ baked = {} /\ consumption = {}
    /\ ledger = <<>>
    /\ curve = NoCurve
    /\ total = Free
    /\ calm = 0
    /\ exact = {} /\ fed = {} /\ due = {}
    /\ midnight = [d \in Days |-> {}]

Next == Cycle \/ Stop \/ Start \/ WorldChanges \/ Pass

Spec == Init /\ [][Next]_vars

-----------------------------------------------------------------------------
(* Properties *)

Truth(d) == [imported |-> Total(Import, d), exported |-> Total(Export, d)]

\* The day's own total was at hand after it, and half of the day was sampled.
Measured(d) == d \in exact /\ Cardinality(midnight[d]) * 2 >= Ticks

Displayable == {d \in due : Month(d) >= Month(today) - 1}

\* Once a day can no longer be priced, its cost is the day's true exchange, if it
\* was measured, its prices were seen by its last cycle and two cycles ran
\* undisturbed at the end of the day after: whatever failed before has healed.
FrozenIsTrue ==
    \A d \in Displayable : Measured(d) => d \in DOMAIN ledger /\ ledger[d] = Truth(d)

\* The month's total counts each of its days exactly once, at its true cost.
BillIsTrue ==
    LET days == {d \in 0..today - 1 : Month(d) = Month(today)}
    IN  /\ cycled /\ calm = 2 /\ today \in fed
        /\ \A d \in days : Measured(d) /\ d \in IF d = today - 1 THEN fed ELSE due
        /\ OfDay(seen, today) = DayStart(today)..now
        => total = Plus(SumOf([d \in days |-> Truth(d)], days),
                        [imported |-> Rate(Import, today) * ((now % Ticks) + 1),
                         exported |-> Rate(Export, today) * ((now % Ticks) + 1)])

\* A baked day is final: one record per side, never replaced, and given up as
\* failed only when no good snapshot of it was ever taken.
BakedOnce ==
    /\ \A r, s \in baked : r.day = s.day /\ r.side = s.side => r = s
    /\ \A r \in baked : r.source = "failed" => r.day \notin exact

\* A day's consumption is recorded once, with every sample the day ended with,
\* and a day that ended with any is recorded by the first cycle after it.
ConsumptionWhole ==
    /\ \A r, s \in consumption : r.day = s.day => r = s
    /\ \A r \in consumption : midnight[r.day] \subseteq r.samples
    /\ calm > 0 /\ today > 0 /\ midnight[today - 1] # {}
        => \E r \in consumption : r.day = today - 1

\* The shape engine has learned each settled day exactly once, through lost
\* state, replays and restarts, and no day whose prices were seen is missing.
LearnsEachDayOnce ==
    /\ curve.shape \in {NoShape, Learned(curve.records)}
    /\ fed \subseteq Recorded(curve)

\* What a day leaves in the stores it leaves there once, complete and for good: its
\* bake-in, its consumption and what the price curve learns of it (try_bake_yesterday,
\* try_finalise_dates, settle_days).
DaysSettleOnce == TypeOK /\ BakedOnce /\ ConsumptionWhole /\ LearnsEachDayOnce

================================================================================
