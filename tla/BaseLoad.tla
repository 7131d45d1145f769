------------------------------- MODULE BaseLoad -------------------------------
(***************************************************************************)
(* The floor of the house's consumption, hour by hour, learnt from finished   *)
(* days, and how long the battery lasts against it (pipeline/base_load.py).   *)
(*                                                                           *)
(* Energies are whole numbers; percentiles are rounded down.  A day has       *)
(* HoursPerDay hours and an hour StepsPerHour simulation steps.               *)
(***************************************************************************)
EXTENDS Integers, Sequences, SequencesExt, FiniteSets, FiniteSetsExt

CONSTANTS
    HoursPerDay, StepsPerHour,  \* SIMULATION_STEP_MINUTES to the hour
    WindowDays,                 \* DEFAULT_WINDOW_DAYS
    MinDays, MinBucketDays,     \* MIN_HISTORY_DAYS, MIN_BUCKET_DAYS
    MinComplete,                \* CONSUMPTION_DAILY_MIN_HOUR_COMPLETENESS, in percent
    FloorPct, FallbackPct,      \* DEFAULT_PERCENTILE, DEFAULT_FALLBACK_PERCENTILE
    Stub,                       \* DEFAULT_STUB_KW
    HorizonSteps,               \* DEFAULT_HORIZON_HOURS, in steps
    DayLoads,                   \* what a finished day may record: [kwh, complete]
    Charges,                    \* usable charge, in energy per StepsPerHour
    LastDate                    \* bound on the days of a behaviour

ASSUME BaseLoadAssumption ==
    /\ HoursPerDay \in Nat \ {0} /\ StepsPerHour \in Nat \ {0}
    /\ MinBucketDays \in Nat \ {0} /\ FloorPct \in 0..100 /\ FallbackPct \in 0..100

Hours == 0..HoursPerDay - 1

VARIABLES
    today_local,
    records         \* ConsumptionDailyBuckets: the finished days, in their order

loadVars == <<today_local, records>>

\* _percentile, interpolated between the ranks
Percentile(values, pct) ==
    LET s == SortSeq(values, <)
        n == Len(s)
        lo == ((pct * (n - 1)) \div 100) + 1
        hi == IF lo < n THEN lo + 1 ELSE n
        part == (pct * (n - 1)) % 100
    IN  IF n = 0 THEN 0 ELSE s[lo] + ((s[hi] - s[lo]) * part) \div 100

\* _records_in_window
InWindow == SelectSeq(records, LAMBDA r : r.date > today_local - WindowDays)

\* Mutation: an hour counts however much of it was sampled.
QualifiedValuesAll(h) == LET w == InWindow IN [i \in DOMAIN w |-> w[i].kwh[h]]

\* _qualified_values_per_hour: hours sampled nearly whole
QualifiedValues(h) ==
    LET w == SelectSeq(InWindow, LAMBDA r : r.complete[h] >= MinComplete)
    IN  [i \in DOMAIN w |-> w[i].kwh[h]]

\* build_base_load_profile: the floor of each hour, that of all hours when an hour
\* has too few days, and everywhere when there are too few days at all
BaseLoadProfile ==
    LET pool == FlattenSeq([i \in 1..HoursPerDay |-> QualifiedValues(i - 1)])
        fallback == IF pool = <<>> THEN Stub ELSE Percentile(pool, FallbackPct)
        sparse(h) == Len(InWindow) < MinDays \/ Len(QualifiedValues(h)) < MinBucketDays
    IN  [h \in Hours |->
            IF Len(InWindow) >= MinDays /\ pool = <<>> THEN 0
            ELSE IF sparse(h) THEN fallback ELSE Percentile(QualifiedValues(h), FloorPct)]

\* BaseLoadProfile.at, of a simulation step
DrainAt(profile, now, k) == profile[((now + k) \div StepsPerHour) % HoursPerDay]

Depleted(n, part, of) == [steps |-> n, part |-> part, of |-> of]
Lasts == Depleted(-1, 0, 1)         \* runtime_minutes is None

\* Mutation: a step that takes exactly what is left goes on to the next.
EstimateRuntimeOpen(profile, now, usable) ==
    LET Step(acc, k) ==
            LET d == DrainAt(profile, now, k)
            IN  IF acc.done THEN acc
                ELSE IF acc.left <= 0 THEN [acc EXCEPT !.done = TRUE, !.out = Depleted(k, 0, 1)]
                ELSE IF d > 0 /\ d > acc.left THEN [acc EXCEPT !.done = TRUE, !.out = Depleted(k, acc.left, d)]
                ELSE [acc EXCEPT !.left = @ - d]
    IN  FoldLeft(Step, [left |-> usable, done |-> FALSE, out |-> Lasts], [i \in 1..HorizonSteps |-> i - 1]).out

\* estimate_battery_runtime: whole steps, and the part of the step in which the
\* usable charge runs out; `now` is the step of the day it starts from.
EstimateRuntime(profile, now, usable) ==
    LET Step(acc, k) ==
            LET d == DrainAt(profile, now, k)
            IN  IF acc.done THEN acc
                ELSE IF acc.left <= 0 THEN [acc EXCEPT !.done = TRUE, !.out = Depleted(k, 0, 1)]
                ELSE IF d > 0 /\ d >= acc.left THEN [acc EXCEPT !.done = TRUE, !.out = Depleted(k, acc.left, d)]
                ELSE [acc EXCEPT !.left = @ - d]
    IN  FoldLeft(Step, [left |-> usable, done |-> FALSE, out |-> Lasts], [i \in 1..HorizonSteps |-> i - 1]).out

-----------------------------------------------------------------------------
LoadTypeOK ==
    /\ today_local \in 0..LastDate
    /\ \A i \in DOMAIN records : records[i].date < today_local

LoadInit == today_local = 0 /\ records = <<>>

\* A day ends: it is recorded, or the recorder had nothing of it.
FinishDay(load, known) ==
    /\ today_local < LastDate
    /\ today_local' = today_local + 1
    /\ records' = IF known THEN Append(records, [date |-> today_local, kwh |-> load.kwh, complete |-> load.complete])
                  ELSE records

LoadNext == \E load \in DayLoads, known \in BOOLEAN : FinishDay(load, known)

-----------------------------------------------------------------------------
(* Properties *)

\* A floor never comes from an hour that was sampled in part, whose total is low
\* because samples are missing: it lies between the least and the most the house
\* used in whole hours of the window.
FloorFromWholeHours ==
    LET whole == {<<i, h>> \in (DOMAIN records) \X Hours :
                    records[i].complete[h] >= MinComplete /\ records[i].date > today_local - WindowDays}
        used(P) == {records[p[1]].kwh[p[2]] : p \in P}
        profile == BaseLoadProfile
    IN  \A h \in Hours :
            LET own == {p \in whole : p[2] = h}
                of == IF Len(InWindow) >= MinDays /\ Cardinality(own) >= MinBucketDays THEN own ELSE whole
            IN  whole # {} => Min(used(of)) <= profile[h] /\ profile[h] <= Max(used(of))

Drained(profile, now, k) == MapThenSumSet(LAMBDA j : DrainAt(profile, now, j), 0..k - 1)

\* What the profile takes up to the announced time is what was usable, no less and
\* no more; when no time is announced, the charge outlasts the horizon.
RuntimeDrainsUsable ==
    records # <<>> =>
    LET profile == BaseLoadProfile
    IN  \A now \in 0..HoursPerDay * StepsPerHour - 1, usable \in Charges :
            LET r == EstimateRuntime(profile, now, usable)
            IN  IF r = Lasts THEN Drained(profile, now, HorizonSteps) < usable
                ELSE /\ Drained(profile, now, r.steps) + r.part = usable
                     /\ r.part <= DrainAt(profile, now, r.steps)
                     /\ r.steps > 0 => Drained(profile, now, r.steps) < usable

\* The overnight base load and the runtime it gives (base_load_profile, estimate_runtime).
RuntimeHonest == FloorFromWholeHours /\ RuntimeDrainsUsable

===============================================================================
