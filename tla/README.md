# sunSale in TLA+

sunSale is a Home Assistant integration. Every five minutes it reads prices,
forecasts, battery and meter entities, runs a graph of pure computations that
ends in a schedule of storage modes, and commands an inverter to the mode of the
current slot. This directory models the parts of it that keep state between
calls and the algorithms that decide, checks them with TLC on small instances,
and proves the most important properties with TLAPS for every value of the
constants. Source paths below are relative to `src/custom_components/sun_sale/`
unless they start with `docs/`.

Contents: how the system runs and what it consists of; the modules; the runs,
their bounds and fairness; the proofs; where the code and its documents part;
what is not modelled; the plan.

## How the system runs

One asyncio loop runs everything. A function runs without interruption until it
awaits; what makes the code hard is what other callbacks do during an await (a
service call to the inverter takes seconds), and what a restart forgets. So a
*step* of these models is the code between two awaits that really suspend, and a
job that waits in a lock or in a service call is a record in a queue.

The coordinator's cycle (an aligned tick, or a forced refresh beside it) reads
the translators, runs the guarded steps that keep the day's stores, runs the
graph of nodes, and awaits the control module with the resulting schedule. The
mode select calls the control module past the cycle. The control module
serialises its callers at one lock, commands a driver, and verifies by polling
what it reads back. A driver awaits service calls under a lock of its own and
owns timers (heartbeat, re-confirm) that write too. Export guard, watchdog and
resampler react to what other integrations' sensors do.

## Inventory

| Component | State it keeps | Operations | Hard behaviour | What makes it correct |
|---|---|---|---|---|
| `outbound/inverter_control_module.py` | last commanded mode, verify verdict, retry latch, window start, drift counter, timer handle, dispatch lock | tick, press, force-verify, verify tick, shutdown | callers interleave at the lock; a timer fires while a write is awaited | never write a stale mode, no ok without evidence, settle every verdict, stop re-writing |
| `outbound/solis_driver.py`, `heartbeat.py`, `inverter.py` | held spec, heartbeat, write lock; the inverter's own expiry | apply, hold, beat, shutdown | several awaited writes per mode, a beat between them, the five-minute deadman | no beat resurrects a released mode; a held forced mode does not lapse |
| `outbound/solis_dispatch_driver.py` | commanded target, pending re-confirm, support latch | apply, hold, release, re-confirm, shutdown | an unlocked one-shot timer, a target lost in the enable edge, restarts | what was released stays released; a commanded target takes |
| `outbound/entity_control.py`, vendor drivers, `storage_mode_specs.py` | held plan, keep-alive, write lock | apply, hold, beat, decode | plans that overlap, bounds that move, unmapped entities | what is written is what is compared, decoded and renewed |
| `outbound/export_guard.py` | phase, persistence and clear timers, energy | update per sample | late, missing and unpaired samples | trips only on a lasting export, clears only on a lasting absence |
| `orchestration/coordinator.py`, `cycle_steps.py` | cycle-in-flight flag, override, published data | tick, refresh, press, unload | cycles overlap and wait at the control module's lock | the override has the last word; failures are contained; ticks go on |
| `orchestration/price_feed_watchdog.py` | attempts, times, repair issue; the shared last reload | decide per cycle | two installs reload one sensor's owner | reloads spaced and bounded, every outage reported |
| `inbound/observer/*` | recorder buffers, windows, baked records | fetch, resample, bake | failing fetches, restarts, midnight | streams tell what sensors said; a day is baked once |
| `inbound/consumption_daily.py`, `pre_rollover_snapshot.py`, `yesterday_total_resolver.py`, `pipeline/monthly_bill.py` | snapshots, daily buckets, ledger | per cycle | counters that reset early, late prices, crashes between stores | each day counted once, at its true cost |
| `inbound/pricing.py`, `pipeline/price_fill.py`, `price_forecast.py` | day buckets, price-curve history | per cycle | partial feeds, rotation | each settled day learnt once |
| `pipeline/dag_engine.py`, `nodes/*` | none between runs | run | a node that raises, an input that is missing | a failure costs its descendants only |
| `pipeline/schedule.py`, `slot_physics.py`, `precharge.py` | none | plan | dynamic program with interpolation, masks, three passes | plans are feasible, keep the reserve, export where it pays, are optimal on the grid |
| `pipeline/battery.py`, `base_load.py`, `price_level.py`, `profitability.py`, `discharge_gate.py`, `observer/battery_trade.py` | observations, histories, averages | per cycle, restart | windows over midnight, ties, missing hours | what is learnt is true of the battery, market and house |
| `setup_flow/*`, `config_flow.py`, `inbound/*_resolver.py`, `inverter_sources.py`, `pipeline/tariff.py` | form accumulator, entry | forms, save, migration, resolution | pages in any order, vendors that come and go, legacy entries | what is saved starts, bills every hour and binds the entities it means |
| `outbound/inverter.py` readers, `inbound/telemetry` | none | read | opposite sign conventions | live and recorded readings are the plant's |
| solar and forecast accuracy, debug view, panel, stub drivers, `tools/` | | | | not modelled, see below |

`PROJECT.json` lists every component with its modules, and 40 hazards with the
line where each bites and the properties that would show it.

## Modules

The variables carry the names of the Python attributes where TLA+ allows it;
each module's head says what it abstracts.

| Modules | Model | Proofs |
|---|---|---|
| `ControlModule` | the control module | `ControlModuleProofs` |
| `ForcedHold` | abstract: what a driver promises | (`SolisRcProofs`, `SolisDispatchProofs`) |
| `SolisRc` | the Solis register driver, its lock, its heartbeat and the inverter's deadman | `SolisRcProofs` |
| `SolisDispatch` | the Remote Dispatch driver around it | `SolisDispatchProofs` |
| `ControlPlans`, `EntityDriver` | the plan tables of six platforms; the driver that writes them entity by entity | `EntityDriverProofs` |
| `ExportGuard` | the export guard and the listener that feeds it | `SensorProofs` |
| `PriceFeedWatchdog` | the watchdogs of several installs on one price sensor | `SensorProofs` |
| `Telemetry`, `RecorderResample` | directions and chains of the power readings; the recorder-backed resampler | `SensorProofs` |
| `DagEngine`, `PipelineNodes` | the tiered executor, for any graph; the coordinator's own 19 nodes | `CoordinatorCycleProofs` |
| `CoordinatorCycle` | ticks, refreshes, guarded steps, dispatch, presses, unload | `CoordinatorCycleProofs` |
| `PriceGrid`, `ObservedDay`, `MonthlyBill`, `PriceCurve`, `DayRollover` | the day's accounts across midnight: buckets, bake-in, ledger, history, and the cycle that drives them | `DayRolloverProofs` |
| `SlotPhysics`, `PlanInputs`, `SchedulePlanner` | one slot; what the planner is given; the dynamic program, the roll and the three passes | `CoordinatorCycleProofs` |
| `CapacityEstimator`, `CapacityLearning` | the estimator; the battery and the readings it learns from | |
| `PriceSignals`, `MarketSignals` | levels, scores and averages of a day's prices; the cycles, price buckets and trading they follow | |
| `BaseLoad` | the overnight floor and the runtime it gives | |
| `Tariff`, `PriceForms`, `EntityResolution`, `SetupFlow` | effective prices; stored price forms and migration; which entities are bound; the two flows | |
| `CommonLemmas` | queues as sequences, flattening, division, ranks, and induction over sets of naturals | all of it |

The `MC*` modules give constants small values; where literals do, the `.cfg`
does. `MCSensors`, `MCDays` (which takes in `MCLearning`) and `MCSetupFlow` put
several independent subjects in one run: each behaviour follows one of them
while the others rest.

### How state and actions correspond to the code

*Control module.* `jobs` is the dispatch lock's FIFO queue; its head holds the
lock. `Tick`, `Press`, `ForceVerify` and `Fire` are the four callers up to the
lock; `NothingToDispatch`, `Command`, `SelfHeal`, `Hold`, `Reconcile` are
`_apply_dispatch` from the lock to the driver call; `WriteDone`, `HoldDone` its
return; `VerifyPoll`, `VerifyRetry`, `RetryDone`, `Settle` the outcomes of
`_on_verify_tick`. `timers` and `verify_cancel` are separate because the code can
lose a handle. `readback` changes freely: lost writes, lagging caches, drift at
the inverter's screen, entities that drop out.

*Drivers.* In `SolisRc` a job is an apply, a hold or a beat, and `todo` the
service calls it has left; `selector`, `setpoint`, `rc_left` are the inverter's
function and deadman, `cached` what the number entity shows. In `SolisDispatch`
`wire` is the calls in flight and `reconfirm` the armed timer; it sees the
register driver as one variable, since `SolisRc` shows what that does.
`EntityDriver` writes a plan one row per step and lets entities be unmapped,
written by others and bounded differently between two steps. Calls reach the
inverter in the order they were made (one Modbus connection), and a cycle is
longer than a call and the ten-second re-confirm.

*Sensors.* In `ExportGuard` a sample is the whole of `_evaluate_export_guard`; it
runs when grid or PV reports, so it may pair a new reading with an old one. In
`PriceFeedWatchdog` a cycle takes its timestamp (`Starts`), waits, and looks
(`Ticks`, the whole of `decide` and what follows); `tried` counts the reloads that
really fell into the outage. `RecorderResample` fetches sensor by sensor, any of
which may fail, into buffers that a restart loses.

*Cycle.* `Translated`, `AssembledAndRun` and `Dispatched` are the three parts of
`_async_update_data` between its awaits; `Run` is `DagEngine.run`, tier after
tier, and `Assembled` what the ten guarded steps seed and inject. `Promised` says
without tiers what a run owes: the outputs of the nodes with no raising node and
no absent input upstream.

*Day, plan, learning, setup.* One action per cycle, per loop of the optimiser, per
reading, and per submitted form. Floating-point figures are whole numbers of a
unit chosen so that the code's comparisons come out on both sides; quotients
are rounded down and said to be.

## Runs

| Run | Shows | Bounds, and why they are enough |
|---|---|---|
| `control_safety` | `Lockstep`, `PendingIsWatched`, `GivesUpAfterRetry`, `OkNeedsEvidence` under every interleaving | two control points (a partial match needs two), a holder and a waiter at the lock; the proofs cover any number |
| `control_liveness` | verdicts settle, writes cease, drift is repaired | one control point, two jobs and timers; delays of one tick, since the code compares elapsed time with one window only |
| `rc` | a setpoint is zero or of the mode held or being applied and a passive mode leaves none; no lapse, the promise, recovery after any outage | two forced modes and a passive one; interval 3, deadman 5 as the code's minutes; lag 1 |
| `dispatch` | the re-confirm repairs, the promise, holds repair whatever was lost | the same modes; failsafe of 2 cycles; outages and restarts |
| `dispatch_one` | expected violation: see Divergences | the smallest instance |
| `sensors` | guard trips and clears in time and only then; outages are reported and reloads measured; streams and readings tell the truth | guard: excess below, at and above the threshold, windows of 3, 2 and 1 units of 40 s, a horizon for a full episode; watchdog: two interchangeable installs (`SYMMETRY`), a full outage with all reloads; resampler: from mid-day to the next midnight, an overlap of twice the pause as the code's ten minutes to five, a restart at any time |
| `day` | frozen costs true, the month counts each day once, days settle once; what is learnt of battery, market and house is true of them | accounts: three days, a month's turn on the second, any two faults (outage, late feed, early counter reset, stop, crash with some stores saved); battery: two midnights, a restart, a new pack, two gauges; market: two days of prices after one of three histories; house: five days sampled well or badly |
| `plan` | feasibility, reserve, paying exports, optimality | 4608 calls over three hours, five buckets; every sequence of modes tried as the reference, where charges fall on buckets and a boost changes no slot's sun (elsewhere the program only approximates) |
| `cycle` | containment, the override's last word, order of dispatches, ticks neither wedge nor outlive unload | the coordinator's real graph; two cycles at once, one override mode, one tick of lag |
| `driver` | what settled is shown as commanded; forced flows do not lapse; they end with the next plan, on Huawei and Deye with stand-by, and what Huawei's other plans or an unload leave runs out | all six platforms, one fault, every unmapped role the code tolerates |
| `setup` | an entry that is saved serves; roles are bound; saves mean what was edited | three forms of one flow in any order from six entries (one priced by season and holiday), one save, one change of integrations |
| `averages` | expected violation: see Divergences | the market of `day` alone |

Properties that belong together are one definition with named parts, for
example `GraphContained == TypeOK /\ OnlyDescendantsLost`, `PlanIsBest ==
Optimal /\ RollDelivers /\ PrechargeHoldsMore /\ TerminalConcave`; the comment on
each part says what it is about. Every property has at least one mutant in
`PROJECT.json`, a bug of the kind the code could have, that breaks it.

`CHECK_DEADLOCK FALSE` stands in the configurations whose behaviours end by
their bound: a plan is finished (`plan`), the horizon is reached (`sensors`,
`day`, `averages`), the last save is made (`setup`). The others must never stop.

Fairness is stated only where a liveness property needs it. `control_liveness`:
a job that can go on does (`WF`: the loop runs ready callbacks, service calls
return or raise); due timers fire, time passes and ticks come (`SF`, because
arriving jobs interrupt each of them again and again while the loop still runs
its ready handles in turn). `rc`: `WF` on the jobs, `SF` on beat and time.
`dispatch`: `WF` on returning calls and the re-confirm, `SF` on time and holds (the
coordinator calls the control module every cycle, and a held mode ends in
`hold`). `cycle`: `WF` on each cycle's steps, on a press that waits and on both
kinds of tick. Nothing assumes that presses, refreshes or unloads happen.

## Proofs

All theorems hold for every value of the constants allowed by the named
assumptions of the module, which TLC evaluates on the runs. Each safety theorem has
an inductive invariant in the model, checked by TLC on the run's instance, one lemma
per action in the proof module, and a temporal step at the end.

| Theorem | States | Argument |
|---|---|---|
| `ControlModuleProofs`: `TypeCorrect`, `CommandedIsWritten`, `PendingStaysWatched`, `GivesUpRetried`, `OkOnEvidence` | the control module's four properties | only the head of the queue is past the lock (`LockHeld`), a job in a write commits what it sent (`CommitsWhatItSent`), a pending verdict has a command, a counter at its threshold a command in flight (`DriftBelowThreshold`) |
| `SolisRcProofs`: `TypeCorrect`, `HeartbeatFollows`, `ImplementsPromise` | the refinement of `ForcedHold` | a hold or a writing beat carries the mode held now; only a forced mode's sequence engages; `Apply` is the promise's `Begin`, an apply's last write its `Finish`, all other steps refresh or stutter |
| `SolisRcProofs`: `NeverStale`, `BeatsTheDeadman` | `NoStaleSetpoint`, `NeverLapses` | `DeadmanInv`: what a job has left to write is a suffix of its sequence, a setpoint that acts is the one the number shows, and the deadman was refreshed when the heartbeat last started counting or the beat that refreshes it waits in the queue. `RcDeadmanAssumption` (interval plus delay below the expiry) is what the code's 3 and 5 minutes provide |
| `SolisDispatchProofs`: `Invariant`, `Repairs`, `ImplementsPromise` | `RepairsArmed`, `KeepsPromise` | which call each party waits for, how many re-confirms may be about (`FewReconfirms`), that nothing brings back what was stopped (`StoppedStays`), and that the last write armed, in flight or landed is of the mode wanted (`LastWriteIs`) |
| `EntityDriverProofs`: `Invariance`, `SettledShowsAlways`, `ForceFollowsModeAlways` | `SettledShows`, `ForceFollowsMode` on all six platforms | a command nobody disturbed has put its writes in place up to the one it has reached, no plan writes one role twice, and a renewal writes only what is in place already; on Huawei the age of the timed command stays below the beats that failed (`Ages`), a stand-by has sent the stop (`Stops`), and after an unload or under a passive plan no beat is left that would renew (`Beats`). `KeepaliveAssumption` (fewer failed beats than the command outlives) is what three-minute beats and a command of ten minutes provide |
| `SensorProofs`: `GuardInvariant`, `TypeCorrect`, `NoFalseTrip`, `NoEarlyClear`, `AnswersInTime`, `ReportsPlausibly` | the guard's three properties, and plausible episodes | the phases of an episode, what the readings showed since its onset (`Seeing`), and how late the last sample may be (`Timely`) |
| `SensorProofs`: `WatchdogInvariant`, `Reported`, `Measured` | `OutageReported`, `ReloadsMeasured` | cycles keep their pace, what an install remembers is of this outage, and an attempt leans on a reload that at most one other attempt leans on (`Tallied`). `WatchdogGraceAssumption`: a reload leaned on by the first attempt fell into the outage, since 15 minutes of grace exceed the 10 of the back-off and a cycle's delay |
| `SensorProofs`: `ResampleInvariant`, `FaithfulStreams`, `TrueReadings` | `StreamsFaithful`, `ReadingsTrue` | fetches that succeed for a tracked sensor start at most an overlap and a pause apart, the first starts with the window and the second since a restart no later than the first ended, so no change is missing; then a case split on directions and chains. Where a preferred sensor cannot be read, the two paths may differ in that battery or grid signal and in nothing else. `ResampleTimingAssumption`, `ResamplePlantsAssumption`, `ResampleConfigsAssumption` name the code's intervals, what a plant may do and what may be mapped |
| `DayRolloverProofs`: `Invariance`, `DaysSettleOnceAlways` | `DaysSettleOnce` (baked once, learnt once, consumption whole) for any faults | a day is recorded before the samples it ended with are trimmed, since a restart finalises the days they cover and every cycle finalises yesterday; the closing snapshot is kept as long as the day can be baked, and a side's snapshots of one time are one; the shape is absent or the bag of the recorded days |
| `CoordinatorCycleProofs`: `RunKeepsPromise` | a run leaves exactly what the graph owes, whatever raises or is missing | the layering exists (`Layered`); tier by tier, readiness comes to the same as having nothing broken or absent upstream; upstream, as many steps as there are nodes, is the least closed set (`UpstreamIsLeast`) |
| `CoordinatorCycleProofs`: `Invariant`, `LastWordHolds`, `InOrder`, `ContainedGraph` | `LastWord`, `DispatchesInOrder`, `GraphContained` | `CycleInv`: one aligned cycle at a time and newer than whatever was committed, and an override that spreads through the lock's queue behind its press; `GraphInv`: a cycle at its dispatch holds a context of its own readings, to which `RunKeepsPromise` applies |
| `CoordinatorCycleProofs`: `PlanInvariant`, `ReserveKept` | `PlanHolds` of every call: no slot of a plan ends above the maximum, nor below the least of the reserve, the maximum and the charge it started from | the job derived from any request is typed and its floor is at least the minimum; every layer of the program has a value and a choice for all buckets and modes, and no choice is barred in its slot; self-use is always offered, so a best mode exists (largest total, least rank); a slot's physics leaves the charge within the maximum and not below the lesser of the minimum and what there was |
| `CoordinatorCycleProofs`: `PaysToExport` | `ExportPays` | no choice is barred in its slot, the bar and the floor a solution was made under are those of the job at hand, and the roll refills only from a battery below the floor |
| `CoordinatorCycleProofs`: `WorthFalls` | the `TerminalConcave` part of `PlanIsBest` | a tier is paid at no less than the flat value and only as far as it covers, so the worth of one more unit never rises with the charge |

`GraphAssumption` (one producer per type, no cycle) is what constructing the
engine enforces; `PrimariesAssumption` (no node reads a type that is both stored
and produced) is true of the coordinator's graph, where only the array
calibration is both and nothing reads it.

Induction: the provers cannot instantiate an induction rule that takes a
predicate, so `CommonLemmas` states it over sets. A set of naturals has a least
member (`LeastNat`), hence a property has no first exception; from it follow the
existence of functions defined by primitive recursion (`PrimitiveRecursion`)
and by recursion along an acyclic order (`OrderedRecursion`). The tiers and the
upstream sets of the graph are handled this way.

Model-checked only:

- Liveness (`VerifySettles`, `WritesCease`, `DriftIsRepaired`, `ForcedRecovers`,
  `ForcedTakes`, `CyclesEnd`): the provers do not handle `ENABLED`.
- Optimality of the plan (`Optimal`, `RollDelivers`, `PrechargeHoldsMore` of
  `PlanIsBest`): an induction over the program's recursion, and exact only where the
  run's figures fall on the grid. That the terminal worth is concave is proved.
- `FrozenIsTrue`, `BillIsTrue`: the bake-in scales a slot as `(kwh * total) \div sum`;
  the sums agree exactly in the run's units, and up to rounding in others.
- `EstimateTrue`, `SignalsTrue`, `RuntimeHonest`, `SameClassPlainRank`: statements on
  sorted, averaged and interpolated data.

## Divergences

Shown by a run:

- `dispatch_one`: after a restart, before support resolves, a forced mode engages the
  RC function while the previous run's dispatch goes on
  (`outbound/solis_dispatch_driver.py:316`), against the comment at line 432, "Two
  mechanisms must never drive power at once."
- `averages`: the first cycle of a local day folds yesterday's realized price into the
  running averages and stamps the day (`pipeline/nodes/tier4.py:130`), but it reads
  yesterday's prices from buckets it rotates only afterwards
  (`orchestration/cycle_steps.py:210`, `:230`). Unless the feed still shows yesterday then
  (a synthetic one, `inbound/pricing.py:693`, never does) nothing is folded, against
  `docs/MODULES.md:375`: "folded once per local day by `ScheduleNode` as `0.9 × previous +
  0.1 × yesterday's realized sell price`".

Met while modelling, without a run of their own:

*Control.* A verify tick that waited for the lock behind a command clears the handle of
the timer that command armed, so two run on (`outbound/inverter_control_module.py:894`;
`docs/control_loop.md:158`: "A new commanded change always supersedes any pending verify").
An apply in flight at shutdown arms a timer, heartbeat or re-confirm after it. A forced
verify after ok that finds drift re-writes while the state says ok. Two presses in a
second count as two drift cycles. After a restart a passive mode does not stop the
dispatch the previous run left: `_release` returns early and its failsafe ends it.

*Entity drivers.* Deye's passive plans other than stand-by do not write the grid-charge
switch (`outbound/deye_driver.py:91`): what a grid charge left on stays on for good, and
`ForceFollowsMode` says nothing of it. Huawei's other than stand-by do not stop the forcible
command, and neither does an unload: it runs out, since nobody renews it
(`LeftoverLapses`), unless an apply in flight at the unload forces it anew. A discharge
bound of zero decodes as self-use. An unmapped Solis bit switch mismatches for good.

*Day and bill.* The docstring of `pipeline/monthly_bill.py` (about line 150) has the
ledger re-price every completed day until it converges with the bake-in; the series joins
yesterday's bucket and the feed, each slot twice, and the bake-in freezes the doubled
slots with half the energy. `capture_feature_vintage` (`pipeline/price_forecast.py:839`) drops stored
predictions that `capture_prediction` promises to keep. `settle_days` drops today's
vintage in an outage, and rotation overwrites today's slice with nothing.

*Cycle.* The docstring of `async_shutdown` has no cycle dispatch after it; one in flight
does. Two overlapping cycles lose a mode-history sample (`coordinator.py:1459`). The
override is restored after the tick was started (`select.py:80`). The re-entrancy guard
does not cover requested refreshes.

*Sensors.* A repair issue stays up after a reconfigure; two installs that started apart
do not give up together, and as few as half of an install's counted attempts are real
reloads (`ReloadsMeasured` states what does hold). The guard looks at the mode only when
a sensor reports, and nothing re-evaluates it when a window ends (`TracksExport`
allows two reports). The resampler's time of the last fetch moves on when fetches fail,
so a failed bootstrap loses the window; trimming drops the anchor of a sensor that has not
changed; the live path falls back reading by reading where the recorder picks by mapping.

*Learning.* A capacity window may span midnight (`coordinator.py:2145`), against
`const.py:421`: "Windows never span a counter midnight reset". The runtime estimate's
docstring nets solar, the code does not. Class medians include today's stored peak. An
hour that never qualified has a floor of zero (`pipeline/base_load.py:163`).

*Setup.* A stored Solis entry id is never cleared when a manual mapping replaces it, and
the profile path backfills from an older manual mapping. A hand-picked counter loses to an
auto-detected one (`inbound/inverter_entity_resolver.py:122`).

## Not modelled

- Solar geometry, forecast accuracy, the regression and the shape engine's arithmetic:
  floating-point statistics, out of a model checker's reach.
- Debug view, panel, sensors' rendering, translations: no state of their own.
- Parsing of vendors' attribute formats, JSON codecs, the holiday table: data formats.
- `tools/`: offline scripts. Stub drivers: notes only.
- The SoC-floor watch of `export_guard.py`, the observation log of the control module,
  the power magnitude of a dispatch.

## Plan

The models are complete for what the tables above list. What could be proved next, in
this order:

1. `SetupFlow`: `EntryServes` and `RolesBound`. The first needs that a confirmed page
   holds what the start reads; the second a lemma that a scan finds the first match.
2. `MarketSignals`: `SameClassPlainRank`, which needs one stored peak a day; then the
   averages of `SignalsTrue`, with a lemma that a weighted mean lies within its values.
3. `BaseLoad`: that a floor lies within the hours it is taken from.
