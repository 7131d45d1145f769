---------------------------- MODULE CoordinatorCycle ----------------------------
(***************************************************************************)
(* The coordinator's cycles (orchestration/coordinator.py): the wall-clock    *)
(* tick, the refreshes Home Assistant and the force_recalculate service ask   *)
(* for, the presses of the mode override, and unload.  A step runs from one   *)
(* await that really suspends to the next: the translators, then the           *)
(* watchdog's reload, the recorder and the weather service taken as one wait,  *)
(* then the inverter's registers.  The debounced stores and the nodes never    *)
(* suspend.                                                                  *)
(*                                                                           *)
(* Time is counted back from now, in aligned ticks: an age of 1 is the tick   *)
(* before the current one.                                                    *)
(***************************************************************************)
EXTENDS DagEngine, Sequences, SequencesExt

CONSTANTS
    Procs,          \* bound: the cycles that can be under way at once
    Modes,          \* what the operator can set the override to
    NoMode,         \* no override: the schedule drives
    MaxLag,         \* bound: the ticks a cycle outlives
    Absent,         \* the sets of readings that the translators can miss
    Flaky           \* the sets of nodes that can raise in one cycle

ASSUME CycleAssumption ==
    /\ MaxLag \in Nat
    /\ "press" \notin Procs
    /\ NoMode \notin Modes /\ {"slot", "nothing"} \cap (Modes \cup {NoMode}) = {}

VARIABLES
    loaded,         \* the entry is in hass.data
    subscribed,     \* _unsub_aligned_tick is set
    in_flight,      \* _cycle_in_flight
    restored,       \* the select entity has been added
    pending,        \* a requested refresh waits in the debouncer
    mode_override,
    data,           \* a schedule is published in self.data
    cycles,         \* the cycles under way
    jobs,           \* the dispatches at the control module's lock, first holds it
    sent,           \* what the control module committed last: a mode, or the slot's
    served,         \* history: age of the newest `now' an aligned cycle committed
    unheard         \* history: the override in force was not committed since it was set

lives == <<loaded, subscribed, restored>>
vars  == <<lives, in_flight, pending, mode_override, data, cycles, jobs, sent, served, unheard>>

Never == -1
MaxAge == MaxLag + 1        \* bound: older is not told apart

\* Types of orchestration/cycle_steps.py.
StoredPrimaries == {"BakedObservedHistory", "MonthlyBillState", "PriceHistory",
                    "PriceCurveHistory", "ForecastQualityStore", "ArrayCalibration",
                    "SunTimes", "InverterModeHistory", "RunningAverages"}
Stored == StoredPrimaries \cup
          {"YesterdayPrices", "SampleHistories", "DerivedPowerHistory",
           "CounterSnapshotHistory", "WeatherForecastData", "ConsumptionDailyBuckets",
           "EstimatedCapacity", "SchedulePolicy"}
Readings == {"PriceFeedData", "SolarData", "BatteryReading", "InverterModeReading"}

\* What a node computes another node reads from it, and not what a reader or a store
\* has of the same type (the calibration the steps refresh is read by no node).
ASSUME PrimariesAssumption ==
    \A n \in Nodes : Consumes[n] \cap Produced \cap (Stored \cup Readings) = {}

Step(keys, injects) == [seeds |-> keys, injects |-> injects]

\* _cycle_steps: what each deposits before it can fail, and again when its persist
\* succeeded.
SampleSteps == {
    Step({"YesterdayPrices"}, {}),
    Step({"SampleHistories"}, {"SampleHistories"}),
    Step({"DerivedPowerHistory"}, {"DerivedPowerHistory"})}

WindowSteps == {
    Step({}, {"SampleHistories", "DerivedPowerHistory"}),
    Step({"CounterSnapshotHistory"}, {"CounterSnapshotHistory"}),
    Step({"WeatherForecastData"}, {"WeatherForecastData"})}

StoreSteps == {
    Step(StoredPrimaries, {}),
    Step({"ConsumptionDailyBuckets"}, {"ConsumptionDailyBuckets"}),
    Step({"EstimatedCapacity"}, {"EstimatedCapacity"}),
    Step({"SchedulePolicy"}, {})}

Steps == SampleSteps \cup WindowSteps \cup StoreSteps

\* _guarded: every step seeds; a persist that raises is swallowed.
Assembled(primary, failing) ==
    primary \cup (UNION {s.seeds : s \in Steps}) \cup UNION {s.injects : s \in Steps \ failing}

\* What the steps and the engine make of the readings: no persist raises or one does,
\* and the nodes of one of Flaky raise.
Contexts == [read \in {Readings \ missing : missing \in Absent} |->
    {[primary |-> primary, secondary |-> Run(primary, broken)] :
        primary \in {Assembled(read, failing) : failing \in {{}} \cup {{s} : s \in Steps}},
        broken \in Flaky}]

Kinds  == {"aligned", "requested"}
Phases == {"translate", "steps", "dispatch"}
Idle   == [at |-> "idle", kind |-> "aligned", age |-> 0, primary |-> {}, secondary |-> {}]
Want   == Modes \cup {"slot", "nothing"}

TypeOK ==
    /\ loaded \in BOOLEAN /\ subscribed \in BOOLEAN /\ in_flight \in BOOLEAN
    /\ restored \in BOOLEAN /\ pending \in BOOLEAN /\ unheard \in BOOLEAN
    /\ mode_override \in Modes \cup {NoMode}
    /\ data \in BOOLEAN /\ served \in Never..MaxAge
    /\ \A p \in Procs :
          /\ cycles[p].at \in Phases \cup {"idle"} /\ cycles[p].kind \in Kinds
          /\ cycles[p].age \in 0..MaxLag
          /\ cycles[p].primary \subseteq Stored \cup Readings
          /\ cycles[p].secondary \subseteq Produced
    /\ \A i \in DOMAIN jobs : /\ jobs[i].of \in Procs \cup {"press"}
                              /\ jobs[i].age \in 0..MaxLag /\ jobs[i].want \in Want
    /\ sent \in Want

----------------------------------------------------------------------------
\* Starting a cycle.

UnderWay == {p \in Procs : cycles[p].at # "idle"}
Running(kind) == \E p \in UnderWay : cycles[p].kind = kind
Free == Procs \ UnderWay

Started(kind) ==
    LET p == CHOOSE q \in Free : TRUE
    IN  [cycles EXCEPT ![p] = [Idle EXCEPT !.at = "translate", !.kind = kind]]

\* The wall clock reaches the next aligned minute.
Elapse(base) ==
    /\ cycles' = [p \in Procs |-> IF base[p].at = "idle" \/ p \notin UnderWay THEN base[p]
                                  ELSE [base[p] EXCEPT !.age = @ + 1]]
    /\ jobs' = [i \in DOMAIN jobs |-> [jobs[i] EXCEPT !.age = @ + 1]]
    /\ served' = IF served \in {Never, MaxAge} THEN served ELSE served + 1
    /\ UNCHANGED <<lives, pending, mode_override, data, sent, unheard>>

Due == /\ \A p \in UnderWay : cycles[p].age < MaxLag
       /\ \A i \in DOMAIN jobs : jobs[i].age < MaxLag

\* Mutation: the tick does not look whether the previous cycle still runs.
StackedTick ==
    /\ Due /\ subscribed /\ Free # {}
    /\ in_flight' = TRUE
    /\ Elapse(Started("aligned"))

\* _on_aligned_tick with the previous cycle done.
AlignedTick ==
    /\ Due /\ subscribed /\ ~in_flight /\ Free # {}
    /\ in_flight' = TRUE
    /\ Elapse(Started("aligned"))

\* The tick finds a cycle still running and skips, or nothing is subscribed.
SkippedTick ==
    /\ Due /\ (in_flight \/ ~subscribed)
    /\ UNCHANGED in_flight
    /\ Elapse(cycles)

\* force_recalculate, or the refresh once Home Assistant has started: through the
\* base class's debouncer, past the in-flight flag.
Request ==
    /\ loaded /\ ~pending
    /\ IF Running("requested") \/ Free = {}
       THEN pending' = TRUE /\ UNCHANGED cycles
       ELSE cycles' = Started("requested") /\ UNCHANGED pending
    /\ UNCHANGED <<lives, in_flight, mode_override, data, jobs, sent, served, unheard>>

Debounced ==
    /\ pending /\ loaded /\ ~Running("requested") /\ Free # {}
    /\ pending' = FALSE
    /\ cycles' = Started("requested")
    /\ UNCHANGED <<lives, in_flight, mode_override, data, jobs, sent, served, unheard>>

----------------------------------------------------------------------------
\* _async_update_data, await by await.

\* Mutation: the flag clears only after a cycle that got to its dispatch.
FreedOnSuccess(p) ==
    /\ cycles' = [cycles EXCEPT ![p] = Idle]
    /\ in_flight' = IF cycles[p].kind = "aligned" /\ cycles[p].at = "dispatch"
                    THEN FALSE ELSE in_flight

\* The cycle is over: the flag of the tick clears, whatever happened.
Freed(p) ==
    /\ cycles' = [cycles EXCEPT ![p] = Idle]
    /\ in_flight' = IF cycles[p].kind = "aligned" THEN FALSE ELSE in_flight

\* Mutation: the watchdog is called without its guard.
UnguardedWatchdog(p, missing, raised) ==
    /\ cycles[p].at = "translate"
    /\ IF raised
       THEN Freed(p)
       ELSE /\ cycles' = [cycles EXCEPT ![p].at = "steps", ![p].primary = Readings \ missing]
            /\ UNCHANGED in_flight
    /\ UNCHANGED <<lives, pending, mode_override, data, jobs, sent, served, unheard>>

\* run_translators leaves out a source that raises or has nothing; then the watchdog,
\* which can raise inside its guard.
Translated(p, missing, raised) ==
    /\ cycles[p].at = "translate"
    /\ cycles' = [cycles EXCEPT ![p].at = "steps", ![p].primary = Readings \ missing]
    /\ UNCHANGED <<lives, in_flight, pending, mode_override, data, jobs, sent, served, unheard>>

\* Mutation: a released override is handed on as if it were a mode.
WantedUnmapped(override, schedule) == override

\* The target the control module resolves from what the cycle hands it.
Wanted(override, schedule) ==
    IF override # NoMode THEN override ELSE IF schedule THEN "slot" ELSE "nothing"

\* The steps, the engine, and the call into the control module with the override of
\* this moment; a cycle without a mode reading is over here.
AssembledAndRun(p) ==
    /\ cycles[p].at = "steps"
    /\ \E context \in Contexts[cycles[p].primary] :
         LET planned == "Schedule" \in context.secondary
             job == [of |-> p, age |-> cycles[p].age, want |-> Wanted(mode_override, planned)]
         IN  IF "InverterModeReading" \in context.primary
             THEN /\ cycles' = [cycles EXCEPT ![p].at = "dispatch",
                                              ![p].primary = context.primary,
                                              ![p].secondary = context.secondary]
                  /\ jobs' = Append(jobs, job)
                  /\ UNCHANGED <<in_flight, data>>
             ELSE /\ Freed(p)
                  /\ data' \in {data, planned}
                  /\ UNCHANGED jobs
    /\ UNCHANGED <<lives, pending, mode_override, sent, served, unheard>>

\* The control module writes, or its write raises.
Commit(job, ok) ==
    IF ok /\ job.want # "nothing"
    THEN /\ sent' = job.want
         /\ served' = IF job.of \in Procs /\ cycles[job.of].kind = "aligned"
                      THEN job.age ELSE served
         /\ unheard' = (unheard /\ job.want # mode_override)
    ELSE UNCHANGED <<sent, served, unheard>>

\* _build_sensor_dict: the sensors are published, or building them raises and the old
\* data stays.
Published(p) == data' \in {data, "Schedule" \in cycles[p].secondary}

\* Mutation: the control module's lock is gone.
DispatchedUnlocked(p) ==
    /\ cycles[p].at = "dispatch"
    /\ \E ok \in BOOLEAN, i \in DOMAIN jobs :
           /\ jobs[i].of = p
           /\ Commit(jobs[i], ok)
           /\ jobs' = RemoveAt(jobs, i)
    /\ Freed(p)
    /\ Published(p)
    /\ UNCHANGED <<lives, pending, mode_override>>

\* The dispatch returns or raises; then the guarded bookkeeping and the sensors.
Dispatched(p) ==
    /\ cycles[p].at = "dispatch" /\ Head(jobs).of = p
    /\ \E ok \in BOOLEAN : Commit(Head(jobs), ok)
    /\ jobs' = Tail(jobs)
    /\ Freed(p)
    /\ Published(p)
    /\ UNCHANGED <<lives, pending, mode_override>>

CycleStep(p) ==
    \/ \E missing \in Absent, raised \in BOOLEAN : Translated(p, missing, raised)
    \/ AssembledAndRun(p)
    \/ Dispatched(p)

----------------------------------------------------------------------------
\* The operator and Home Assistant.

\* async_select_option: the override is set, and dispatched past the cycle with the
\* schedule that was published last.
Press(mode) ==
    /\ loaded /\ restored /\ mode # mode_override
    /\ ~ \E i \in DOMAIN jobs : jobs[i].of = "press"
    /\ mode_override' = mode
    /\ jobs' = Append(jobs, [of |-> "press", age |-> 0, want |-> Wanted(mode, data)])
    /\ unheard' = (mode # NoMode)
    /\ UNCHANGED <<lives, in_flight, pending, data, cycles, sent, served>>

PressDone ==
    /\ jobs # <<>> /\ Head(jobs).of = "press"
    /\ \E ok \in BOOLEAN : Commit(Head(jobs), ok)
    /\ jobs' = Tail(jobs)
    /\ UNCHANGED <<lives, in_flight, pending, mode_override, data, cycles>>

\* The select entity is added, after the tick was started, and puts back the option
\* it held before the restart; nothing is dispatched for it.
Restore(mode) ==
    /\ loaded /\ ~restored
    /\ restored' = TRUE
    /\ mode_override' = mode
    /\ unheard' = (mode # NoMode)
    /\ UNCHANGED <<loaded, subscribed, in_flight, pending, data, cycles, jobs, sent, served>>

\* Mutation: unload forgets the tick the base class does not know about.
LeakyUnload ==
    /\ loaded
    /\ loaded' = FALSE /\ pending' = FALSE
    /\ UNCHANGED <<subscribed, restored, in_flight, mode_override, data, cycles, jobs, sent,
                   served, unheard>>

\* async_unload_entry and async_shutdown: the tick's subscription and the debouncer go;
\* a cycle that is under way is not cancelled.
Unload ==
    /\ loaded
    /\ loaded' = FALSE /\ subscribed' = FALSE /\ pending' = FALSE
    /\ UNCHANGED <<restored, in_flight, mode_override, data, cycles, jobs, sent, served, unheard>>

Init ==
    /\ loaded = TRUE /\ subscribed = TRUE /\ in_flight = FALSE /\ restored = FALSE
    /\ pending = FALSE /\ mode_override = NoMode /\ data = FALSE
    /\ cycles = [p \in Procs |-> Idle]
    /\ jobs = <<>>
    /\ sent = "nothing"
    /\ served = Never /\ unheard = FALSE

Next ==
    \/ AlignedTick \/ SkippedTick
    \/ Request \/ Debounced
    \/ \E p \in Procs : CycleStep(p)
    \/ \E mode \in Modes \cup {NoMode} : Press(mode) \/ Restore(mode)
    \/ PressDone
    \/ Unload

Spec == Init /\ [][Next]_vars

\* Every await returns or raises, and the wall clock runs.
Fairness ==
    /\ \A p \in Procs : WF_vars(CycleStep(p))
    /\ WF_vars(PressDone)
    /\ WF_vars(AlignedTick) /\ WF_vars(SkippedTick)

FairSpec == Spec /\ Fairness

----------------------------------------------------------------------------
\* Properties.

\* A failed node, a missing reading or a failed write costs the nodes downstream of it
\* and no other: the tiers lose nothing, and no failed step leaves a stored input out
\* (_guarded steps, optional inputs, tier order).
OnlyDescendantsLost ==
    \A p \in Procs : cycles[p].at = "dispatch" =>
        \E broken \in Flaky :
            cycles[p].secondary = Promised((cycles[p].primary \cap Readings) \cup Stored, broken)

\* Every variable keeps its type, and a failure costs no more than it must.
GraphContained == TypeOK /\ OnlyDescendantsLost

\* Whatever fails on the way, a cycle that read the inverter's mode ends only through
\* the control module.
EveryCycleDispatches ==
    \A p \in Procs :
        cycles[p].at \notin {"idle", "dispatch"} /\ cycles'[p].at = "idle"
            => cycles[p].at = "steps" /\ "InverterModeReading" \notin cycles[p].primary

\* An aligned cycle never commits the slot of an older tick after a newer aligned
\* cycle has committed its own.
AlignedInOrder ==
    \A p \in Procs :
        cycles[p].at = "dispatch" /\ cycles[p].kind = "aligned" /\ cycles'[p].at = "idle"
            => served = Never \/ cycles[p].age <= served

\* Each cycle reaches the inverter, and aligned ones in the order of their ticks
\* (_async_update_data, _on_aligned_tick).
DispatchesInOrder == [][EveryCycleDispatches /\ AlignedInOrder]_vars

\* Once the override the operator set has reached the inverter, nothing that was decided
\* before it was set comes after it: the cycle hands the control module the override of
\* the moment of the call, and the module takes its callers in that order.
LastWord == mode_override # NoMode /\ ~unheard => sent = mode_override

\* Unload ends the cycles: at last none is under way and nothing more is committed.
UnloadQuiets == ~loaded ~> [](UnderWay = {} /\ jobs = <<>>)

\* While the entry is loaded no failure and no overrun stops the tick for good.
NeverWedged == []<>(~loaded \/ in_flight) /\ []<>(~loaded \/ ~in_flight)

\* Cycles end, and end for good with the entry (_on_aligned_tick, async_shutdown).
CyclesEnd == NeverWedged /\ UnloadQuiets

----------------------------------------------------------------------------
\* Why LastWord and DispatchesInOrder hold: the inductive invariant.

\* What a cycle can have read, and what the graph can have made of it.
Read     == DOMAIN Contexts
Gathered == Read \cup UNION {{c.primary : c \in Contexts[r]} : r \in Read}
Computed == UNION {{c.secondary : c \in Contexts[r]} : r \in Read}

Cycle == [at : Phases \cup {"idle"}, kind : Kinds, age : 0..MaxLag,
          primary : Gathered \cup {{}}, secondary : Computed \cup {{}}]

Job == [of : Procs \cup {"press"}, age : 0..MaxLag, want : Want]

WellFormed ==
    /\ {in_flight, restored, unheard} \subseteq BOOLEAN
    /\ mode_override \in Modes \cup {NoMode}
    /\ cycles \in [Procs -> Cycle] /\ jobs \in Seq(Job)
    /\ served \in Never..MaxAge
    /\ \A p \in Procs : cycles[p].at = "steps" => cycles[p].primary \in Read

\* A cycle that waits for its dispatch has a job at the lock.
JobWaits == \A p \in Procs : cycles[p].at = "dispatch" => \E i \in DOMAIN jobs : jobs[i].of = p

\* One aligned cycle at a time, and it is newer than whatever was committed.
OneAligned ==
    \A p \in UnderWay : cycles[p].kind = "aligned" =>
        /\ in_flight
        /\ \A q \in UnderWay : cycles[q].kind = "aligned" => q = p
        /\ served = Never \/ cycles[p].age <= served

\* A press waits at the lock behind the job.
Overtaken(i) == \E j \in DOMAIN jobs : i < j /\ jobs[j].of = "press"

\* Only what a press will overtake wants an earlier override; once one job brings the
\* override in force, so do all that come after it.
OverrideSpreads ==
    /\ \A i \in DOMAIN jobs : Overtaken(i) \/ jobs[i].want \in {mode_override, "slot", "nothing"}
    /\ mode_override # NoMode =>
           \A i, j \in DOMAIN jobs :
               i < j /\ jobs[i].want = mode_override => jobs[j].want = mode_override
    /\ mode_override # NoMode /\ ~unheard => \A i \in DOMAIN jobs : jobs[i].want = mode_override
    /\ ~restored => mode_override = NoMode /\ \A i \in DOMAIN jobs : jobs[i].of # "press"

CycleInv == WellFormed /\ JobWaits /\ OneAligned /\ OverrideSpreads /\ LastWord

\* And why GraphContained does: a cycle at its dispatch holds a context of its readings.
GraphInv ==
    /\ {loaded, subscribed, pending, data} \subseteq BOOLEAN /\ sent \in Want
    /\ \A p \in Procs : cycles[p].at = "dispatch" =>
          \E read \in Read : \E context \in Contexts[read] :
              cycles[p].primary = context.primary /\ cycles[p].secondary = context.secondary

=============================================================================
