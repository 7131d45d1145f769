---------------------------- MODULE SchedulePlanner ----------------------------
(***************************************************************************)
(* The schedule optimiser (pipeline/schedule.py): one call of                *)
(* optimize_schedule, as the loops it runs.  The dynamic program fills a      *)
(* layer of values per slot from the last to the first, for every bucket of   *)
(* charge and every mode before; the forward roll then follows its choices    *)
(* from the charge that was measured.  The plan is solved again without the   *)
(* feed-in floor when it fills the battery anyway, and once more with the     *)
(* precharge valued when it does not reach the target.                       *)
(*                                                                           *)
(* A layer holds values times Scale, a power of the bucket width, so that the *)
(* interpolation between two buckets stays whole.                            *)
(***************************************************************************)
EXTENDS PlanInputs

CONSTANTS
    Now,            \* the current hour
    Buckets,        \* _SOC_BUCKETS
    Requests,       \* bound: the calls that are followed
    Nearly          \* _FULL_SOC_EPS, in storage kWh

ASSUME PlannerAssumption ==
    /\ Now \in Nat /\ Nearly \in Nat
    /\ Buckets \in Nat \ {0, 1}

\* What a policy allows and asks for
Policy == [standby : BOOLEAN, grid_charge : BOOLEAN, feed_in : BOOLEAN, discharge : BOOLEAN,
           gate : BOOLEAN, boost : Nat, feed_in_floor : BOOLEAN, reserve : Nat, penalty : Nat,
           load_reserve : BOOLEAN, reserve_days : Nat, extra : Nat,
           precharge : BOOLEAN, precharge_days : Nat, target : Nat]

\* The series, the sun and the load cover today and tomorrow; the averages may be NoPrice,
\* and the mode at hand may be any, known or not.
ASSUME RequestsAssumption ==
    \A c \in Requests :
        /\ c.series \in Seq([hour : 0..2 * Hours - 1, priced : BOOLEAN, forecast : BOOLEAN,
                             buy : Int, sell : Int])
        /\ c.site \in Site /\ c.site.min <= c.site.max
        /\ c.gen.hour \in [0..2 * Hours - 1 -> Nat]
        /\ \A d \in DOMAIN c.gen.totals : c.gen.totals[d] \in Nat
        /\ c.load \in [0..Hours - 1 -> Nat]
        /\ c.policy \in Policy
        /\ c.soc \in Nat
        /\ {c.score, c.sell_average, c.buy_average} \subseteq Int

VARIABLES
    call,       \* the arguments of the call
    job,        \* what the call derives from them before it solves
    stage,      \* where it stands
    round,      \* which solution it is at: "first", "plain", "precharge"
    left,       \* slots the dynamic program has still to fill
    value, choice, scale,
    terminal,   \* TerminalValuation
    floored,    \* FeedIn is held to the feed-in floor
    soc, prev, plan, profit,    \* the forward roll
    shortfall,  \* Precharge.shortfall_kwh; 0 while it is not active
    baseline    \* history: the charge the plan before the precharge ended with

planVars == <<call, job, stage, round, left, value, choice, scale, terminal, floored,
          soc, prev, plan, profit, shortfall, baseline>>

NoPrevious == "None"        \* the sentinel: no mode before, or one not in the actions

-----------------------------------------------------------------------------
(* What is fixed before the first solution *)

\* _filter_actions
Actions(p) ==
    {m \in Mode : /\ m = "StandBy" => p.standby
                  /\ m = "GridCharge" => p.grid_charge
                  /\ m = "FeedIn" => p.feed_in
                  /\ m = "Discharge" => p.discharge}

\* Mutation: the reserve shapes the buckets only, not the depth of a discharge.
HardwareFloor(site, measured, reserve) == site.min

\* The floor of the plan: the reserve raises the minimum, never above the charge
\* there is nor above the maximum.
FloorSoc(site, measured, reserve) ==
    Smaller(site.max, Smaller(site.min + reserve, Larger(site.min, measured)))

\* _cycle_cost_per_kwh and _feed_in_floor_per_kwh
CycleCost == 2 * Wear * Loss
FeedInFloor(average) == (average \div Loss) - 2 * Wear

JobOf(c) ==
    LET p       == c.policy
        priced  == Plannable(c.series)
        slots   == Picked(priced, {k \in DOMAIN priced : priced[k].hour >= Now})
        actions == Actions(p)
        floor   == FloorSoc(c.site, c.soc, p.reserve)
        gated   == p.gate /\ c.sell_average # NoPrice /\ p.discharge
        held    == p.feed_in_floor /\ c.sell_average # NoPrice /\ p.feed_in
        peak    == SunOnlyPeak(c.gen, c.load, c.site, c.soc, Now, p.precharge_days)
    IN  [slots   |-> slots,
         actions |-> actions,
         site    |-> [c.site EXCEPT !.min = floor],
         step    |-> (c.site.max - floor) \div (Buckets - 1),
         gated   |-> gated,
         held    |-> held,
         \* cost_blocked, and the gate's bar
         bar     |-> IF gated THEN Larger(CycleCost, c.sell_average) ELSE CycleCost,
         floor   |-> IF held THEN FeedInFloor(c.sell_average) ELSE NoPrice,
         flat    |-> FlatValue(priced, c.score),
         sun     |-> [i \in DOMAIN slots |-> c.gen.hour[slots[i].hour]],
         load    |-> [i \in DOMAIN slots |-> LoadAt(c.load, slots[i].hour)],
         \* plan_precharge
         target  |-> Smaller(p.target, c.site.max),
         peak    |-> peak,
         armed   |-> /\ p.precharge /\ p.grid_charge
                     /\ peak # Uncapped /\ peak < Smaller(p.target, c.site.max)
                     /\ c.buy_average # NoPrice
                     /\ \E s \in ToSet(slots) : s.priced /\ s.buy < c.buy_average]

\* The valuation of the plain plan
Valuation(c, j) ==
    [reserve   |-> [kwh   |-> IF c.policy.load_reserve /\ j.slots # <<>>
                              THEN LoadReserve(c.gen, c.load, j.slots[Len(j.slots)].hour + 1,
                                               c.policy.reserve_days, c.policy.extra)
                              ELSE 0,
                    price |-> ReserveValue(Plannable(c.series), c.policy.grid_charge, j.flat)],
     precharge |-> [kwh |-> 0, price |-> 0],
     flat      |-> j.flat]

Worth(at, v) == TerminalWorth(Over(at, job.site.min), v.reserve, v.precharge, v.flat)

-----------------------------------------------------------------------------
(* _Bucketer *)

ToSoc(b) == job.site.min + b * job.step

\* The nearest bucket, a half to the even one, kept within the range
ToIndex(at) ==
    LET raw  == at - job.site.min
        low  == raw \div job.step
        rest == 2 * (raw % job.step)
        near == IF rest > job.step \/ (rest = job.step /\ low % 2 = 1) THEN low + 1 ELSE low
    IN  Clamp(near, 0, Buckets - 1)

\* step times the value at a charge between two buckets
Interpolated(layer, at) ==
    LET raw == Clamp(at - job.site.min, 0, (Buckets - 1) * job.step)
        lo  == raw \div job.step
        hi  == Smaller(lo + 1, Buckets - 1)
    IN  (job.step - (raw % job.step)) * layer[lo] + (raw % job.step) * layer[hi]

-----------------------------------------------------------------------------
(* _run_dp *)

Prevs == job.actions \cup {NoPrevious}

\* The policy may be made for a stronger sun than is forecast.
PlanSun(i) == IF job.gated THEN (job.sun[i] * (100 + call.policy.boost)) \div 100 ELSE job.sun[i]

Barred(mode, slot) ==
    \/ mode = "Discharge" /\ slot.sell < job.bar
    \/ mode = "FeedIn" /\ floored /\ slot.sell < job.floor

Simulate(i, mode, at, sun) ==
    SimulateSlot(job.site, mode, at, sun, job.load[i], job.slots[i].buy, job.slots[i].sell, Wear)

\* The mode-change penalty: by throughput, and none after an unknown mode
Penalty(before, mode, flows) ==
    IF before \in {NoPrevious, mode} THEN 0 ELSE call.policy.penalty * Throughput(flows)

\* Mutation: the rest is read as if no mode came before.
ForgetfulOffers(i, b) ==
    LET open == {k \in DOMAIN Dispatchable : Dispatchable[k] \in job.actions /\ ~Barred(Dispatchable[k], job.slots[i])}
        offer(k) == LET m == Dispatchable[k]
                        o == Simulate(i, m, ToSoc(b), PlanSun(i))
                    IN  [rank |-> k, mode |-> m, flows |-> o.flows,
                         total |-> scale * job.step * o.reward
                                     + Interpolated([x \in 0..Buckets - 1 |-> value[x][NoPrevious]], o.soc_out)]
    IN  {offer(k) : k \in open}

\* What the actions offered in slot i come to from bucket b, apart from the penalty
Offers(i, b) ==
    LET open == {k \in DOMAIN Dispatchable : Dispatchable[k] \in job.actions /\ ~Barred(Dispatchable[k], job.slots[i])}
        offer(k) == LET m == Dispatchable[k]
                        o == Simulate(i, m, ToSoc(b), PlanSun(i))
                    IN  [rank |-> k, mode |-> m, flows |-> o.flows,
                         total |-> scale * job.step * o.reward
                                     + Interpolated([x \in 0..Buckets - 1 |-> value[x][m]], o.soc_out)]
    IN  {offer(k) : k \in open}

\* Mutation: the program charges no mode changes.
FreeChange(offer, before) == offer.total

Total(offer, before) == offer.total - scale * job.step * Penalty(before, offer.mode, offer.flows)

\* The first of the best, in the order of the modes
Best(offers, before) ==
    CHOOSE o \in offers :
        \A x \in offers :
            /\ Total(x, before) <= Total(o, before)
            /\ x.rank < o.rank => Total(x, before) < Total(o, before)

\* Start from the terminal layer
Solve(v) ==
    /\ stage' = "solve"
    /\ left' = Len(job'.slots)
    /\ terminal' = v
    /\ scale' = 1
    /\ value' = [b \in 0..Buckets - 1 |->
                    [m \in job'.actions \cup {NoPrevious} |->
                        TerminalWorth(b * job'.step, v.reserve, v.precharge, v.flat)]]
    /\ choice' = <<>>

SolveSlot ==
    /\ stage = "solve"
    /\ left > 0
    /\ LET offers == [b \in 0..Buckets - 1 |-> Offers(left, b)]
       IN  /\ value' = [b \in 0..Buckets - 1 |->
                          [m \in Prevs |-> Total(Best(offers[b], m), m)]]
           /\ choice' = <<[b \in 0..Buckets - 1 |-> [m \in Prevs |-> Best(offers[b], m).mode]]>> \o choice
    /\ scale' = scale * job.step
    /\ left' = left - 1
    /\ UNCHANGED <<call, job, stage, round, terminal, floored, soc, prev, plan, profit, shortfall, baseline>>

-----------------------------------------------------------------------------
(* _forward_roll *)

StartRoll ==
    /\ stage = "solve"
    /\ left = 0
    /\ stage' = "roll"
    /\ soc' = Smaller(call.site.max, call.soc)
    /\ prev' = IF call.mode \in job.actions THEN call.mode ELSE NoPrevious
    /\ plan' = <<>>
    /\ profit' = 0
    /\ UNCHANGED <<call, job, round, left, value, choice, scale, terminal, floored, shortfall, baseline>>

ExportModes == {"Discharge", "FeedIn"}

\* _refill_mode
RefillMode(slot) ==
    IF slot.sell < 0 /\ "NoExport" \in job.actions THEN "NoExport" ELSE "SelfUse"

\* Mutation: the policy's choice is followed below the floor as well.
PlainMode(i) == choice[i][ToIndex(soc)][prev]

\* Below the floor an export mode is replaced by one that refills.
RolledMode(i) ==
    LET chosen == choice[i][ToIndex(soc)][prev]
    IN  IF soc < job.site.min /\ chosen \in ExportModes THEN RefillMode(job.slots[i]) ELSE chosen

\* _make_schedule_slot
RowOf(i, mode, o, gain) ==
    [hour |-> job.slots[i].hour, mode |-> mode, sell |-> job.slots[i].sell,
     soc_before |-> soc, soc_after |-> o.soc_out, flows |-> o.flows, profit |-> gain]

RollSlot ==
    /\ stage = "roll"
    /\ Len(plan) < Len(job.slots)
    /\ LET i    == Len(plan) + 1
           mode == RolledMode(i)
           o    == Simulate(i, mode, soc, job.sun[i])
           gain == o.reward - Penalty(prev, mode, o.flows)
       IN  /\ plan' = Append(plan, RowOf(i, mode, o, gain))
           /\ profit' = profit + gain
           /\ soc' = o.soc_out
           /\ prev' = mode
    /\ UNCHANGED <<call, job, stage, round, left, value, choice, scale, terminal, floored, shortfall, baseline>>

Rolled == stage = "roll" /\ Len(plan) = Len(job.slots)

PlanPeak == Max({plan[i].soc_after : i \in DOMAIN plan})

-----------------------------------------------------------------------------
(* optimize_schedule *)

\* Nothing to plan, or no envelope to plan in
NothingToPlan(j) == j.slots = <<>>
NoEnvelope(j)    == j.step = 0

\* _standby_only_schedule: from the floor, whatever the charge is
IdleSlot ==
    /\ stage = "idle"
    /\ Len(plan) < Len(job.slots)
    /\ LET i == Len(plan) + 1
           o == Simulate(i, "StandBy", soc, job.sun[i])
       IN  /\ plan' = Append(plan, RowOf(i, "StandBy", o, o.reward))
           /\ profit' = profit + o.reward
           /\ soc' = o.soc_out
    /\ UNCHANGED <<call, job, stage, round, left, value, choice, scale, terminal, floored,
                   prev, shortfall, baseline>>

Idled == stage = "idle" /\ Len(plan) = Len(job.slots)

Prepare ==
    /\ stage = "called"
    /\ job' = JobOf(call)
    /\ floored' = job'.held
    /\ \/ /\ NothingToPlan(job')
          /\ stage' = "done"
          /\ UNCHANGED <<left, value, choice, scale, terminal, soc>>
       \/ /\ ~NothingToPlan(job') /\ NoEnvelope(job')
          /\ stage' = "idle"
          /\ soc' = job'.site.min
          /\ UNCHANGED <<left, value, choice, scale, terminal>>
       \/ /\ ~NothingToPlan(job') /\ ~NoEnvelope(job')
          /\ Solve(Valuation(call, job'))
          /\ UNCHANGED soc
    /\ UNCHANGED <<call, round, prev, plan, profit, shortfall, baseline>>

\* A plan that fills the battery has to export anyway: solved again without the floor
Overfills == PlanPeak >= call.site.max - Nearly

DropFloor ==
    /\ Rolled
    /\ round = "first" /\ floored /\ Overfills
    /\ floored' = FALSE
    /\ round' = "plain"
    /\ UNCHANGED job
    /\ Solve(terminal)
    /\ UNCHANGED <<call, soc, prev, plan, profit, shortfall, baseline>>

Settled == Rolled /\ ~(round = "first" /\ floored /\ Overfills)

Peak == Max({job.peak, call.soc, PlanPeak})

Precharges == job.armed /\ round # "precharge" /\ Peak < job.target

\* What the plain plan ends with and what is missing to the target, at the buy average
PrechargeTier == [kwh   |-> Over(soc, job.site.min) + job.target - Peak,
                  price |-> PrechargeValue(call.buy_average, job.flat)]

Tiered(v) == [v EXCEPT !.precharge = PrechargeTier]

Precharge ==
    /\ Settled
    /\ Precharges
    /\ round' = "precharge"
    /\ shortfall' = job.target - Peak
    /\ baseline' = soc
    /\ UNCHANGED job
    /\ Solve(Tiered(terminal))
    /\ UNCHANGED <<call, floored, soc, prev, plan, profit>>

Finish ==
    /\ (Settled /\ ~Precharges) \/ Idled
    /\ stage' = "done"
    /\ UNCHANGED <<call, job, round, left, value, choice, scale, terminal, floored,
                   soc, prev, plan, profit, shortfall, baseline>>

-----------------------------------------------------------------------------

PlanInit ==
    /\ call \in Requests
    /\ job = <<>>
    /\ stage = "called"
    /\ round = "first"
    /\ left = 0
    /\ value = <<>> /\ choice = <<>> /\ scale = 1
    /\ terminal = <<>>
    /\ floored = FALSE
    /\ soc = 0 /\ prev = NoPrevious /\ plan = <<>> /\ profit = 0
    /\ shortfall = 0
    /\ baseline = -1

PlanNext == Prepare \/ IdleSlot \/ SolveSlot \/ StartRoll \/ RollSlot \/ DropFloor \/ Precharge \/ Finish

PlanSpec == PlanInit /\ [][PlanNext]_planVars

-----------------------------------------------------------------------------
(* Properties *)

Row == [hour : Nat, mode : Mode, sell : Int, soc_before : Nat, soc_after : Nat,
        flows : Flows, profit : Int]

PlanTypeOK ==
    /\ stage \in {"called", "idle", "solve", "roll", "done"}
    /\ round \in {"first", "plain", "precharge"}
    /\ left \in 0..Len(call.series)
    /\ floored \in BOOLEAN
    /\ prev \in Mode \cup {NoPrevious}
    /\ {soc, shortfall, scale} \subseteq Nat /\ baseline \in Nat \cup {-1}
    /\ plan \in Seq(Row)
    /\ profit = SumTo([i \in DOMAIN plan |-> plan[i].profit], Len(plan))
    /\ \A i \in 2..Len(plan) : plan[i].soc_before = plan[i - 1].soc_after

\* No plan spends the reserve: however the slots fall, the charge it projects stays at
\* or above the minimum and the reserve on top of it, or above what was measured where
\* that is less ("a battery already under the floor must still be schedulable"), and
\* within the maximum.
ReserveHeld ==
    \A i \in DOMAIN plan :
        /\ plan[i].soc_after >= Min({call.soc, call.site.max, call.site.min + call.policy.reserve})
        /\ plan[i].soc_after <= call.site.max

\* Energy goes to the grid on purpose only where it pays: Discharge above the cost of
\* the cycle and the gate's average, FeedIn above its floor while that holds, and
\* neither from a battery below the floor.
ExportPays ==
    \A i \in DOMAIN plan :
        /\ plan[i].mode = "Discharge" => plan[i].sell >= job.bar
        /\ plan[i].mode = "FeedIn" /\ floored => plan[i].sell >= job.floor
        /\ plan[i].mode \in ExportModes => plan[i].soc_before >= job.site.min

\* The charges of the plan are all buckets, and the sun the policy was made for is the one
\* of the forecast: the gate is off, or there is no sun to boost.
Exact ==
    /\ Loss % job.step = 0 /\ call.soc >= job.site.min /\ call.soc <= call.site.max
    /\ \A i \in DOMAIN job.slots : PlanSun(i) = job.sun[i]

\* What the dynamic program promises for the charge and the mode at hand is what the
\* roll delivers: both charge the same penalties and see the same slots.
RollDelivers ==
    Rolled /\ Exact =>
        scale * (profit + Worth(soc, terminal))
            = value[ToIndex(call.soc)][IF call.mode \in job.actions THEN call.mode ELSE NoPrevious]

\* The precharge holds more: the plan made with the shortfall valued ends with at
\* least the charge of the plan made without.
PrechargeHoldsMore == Rolled /\ round = "precharge" /\ Exact => soc >= baseline

\* The worth of charge at the end is concave: "every reserve price is never below the
\* flat one, and the covering set only shrinks with height", so a kWh further up is
\* never worth more than one below it.
TerminalConcave ==
    stage = "roll" /\ plan = <<>> =>
        LET kwh(k) == Worth(job.site.min + k, terminal) - Worth(job.site.min + k - 1, terminal)
        IN  \A k \in 2..call.site.max - job.site.min : kwh(k) <= kwh(k - 1)

\* Every plan is a chain of slots that adds up, inside the limits of the battery
\* (simulate_slot, _forward_roll).
PlanHolds == PlanTypeOK /\ ReserveHeld

=============================================================================
