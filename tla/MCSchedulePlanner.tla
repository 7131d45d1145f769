--------------------------- MODULE MCSchedulePlanner ---------------------------
(***************************************************************************)
(* Calls of optimize_schedule over three hours: today's last and the two of   *)
(* tomorrow, of a two-hour day.  A reference value for every plan is found by  *)
(* trying every sequence of modes.                                           *)
(***************************************************************************)
EXTENDS SchedulePlanner

CONSTANTS
    Spots,      \* market prices, NoPrice for an hour without one
    Suns,       \* the energy of the hours from now on
    Charges,    \* the charge measured
    Settings    \* how many of the settings below are tried

Formula(markup, fees) ==
    [dynamic |-> TRUE, fixed |-> 0, markup |-> markup, vat |-> 0, fees |-> fees,
     seasons |-> FALSE, weekends |-> FALSE, holidays |-> FALSE, summer_start |-> 0, winter_start |-> 0,
     schedules |-> {[season |-> "all", day_type |-> "workday",
                     switches |-> <<[start |-> 0, tariff |-> 1], [start |-> 1, tariff |-> 2]>>]}]

Curve == <<30, 60, 10, 90>>     \* the predicted prices

Series(market, whole) ==
    [h \in 1..4 |->
        PriceSlot(h - 1, [date |-> 0, minute |-> (h - 1) % 2, weekend |-> FALSE, holiday |-> FALSE],
                  IF h = 1 THEN 120 ELSE market[h - 1], IF whole /\ h > 2 THEN Curve[h] ELSE NoPrice,
                  Formula(2, <<10, 4>>), Formula(1, <<0, 0>>))]

Plain == [standby |-> TRUE, grid_charge |-> TRUE, feed_in |-> TRUE, discharge |-> TRUE,
          gate |-> FALSE, boost |-> 100, feed_in_floor |-> FALSE, reserve |-> 0,
          load_reserve |-> FALSE, reserve_days |-> 1, extra |-> 0,
          precharge |-> FALSE, precharge_days |-> 2, target |-> 0, penalty |-> 1]

\* A policy, the mode at hand, the score of the day, the running averages, and
\* whether tomorrow's hours have a predicted price
Setting == <<
    [policy |-> [Plain EXCEPT !.precharge = TRUE, !.target = 20], curve |-> TRUE, mode |-> "unknown",
     score |-> 0, sell |-> NoPrice, buy |-> 14],
    [policy |-> [Plain EXCEPT !.precharge = TRUE, !.target = 20, !.feed_in_floor = TRUE, !.penalty = 0],
     curve |-> TRUE, mode |-> "SelfUse", score |-> 100, sell |-> 200, buy |-> 60],
    [policy |-> [Plain EXCEPT !.load_reserve = TRUE, !.extra = 1, !.precharge = TRUE, !.target = 20, !.standby = FALSE,
                              !.discharge = FALSE],
     curve |-> TRUE, mode |-> "Discharge", score |-> 0, sell |-> 100, buy |-> 30],
    [policy |-> [Plain EXCEPT !.gate = TRUE, !.feed_in_floor = TRUE, !.reserve = 8],
     curve |-> TRUE, mode |-> "Discharge", score |-> 50, sell |-> 100, buy |-> NoPrice],
    [policy |-> [Plain EXCEPT !.grid_charge = FALSE, !.feed_in = FALSE, !.reserve = 8, !.penalty = 3],
     curve |-> TRUE, mode |-> "FeedIn", score |-> 50, sell |-> NoPrice, buy |-> NoPrice],
    [policy |-> [Plain EXCEPT !.reserve = 20], curve |-> FALSE, mode |-> "NoExport", score |-> 50,
     sell |-> NoPrice, buy |-> NoPrice] >>

Battery == [min |-> 4, max |-> 20, charge |-> 8, discharge |-> 2, export |-> 4, to_grid |-> Uncapped]

Call(market, sun, charge, setting) ==
    [series |-> Series(market, setting.curve), soc |-> charge, site |-> Battery,
     gen |-> [hour |-> [h \in 0..3 |-> IF h = 0 THEN 4 ELSE sun[h]],
              totals |-> [d \in 0..2 |-> IF d = 0 THEN 4 + sun[1] ELSE IF d = 1 THEN sun[2] + sun[3] ELSE 4]],
     load |-> [h \in 0..1 |-> 4 * h],
     policy |-> setting.policy, mode |-> setting.mode, score |-> setting.score,
     sell_average |-> setting.sell, buy_average |-> setting.buy]

Calls == {Call(m, s, c, Setting[k]) : m \in [1..3 -> Spots], s \in Suns, c \in Charges, k \in 1..Settings}

MCSpots == {NoPrice, 5, 80, 120}
MCSuns  == {<<0, 0, 0>>, <<0, 8, 12>>, <<12, 4, 0>>}

\* The best that any sequence of modes comes to, from the charge at, after slot i - 1
RECURSIVE BestOf(_, _, _)
BestOf(i, at, before) ==
    IF i > Len(job.slots) THEN Worth(at, terminal)
    ELSE Max({LET o == Simulate(i, m, at, job.sun[i])
              IN  o.reward - Penalty(before, m, o.flows) + BestOf(i + 1, o.soc_out, m) :
                m \in {x \in job.actions : ~Barred(x, job.slots[i])}})

\* The plan is the best there is: no sequence of the modes that are offered earns more,
\* the charge it ends with included.
Optimal ==
    Rolled /\ Exact =>
        profit + Worth(soc, terminal)
            = BestOf(1, call.soc, IF call.mode \in job.actions THEN call.mode ELSE NoPrevious)

\* Within one exact grid the plan is the best one for a worth that does not fall with
\* charge, it delivers what the policy promised, and a precharge holds what it is for
\* (_run_dp, _forward_roll, _terminal_value).
PlanIsBest == Optimal /\ RollDelivers /\ PrechargeHoldsMore /\ TerminalConcave

=============================================================================
