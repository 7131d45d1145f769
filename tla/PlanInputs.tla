------------------------------ MODULE PlanInputs ------------------------------
(***************************************************************************)
(* What the planner is given: the hours it may plan over, with prices from    *)
(* the market or, where the market has none, from the forecast                *)
(* (pipeline/price_fill.py, calculation.py), the sun and the load expected in *)
(* them, and what charge is worth at the end (pipeline/schedule.py,           *)
(* precharge.py, profitability.py).                                          *)
(*                                                                           *)
(* Hours count from today's midnight.  Shares, scores and discounts are in    *)
(* percent; a figure that comes of a division is rounded down.               *)
(***************************************************************************)
EXTENDS SlotPhysics, Tariff, FiniteSets, TLC, SequencesExt, Functions

CONSTANTS
    Hours,          \* hours in a day
    Leg,            \* the loss of one leg: sqrt(Loss)
    Wear,           \* deg_cost, per storage kWh and leg
    Tilt,           \* profitability_tilt_alpha, percent
    Discount        \* terminal_value_discount, percent

ASSUME InputAssumption ==
    /\ Hours \in Nat \ {0}
    /\ {Leg, Wear, Tilt, Discount} \subseteq Nat
    /\ Leg * Leg = Loss

\* The entries of a sequence at the given positions, in their order
Picked(seq, at) ==
    [i \in 1..Cardinality(at) |-> seq[CHOOSE k \in at : Cardinality({x \in at : x <= k}) = i]]

\* The sum of the first n values of f
SumTo(f, n) == LET s[i \in 0..n] == IF i = 0 THEN 0 ELSE s[i - 1] + f[i] IN s[n]

\* The r-th smallest of the values of f
Ranked(f, r) == Min({v \in Range(f) : Cardinality({i \in DOMAIN f : f[i] <= v}) >= r})

\* statistics.median, doubled
MedianTwice(f) ==
    LET n == Cardinality(DOMAIN f) IN Ranked(f, (n + 1) \div 2) + Ranked(f, (n + 2) \div 2)

-----------------------------------------------------------------------------
(* Prices *)

\* One price slot: fill_from_forecast touches those alone that the market has not
\* priced, and only on a day whose curve is whole.
PriceSlot(hour, local, market, curve, buy, sell) ==
    LET priced == market # NoPrice
        spot   == IF priced THEN market ELSE curve
    IN  [hour |-> hour, priced |-> priced, forecast |-> ~priced /\ curve # NoPrice,
         buy  |-> BuyPrice(buy, spot, local),
         sell |-> SellPrice(sell, spot, NoPrice, local)]

\* PriceSeries.plannable_slots, which calculate gives a decision
Plannable(series) == Picked(series, {k \in DOMAIN series : series[k].priced \/ series[k].forecast})

Buys(series)  == [i \in DOMAIN series |-> series[i].buy]

\* The sell prices above zero
Sells(series) == [i \in {k \in DOMAIN series : series[k].sell > 0} |-> series[i].sell]

-----------------------------------------------------------------------------
(* Sun and load beyond the slots *)

\* A generation series: the energy of each hour of today and tomorrow, and the
\* total of each day, 0 for a day the forecast does not reach.
DayTotal(gen, day) == IF day \in DOMAIN gen.totals THEN gen.totals[day] ELSE 0

\* _hourly_solar_shape: tomorrow's hours, else today's
ShapeDay(gen) == IF \E h \in Hours..2 * Hours - 1 : gen.hour[h] > 0 THEN 1 ELSE 0

\* A day's total spread over the hours of that shape
SunAt(gen, h) ==
    LET day   == ShapeDay(gen)
        whole == SumTo([i \in 1..Hours |-> gen.hour[day * Hours + i - 1]], Hours)
    IN  IF whole = 0 THEN 0
        ELSE (gen.hour[day * Hours + (h % Hours)] * DayTotal(gen, h \div Hours)) \div whole

\* BaseLoadProfile.at
LoadAt(profile, h) == profile[h % Hours]

\* estimate_load_reserve_kwh: the load of the hours after the horizon that the sun
\* of days with a forecast will not cover
LoadReserve(gen, profile, horizon_end, days, extra) ==
    LET uncovered(h) == IF DayTotal(gen, h \div Hours) > 0
                        THEN Over(LoadAt(profile, h), SunAt(gen, h)) ELSE 0
    IN  Loss * (SumTo([i \in 1..days * Hours |-> uncovered(horizon_end + i - 1)], days * Hours) + extra)

\* sun_only_peak_soc: the walk stops at the first day without a forecast
SunOnlyPeak(gen, profile, site, soc, now, days) ==
    LET stop == {i \in 0..days * Hours - 1 : DayTotal(gen, (now + i) \div Hours) = 0}
        n == IF stop = {} THEN days * Hours ELSE Min(stop)
        net(i) == SunAt(gen, now + i) - LoadAt(profile, now + i)
        stored(i) == IF net(i) >= 0 THEN net(i) \div Leg ELSE net(i) * Leg
        after[i \in 0..n] == IF i = 0 THEN Clamp(soc, site.min, site.max)
                             ELSE Clamp(after[i - 1] + stored(i - 1), site.min, site.max)
    IN  IF n = 0 THEN Uncapped ELSE Max({after[i] : i \in 0..n})

-----------------------------------------------------------------------------
(* What charge is worth at the end of the horizon *)

\* _terminal_value_per_storage_kwh: the median of the positive sell prices, after
\* the round trip, raised on a day that scores low
FlatValue(series, score) ==
    IF DOMAIN Sells(series) = {} THEN 0
    ELSE (((MedianTwice(Sells(series)) * (10000 + Tilt * (100 - score))) \div (2 * Loss * 10000)) * Discount) \div 100

\* _load_reserve_value_per_kwh
ReserveValue(series, may_charge, flat) ==
    LET saved  == MedianTwice(Buys(series)) \div (2 * Loss)
        refill == Min({s.buy : s \in ToSet(series)}) + Wear
    IN  Larger(IF may_charge THEN Smaller(saved, refill) ELSE saved, flat)

\* Mutation: the buy average alone, which may be below the flat value.
BareAverage(average, flat) == average + Wear

\* _precharge_value_per_kwh
PrechargeValue(average, flat) == Larger(average + Wear, flat)

ReserveTier == [kwh : Nat, price : Int]

\* Mutation: an edge is priced by the tiers that end there.
WorthAtEdge(energy, reserve, precharge, flat) ==
    LET near == Smaller(reserve.kwh, precharge.kwh)
        far  == Larger(reserve.kwh, precharge.kwh)
        price(edge) == Max({t.price : t \in {x \in {reserve, precharge} : x.kwh = edge}})
    IN  price(near) * Smaller(energy, near) + price(far) * Over(Smaller(energy, far), near)
            + flat * Over(energy, far)

\* _terminal_value: each kWh above the floor at the highest price that covers it
TerminalWorth(energy, reserve, precharge, flat) ==
    LET near == Smaller(reserve.kwh, precharge.kwh)
        far  == Larger(reserve.kwh, precharge.kwh)
        price(edge) == Max({t.price : t \in {x \in {reserve, precharge} : x.kwh >= edge}})
    IN  price(near) * Smaller(energy, near) + price(far) * Over(Smaller(energy, far), near)
            + flat * Over(energy, far)

=============================================================================
