----------------------------- MODULE PriceSignals -----------------------------
(***************************************************************************)
(* What a day of prices is taken to mean: the levels published to Home        *)
(* Assistant (pipeline/price_level.py), the score of its peak against the     *)
(* days before (pipeline/profitability.py), the price the battery really      *)
(* traded at (inbound/observer/battery_trade.py) and the running averages     *)
(* folded from it (pipeline/discharge_gate.py, pipeline/precharge.py).        *)
(*                                                                           *)
(* Prices and energies are whole numbers; shares are in percent, and quotients *)
(* are rounded down.                                                         *)
(***************************************************************************)
EXTENDS Integers, Sequences, SequencesExt, FiniteSets, FiniteSetsExt

CONSTANTS
    SlotsPerDay,
    MinTrade,                   \* MIN_SLOT_KWH
    Keep,                       \* RUNNING_AVERAGE_KEEP, in tenths
    MinHistory, RankWindow      \* MIN_HISTORY_DAYS, DEFAULT_RANK_WINDOW_DAYS

ASSUME SignalsAssumption ==
    /\ SlotsPerDay \in Nat \ {0} /\ MinTrade \in Nat \ {0}
    /\ Keep \in 0..10 /\ MinHistory \in Nat /\ RankWindow \in Nat

Slots == 1..SlotsPerDay
NoPrice == -1000            \* None, below every price

\* A day of the price series: PriceSlot by PriceSlot; what is not priced is a
\* placeholder and is dropped before anything is ranked or averaged.
Market(Prices) == [spot : [Slots -> Prices], buy : [Slots -> Prices], sell : [Slots -> Prices],
                   priced : SUBSET Slots]

-----------------------------------------------------------------------------
(* Price levels *)

\* _share_count: rounded up
ShareCount(n, pct) == (n * pct + 99) \div 100

Below(P, x)  == Cardinality({i \in DOMAIN P : P[i] < x})      \* bisect_left
AtMost(P, x) == Cardinality({i \in DOMAIN P : P[i] <= x})     \* bisect_right

\* Mutation: the boundary's price joins the class whatever part of it is inside.
CheapThresholdWholeTies(P, pct) ==
    LET k == ShareCount(Len(P), pct) IN IF k = 0 THEN NoPrice ELSE P[k]

\* day_thresholds, of prices sorted upwards: a group of equal prices at the edge
\* of the share joins the class when at least half of it is inside.
CheapThreshold(P, pct) ==
    LET k  == ShareCount(Len(P), pct)
        lo == Below(P, P[k])
        hi == AtMost(P, P[k])
    IN  CASE k = 0                   -> NoPrice
          [] (k - lo) * 2 >= hi - lo -> P[k]
          [] lo > 0                  -> P[lo]
          [] OTHER                   -> NoPrice

DearThreshold(P, pct) ==
    LET n  == Len(P)
        k  == ShareCount(n, pct)
        e  == n - k + 1
        lo == Below(P, P[e])
        hi == AtMost(P, P[e])
    IN  CASE k = 0                         -> NoPrice
          [] (hi - (n - k)) * 2 >= hi - lo -> P[e]
          [] hi < n                        -> P[hi + 1]
          [] OTHER                         -> NoPrice

\* PriceLevelConfig; NoPrice stands for a limit that is not set.
LevelConfig(Shares, Limits) ==
    [cheap_share : Shares, expensive_share : Shares, cheap_below : Limits, expensive_above : Limits]

\* Mutation: a slot in both shares is cheap.
LevelForCheapFirst(buy, cheap, dear, cfg) ==
    CASE cheap # NoPrice /\ buy <= cheap -> "cheap"
      [] dear # NoPrice /\ buy >= dear   -> "expensive"
      [] OTHER                           -> "normal"

\* level_for: the absolute limit when exactly one applies, else the rank
LevelFor(buy, cheap, dear, cfg) ==
    LET absCheap  == cfg.cheap_below # NoPrice /\ buy <= cfg.cheap_below
        absDear   == cfg.expensive_above # NoPrice /\ buy >= cfg.expensive_above
        rankCheap == cheap # NoPrice /\ buy <= cheap
        rankDear  == dear # NoPrice /\ buy >= dear
    IN  CASE absCheap /\ ~absDear  -> "cheap"
          [] absDear /\ ~absCheap  -> "expensive"
          [] absCheap = absDear /\ rankCheap /\ ~rankDear -> "cheap"
          [] absCheap = absDear /\ rankDear /\ ~rankCheap -> "expensive"
          [] OTHER                 -> "normal"

PricedSeq(market) == SetToSortSeq(market.priced, <)
Buys(market)      == LET s == PricedSeq(market) IN [i \in DOMAIN s |-> market.buy[s[i]]]

\* classify_price_levels: the priced slots of one local day after another
Classify(markets, cfg) ==
    LET Day(d) == LET s == PricedSeq(markets[d])
                      P == SortSeq(Buys(markets[d]), <)
                      cheap == IF P = <<>> THEN NoPrice ELSE CheapThreshold(P, cfg.cheap_share)
                      dear  == IF P = <<>> THEN NoPrice ELSE DearThreshold(P, cfg.expensive_share)
                  IN  [i \in DOMAIN s |->
                        [start |-> (d - 1) * SlotsPerDay + s[i], day |-> d, buy |-> markets[d].buy[s[i]],
                         level |-> LevelFor(markets[d].buy[s[i]], cheap, dear, cfg)]]
    IN  FlattenSeq([d \in DOMAIN markets |-> Day(d)])

\* PriceLevelSeries.next_change, from the i-th classed slot; 0 is None.
NextChange(series, i) ==
    LET later == {j \in i + 1..Len(series) : series[j].level # series[i].level}
    IN  IF later = {} THEN 0 ELSE series[Min(later)].start

\* Mutation: the slot that follows the current one is passed over.
NextStartOfLate(series, i, level) ==
    LET starts == {j \in i + 2..Len(series) : series[j].level = level /\ series[j - 1].level # level}
    IN  IF starts = {} THEN 0 ELSE series[Min(starts)].start

\* next_start_of
NextStartOf(series, i, level) ==
    LET starts == {j \in i + 1..Len(series) : series[j].level = level /\ series[j - 1].level # level}
    IN  IF starts = {} THEN 0 ELSE series[Min(starts)].start

-----------------------------------------------------------------------------
(* Realized prices and running averages *)

\* Mutation: the slots below the minimum count as energy and not as money.
WeightedMeanDiluted(energy, price, priced) ==
    LET traded == {i \in priced : energy[i] >= MinTrade}
        total  == MapThenSumSet(LAMBDA i : energy[i], priced)
    IN  IF total = 0 THEN NoPrice
        ELSE MapThenSumSet(LAMBDA i : energy[i] * price[i], traded) \div total

\* Mutation: a slot without a price counts at its placeholder's zero.
WeightedMeanFillers(energy, price, priced) ==
    LET traded == {i \in DOMAIN energy : energy[i] >= MinTrade}
        total  == MapThenSumSet(LAMBDA i : energy[i], traded)
    IN  IF total = 0 THEN NoPrice
        ELSE MapThenSumSet(LAMBDA i : energy[i] * price[i], traded \cap priced) \div total

\* _weighted_mean, of the energy and the prices of the priced slots of a day
WeightedMean(energy, price, priced) ==
    LET traded == {i \in priced : energy[i] >= MinTrade}
        total  == MapThenSumSet(LAMBDA i : energy[i], traded)
    IN  IF total = 0 THEN NoPrice
        ELSE MapThenSumSet(LAMBDA i : energy[i] * price[i], traded) \div total

\* realized_trade_prices: what went through the meter while the battery moved the
\* same way, at the day's own prices
RealizedBuy(trade, market)  == WeightedMean(trade.bought, market.buy, market.priced)
RealizedSell(trade, market) == WeightedMean(trade.sold, market.sell, market.priced)

\* fold_daily_value
FoldDailyValue(previous, realized, seed) ==
    CASE previous = NoPrice /\ realized # NoPrice -> realized
      [] previous = NoPrice /\ realized = NoPrice -> seed
      [] previous # NoPrice /\ realized = NoPrice -> previous
      [] OTHER -> (Keep * previous + (10 - Keep) * realized) \div 10

NoAverage == [value |-> NoPrice, day |-> -1]

\* fold_running_average, fold_running_buy_average: once a local day
FoldRunningAverage(stored, realized, today, seed) ==
    LET value == FoldDailyValue(stored.value, realized, seed)
    IN  IF stored.day >= today \/ value = NoPrice THEN stored
        ELSE [value |-> value, day |-> today]

-----------------------------------------------------------------------------
(* Profitability *)

DayClass == {"weekday", "weekend", "holiday"}

\* classify_day
ClassifyDay(d, weekend, holidays) ==
    CASE d \in weekend  -> "weekend"
      [] d \in holidays -> "holiday"
      [] OTHER          -> "weekday"

\* promote_holidays: a stored class is never demoted.
PromoteHolidays(peaks, holidays) ==
    {IF p.class = "weekday" /\ p.day \in holidays THEN [p EXCEPT !.class = "holiday"] ELSE p : p \in peaks}

\* Twice the median of the peaks, so that it is whole; 0 of none
TwiceMedian(peaks) ==
    LET s == SortSeq([i \in DOMAIN SetToSeq(peaks) |-> SetToSeq(peaks)[i].peak], <)
        n == Len(s)
    IN  CASE n = 0     -> 0
          [] n % 2 = 1 -> 2 * s[(n + 1) \div 2]
          [] OTHER     -> s[n \div 2] + s[(n \div 2) + 1]

\* compute_class_medians
ClassMedian(peaks, c) == TwiceMedian({p \in peaks : p.class = c})

\* _class_divisor, doubled: the class, the weekdays, all, or 1
ClassDivisor(peaks, c) ==
    LET own == ClassMedian(peaks, c)
        weekdays == ClassMedian(peaks, "weekday")
        all == TwiceMedian(peaks)
    IN  CASE own > 0 -> own
          [] own <= 0 /\ weekdays > 0 -> weekdays
          [] own <= 0 /\ weekdays <= 0 /\ all > 0 -> all
          [] OTHER -> 2

\* percentile_rank, doubled, of a/da among the values b/db
PercentileRank(a, da, others) ==
    2 * Cardinality({o \in others : o.peak * da < a * o.divisor})
      + Cardinality({o \in others : o.peak * da = a * o.divisor})

\* today_peak_from_price_series: of the market, not of what the user pays
TodayPeak(market) ==
    IF market.priced = {} THEN NoPrice ELSE Max({market.spot[i] : i \in market.priced})

\* Mutation: the day that is scored is in its own window.
RankDaysWithToday(peaks, today) ==
    LET days == {p.day : p \in peaks}
    IN  {d \in days : Cardinality({e \in days : e > d}) < RankWindow}

\* The most recent days of the history without the one that is scored
RankDays(peaks, today) ==
    LET days == {p.day : p \in peaks} \ {today}
    IN  {d \in days : Cardinality({e \in days : e > d}) < RankWindow}

\* compute_profitability_score: [rank, of], the score being rank / (2 * of); a
\* short history gives none. The medians are those of the whole history.
Score(market, history, today, class, holidays) ==
    LET peaks  == PromoteHolidays(history, holidays)
        window == {p \in peaks : p.day \in RankDays(peaks, today)}
        peak   == IF TodayPeak(market) = NoPrice THEN 0 ELSE TodayPeak(market)
        others == {[day |-> p.day, peak |-> p.peak, divisor |-> ClassDivisor(peaks, p.class)] : p \in window}
    IN  IF Cardinality(window) < MinHistory THEN [rank |-> 0, of |-> 0]
        ELSE [rank |-> PercentileRank(peak, ClassDivisor(peaks, class), others), of |-> Cardinality(window)]
===============================================================================
