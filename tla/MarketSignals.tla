---------------------------- MODULE MarketSignals ----------------------------
(***************************************************************************)
(* The figures that follow the market from day to day: the running prices the *)
(* battery bought and sold at (ScheduleNode of pipeline/nodes/tier4.py and     *)
(* the averages' save in orchestration/coordinator.py), and the history of    *)
(* daily peaks (the price-history save).                                     *)
(*                                                                           *)
(* A cycle may run any number of times a day.  It knows yesterday's prices     *)
(* from the buckets, which its own first step has read before that step       *)
(* rotates them, or from a feed that still shows that day; a day is priced     *)
(* whole, in part or not at all.                                             *)
(***************************************************************************)
EXTENDS PriceSignals

CONSTANTS
    LastDay,                    \* bound on the days of a behaviour
    Markets, Trades,            \* what a day's prices and trading may be
    Weekend, Holidays,          \* sets of days, of the calendar
    Histories,                  \* the peaks stored at the start
    Retention,                  \* PRICE_HISTORY_RETENTION_DAYS
    LevelConfigs                \* settings of the price levels

Nothing == [lo |-> 1000, hi |-> -1000]
NoBuckets == [yesterday_date |-> -9, yesterday |-> {}, today_date |-> -9, today |-> {}]

Prices == INSTANCE PriceGrid WITH Ticks <- SlotsPerDay, Coarse <- SlotsPerDay

Hull(h, prices) == [lo |-> Min(prices \cup {h.lo}), hi |-> Max(prices \cup {h.hi})]

\* Yesterday's slots, when the series of this cycle has them
Yesterday(known, m) == IF known THEN m ELSE [m EXCEPT !.priced = {}]

VARIABLES
    day,
    market, trade,              \* <<yesterday's, today's>>
    sellAverage, buyAverage,    \* the stored averages
    peaks,                      \* the stored price history
    score,                      \* what the last cycle published
    price_buckets,              \* the stored days of prices
    extremes                    \* history: of each side, the lowest and highest price traded at

marketVars == <<day, market, trade, sellAverage, buyAverage, peaks, score, price_buckets, extremes>>

MarketTypeOK ==
    /\ day \in 0..LastDay
    /\ sellAverage.day <= day /\ buyAverage.day <= day
    /\ \A p \in peaks : p.class \in DayClass /\ p.day <= day
    /\ score.rank \in 0..2 * score.of
    /\ price_buckets \in Prices!Buckets({NoBuckets.today_date} \cup 0..LastDay)

MarketInit ==
    /\ day = 0
    /\ \E m \in Markets, n \in Markets : market = <<m, n>>
    /\ \E t \in Trades, u \in Trades : trade = <<t, u>>
    /\ sellAverage = NoAverage /\ buyAverage = NoAverage
    /\ peaks \in Histories
    /\ score = [rank |-> 0, of |-> 0]
    /\ price_buckets = NoBuckets
    /\ extremes = [buy |-> Nothing, sell |-> Nothing]

\* The price-history save: today's peak replaces itself, old days go.
SavedPeaks(today) ==
    LET peak == TodayPeak(market[2])
    IN  IF peak = NoPrice THEN peaks
        ELSE {p \in peaks \cup {[day |-> today, peak |-> peak, class |-> ClassifyDay(today, Weekend, Holidays)]} :
                /\ p.day >= today - Retention
                /\ p.day = today => p.peak = peak}

\* What the battery can have traded at: the slots of a day it traded in, or the seed while
\* there is no average
TradedAt(energy, price, priced) == {price[i] : i \in {x \in priced : energy[x] >= MinTrade}}
Traded(average, energy, price, priced, seed) ==
    TradedAt(energy, price, priced) \cup (IF average = NoAverage /\ seed # NoPrice THEN {seed} ELSE {})

\* YesterdayRotationStep, ScheduleNode up to the averages, ProfitabilityNode, and the saves
\* after them; late: the feed still shows yesterday beside today
MarketCycle(late) ==
    LET shown == {day} \cup (IF late THEN {day - 1} ELSE {})
        y     == Yesterday(day - 1 \in Prices!YesterdayPrices(price_buckets, day) \cup shown, market[1])
        t     == market[2]
        buys  == {y.buy[i] : i \in y.priced} \cup {t.buy[i] : i \in t.priced}
        sells == {y.sell[i] : i \in y.priced} \cup {t.sell[i] : i \in t.priced}
        lowest  == IF buys = {} THEN NoPrice ELSE Min(buys)
        highest == IF sells = {} THEN NoPrice ELSE Max(sells)
    IN  /\ sellAverage' = FoldRunningAverage(sellAverage, RealizedSell(trade[1], y), day, highest)
        /\ buyAverage' = FoldRunningAverage(buyAverage, RealizedBuy(trade[1], y), day, lowest)
        /\ score' = Score(t, peaks, day, ClassifyDay(day, Weekend, Holidays), Holidays)
        /\ peaks' = SavedPeaks(day)
        /\ price_buckets' = Prices!Rotate(price_buckets, day, shown)
        /\ extremes' =
               [buy  |-> Hull(extremes.buy, Traded(buyAverage, trade[1].bought, y.buy, y.priced, lowest)),
                sell |-> Hull(extremes.sell, Traded(sellAverage, trade[1].sold, y.sell, y.priced, highest))]
        /\ UNCHANGED <<day, market, trade>>

\* The next day's prices and trading
NextDay(m, t) ==
    /\ day < LastDay
    /\ day' = day + 1
    /\ market' = <<market[2], m>>
    /\ trade' = <<trade[2], t>>
    /\ UNCHANGED <<sellAverage, buyAverage, peaks, score, price_buckets, extremes>>

MarketNext ==
    \/ \E late \in BOOLEAN : MarketCycle(late)
    \/ \E m \in Markets, t \in Trades : NextDay(m, t)

-----------------------------------------------------------------------------
(* Properties *)

\* Seeded, folded or left alone over days that traded and days that did not, a running
\* average lies within the prices of the slots the battery really traded in and the seed
\* it started from: a day whose prices the cycle does not know moves nothing.
AverageWithinPrices ==
    /\ buyAverage.day >= 0 => extremes.buy.lo <= buyAverage.value /\ buyAverage.value <= extremes.buy.hi
    /\ sellAverage.day >= 0 => extremes.sell.lo <= sellAverage.value /\ sellAverage.value <= extremes.sell.hi

Nearest(c, k, sizes) ==
    \A s \in sizes : LET dc == IF c > k THEN c - k ELSE k - c
                         ds == IF s > k THEN s - k ELSE k - s
                     IN  dc <= ds /\ (dc = ds => c >= s)

\* Equal prices share a level, and of the groupings that leaves, the cheap and
\* the expensive class have the size nearest to their share (day_thresholds).
ShareIsNearest ==
    LET P == SortSeq(Buys(market[2]), <)
        n == Len(P)
    IN  P # <<>> => \A cfg \in LevelConfigs :
            LET cheap == CheapThreshold(P, cfg.cheap_share)
                dear  == DearThreshold(P, cfg.expensive_share)
            IN  /\ Nearest(AtMost(P, cheap), ShareCount(n, cfg.cheap_share),
                           {AtMost(P, P[i]) : i \in 1..n} \cup {0})
                /\ Nearest(IF dear = NoPrice THEN 0 ELSE n - Below(P, dear), ShareCount(n, cfg.expensive_share),
                           {n - Below(P, P[i]) : i \in 1..n} \cup {0})

Order == [cheap |-> 1, normal |-> 2, expensive |-> 3]

\* A dearer slot of a day never has a cheaper level, limits and overlapping shares
\* included; without limits a flat day with equal shares is normal throughout.
LevelsFollowPrice ==
    market[2].priced # {} => \A cfg \in LevelConfigs :
        LET s == Classify(<<market[2]>>, cfg)
        IN  /\ \A i, j \in DOMAIN s : s[i].buy <= s[j].buy => Order[s[i].level] <= Order[s[j].level]
            /\ (/\ cfg.cheap_share = cfg.expensive_share
                /\ {cfg.cheap_below, cfg.expensive_above} = {NoPrice}
                /\ \A i, j \in DOMAIN s : s[i].buy = s[j].buy)
               => \A i \in DOMAIN s : s[i].level = "normal"

\* The level the status announces next is the level whose next start is announced
\* for the same time, across midnight and past slots without a price.
NextChangeIsNextStart ==
    market[2].priced # {} => \A cfg \in LevelConfigs :
        LET s == Classify(market, cfg)
        IN  \A i \in DOMAIN s : NextChange(s, i) # 0 =>
                LET c == CHOOSE j \in DOMAIN s : s[j].start = NextChange(s, i)
                IN  NextStartOf(s, i, s[c].level) = NextChange(s, i)

\* Among days of its own class a day's score is the plain rank of its peak among
\* the days before, also once an earlier cycle has stored that peak.
SameClassPlainRank ==
    [][LET before == {p \in peaks : p.day < day}
           others == {p \in before : Cardinality({q \in before : q.day > p.day}) < RankWindow}
           class  == ClassifyDay(day, Weekend, Holidays)
       IN  (/\ day' = day /\ market[2].priced # {} /\ Cardinality(others) >= MinHistory
            /\ \A p \in others : p.class = class /\ (p.class = "weekday" => p.day \notin Holidays))
           => score' = [rank |-> 2 * Cardinality({p \in others : p.peak < TodayPeak(market[2])})
                                 + Cardinality({p \in others : p.peak = TodayPeak(market[2])}),
                        of |-> Cardinality(others)]]_marketVars

\* "Folded once per local day as 0.9 x previous + 0.1 x yesterday's realized sell price"
\* (docs/MODULES.md): a day that sold, at prices the store holds, moves the average.
SalesAreLearnt ==
    [][LET sold == RealizedSell(trade[1], market[1])
       IN  (/\ sellAverage.day \in 0..day - 1 /\ sellAverage'.day = day
            /\ sold # NoPrice /\ day - 1 \in price_buckets.today)
           => sellAverage'.value = FoldDailyValue(sellAverage.value, sold, NoPrice)]_marketVars

\* The levels and averages the cycle publishes of a day's prices (day_thresholds, level_for,
\* next_change, fold_running_average).
SignalsTrue == AverageWithinPrices /\ ShareIsNearest /\ LevelsFollowPrice /\ NextChangeIsNextStart

==============================================================================
