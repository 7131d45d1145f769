------------------------------- MODULE PriceGrid -------------------------------
(***************************************************************************)
(* The 72-hour price series and the two day buckets behind it                *)
(* (inbound/pricing.py, orchestration/store_codecs.py).                      *)
(*                                                                           *)
(* The feed knows today and, from the auction on, tomorrow.  Yesterday comes  *)
(* from a store that each cycle overwrites with today's slice and rotates at  *)
(* the first cycle of a new local day.  Whatever is known, the series spans   *)
(* yesterday to tomorrow; slots without a price are placeholders.             *)
(*                                                                           *)
(* Time is counted in quarter slots; a day of prices is known whole or not    *)
(* at all, and every price is the same.                                      *)
(***************************************************************************)
EXTENDS Integers, Sequences, SequencesExt

CONSTANTS
    Ticks,          \* quarter slots in a local day
    Coarse          \* quarter slots in an hour, the resolution without data

ASSUME GridAssumption ==
    /\ Ticks \in Nat \ {0}
    /\ Coarse \in Nat \ {0}
    /\ Ticks % Coarse = 0

DayOf(t)   == t \div Ticks
DayStart(d) == d * Ticks

\* What the buckets hold: each slice is the set of days its entries are of.
Buckets(Dates) == [yesterday_date : Dates, yesterday : SUBSET Dates,
                   today_date : Dates, today : SUBSET Dates]

-----------------------------------------------------------------------------
(* The buckets *)

\* YesterdayRotationStep.seed, before the rotation: a stale bucket is empty.
YesterdayPrices(buckets, today) ==
    IF buckets.yesterday_date = today - 1 THEN buckets.yesterday ELSE {}

\* YesterdayRotationStep.persist: today's slice is replaced by what the feed
\* shows now, which may be nothing.
Rotate(buckets, today, feed) ==
    LET rolled == buckets.today_date >= 0 /\ buckets.today_date # today
        from   == IF rolled THEN "today" ELSE "yesterday"
    IN  [yesterday_date |-> IF rolled THEN buckets.today_date ELSE buckets.yesterday_date,
         yesterday      |-> IF rolled THEN buckets.today ELSE buckets.yesterday,
         today_date     |-> today,
         today          |-> feed \cap {today}]

-----------------------------------------------------------------------------
(* The series *)

\* Yesterday's stored entries and the feed's are joined, not merged: a feed
\* that still shows yesterday gives each of its slots twice.
Copies(yesterday, feed, d) == (IF d \in yesterday THEN 1 ELSE 0) + (IF d \in feed THEN 1 ELSE 0)

Resolution(yesterday, feed) == IF yesterday \cup feed = {} THEN Coarse ELSE 1

\* build_price_series_72h, with the placeholders of _fill_grid
Series(yesterday, feed, today) ==
    LET len == Resolution(yesterday, feed)
        Slot(t, p) == [start |-> t, len |-> len, priced |-> p]
        At(t) == LET n == Copies(yesterday, feed, DayOf(t))
                 IN  IF n = 0 THEN <<Slot(t, FALSE)>> ELSE [i \in 1..n |-> Slot(t, TRUE)]
    IN  FlattenSeq([i \in 1..(3 * Ticks) \div len |-> At(DayStart(today - 1) + (i - 1) * len)])

PricedSlots(series) == SelectSeq(series, LAMBDA s : s.priced)

\* PriceSeries.window, for windows that begin and end between slots
Window(series, lo, hi) == SelectSeq(series, LAMBDA s : s.start >= lo /\ s.start < hi)

\* The local days that are priced in full
PricedDays(series) == {DayOf(series[i].start) : i \in {j \in DOMAIN series : series[j].priced}}

================================================================================
