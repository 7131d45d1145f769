------------------------------ MODULE PriceForms ------------------------------
(***************************************************************************)
(* The stored shape of a price formula, how startup parses it                *)
(* (pipeline/tariff.py), how the legacy tariff keys are converted into it,    *)
(* and how the formula, grid-fee and schedule forms change it                *)
(* (setup_flow/tariffs.py).                                                  *)
(***************************************************************************)
EXTENDS Tariff, SequencesExt

NoDate   == 0               \* a season start that parses as no day; days count from 1
NoTime   == -1              \* a switch start that parses as no time of day
NoFormula == [count |-> 0]  \* the key is absent from the entry

Key(season, day) == [season |-> season, day_type |-> day]

\* tariff_count: a count that is not offered reads 1
TariffCount(f) == IF f.count \in Counts THEN f.count ELSE 1

\* schedule_keys
ScheduleKeys(f) ==
    LET seasons == IF f.seasons THEN {"summer", "winter"} ELSE {"all"}
        days == {"workday"} \cup (IF f.weekends THEN {"weekend"} ELSE {})
                            \cup (IF f.holidays THEN {"holiday"} ELSE {})
    IN  IF TariffCount(f) = 1 THEN {} ELSE {Key(s, d) : s \in seasons, d \in days}

DefaultFormula ==
    [dynamic |-> TRUE, fixed |-> 0, markup |-> 0, vat |-> 0, count |-> 1,
     seasons |-> FALSE, weekends |-> FALSE, holidays |-> FALSE,
     summer_start |-> 4, winter_start |-> 10, fees |-> <<0>>, schedules |-> <<>>]

\* A stored schedule's rows; an absent key has none
RowsOf(f, key) == IF key \in DOMAIN f.schedules THEN f.schedules[key] ELSE <<>>

\* The rows by start, in order; of two rows at one start the later one is kept
ByStart(rows) ==
    LET starts == {rows[i].start : i \in DOMAIN rows}
        rank(s) == Cardinality({t \in starts : t <= s})
        last(s) == Max({i \in DOMAIN rows : rows[i].start = s})
    IN  [k \in 1..Cardinality(starts) |-> rows[last(CHOOSE s \in starts : rank(s) = k)]]

\* switches_from_config: rows without a time or with an unknown tariff are dropped
SwitchesFromConfig(rows, count) ==
    ByStart(SelectSeq(rows, LAMBDA r : r.start # NoTime /\ r.tariff \in 1..count))

\* formula_from_config: missing fees read 0, schedules only where the switches enable them
FormulaFromConfig(f) ==
    LET count == TariffCount(f)
        fee(n) == IF n <= Len(f.fees) THEN f.fees[n] ELSE 0
        day(key) == [season |-> key.season, day_type |-> key.day_type,
                     switches |-> SwitchesFromConfig(RowsOf(f, key), count)]
    IN  [dynamic |-> f.dynamic, fixed |-> f.fixed, markup |-> f.markup, vat |-> f.vat,
         fees |-> [n \in 1..count |-> fee(n)],
         seasons |-> f.seasons, weekends |-> f.weekends, holidays |-> f.holidays,
         summer_start |-> f.summer_start, winter_start |-> f.winter_start,
         schedules |-> {s \in {day(key) : key \in ScheduleKeys(f)} : s.switches # <<>>}]

-----------------------------------------------------------------------------
(* The legacy tariff: flat fees, weekday and weekend fee bands, a sell mode  *)
(* and the synthetic "tou" import price.                                     *)

SellModes == {"spot", "fixed", "schedule", "feed"}

\* A band that parses, with the fee of one direction
Band(start, fee) == [start |-> start, fee |-> fee]

\* The fee a band adds: base, and its own field with a sign
FeeOf(base, sign, field) == [base |-> base, sign |-> sign, field |-> field]

\* _legacy_rows
LegacyRows(bands, fee) ==
    LET timed == ByStart(SelectSeq(bands, LAMBDA r : r.start # NoTime))
    IN  [k \in DOMAIN timed |-> Band(timed[k].start, fee.base + fee.sign * timed[k][fee.field])]

\* _fee_schedule: each distinct fee a tariff, first seen first numbered
DistinctFees(rows) ==
    LET seen == FoldLeft(LAMBDA fees, r : IF Contains(fees, r.fee) THEN fees ELSE Append(fees, r.fee),
                         <<>>, rows)
    IN  SubSeq(seen, 1, IF Len(seen) > Max(Counts) THEN Max(Counts) ELSE Len(seen))

\* Fees beyond the largest count map to the nearest one kept
Nearest(kept, fee) ==
    LET off(i) == IF kept[i] > fee THEN kept[i] - fee ELSE fee - kept[i]
    IN  CHOOSE i \in DOMAIN kept : \A j \in DOMAIN kept : off(i) < off(j) \/ (off(i) = off(j) /\ i <= j)

TariffRows(kept, day) == [k \in DOMAIN day |-> [start |-> day[k].start, tariff |-> Nearest(kept, day[k].fee)]]

\* The formula of the numbered fees; a weekend like the workday needs no schedule of its own
Scheduled(base, kept, workday, weekend) ==
    LET count == Min({c \in Counts : c >= Len(kept)})
        differ == count > 1 /\ workday # weekend
        keys == IF count = 1 THEN {} ELSE {"workday"} \cup (IF differ THEN {"weekend"} ELSE {})
    IN  [base EXCEPT
            !.count = count, !.weekends = differ,
            !.fees = [n \in 1..count |-> kept[IF n <= Len(kept) THEN n ELSE Len(kept)]],
            !.schedules = [key \in {Key("all", d) : d \in keys} |->
                              IF key.day_type = "weekend" THEN weekend ELSE workday]]

Numbered(base, kept, workday, weekend) ==
    Scheduled(base, kept, TariffRows(kept, workday), TariffRows(kept, weekend))

FeeSchedule(base, workday, weekend) == Numbered(base, DistinctFees(workday \o weekend), workday, weekend)

\* _legacy_side: a day without bands pays the flat fee
LegacySide(legacy, flat, markup, vat, fee) ==
    LET day(bands) == LET rows == LegacyRows(bands, fee)
                      IN  IF rows = <<>> THEN <<Band(0, flat)>> ELSE rows
        base == [DefaultFormula EXCEPT !.markup = markup, !.vat = vat]
    IN  FeeSchedule(base, day(legacy.weekday_bands), day(legacy.weekend_bands))

\* Mutation: the flat fee is left out of the time-of-use prices.
LegacyBuyNoFee(legacy) ==
    LET tou == LegacyRows(legacy.tou_bands, FeeOf(0, 1, "price"))
        fixed == [DefaultFormula EXCEPT !.dynamic = FALSE, !.markup = legacy.buy_markup, !.vat = legacy.buy_vat]
    IN  IF legacy.tou /\ tou # <<>> THEN FeeSchedule(fixed, tou, tou)
        ELSE LegacySide(legacy, legacy.buy_fee, legacy.buy_markup, legacy.buy_vat, FeeOf(0, 1, "buy_fee"))

\* legacy_price_config, the buy side: absolute prices ride in the fees of a zero fixed price
LegacyBuy(legacy) ==
    LET tou == LegacyRows(legacy.tou_bands, FeeOf(legacy.buy_fee, 1, "price"))
        fixed == [DefaultFormula EXCEPT !.dynamic = FALSE, !.markup = legacy.buy_markup, !.vat = legacy.buy_vat]
    IN  IF legacy.tou /\ tou # <<>> THEN FeeSchedule(fixed, tou, tou)
        ELSE LegacySide(legacy, legacy.buy_fee, legacy.buy_markup, legacy.buy_vat, FeeOf(0, 1, "buy_fee"))

\* legacy_price_config, the sell side: an absolute price is a negated fee
LegacySell(legacy) ==
    LET tou == LegacyRows(legacy.tou_bands, FeeOf(legacy.sell_fee, -1, "price"))
        zero == [DefaultFormula EXCEPT !.dynamic = FALSE]
    IN  CASE legacy.sell_mode = "fixed" -> [zero EXCEPT !.fixed = legacy.fixed_sell]
          [] legacy.sell_mode = "feed" -> DefaultFormula
          [] legacy.sell_mode = "schedule" ->
                [LegacySide(legacy, -legacy.fixed_sell, 0, 0, FeeOf(0, -1, "sell_fee")) EXCEPT !.dynamic = FALSE]
          [] legacy.tou /\ tou # <<>> /\ legacy.sell_mode = "spot" ->
                FeeSchedule([zero EXCEPT !.markup = legacy.sell_markup, !.vat = legacy.sell_vat], tou, tou)
          [] OTHER -> LegacySide(legacy, legacy.sell_fee, legacy.sell_markup, legacy.sell_vat, FeeOf(0, 1, "sell_fee"))

\* price_config: the stored formula of a direction, else the converted legacy tariff
BuyConfig(data)  == IF data.buy # NoFormula THEN data.buy ELSE LegacyBuy(data.legacy)
SellConfig(data) == IF data.sell # NoFormula THEN data.sell ELSE LegacySell(data.legacy)

\* tariff_from_config, needs_market_price
TariffFromConfig(data) ==
    [buy |-> FormulaFromConfig(BuyConfig(data)), sell |-> FormulaFromConfig(SellConfig(data))]
NeedsMarketPrice(tariff) == tariff.buy.dynamic \/ tariff.sell.dynamic

-----------------------------------------------------------------------------
(* The forms of one direction                                                *)

\* validate_formula: season starts only matter while the seasons are on
ValidFormula(form) ==
    /\ form.vat \in 0..VatUnit
    /\ form.seasons => /\ form.summer_start # NoDate
                       /\ form.winter_start # NoDate
                       /\ form.summer_start # form.winter_start

\* Mutation: the switch rows of a tariff that no longer exists are kept.
ApplyFormulaKeepRows(f, form) ==
    LET count == IF form.count \in Counts THEN form.count ELSE 1
        fee(n) == IF n <= Len(f.fees) THEN f.fees[n] ELSE f.fees[Len(f.fees)]
        next == form @@ [fees |-> [n \in 1..count |-> fee(n)], schedules |-> f.schedules]
    IN  next

\* apply_formula: fees are resized, repeating the last; schedules no longer offered go,
\* and so do the rows of tariffs that no longer exist
ApplyFormula(f, form) ==
    LET count == IF form.count \in Counts THEN form.count ELSE 1
        fee(n) == IF n <= Len(f.fees) THEN f.fees[n] ELSE f.fees[Len(f.fees)]
        date(new, old) == IF new # NoDate THEN new ELSE old
        rows(key) == SelectSeq(RowsOf(f, key), LAMBDA r : r.tariff <= count)
        kept(next) == {key \in ScheduleKeys(next) : rows(key) # <<>>}
        next == [form EXCEPT !.count = count,
                             !.summer_start = date(form.summer_start, f.summer_start),
                             !.winter_start = date(form.winter_start, f.winter_start)]
                @@ [fees |-> [n \in 1..count |-> fee(n)], schedules |-> <<>>]
    IN  [next EXCEPT !.schedules = [key \in kept(next) |-> rows(key)]]

\* apply_fees: one fee per tariff
ApplyFees(f, fees) == [f EXCEPT !.fees = [n \in 1..TariffCount(f) |-> fees[n]]]

\* validate_schedule: a row with neither field is ignored; a half-filled row, an unknown
\* tariff or a repeated start is an error, and so is a form without rows
FilledRows(form) == SelectSeq(form, LAMBDA r : r # [start |-> NoTime, tariff |-> 0])
ValidSchedule(form, count) ==
    LET rows == FilledRows(form)
    IN  /\ rows # <<>>
        /\ \A i \in DOMAIN rows : rows[i].start # NoTime /\ rows[i].tariff \in 1..count
        /\ \A i, j \in DOMAIN rows : rows[i].start = rows[j].start => i = j

SetSchedule(f, key, form) ==
    [f EXCEPT !.schedules = (key :> ByStart(FilledRows(form))) @@ f.schedules]
=============================================================================
