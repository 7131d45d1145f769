-------------------------------- MODULE Tariff --------------------------------
(***************************************************************************)
(* Effective prices (pipeline/tariff.py): one formula per direction over the  *)
(* market price, with a grid fee that depends on season, day type and time.   *)
(*                                                                           *)
(* Dates are days of the year and times minutes of the day, as numbers of     *)
(* which only the order matters.  Prices carry the factor VatUnit, so that a  *)
(* tax of vat / VatUnit keeps them whole.                                    *)
(***************************************************************************)
EXTENDS Integers, Sequences

CONSTANT VatUnit

ASSUME VatAssumption == VatUnit \in Nat \ {0}

NoPrice == -1000000         \* None, below every price there is

Seasons  == {"all", "summer", "winter"}
DayTypes == {"workday", "weekend", "holiday"}
Counts   == {1, 2, 4}       \* TARIFF_COUNTS

\* A slot's start in local time
Local == [date : Nat, minute : Nat, weekend : BOOLEAN, holiday : BOOLEAN]

Switch   == [start : Nat, tariff : Nat \ {0}]
Schedule == [season : Seasons, day_type : DayTypes, switches : Seq(Switch)]

PriceFormula ==
    [dynamic : BOOLEAN, fixed : Int, markup : Int, vat : 0..VatUnit, fees : Seq(Int),
     seasons : BOOLEAN, weekends : BOOLEAN, holidays : BOOLEAN,
     summer_start : Nat, winter_start : Nat, schedules : SUBSET Schedule]

-----------------------------------------------------------------------------

\* season_of: summer may span the turn of the year
SeasonOf(f, date) ==
    LET within(a, d, b) == a <= d /\ d < b
        summer == IF f.summer_start <= f.winter_start
                  THEN within(f.summer_start, date, f.winter_start)
                  ELSE ~within(f.winter_start, date, f.summer_start)
    IN  IF ~f.seasons THEN "all" ELSE IF summer THEN "summer" ELSE "winter"

\* day_type_of: a holiday wins over a weekend
DayTypeOf(f, local) ==
    IF f.holidays /\ local.holiday THEN "holiday"
    ELSE IF f.weekends /\ local.weekend THEN "weekend"
    ELSE "workday"

\* The last switch at or before the time; before the first, the day's last carries over
InForce(switches, minute) ==
    LET passed == {i \in DOMAIN switches : switches[i].start <= minute}
        i == IF passed = {} THEN Len(switches) ELSE CHOOSE x \in passed : \A y \in passed : y <= x
    IN  switches[i].tariff

\* active_tariff
ActiveTariff(f, local) ==
    LET found == {s \in f.schedules : /\ s.season = SeasonOf(f, local.date)
                                      /\ s.day_type = DayTypeOf(f, local)}
    IN  IF Len(f.fees) = 1 \/ found = {} THEN 1
        ELSE InForce((CHOOSE s \in found : TRUE).switches, local.minute)

GridFee(f, local) == f.fees[ActiveTariff(f, local)]

BuyPrice(f, spot, local) ==
    LET energy == IF f.dynamic THEN spot ELSE f.fixed
    IN  (energy + f.markup + GridFee(f, local)) * (VatUnit + f.vat)

\* export is the feed's own export price, where it has one
SellPrice(f, spot, export, local) ==
    LET energy == IF ~f.dynamic THEN f.fixed ELSE IF export # NoPrice THEN export ELSE spot
    IN  (energy - f.markup - GridFee(f, local)) * (VatUnit - f.vat)

=============================================================================
