----------------------------- MODULE MCSetupFlow -----------------------------
(* Two Solis integrations and a Huawei one, a battery monitor and a forecast  *)
(* integration; six entries an installation may start from.                 *)
EXTENDS SetupFlow

MCPlatforms == {"solis", "huawei"}
MCPlatformOf == [s1 |-> "solis", s2 |-> "solis", h1 |-> "huawei"]
MCKinds == [solis |-> [soc |-> "sensor", readback |-> "sensor", setpoint |-> "number",
                       pv |-> "sensor", import_today |-> "sensor"],
            huawei |-> [soc |-> "sensor", forcible |-> "select"]]
MCHandRoles == [solis |-> {"soc", "readback", "setpoint", "import_today"},
                huawei |-> {"soc", "forcible"}]
MCByHandId(platform, role) == platform \o "_" \o role

MCSourceSpecs ==
    LET spec(role, class, counter) ==
            [role |-> role, class |-> class, counter |-> counter, yesterday |-> FALSE, guess |-> TRUE]
    IN  [pv_power |-> spec("pv", "power", FALSE),
         backup_power |-> spec(NoRole, "power", FALSE),
         import_today |-> spec("import_today", "energy", TRUE),
         bms_soc |-> spec(NoRole, "battery", FALSE)]

E(id, owner, domain, class, matches) ==
    [id |-> id, owner |-> owner, device |-> owner, domain |-> domain, class |-> class,
     matches |-> matches, falls |-> {}, hints |-> {}, rank |-> 1,
     disabled |-> FALSE, hidden |-> FALSE, helper |-> FALSE, meter |-> class = "energy",
     yesterday |-> FALSE, setpoint |-> FALSE, forecast |-> FALSE]

\* s1 lists its fallback read-back first and mirrors its setpoint as a power sensor; the
\* canonical read-back of s2 is disabled
MCEntities == <<
    [E("s1_mirror", "s1", "sensor", "none", {}) EXCEPT !.falls = {"readback"}],
    E("s1_word", "s1", "sensor", "none", {"readback"}),
    [E("s1_backup_limit", "s1", "sensor", "power", {"setpoint"})
        EXCEPT !.setpoint = TRUE, !.hints = {"backup_power"}],
    E("s1_rc", "s1", "number", "none", {"setpoint"}),
    E("s1_soc", "s1", "sensor", "battery", {"soc"}),
    E("s1_pv", "s1", "sensor", "power", {"pv"}),
    E("s1_import", "s1", "sensor", "energy", {"import_today"}),
    [E("s2_word", "s2", "sensor", "none", {"readback"}) EXCEPT !.disabled = TRUE],
    [E("s2_mirror", "s2", "sensor", "none", {}) EXCEPT !.falls = {"readback"}],
    E("s2_rc", "s2", "number", "none", {"setpoint"}),
    E("h1_soc", "h1", "sensor", "battery", {"soc"}),
    E("h1_forcible", "h1", "select", "none", {"forcible"}),
    E("bms_soc", "bms", "sensor", "battery", {}),
    [E("roof_today", "roof", "sensor", "energy", {"forecast today"}) EXCEPT !.forecast = TRUE] >>

MCPresent == {{"s1", "s2"}, {"h1"}}

MCPriceSensors == {[id |-> "nordpool", source |-> "nordpool", export |-> FALSE],
                   [id |-> "octopus_export", source |-> "octopus", export |-> TRUE]}
MCFeedForms ==
    {[by_hand |-> FALSE, sensor |-> "nordpool", source |-> "nordpool", export |-> ""],
     [by_hand |-> FALSE, sensor |-> "nordpool", source |-> "nordpool", export |-> "octopus_export"],
     [by_hand |-> TRUE, sensor |-> "", source |-> "nordpool", export |-> ""]}

MCBatteryForms == {[min |-> 10, max |-> 90], [min |-> 90, max |-> 10]}

Form(dynamic, count, weekends) ==
    [dynamic |-> dynamic, fixed |-> 9, markup |-> 1, vat |-> 2, count |-> count, seasons |-> FALSE,
     weekends |-> weekends, holidays |-> FALSE, summer_start |-> 4, winter_start |-> 10]
MCFormulaForms == [buy |-> {Form(TRUE, 1, FALSE), Form(FALSE, 2, TRUE),
                            [Form(TRUE, 2, FALSE) EXCEPT !.seasons = TRUE]},
                   sell |-> {Form(FALSE, 1, FALSE)}]
MCFeeForms == {<<5, 3, 3, 3>>}
Row(start, tariff) == [start |-> start, tariff |-> tariff]
MCScheduleForms == {<<Row(2, 1), Row(0, 2)>>, <<Row(-1, 1)>>}
MCLevelForms == {[cheap |-> 20, dear |-> 30], [cheap |-> 60, dear |-> 60]}
MCForecastForms == {[devices |-> {"roof"}, sensors |-> {}]}

Configured == [Empty EXCEPT !.platform = "solis", !.vendor["solis"] = "s1", !.battery = [min |-> 10, max |-> 90]]

\* saved without prices
WithoutPrices == [Configured EXCEPT !.caps = [stored |-> TRUE, prices |-> FALSE, inverter |-> TRUE, forecast |-> TRUE]]

\* four tariffs, of which the schedule names the last alone
WithPrices ==
    [Configured EXCEPT
        !.caps = [stored |-> TRUE, prices |-> TRUE, inverter |-> TRUE, forecast |-> TRUE],
        !.sensor = "nordpool", !.sell = DefaultFormula,
        !.buy = [DefaultFormula EXCEPT !.count = 4, !.fees = <<1, 2, 3, 4>>,
                    !.schedules = (Key("all", "workday") :> <<Row(0, 4)>>)]]

\* split by season and holiday, the summer over the turn of the year
Seasonal ==
    [WithPrices EXCEPT
        !.buy = [DefaultFormula EXCEPT !.count = 2, !.fees = <<1, 4>>,
                    !.seasons = TRUE, !.holidays = TRUE, !.summer_start = 10, !.winter_start = 4,
                    !.schedules = [k \in {Key(s, d) : s \in {"summer", "winter"}, d \in {"workday", "holiday"}}
                                        |-> <<Row(0, 2)>>]]]

Bands(start, fee) == [start |-> start, buy_fee |-> fee, sell_fee |-> fee + 1, price |-> fee]
LegacyEntry(legacy) == [Configured EXCEPT !.sensor = "nordpool", !.legacy = legacy]
Fees == [NoLegacy EXCEPT !.buy_fee = 3, !.sell_fee = 2, !.buy_markup = 1, !.sell_markup = 1,
                         !.buy_vat = 2, !.sell_vat = 1, !.fixed_sell = 6]
Banded == [Fees EXCEPT !.weekday_bands = <<Bands(2, 5), Bands(1, 4)>>]
MCInstalled ==
    {WithoutPrices, WithPrices, Seasonal,
     LegacyEntry(Banded),
     LegacyEntry([Banded EXCEPT !.sell_mode = "schedule", !.weekend_bands = <<Bands(1, 5)>>]),
     [LegacyEntry([Fees EXCEPT !.tou = TRUE, !.tou_bands = <<Bands(1, 8), Bands(3, 2)>>])
        EXCEPT !.sensor = NoEntity]}
=============================================================================
