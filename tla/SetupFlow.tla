------------------------------- MODULE SetupFlow -------------------------------
(***************************************************************************)
(* The configuration and options flows (config_flow.py, setup_flow/): one     *)
(* accumulator and a set of confirmed pages, filled by forms in any order     *)
(* and saved as the config entry that the next start reads.                  *)
(*                                                                           *)
(* Menus keep no state: an action is the submission of a form that some menu  *)
(* offers.  A form and its follow-up ("Other", the battery's sensors) are one *)
(* submission; the mapping page alone is shown first and submitted later,     *)
(* since what it shows depends on the integrations installed meanwhile.      *)
(***************************************************************************)
EXTENDS PriceForms, EntityResolution

CONSTANTS
    Rejected,           \* platforms listed but not implemented
    VendorIds,          \* config entries of the inverter integrations
    PlatformOf,         \* [VendorIds -> Platforms]
    Entities,           \* every entity any integration brings, in registry order
    PriceSensors,       \* detected price sensors: [id, source, export]
    DefaultSource0,     \* DEFAULT_PRICE_SOURCE
    Batteries,          \* the devices the BMS page offers
    BatteryForms,       \* submitted [min, max] state of charge
    FormulaForms, FeeForms, ScheduleForms, FeedForms, LevelForms, ForecastForms,
    HandPicks,          \* sensors picked by hand on a sources page
    Installed,          \* config entries the program may find: what older saves left
    Present,            \* the inverter integrations there may be at first
    MaxForms,           \* submissions in one flow
    MaxSaves,           \* saved flows
    MaxChanges          \* integrations added or removed

Sides    == {"buy", "sell"}
Sections == {"prices", "inverter", "forecast"}

NoBattery == [min |-> -1, max |-> -1]
NoLegacy  == [tou |-> FALSE, buy_fee |-> 0, sell_fee |-> 0, buy_markup |-> 0, sell_markup |-> 0,
              buy_vat |-> 0, sell_vat |-> 0, fixed_sell |-> 0, sell_mode |-> "spot",
              weekday_bands |-> <<>>, weekend_bands |-> <<>>, tou_bands |-> <<>>]
NoCaps    == [stored |-> FALSE, prices |-> TRUE, inverter |-> TRUE, forecast |-> TRUE]
NoPlatform == "generic"     \* what an unset platform reads

Page(name)             == <<name, "", "", "">>
SidePage(side, name)   == <<name, side, "", "">>
SchedulePage(side, k)  == <<"schedule", side, k.season, k.day_type>>

ScheduleKeySet == {Key(s, d) : s \in Seasons, d \in DayTypes}

\* SECTION_PAGES
SectionPages(section) ==
    CASE section = "prices" ->
            {Page("price_feed"), Page("price_levels"), Page("price_forecast")}
                \cup {SidePage(s, n) : s \in Sides, n \in {"formula", "fees"}}
                \cup {SchedulePage(s, k) : s \in Sides, k \in ScheduleKeySet}
      [] section = "inverter" ->
            {Page(n) : n \in {"inverter_platform", "battery", "inverter_mapping", "bms", "sources", "sources_energy"}}
      [] section = "forecast" -> {Page("forecast")}

Pages == UNION {SectionPages(s) : s \in Sections}

\* The sources each page holds
SourceKeys == [sources |-> {s \in DOMAIN SourceSpecs : SourceSpecs[s].class = "power"},
               sources_energy |-> {s \in DOMAIN SourceSpecs : SourceSpecs[s].class = "energy"},
               bms |-> {s \in DOMAIN SourceSpecs : SourceSpecs[s].class = "battery"}]

Empty ==
    [platform |-> NoPlatform, vendor |-> [p \in Platforms |-> NoEntity], manual |-> {},
     battery |-> NoBattery, sources |-> [s \in DOMAIN SourceSpecs |-> NoEntity],
     source |-> DefaultSource0, sensor |-> NoEntity, export |-> NoEntity,
     buy |-> NoFormula, sell |-> NoFormula, legacy |-> NoLegacy, caps |-> NoCaps,
     levels |-> [cheap |-> 25, dear |-> 25], weather |-> "auto",
     forecast_devices |-> {}, forecast_sensors |-> {}, forecast_listed |-> FALSE]

NoEntry == [Empty EXCEPT !.platform = "none"]   \* no config entry yet

VARIABLES
    entry,      \* the saved entry, data and options merged
    vendors,    \* the integrations' config entries that exist
    data,       \* the open flow's accumulator
    confirmed,  \* its confirmed pages
    flow,       \* [open, form: what the mapping page shows, forms: submissions so far]
    edited,     \* sections the open flow has submitted a form of (history)
    hand,       \* the sources the open flow last picked by hand (history)
    saves,      \* flows saved so far
    changes     \* integrations added or removed so far

vars == <<entry, vendors, data, confirmed, flow, edited, hand, saves, changes>>

Closed == [open |-> FALSE, form |-> "none", forms |-> 0]

Owners == {Entities[i].owner : i \in DOMAIN Entities}

Registry == SelectSeq(Entities, LAMBDA e : e.owner \in vendors)

-----------------------------------------------------------------------------
(* What is set and what is missing                                           *)

\* _formula: the stored direction, or the converted legacy tariff
Formula(side) == IF side = "buy" THEN BuyConfig(data) ELSE SellConfig(data)

\* _needs_feed
NeedsFeed == Formula("buy").dynamic \/ Formula("sell").dynamic

\* _side_pages
SidePages(side) == {SidePage(side, "formula"), SidePage(side, "fees")}
                        \cup {SchedulePage(side, k) : k \in ScheduleKeys(Formula(side))}

\* _required_pages
RequiredPages(section) ==
    CASE section = "prices" -> (IF NeedsFeed THEN {Page("price_feed")} ELSE {})
                                    \cup UNION {SidePages(s) : s \in Sides}
      [] section = "inverter" -> {Page("inverter_platform"), Page("battery"), Page("inverter_mapping")}
      [] section = "forecast" -> {}

\* Mutation: a confirmed price source counts whatever the formulas became since.
PageDoneByConfirm(page) ==
    /\ page \in confirmed
    /\ page[1] = "schedule" => RowsOf(Formula(page[2]), Key(page[3], page[4])) # <<>>

\* _page_done: confirmed, and what it holds is still usable
PageDone(page) ==
    /\ page \in confirmed
    /\ page = Page("price_feed") => (~NeedsFeed \/ data.sensor # NoEntity)
    /\ page[1] = "schedule" => RowsOf(Formula(page[2]), Key(page[3], page[4])) # <<>>

\* _included, _complete
Included(section) == confirmed \cap SectionPages(section) # {}
Complete(section) == Included(section) /\ \A page \in RequiredPages(section) : PageDone(page)

\* _auto_mapping: the one config entry of the platform's integration
AutoMapping(platform) ==
    LET found == {v \in vendors \cap VendorIds : PlatformOf[v] = platform}
    IN  IF Cardinality(found) = 1 THEN CHOOSE v \in found : TRUE ELSE NoEntity

-----------------------------------------------------------------------------
Init ==
    /\ entry \in Installed \cup {NoEntry}
    /\ vendors \in {(Owners \ VendorIds) \cup p : p \in Present}
    /\ data = Empty /\ confirmed = {} /\ flow = Closed
    /\ edited = {} /\ hand = {} /\ saves = 0 /\ changes = 0

\* Mutation: the legacy tariff is not converted when the flow opens.
SeedUnconverted(saved) == [saved EXCEPT !.buy = DefaultFormula, !.sell = DefaultFormula]

\* _seed_confirmed, the data: the price pages open on the prices the entry produces
Seed(saved) == [saved EXCEPT !.buy = BuyConfig(saved), !.sell = SellConfig(saved)]

\* _seed_confirmed, the pages: every page the entry already holds
SeedConfirmed(saved) ==
    (IF saved.caps.prices THEN SectionPages("prices") ELSE {})
        \cup (IF saved.caps.inverter
              THEN SectionPages("inverter") \ (IF saved.sources["bms_soc"] = NoEntity THEN {Page("bms")} ELSE {})
              ELSE {})
        \cup (IF saved.caps.forecast THEN SectionPages("forecast") ELSE {})

\* SunSaleConfigFlow, SunSaleOptionsFlow
OpenFlow ==
    /\ ~flow.open /\ saves < MaxSaves
    /\ flow' = [Closed EXCEPT !.open = TRUE]
    /\ data' = IF entry = NoEntry THEN Empty ELSE Seed(entry)
    /\ confirmed' = IF entry = NoEntry THEN {} ELSE SeedConfirmed(entry)
    /\ edited' = {} /\ hand' = {}
    /\ UNCHANGED <<entry, vendors, saves, changes>>

\* The dialog is closed without Finish
Abandon ==
    /\ flow.open
    /\ flow' = Closed /\ data' = Empty /\ confirmed' = {} /\ edited' = {} /\ hand' = {}
    /\ UNCHANGED <<entry, vendors, saves, changes>>

\* An inverter integration is added or removed; one removed takes its entities along
VendorsChange ==
    \E v \in VendorIds :
        /\ changes < MaxChanges
        /\ changes' = changes + 1
        /\ vendors' = IF v \in vendors THEN vendors \ {v} ELSE vendors \cup {v}
        /\ UNCHANGED <<entry, data, confirmed, flow, edited, hand, saves>>

-----------------------------------------------------------------------------
(* Forms.  Submit is the common part of a form that saves: its page is        *)
(* confirmed (_async_page_done) and its section joins the installation.      *)

Free == flow.open /\ flow.form = "none" /\ flow.forms < MaxForms

Submit(section, pages, next) ==
    /\ data' = next
    /\ confirmed' = confirmed \cup pages
    /\ flow' = [flow EXCEPT !.form = "none", !.forms = @ + 1]
    /\ edited' = edited \cup {section}
    /\ UNCHANGED <<entry, vendors, saves, changes>>

\* Mutation: another platform keeps the confirmed mapping of the one before.
PlatformKeepsMapping(platform) == {}

\* What choosing a platform does to the mapping page
ForgottenMapping(platform) == IF platform # data.platform THEN {Page("inverter_mapping")} ELSE {}

\* Mutation: any platform the list offers is taken.
ImplementedAny(platform) == TRUE

\* The platforms listed but not implemented are refused by the form
Implemented(platform) == platform \notin Rejected

\* async_step_inverter_platform: a single config entry of its integration maps it at once
ChoosePlatform ==
    \E p \in Platforms \cup Rejected :
        LET auto == AutoMapping(p)
            chosen == [data EXCEPT !.platform = p]
        IN  /\ Free
            /\ Implemented(p)
            /\ data' = IF auto = NoEntity THEN chosen ELSE [chosen EXCEPT !.vendor[p] = auto]
            /\ confirmed' = (confirmed \ ForgottenMapping(p)) \cup {Page("inverter_platform")}
                                \cup (IF auto = NoEntity THEN {} ELSE {Page("inverter_mapping")})
            /\ flow' = [flow EXCEPT !.forms = @ + 1]
            /\ edited' = edited \cup {"inverter"}
            /\ UNCHANGED <<entry, vendors, hand, saves, changes>>

\* validate_battery, of which the state-of-charge window is kept
ValidBattery(form) == form.min \in 0..99 /\ form.max \in 1..100 /\ form.min < form.max

\* async_step_battery
SetBattery ==
    \E form \in BatteryForms :
        /\ Free /\ ValidBattery(form)
        /\ Submit("inverter", {Page("battery")}, [data EXCEPT !.battery = form])
        /\ UNCHANGED hand

\* async_step_inverter_mapping and the pages it opens: its row is offered once the
\* platform is confirmed, unless the inverter is mapped and auto-detected
OpenMapping ==
    LET p == data.platform
        found == {v \in vendors \cap VendorIds : PlatformOf[v] = p}
    IN  /\ Free
        /\ p \in Platforms
        /\ Page("inverter_platform") \in confirmed
        /\ ~(Page("inverter_mapping") \in confirmed /\ AutoMapping(p) # NoEntity)
        /\ IF AutoMapping(p) # NoEntity
           THEN /\ Submit("inverter", {Page("inverter_mapping")}, [data EXCEPT !.vendor[p] = AutoMapping(p)])
                /\ UNCHANGED hand
           ELSE /\ flow' = [flow EXCEPT !.form = IF found = {} THEN "manual" ELSE "pick"]
                /\ UNCHANGED <<entry, vendors, data, confirmed, edited, hand, saves, changes>>

\* async_step_inverter_solis, async_step_inverter_generic: the picked config entry or the
\* mapped entities are stored as they are
SubmitMapping ==
    LET p == data.platform
    IN  /\ flow.open /\ flow.form # "none"
        /\ \/ /\ flow.form = "pick"
              /\ \E v \in {x \in VendorIds : PlatformOf[x] = p} :
                    Submit("inverter", {Page("inverter_mapping")}, [data EXCEPT !.vendor[p] = v])
           \/ /\ flow.form = "manual"
              /\ Submit("inverter", {Page("inverter_mapping")}, [data EXCEPT !.manual = @ \cup {p}])
        /\ UNCHANGED hand

\* _async_follow: the Confirm dropdown's discard row
DiscardMapping ==
    /\ flow.form # "none"
    /\ flow' = [flow EXCEPT !.form = "none"]
    /\ UNCHANGED <<entry, vendors, data, confirmed, edited, hand, saves, changes>>

\* async_step_sources, _energy and the by-hand follow-up (_async_save_sources): the page's
\* rows are taken as offered, cleared, or one is picked by hand
SetSources ==
    \E page \in {"sources", "sources_energy"} :
        LET keys == SourceKeys[page]
            offered(k) == PreselectedSource(data, Registry, k)
            stored(pick) == [data EXCEPT !.sources = [k \in DOMAIN @ |-> IF k \in keys THEN pick[k] ELSE @[k]]]
        IN  /\ Free
            /\ \/ /\ Submit("inverter", {Page(page)}, stored([k \in keys |-> offered(k)]))
                  /\ hand' = hand
               \/ \E k \in keys, pick \in HandPicks \cup {NoEntity} :
                  /\ Submit("inverter", {Page(page)},
                            stored([[x \in keys |-> offered(x)] EXCEPT ![k] = pick]))
                  /\ hand' = (hand \ {k}) \cup (IF pick = NoEntity THEN {} ELSE {k})

\* async_step_bms, async_step_bms_details: a device with a state of charge, or none at all
SetBms ==
    \E device \in Batteries \cup {NoEntity} :
        LET found == BmsCandidates(Registry, device)
            submit(soc) == Submit("inverter", {Page("bms")}, [data EXCEPT !.sources["bms_soc"] = soc])
        IN  /\ Free
            /\ IF device = NoEntity THEN submit(NoEntity)
               ELSE \E soc \in {e.id : e \in found} : submit(soc)
            /\ UNCHANGED hand

-----------------------------------------------------------------------------
(* Prices                                                                    *)

\* validate_price_feed, validate_export_choice: by hand the source and sensor are free, a
\* detected sensor brings its source and fits the detected export feed
ValidFeed(form) ==
    LET sourceOf(id) == {s.source : s \in {x \in PriceSensors : x.id = id}}
    IN  /\ NeedsFeed => form.sensor # NoEntity \/ (form.by_hand /\ data.sensor # NoEntity)
        /\ ~form.by_hand => /\ sourceOf(form.sensor) = {form.source}
                            /\ sourceOf(form.export) \in {{}, {form.source}}

\* async_step_price_feed, async_step_price_feed_manual (_async_save_feed): an absent sensor
\* keeps the stored one, an absent export sensor clears it
SetFeed ==
    \E form \in FeedForms :
        /\ Free /\ ValidFeed(form)
        /\ Submit("prices", {Page("price_feed")},
                  [data EXCEPT !.source = form.source, !.export = form.export,
                               !.sensor = IF form.sensor = NoEntity THEN @ ELSE form.sensor])
        /\ UNCHANGED hand

\* _async_side_page_done
SideSubmit(side, page, formula) ==
    /\ Submit("prices", {page}, IF side = "buy" THEN [data EXCEPT !.buy = formula]
                                                ELSE [data EXCEPT !.sell = formula])
    /\ UNCHANGED hand

\* _async_formula_step
SetFormula ==
    \E side \in Sides : \E form \in FormulaForms[side] :
        /\ Free /\ ValidFormula(form)
        /\ SideSubmit(side, SidePage(side, "formula"), ApplyFormula(Formula(side), form))

\* _async_fees_step: the form has one field per tariff
SetFees ==
    \E side \in Sides : \E fees \in FeeForms :
        /\ Free
        /\ SideSubmit(side, SidePage(side, "fees"), ApplyFees(Formula(side), fees))

\* _async_open_schedule, _async_schedule_step: only the schedules the formula needs
SetScheduleRows ==
    \E side \in Sides, form \in ScheduleForms : \E key \in ScheduleKeys(Formula(side)) :
        /\ Free /\ ValidSchedule(form, TariffCount(Formula(side)))
        /\ SideSubmit(side, SchedulePage(side, key), SetSchedule(Formula(side), key, form))

\* async_step_price_levels (validate_price_levels)
SetLevels ==
    \E form \in LevelForms :
        /\ Free
        /\ {form.cheap, form.dear} \subseteq 0..100 /\ form.cheap + form.dear <= 100
        /\ Submit("prices", {Page("price_levels")}, [data EXCEPT !.levels = form])
        /\ UNCHANGED hand

\* async_step_price_forecast: None is stored as such, not looked up again
SetWeather ==
    \E weather \in {"none", "picked"} :
        /\ Free
        /\ Submit("prices", {Page("price_forecast")}, [data EXCEPT !.weather = weather])
        /\ UNCHANGED hand

\* async_step_forecast: the row needs a complete inverter section; the two pickers merge
\* into one stored list
SetForecast ==
    \E form \in ForecastForms :
        /\ Free /\ Complete("inverter")
        /\ form.devices \subseteq vendors
        /\ Submit("forecast", {Page("forecast")},
                  [data EXCEPT !.forecast_devices = form.devices, !.forecast_sensors = form.sensors,
                               !.forecast_listed = TRUE])
        /\ UNCHANGED hand

\* _async_remove_section: its values stay, its pages are forgotten
RemoveSection ==
    \E section \in {"prices", "inverter"} :
        /\ Free /\ Included(section)
        /\ confirmed' = confirmed \ SectionPages(section)
        /\ flow' = [flow EXCEPT !.forms = @ + 1]
        /\ UNCHANGED <<entry, vendors, data, edited, hand, saves, changes>>

-----------------------------------------------------------------------------
\* _finish_error: a section begun must be complete, and the inverter must be
FinishError ==
    \/ \E section \in {"prices", "inverter"} : Included(section) /\ ~Complete(section)
    \/ ~Complete("inverter")

\* What Finish saves: the buy and sell formulas with the capabilities
Finished == [Seed(data) EXCEPT !.legacy = entry.legacy,
                               !.caps = [stored |-> TRUE, prices |-> Complete("prices"),
                                         inverter |-> TRUE, forecast |-> TRUE]]

\* async_step_finish.  The legacy price keys are dropped from what is saved; as options
\* they leave those of the entry's data
Finish ==
    /\ flow.open /\ flow.form = "none" /\ ~FinishError
    /\ entry' = Finished
    /\ saves' = saves + 1
    /\ flow' = Closed /\ data' = Empty /\ confirmed' = {}
    /\ edited' = {} /\ hand' = {}
    /\ UNCHANGED <<vendors, changes>>

Next ==
    \/ OpenFlow \/ Abandon \/ VendorsChange
    \/ ChoosePlatform \/ SetBattery \/ OpenMapping \/ SubmitMapping \/ DiscardMapping
    \/ SetSources \/ SetBms
    \/ SetFeed \/ SetFormula \/ SetFees \/ SetScheduleRows \/ SetLevels \/ SetWeather
    \/ SetForecast \/ RemoveSection
    \/ Finish

Spec == Init /\ [][Next]_vars

-----------------------------------------------------------------------------
(* Properties                                                                *)

TypeOK ==
    /\ vendors \subseteq Owners
    /\ confirmed \subseteq Pages
    /\ edited \subseteq Sections
    /\ flow.form \in {"none", "manual", "pick"}
    /\ data.manual \subseteq Platforms /\ data.platform \in Platforms \cup {NoPlatform}

\* What the program runs on is what this flow saved
Saved == saves > 0

\* async_setup reads the battery block and the roles without a default: whatever order the
\* pages were set, changed and removed in, a saved entry has a battery window that is not
\* inverted and a mapping of the very platform it names.
SavedEntryStarts ==
    Saved => /\ entry.platform \in Platforms
             /\ entry.vendor[entry.platform] # NoEntity \/ entry.platform \in entry.manual
             /\ 0 <= entry.battery.min /\ entry.battery.min < entry.battery.max

\* With more than one tariff a time without a schedule is billed at the first: a saved price
\* has, as startup parses it, a schedule with rows for every season and day type it splits
\* into, however often the tariff count changed after the schedules were filled in.
SchedulesCover ==
    Saved /\ entry.caps.prices =>
        LET parsed == TariffFromConfig(entry)
            covered(f) == {Key(s.season, s.day_type) : s \in f.schedules}
        IN  /\ covered(parsed.buy) = ScheduleKeys(entry.buy)
            /\ covered(parsed.sell) = ScheduleKeys(entry.sell)

\* A price that follows the market has a sensor behind it, also when the price source was
\* confirmed while both prices were fixed.
FeedBehindMarket ==
    Saved /\ entry.caps.prices /\ NeedsMarketPrice(TariffFromConfig(entry)) => entry.sensor # NoEntity

\* "Mark every page an existing entry already holds, so options can save at once": an entry,
\* legacy or saved here, opens without a missing page, and would be saved with its prices.
OptionsOpenComplete ==
    flow.open /\ flow.forms = 0 /\ confirmed = SeedConfirmed(entry) /\ entry # NoEntry =>
        /\ ~FinishError
        /\ TariffFromConfig(Finished) = TariffFromConfig(entry)

\* Saving changes what the next start makes of a section only if a form of that section was
\* submitted ("editing one page never drops another's values").
EditsStayLocal ==
    saves' > saves /\ entry # NoEntry =>
        /\ "prices" \notin edited => /\ TariffFromConfig(entry') = TariffFromConfig(entry)
                                     /\ entry'.sensor = entry.sensor /\ entry'.source = entry.source
        /\ "inverter" \notin edited => /\ entry'.battery = entry.battery
                                       /\ RoleIds(entry', Registry) = RoleIds(entry, Registry)
                                       /\ SourceIds(entry', Registry) = SourceIds(entry, Registry)
        /\ "forecast" \notin edited =>
                ForecastEntities(entry', Registry) = ForecastEntities(entry, Registry)

\* The legacy band in force: the last one started today, or yesterday's last
LegacyBand(bands, minute) ==
    LET rows == ByStart(bands)
        started == {i \in DOMAIN rows : rows[i].start <= minute}
    IN  rows[IF started = {} THEN Len(rows) ELSE Max(started)]

LegacyBuyPrice(l, spot, local) ==
    LET bands == IF local.weekend THEN l.weekend_bands ELSE l.weekday_bands
        fee == IF bands = <<>> THEN l.buy_fee ELSE LegacyBand(bands, local.minute).buy_fee
        energy == IF l.tou THEN LegacyBand(l.tou_bands, local.minute).price + l.buy_fee ELSE spot + fee
    IN  (energy + l.buy_markup) * (VatUnit + l.buy_vat)

LegacySellPrice(l, spot, local) ==
    LET bands == IF local.weekend THEN l.weekend_bands ELSE l.weekday_bands
        fee == IF bands = <<>> THEN l.sell_fee ELSE LegacyBand(bands, local.minute).sell_fee
        energy == IF l.tou THEN LegacyBand(l.tou_bands, local.minute).price - l.sell_fee ELSE spot - fee
    IN  CASE l.sell_mode = "fixed" -> l.fixed_sell * VatUnit
          [] l.sell_mode = "feed" -> spot * VatUnit
          [] l.sell_mode = "schedule" ->
                VatUnit * (IF bands = <<>> THEN l.fixed_sell ELSE LegacyBand(bands, local.minute).sell_fee)
          [] OTHER -> (energy - l.sell_markup) * (VatUnit - l.sell_vat)

\* A legacy tariff of at most four distinct fees is converted "preserving its prices": the
\* formulas give, at every time of a workday and a weekend, what the flat fees, bands, sell
\* mode and time-of-use prices meant.
LegacyPricesKept ==
    ~flow.open /\ entry # NoEntry /\ entry.buy = NoFormula =>
        LET tariff == TariffFromConfig(entry)
        IN  \A local \in [date : {6}, minute : 0..3, weekend : BOOLEAN, holiday : {FALSE}], spot \in {1, 7} :
                /\ BuyPrice(tariff.buy, spot, local) = LegacyBuyPrice(entry.legacy, spot, local)
                /\ SellPrice(tariff.sell, spot, NoPrice, local) = LegacySellPrice(entry.legacy, spot, local)

\* A role is bound to an enabled entity wherever the stored integration has one that matches
\* it by its own name, whatever order the registry lists them in, and a register that can be
\* written is bound to the number, not to its read-back.
RolesBound ==
    Saved /\ entry.vendor[entry.platform] \in vendors =>
        LET p == entry.platform
            own == {e \in ToSet(Registry) : e.owner = entry.vendor[p] /\ ~e.disabled}
            named(role) == {e \in own : role \in e.matches /\ (p # Solis => e.domain = Kinds[p][role])}
            numbers(role) == {e \in named(role) : e.domain = "number"}
            best(role) == IF role \in Writable /\ numbers(role) # {} THEN numbers(role) ELSE named(role)
        IN  \A role \in DOMAIN Kinds[p] :
                best(role) # {} => RoleIds(entry, Registry)[role] \in {e.id : e \in best(role)}

\* A control register's read-back is never saved as a measurement by confirming what a
\* sources page offered; only a pick of the user's own, or one saved before, can be one.
NoSetpointUnasked ==
    saves' > saves =>
        \A s \in DOMAIN SourceSpecs :
            entry'.sources[s] \in {e.id : e \in {x \in ToSet(Entities) : x.setpoint}} =>
                s \in hand \/ (entry # NoEntry /\ entry.sources[s] = entry'.sources[s])

\* A saved entry starts and is priced at every hour, an older one at the prices it had
\* (async_setup, tariff_from_config, validate_* of the flow).
EntryServes ==
    /\ TypeOK
    /\ SavedEntryStarts /\ SchedulesCover /\ FeedBehindMarket
    /\ OptionsOpenComplete /\ LegacyPricesKept

\* A save changes what was edited, to what was asked (async_step_finish, _async_save_sources).
SavesMeant == [][EditsStayLocal /\ NoSetpointUnasked]_vars

=============================================================================
