--------------------------- MODULE EntityResolution ---------------------------
(***************************************************************************)
(* Which Home Assistant entities the program reads and commands: the roles    *)
(* of the inverter found in the entity registry or taken from the config      *)
(* entry (inbound/solis_entity_resolver.py, platform_profiles.py,             *)
(* inverter_entity_resolver.py), the optional sources offered on the          *)
(* inverter's own devices (inbound/inverter_sources.py) and the solar         *)
(* forecast sensors (inbound/forecast_resolver.py).                           *)
(*                                                                           *)
(* An entity names the roles its identifiers match, as a primary or as a      *)
(* fallback pattern; the registry is a sequence, since the first match wins.  *)
(***************************************************************************)
EXTENDS Integers, Sequences, FiniteSets, SequencesExt

CONSTANTS
    Platforms,          \* the implemented ones
    Solis,              \* the platform with a discovery of its own
    Kinds,              \* [Platforms -> [roles of its profile -> entity domain]]
    Writable,           \* _WRITABLE_ROLES, a register and its read-back match alike
    Telemetry,          \* the roles any platform backfills from the Solis mapping
    Counters,           \* the energy counters of the sources page, also roles
    HandRoles,          \* [Platforms -> the roles a manual mapping names]
    SourceSpecs,        \* [source -> [role, class, counter, yesterday, guess]]
    ByHandId(_, _),     \* the entity a manual mapping names for a platform's role
    NoEntity            \* "", an unmapped entity

NoRole == "no role"     \* a source no platform resolves

-----------------------------------------------------------------------------
(* Roles of the inverter                                                     *)

Enabled(registry, owner) == SelectSeq(registry, LAMBDA e : e.owner = owner /\ ~e.disabled)

Matching(entities, role) == SelectSeq(entities, LAMBDA e : role \in e.matches)
Falling(entities, role)  == SelectSeq(entities, LAMBDA e : role \in e.falls)

FirstId(entities) == IF entities = <<>> THEN NoEntity ELSE entities[1].id

\* Mutation: the fallback names are extra patterns of the one scan.
ResolveSolisOnePass(registry, owner) ==
    LET entities == Enabled(registry, owner)
        bound(role) == FirstId(SelectSeq(entities, LAMBDA e : role \in e.matches \cup e.falls))
    IN  [role \in DOMAIN Kinds[Solis] |-> bound(role)]

\* resolve_solis_entities: the first match, else the fallback's first match; a writable
\* role bound to a sensor moves to the first number that matches
ResolveSolis(registry, owner) ==
    LET entities == Enabled(registry, owner)
        first(role) == LET m == Matching(entities, role)
                       IN  IF m # <<>> THEN m ELSE Falling(entities, role)
        numbers(role) == SelectSeq(Matching(entities, role), LAMBDA e : e.domain = "number")
        bound(role) == IF /\ role \in Writable /\ numbers(role) # <<>>
                          /\ first(role) # <<>> /\ first(role)[1].domain = "sensor"
                       THEN FirstId(numbers(role)) ELSE FirstId(first(role))
    IN  [role \in DOMAIN Kinds[Solis] |-> bound(role)]

\* resolve_profile_entities: a role only matches entities of its own domain
ResolveProfile(platform, registry, owner) ==
    LET entities == Enabled(registry, owner)
        ofKind(role) == SelectSeq(Matching(entities, role), LAMBDA e : e.domain = Kinds[platform][role])
    IN  [role \in DOMAIN Kinds[platform] |-> FirstId(ofKind(role))]

Scan(platform, registry, owner) ==
    IF platform = Solis THEN ResolveSolis(registry, owner) ELSE ResolveProfile(platform, registry, owner)

\* A role the scan missed reads what the config entry holds for it
Backfill(found, held) ==
    [role \in DOMAIN found \cup DOMAIN held |->
        IF role \in DOMAIN found /\ found[role] # NoEntity THEN found[role]
        ELSE IF role \in DOMAIN held THEN held[role] ELSE NoEntity]

\* What the entry holds for the shared roles: telemetry under the Solis form's keys, and
\* the counters of the sources page
HeldTelemetry(data) ==
    [role \in Telemetry |-> IF Solis \in data.manual THEN ByHandId(Solis, role) ELSE NoEntity]
HeldCounters(data) == [role \in Counters |-> data.sources[role]]

\* resolve_role_ids of the platform's discovery: the stored config-entry id alone decides
\* between the registry and the manual mapping, whose roles are a list of their own
RoleIds(data, registry) ==
    LET p == data.platform
        manual == [role \in HandRoles[p] \ Counters |->
                      IF p \in data.manual THEN ByHandId(p, role) ELSE NoEntity]
    IN  Backfill(IF data.vendor[p] # NoEntity
                 THEN Backfill(Scan(p, registry, data.vendor[p]), HeldTelemetry(data))
                 ELSE manual,
                 HeldCounters(data))

\* resolve_inverter_entities: the optional sensors prefer the entry, the roles come second;
\* yesterday's totals the entry does not hold are written back into it
SourceIds(data, registry) ==
    LET roles == RoleIds(data, registry)
        role(s) == SourceSpecs[s].role
        auto(s) == IF role(s) \in DOMAIN roles THEN roles[role(s)] ELSE NoEntity
    IN  [s \in DOMAIN SourceSpecs |->
            IF s \in Counters THEN auto(s)
            ELSE IF data.sources[s] # NoEntity THEN data.sources[s] ELSE auto(s)]

-----------------------------------------------------------------------------
(* Sources offered on the inverter's devices                                 *)

\* inverter_device_entries: what the roles resolved to, and all that shares its devices
DeviceEntries(registry, roles) ==
    LET mapped == {roles[r] : r \in DOMAIN roles} \ {NoEntity}
        devices == {e.device : e \in {x \in ToSet(registry) : x.id \in mapped}}
    IN  {e \in ToSet(registry) : e.device \in devices}

\* _usable, _fits
Usable(e) == e.domain = "sensor" /\ ~e.helper /\ ~e.disabled /\ ~e.hidden
Fits(e, spec) == e.class = spec.class /\ (spec.counter => e.meter) /\ e.yesterday = spec.yesterday

Candidates(entities, spec) == {e \in entities : Usable(e) /\ Fits(e, spec)}

\* Mutation: a hinted name is enough to be pre-selected.
DefaultSourceAnyHint(found, source, auto, stored) ==
    LET hinted == {e \in found : source \in e.hints}
        ids == {e.id : e \in found}
    IN  IF stored \in ids THEN stored
        ELSE IF auto \in ids THEN auto
        ELSE IF SourceSpecs[source].guess /\ hinted # {}
             THEN (CHOOSE e \in hinted : \A x \in hinted : e.rank <= x.rank).id
        ELSE NoEntity

\* default_source: the stored choice, then the resolved role, then where guessing is
\* allowed the first hinted name that is no control register's read-back
DefaultSource(found, source, auto, stored) ==
    LET hinted == {e \in found : source \in e.hints /\ ~e.setpoint}
        ids == {e.id : e \in found}
    IN  IF stored \in ids THEN stored
        ELSE IF auto \in ids THEN auto
        ELSE IF SourceSpecs[source].guess /\ hinted # {}
             THEN (CHOOSE e \in hinted : \A x \in hinted : e.rank <= x.rank).id
        ELSE NoEntity

\* _resolved_roles: none while the flow is too incomplete to resolve any
Resolvable(data) ==
    /\ data.platform \in Platforms
    /\ data.platform = Solis => data.vendor[Solis] # NoEntity \/ Solis \in data.manual

\* What a source's row is pre-filled with: a choice that is not among the candidates has a
\* row of its own (source_rows), and without candidates the row is a plain picker
PreselectedSource(data, registry, source) ==
    LET roles == IF Resolvable(data) THEN RoleIds(data, registry) ELSE <<>>
        role == SourceSpecs[source].role
        auto == IF role \in DOMAIN roles THEN roles[role] ELSE NoEntity
        found == Candidates(DeviceEntries(registry, roles), SourceSpecs[source])
        stored == data.sources[source]
    IN  IF found = {} \/ (stored # NoEntity /\ stored \notin {e.id : e \in found}) THEN stored
        ELSE DefaultSource(found, source, auto, stored)

\* detect_bms_sources: a battery device without a state of charge is no battery source
BmsCandidates(registry, device) ==
    Candidates({e \in ToSet(registry) : e.device = device}, SourceSpecs["bms_soc"])

-----------------------------------------------------------------------------
(* Solar forecast sensors                                                    *)

\* resolve_forecast_entities: one base sensor per chosen device that resolves
ForecastOf(registry, device) == FirstId(Matching(Enabled(registry, device), "forecast today"))

\* manual_forecast_entities, combine_forecast_entities: the stored list wins even when
\* empty; an entry without it reads its devices, or else the legacy pair
ForecastEntities(data, registry) ==
    LET resolved == {ForecastOf(registry, d) : d \in data.forecast_devices} \ {NoEntity}
    IN  IF data.forecast_listed THEN resolved \cup data.forecast_sensors
        ELSE IF resolved # {} THEN resolved ELSE data.forecast_sensors

=============================================================================
