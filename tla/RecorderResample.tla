---------------------------- MODULE RecorderResample ----------------------------
(***************************************************************************)
(* The recorder-backed resampler (inbound/observer/recorder_resample.py).      *)
(*                                                                           *)
(* Each cycle fetches, sensor by sensor, what the recorder has since a little  *)
(* before the last fetch, merges it into in-memory buffers trimmed to the      *)
(* window, and rebuilds the power streams from them.  A fetch that fails looks *)
(* like one without rows; the time of the last fetch is kept for all sensors   *)
(* together and moves on regardless.                                          *)
(***************************************************************************)
EXTENDS Telemetry

CONSTANTS
    Plants,         \* the states the plant takes
    Configs,        \* the platforms and the entities that are mapped
    Frail,          \* an entity that may become unavailable or fail to be fetched
    DayLength,
    Overlap,        \* _RESAMPLE_REFETCH_OVERLAP
    Pause,          \* longest time between two cycles
    MaxAge,         \* _DERIVED_POWER_MAX_AGE_S
    Kept,           \* what the recorder already holds at the start
    Span            \* bound: how long a behaviour is followed

ASSUME ResampleTimingAssumption ==
    /\ Overlap \in Nat
    /\ Pause \in 1..Overlap
    /\ DayLength \in Nat /\ DayLength >= Overlap + 2 * Pause
    /\ MaxAge \in Nat
    /\ Span \in Nat
    /\ Kept \in 1..Span + 1

ASSUME ResamplePlantsAssumption == Plants \subseteq Plant

ASSUME ResampleConfigsAssumption == Configs \subseteq [platform : Platforms, mapped : SUBSET Entities]

Undefined == -1         \* a time that is None

VARIABLES
    config,         \* ResampleSources: the platform and the mapped entities
    past,           \* the recorder: the plant, and what was unavailable, at each instant
    buffers,        \* _buffers
    last_end,       \* _last_end
    fetched,        \* history: when each entity was last fetched with success
    lapsed,         \* history: entities not fetched for longer than the overlap
    booted          \* history: the first fetch since the start

resampler == <<buffers, last_end, fetched, lapsed, booted>>
recording == <<config, past, resampler>>

Present     == Len(past) - 1
Mapped      == config.mapped

Signals == [c \in Configs |-> [p \in Plants |-> Published(c.platform, p)]]

StateAt(e, t) ==
    IF e \notin Mapped \/ e \in past[t + 1].out THEN {}
    ELSE {Signals[config][past[t + 1].plant][e]}

\* A state is written when it changes.
ChangedAt(e, t) == t = 0 \/ StateAt(e, t) # StateAt(e, t - 1)

-----------------------------------------------------------------------------
(* Fetch and merge *)

\* Yesterday's midnight
Window(now) == Positive((now \div DayLength) * DayLength - DayLength)
WindowStart == Window(Present)

Row == [at : Nat, raw : Int]

ResampleTypeOK ==
    /\ config \in Configs
    /\ Present \in 0..Span
    /\ last_end \in Undefined..Present
    /\ last_end # Undefined => \A e \in Mapped : \A r \in buffers[e] : r \in Row /\ r.at \in Window(last_end)..last_end
    /\ \A e \in Mapped : fetched[e] \in Undefined..Present
    /\ lapsed \subseteq Mapped
    /\ booted \in Undefined..last_end

\* The recorder's answer: the state at the start, then every change.  Rows that
\* carry no number are dropped.
Answer(e, from) ==
    UNION {{[at |-> t, raw |-> v] : v \in StateAt(e, t)} :
            t \in {x \in from..Present : x = from \/ ChangedAt(e, x)}}

\* Mutation: nothing is read twice.
FetchStartAtEnd == IF last_end = Undefined \/ last_end < WindowStart THEN WindowStart ELSE last_end

FetchStart ==
    IF last_end = Undefined \/ last_end - Overlap < WindowStart
    THEN WindowStart
    ELSE last_end - Overlap

\* Mutation: the day that has passed is kept.
MergedUntrimmed(old, new) == old \cup {r \in new : \A s \in old : s.at # r.at}

\* _merge_series: of two rows of one instant the buffered one stays.
Merged(old, new) ==
    {r \in old \cup {s \in new : \A x \in old : x.at # s.at} : r.at >= WindowStart}

Failures == {{}, Mapped, {Frail} \cap Mapped}

\* update: one entity after the other; those in failing get no rows
Updates(failing) ==
    /\ last_end < Present
    /\ buffers' = [e \in Entities |->
                    Merged(buffers[e], IF e \in Mapped \ failing THEN Answer(e, FetchStart) ELSE {})]
    /\ last_end' = Present
    /\ fetched' = [e \in Entities |-> IF e \in failing THEN fetched[e] ELSE Present]
    /\ lapsed' = lapsed \cup {e \in failing : Present - fetched[e] > Overlap}
    /\ booted' = IF booted = Undefined THEN Present ELSE booted
    /\ UNCHANGED <<config, past>>

-----------------------------------------------------------------------------
(* The streams *)

\* _resolve_roles: by what is mapped, not by what can be read
BatteryEntity == IF "battery_power_signed" \in Mapped THEN "battery_power_signed" ELSE "battery_power"
GridEntity    == IF "grid_power" \in Mapped THEN "grid_power" ELSE "grid_power_fallback"

\* Mutation: a battery sensor is as published.
BatteryRolePlain == "primary"

BatteryRole == IF "battery_power_signed" \in Mapped THEN "signed_net" ELSE "primary"
GridRole    == IF "grid_power" \in Mapped THEN "primary" ELSE "fallback"

Contributing == {"pv_power", "ac_port_power", "backup_power", BatteryEntity, GridEntity, "battery_soc"}

\* Mutation: the row in effect is the first one, not the last.
HeldFirst(rows, t) ==
    {r.raw : r \in {x \in rows : x.at <= t /\ \A y \in rows : y.at <= t => x.at <= y.at}}

\* _forward_fill
Held(rows, t) ==
    {r.raw : r \in {x \in rows : x.at <= t /\ \A y \in rows : y.at <= t => y.at <= x.at}}

\* build_derived_samples, at one instant of the joint timeline
SampleAt(t) ==
    LET held  == [e \in Contributing |-> Held(buffers[e], t)]
        C(signal, role, e) == {Canonical(config.platform, signal, role, v) : v \in held[e]}
    IN  IF held["battery_soc"] = {} THEN {}
        ELSE {[solar |-> sol, ac |-> ac, backup |-> b, battery |-> bat, grid |-> g] :
                sol \in C("pv", "primary", "pv_power"),
                ac  \in C("ac_port", "primary", "ac_port_power"),
                b   \in C("backup", "primary", "backup_power"),
                bat \in C("battery", BatteryRole, BatteryEntity),
                g   \in C("grid", GridRole, GridEntity)}

Timeline == UNION {{r.at : r \in buffers[e]} : e \in Contributing}

-----------------------------------------------------------------------------
(* The live path, and the world *)

\* The states that are fresh: the AC port and the backup port alone have an age
\* limit, and a state that does not change is not updated.
AgeLimited == {"ac_port_power", "backup_power", "grid_import_power", "grid_export_power",
               "signed_grid_power"}

Fresh(e) == \E t \in 0..Present : ChangedAt(e, t) /\ Present - t <= MaxAge

LiveStates ==
    [e \in Entities |-> IF e \in AgeLimited /\ ~Fresh(e) THEN {} ELSE StateAt(e, Present)]

Live == LiveSample(config.platform, Mapped, LiveStates)

\* Time passes, and the plant and the sensors may change; a cycle comes in time.
Proceeds ==
    /\ Present < Span
    /\ Present - last_end < Pause \/ last_end = Undefined
    /\ \E p \in Plants, out \in {{}, {Frail} \cap Mapped} :
        past' = Append(past, [plant |-> p, out |-> out])
    /\ UNCHANGED <<config, resampler>>

\* A restart forgets the buffers.
Reboots ==
    /\ last_end # Undefined
    /\ buffers' = [e \in Entities |-> {}]
    /\ last_end' = Undefined
    /\ fetched' = [e \in Entities |-> Undefined]
    /\ lapsed' = {}
    /\ booted' = Undefined
    /\ UNCHANGED <<config, past>>

ResampleInit ==
    /\ config \in Configs
    /\ \E p \in Plants : past = [t \in 1..Kept |-> [plant |-> p, out |-> {}]]
    /\ buffers = [e \in Entities |-> {}]
    /\ last_end = Undefined
    /\ fetched = [e \in Entities |-> Undefined]
    /\ lapsed = {}
    /\ booted = Undefined

ResampleNext == (\E failing \in Failures : Updates(failing)) \/ Proceeds \/ Reboots

ResampleSpec == ResampleInit /\ [][ResampleNext]_recording

-----------------------------------------------------------------------------
(* Properties *)

\* What a sensor last said, up to an instant, by the whole of the recorder
LastSaid(e, t) ==
    UNION {StateAt(e, x) : x \in {y \in 0..t : /\ StateAt(e, y) # {}
                                             /\ \A z \in y + 1..t : StateAt(e, z) = {}}}

Tracked(t) == Contributing \cap lapsed = {} /\ \A e \in Contributing : fetched[e] >= t

\* A sensor that could not be fetched for no longer than the overlap leaves no
\* trace: each sample holds what every sensor had last said at its instant.
StreamsTrue ==
  last_end # Undefined =>
    \A t \in Timeline : Tracked(t) =>
        \A s \in SampleAt(t) :
            /\ {s.battery} = {Canonical(config.platform, "battery", BatteryRole, v) :
                                v \in LastSaid(BatteryEntity, t)}
            /\ {s.grid} = {Canonical(config.platform, "grid", GridRole, v) :
                                v \in LastSaid(GridEntity, t)}
            /\ {s.solar} = LastSaid("pv_power", t)

\* Nor does it cost a sample.  Trimming drops what a sensor that does not change
\* said before the window; it has spoken again within an overlap and a pause, the
\* longest that two fetches of a sensor which is still tracked begin apart, but
\* where the window has moved since a restart, only from that restart on.  A fetch
\* that fails may cost samples until the next one.
StreamsWhole ==
  last_end # Undefined =>
    \A t \in Window(last_end) + Overlap + Pause..last_end :
        /\ Window(booted) = Window(last_end) \/ t >= booted
        /\ Tracked(last_end)
        /\ \A e \in Contributing : StateAt(e, t) # {}
        /\ \E e \in Contributing : ChangedAt(e, t)
        => t \in Timeline /\ SampleAt(t) # {}

\* When every sensor can be read, the recorder's sample is the live one.  When the preferred
\* battery or grid sensor cannot, the live path takes the stand-in and the recorder what the
\* sensor said last; in that one signal alone they differ.
RecorderAgrees ==
    last_end = Present /\ Present \in Timeline /\ Tracked(Present) =>
        /\ (\A e \in Contributing : LiveStates[e] # {}) => SampleAt(Present) = Live
        /\ \A s \in SampleAt(Present), l \in Live :
              /\ s.solar = l.solar /\ s.ac = l.ac /\ s.backup = l.backup
              /\ LiveStates[BatteryEntity] # {} => s.battery = l.battery
              /\ LiveStates[GridEntity] # {} => s.grid = l.grid

\* The battery sensor in use tells charging from discharging: the one Solis has
\* besides the signed one does not.
BatteryDirected == config.platform = "solis" => "battery_power_signed" \in Mapped

\* Through every vendor's directions, and as long as the sensors that have one
\* are readable, the live readings are the plant's.
LiveTrue ==
  last_end = Present =>
    LET p == past[Present + 1].plant
        R(signal) == Read(config.platform, signal, Mapped, LiveStates)
    IN  /\ BatteryDirected /\ LiveStates[BatteryEntity] # {} /\ LiveStates["grid_power"] # {} =>
            \A s \in Live : Consumption(s) = p.load + p.backup /\ Losses(s) = p.loss
        /\ \A i \in R("import"), x \in R("export") : i - x = GridNet(p) /\ (i = 0 \/ x = 0)

\* The buffers and what is built of them: neither a failed fetch nor a restart makes the
\* streams tell what no sensor said (RecorderResampler.update, build_derived_samples).
StreamsFaithful == ResampleTypeOK /\ StreamsTrue /\ StreamsWhole

\* One story of the plant, by either path (to_canonical, resolve_bindings, _resolve_roles).
ReadingsTrue == RecorderAgrees /\ LiveTrue

================================================================================
