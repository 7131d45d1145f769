------------------------------ MODULE ExportGuard ------------------------------
(***************************************************************************)
(* The battery-export guard (outbound/export_guard.py) and the listener      *)
(* that feeds it (orchestration/coordinator.py).                             *)
(*                                                                           *)
(* Whenever the grid or the PV sensor changes, the guard gets one sample:     *)
(* the mode commanded at that moment and export minus PV.  Nothing else       *)
(* wakes it: neither time passing nor a new command.  An excess under a       *)
(* passive mode opens an episode, which trips once it is `Persist` old and    *)
(* ends after `ClearAfter` of quiet samples.                                  *)
(***************************************************************************)
EXTENDS Integers

CONSTANTS
    Modes,
    Passive,        \* PASSIVE_MODES
    None,
    Exports,        \* what the grid sensor can read, as export
    Yields,         \* what the PV sensor can read
    Threshold,      \* _threshold_kw
    Persist,        \* _persist
    ClearAfter,     \* _clear_after
    MaxGap,         \* _MAX_INTEGRATION_GAP
    Cadence,        \* longest silence of a sensor that is available
    Horizon         \* bound: how long a behaviour is followed

ASSUME GuardModesAssumption == Passive \subseteq Modes /\ None \notin Modes
ASSUME GuardReadingsAssumption ==
    /\ Exports \subseteq Int
    /\ Yields \subseteq Int
ASSUME GuardTimingAssumption ==
    /\ Threshold \in Nat
    /\ Persist \in Nat \ {0}
    /\ ClearAfter \in Nat \ {0}
    /\ MaxGap \in Nat
    /\ Cadence \in Nat \ {0}
    /\ Horizon \in Nat

Unset == -1             \* a time or a rate that is None

Time == {Unset} \cup Nat

Episode == [onset : Nat, last_seen : Nat, peak : Nat, energy : Nat,
            tripped_at : Time, cleared_at : Time, snapshot : BOOLEAN]

ASSUME NoEpisodeAssumption == None \notin Episode

VARIABLES
    now,
    grid, pv,           \* what the sensors read: {reading}, or {} if unavailable
    commanded,          \* the control module's last_commanded_mode
    state,              \* _state
    episode,            \* _episode
    last_trip,          \* _last_trip
    trip_count,         \* _trip_count
    clear_since,        \* _clear_since
    last_update,        \* _last_update, of interest once there is an excess
    last_excess,        \* _last_excess_kw
    excess_since,       \* history: the sensors show an excess since then
    settled_since       \* history: whether an export shows is unchanged since then

world   == <<now, grid, pv, commanded>>
guard   == <<state, episode, last_trip, trip_count, clear_since, last_update, last_excess>>
history == <<excess_since, settled_since>>
vars == <<world, guard, history>>

TypeOK ==
    /\ now \in Nat
    /\ grid \in SUBSET Exports
    /\ pv \in SUBSET Yields
    /\ commanded \in Modes \cup {None}
    /\ state \in {"idle", "suspect", "tripped"}
    /\ episode \in Episode \cup {None}
    /\ last_trip \in Episode \cup {None}
    /\ trip_count \in Nat
    /\ clear_since \in Time
    /\ last_update \in Nat
    /\ last_excess \in {Unset} \cup Nat
    /\ excess_since \in Time
    /\ settled_since \in Nat

-----------------------------------------------------------------------------
(* One sample *)

\* Mutation: an unavailable PV sensor counts as no production.
ExcessWithoutPv(g, p) == {x - y : x \in g, y \in IF p = {} THEN {0} ELSE p}

\* Export minus PV, if both are known
Excess(g, p) == {x - y : x \in g, y \in p}

Counted(g, p) == {x \in Excess(g, p) : x >= Threshold}

\* The excess a sample reports: there is one only under a passive mode.
Active(g, p) == IF commanded \in Passive THEN Counted(g, p) ELSE {}

\* _integrate: the previous sample's excess held until now, unless the gap is
\* too long to assume it
Gain ==
    IF last_excess # Unset /\ last_update < now /\ now - last_update <= MaxGap
    THEN last_excess * (now - last_update)
    ELSE 0

Opened(x) == [onset |-> now, last_seen |-> now, peak |-> x, energy |-> 0,
              tripped_at |-> Unset, cleared_at |-> Unset, snapshot |-> FALSE]

Larger(x, y) == IF x >= y THEN x ELSE y

Seen(x) ==
    [episode EXCEPT !.last_seen = now, !.energy = @ + Gain, !.peak = Larger(@, x)]

Quieted == [episode EXCEPT !.energy = @ + Gain]

Opens(x) ==
    /\ episode = None
    /\ episode' = Opened(x)
    /\ state' = "suspect"
    /\ UNCHANGED <<last_trip, trip_count>>

Continues(x) ==
    /\ episode # None
    /\ state = "tripped" \/ now - episode.onset < Persist
    /\ episode' = Seen(x)
    /\ UNCHANGED <<state, last_trip, trip_count>>

\* The platform snapshot is attached to the episode before anything is reported.
Trips(x) ==
    /\ state = "suspect"
    /\ now - episode.onset >= Persist
    /\ episode' = [Seen(x) EXCEPT !.tripped_at = now, !.snapshot = TRUE]
    /\ state' = "tripped"
    /\ trip_count' = trip_count + 1
    /\ UNCHANGED last_trip

\* Mutation: a quiet sample leaves a suspect episode open.
DropsNothing ==
    /\ state # "tripped"
    /\ UNCHANGED <<state, episode, clear_since, last_trip, trip_count>>

\* A quiet sample before the trip: the suspicion is dropped.
Drops ==
    /\ state # "tripped"
    /\ state' = "idle"
    /\ episode' = None
    /\ UNCHANGED <<clear_since, last_trip, trip_count>>

QuietSince == IF clear_since = Unset THEN now ELSE clear_since

Waits ==
    /\ state = "tripped"
    /\ now - QuietSince < ClearAfter
    /\ clear_since' = QuietSince
    /\ episode' = Quieted
    /\ UNCHANGED <<state, last_trip, trip_count>>

Clears ==
    /\ state = "tripped"
    /\ now - QuietSince >= ClearAfter
    /\ last_trip' = [Quieted EXCEPT !.cleared_at = now]
    /\ episode' = None
    /\ state' = "idle"
    /\ clear_since' = Unset
    /\ UNCHANGED trip_count

\* Mutation: an excess does not restart the clear time.
ExcessiveKeepsQuiet(x) ==
    /\ Opens(x) \/ Continues(x) \/ Trips(x)
    /\ clear_since' = clear_since
    /\ last_excess' = x

Excessive(x) ==
    /\ Opens(x) \/ Continues(x) \/ Trips(x)
    /\ clear_since' = Unset
    /\ last_excess' = x

Quiet ==
    /\ Drops \/ Waits \/ Clears
    /\ last_excess' = Unset

\* ExportGuard.update and what the coordinator does with its transition
Sample(g, p) ==
    /\ IF Active(g, p) = {} THEN Quiet ELSE \E x \in Active(g, p) : Excessive(x)
    /\ last_update' = now

-----------------------------------------------------------------------------
(* The world.  Each sensor reports on its own, so a sample may pair a new grid *)
(* reading with an old PV one.                                                 *)

Readings(S) == {{}} \cup {{x} : x \in S}

\* The readings show more export than production accounts for.
Shown(g, p) == \E x \in g, y \in p : x - y >= Threshold

Exporting == commanded \in Passive /\ Shown(grid, pv)

Blind == grid = {} /\ pv = {}

\* History: how long the readings have shown an excess, whatever is commanded,
\* and how long the answer the guard should give has been the same.
Watch ==
    /\ excess_since' = IF ~Shown(grid', pv') THEN Unset
                       ELSE IF excess_since = Unset THEN now ELSE excess_since
    /\ settled_since' = IF (Exporting' <=> Exporting) /\ ~Blind' THEN settled_since ELSE now'

GridReports ==
    /\ grid' \in Readings(Exports)
    /\ Sample(grid', pv)
    /\ UNCHANGED <<now, pv, commanded>>
    /\ Watch

PvReports ==
    /\ pv' \in Readings(Yields)
    /\ Sample(grid, pv')
    /\ UNCHANGED <<now, grid, commanded>>
    /\ Watch

\* A new command is not a sample.
Command ==
    /\ commanded' \in Modes
    /\ UNCHANGED <<now, grid, pv, guard>>
    /\ Watch

Pass ==
    /\ now < Horizon
    /\ Blind \/ now - last_update < Cadence
    /\ now' = now + 1
    /\ UNCHANGED <<grid, pv, commanded, guard>>
    /\ Watch

Init ==
    /\ now = 0
    /\ grid \in Readings(Exports)
    /\ pv \in Readings(Yields)
    /\ commanded = None
    /\ state = "idle"
    /\ episode = None
    /\ last_trip = None
    /\ trip_count = 0
    /\ clear_since = Unset
    /\ last_update = 0
    /\ last_excess = Unset
    /\ excess_since = IF Shown(grid, pv) THEN 0 ELSE Unset
    /\ settled_since = 0

Next == GridReports \/ PvReports \/ Command \/ Pass

Spec == Init /\ [][Next]_vars

-----------------------------------------------------------------------------
(* Properties *)

\* A trip is never a blip: the readings themselves have shown the excess for
\* the whole persistence window, however grid and PV reports interleaved.
TripsOnExport ==
    [][state = "suspect" /\ state' = "tripped"
        => excess_since # Unset /\ now - excess_since >= Persist]_vars

\* A trip ends only after the export has been unseen for the clear time.
ClearsOnQuiet ==
    [][state = "tripped" /\ state' # "tripped" => now - episode.last_seen >= ClearAfter]_vars

\* The guard answers in time: once the export has shown, or has been gone, for
\* the window and two sensor reports, the guard is tripped, or is not.
TracksExport ==
    /\ now - settled_since >= Persist + 2 * Cadence /\ Exporting => state = "tripped"
    /\ now - settled_since >= ClearAfter + 2 * Cadence /\ ~Exporting => state = "idle"

Plausible(e) ==
    /\ e.energy <= e.peak * (e.last_seen - e.onset + MaxGap)
    /\ e.tripped_at # Unset => e.tripped_at - e.onset \in Persist..(e.last_seen - e.onset)
    /\ e.cleared_at # Unset => e.cleared_at - e.last_seen >= ClearAfter

\* What an episode reports fits together: no more energy than its peak could
\* have exported while it was seen and the one gap after it, and times in order.
EpisodesPlausible ==
    /\ episode # None => Plausible(episode)
    /\ last_trip # None => Plausible(last_trip) /\ last_trip.tripped_at # Unset

-----------------------------------------------------------------------------
(* Why they hold *)

\* An episode is open from its first excess; its quiet clock runs exactly when
\* its last sample was quiet, and a suspect one has had no quiet sample.
Phases ==
    /\ state = "idle" <=> episode = None
    /\ last_excess # Unset => episode # None
    /\ state # "tripped" => clear_since = Unset
    /\ state = "tripped" => (clear_since = Unset <=> last_excess # Unset)
    /\ clear_since # Unset => last_update - clear_since < ClearAfter
    /\ state = "suspect" => last_excess # Unset /\ last_update - episode.onset < Persist
    /\ episode # None => (episode.tripped_at # Unset <=> state = "tripped")

\* The readings showed an excess from a suspect episode's onset on.
Seeing ==
    /\ excess_since # Unset <=> Shown(grid, pv)
    /\ excess_since # Unset => excess_since <= now
    /\ state = "suspect" => excess_since # Unset /\ excess_since <= episode.onset

\* The open episode up to the last sample
Accounted ==
    /\ last_update <= now
    /\ episode # None =>
        /\ episode.onset <= episode.last_seen
        /\ episode.last_seen <= last_update
        /\ clear_since # Unset => clear_since \in episode.last_seen..last_update
        /\ last_excess # Unset => episode.last_seen = last_update /\ last_excess <= episode.peak
        /\ episode.energy <= episode.peak * (last_update - episode.onset)
        /\ episode.cleared_at = Unset

\* Until a sample has seen the current answer, no more than one report is due.
Timely ==
    /\ settled_since <= now
    /\ IF Blind THEN settled_since = now ELSE now - last_update <= Cadence
    /\ Exporting /\ last_excess = Unset => last_update <= settled_since
    /\ ~Exporting /\ last_excess # Unset => last_update <= settled_since
    /\ Exporting /\ state = "suspect" => episode.onset <= settled_since + Cadence
    /\ ~Exporting /\ state = "tripped" /\ last_excess = Unset =>
        clear_since <= settled_since + Cadence

IInv == TypeOK /\ Phases /\ Seeing /\ Accounted /\ Timely /\ EpisodesPlausible

================================================================================
