--------------------------- MODULE PriceFeedWatchdog ---------------------------
(***************************************************************************)
(* The price feed watchdogs (orchestration/price_feed_watchdog.py) of several *)
(* installs that share one price sensor, and so one config entry to reload.   *)
(*                                                                           *)
(* A cycle takes its timestamp, waits for the translators, and only then lets *)
(* its watchdog look at the sensor.  Each watchdog counts its own attempts;   *)
(* _LAST_RELOAD is all they share, and an attempt that finds a sibling's      *)
(* reload recent counts without reloading.  A reconfigured install starts a   *)
(* fresh watchdog, but its repair issue stays up.                             *)
(***************************************************************************)
EXTENDS Integers, FiniteSets

CONSTANTS
    Installs,       \* the config entries that share the sensor
    Grace,          \* _grace
    RetryAfter,     \* _retry_after
    MaxReloads,     \* _max_reloads
    CycleLength,    \* longest time between the starts of two cycles
    Lag,            \* longest wait for the translators
    Followed        \* bound: how long a behaviour is followed

ASSUME WatchdogTimingAssumption ==
    /\ Grace \in Nat
    /\ RetryAfter \in 1..Grace
    /\ MaxReloads \in Nat \ {0}
    /\ CycleLength \in Nat \ {0}
    /\ Lag \in 0..(CycleLength - 1)
    /\ Followed \in Nat
\* A quarter of an hour, ten minutes and a cycle of five: what is leaned on by the first
\* attempt was reloaded in the outage.
ASSUME WatchdogGraceAssumption == RetryAfter + Lag <= Grace

Never == -1             \* a time that is None

Healthy == [dead_since |-> Never, reloads |-> 0, last_reload |-> Never, issue_raised |-> FALSE]

VARIABLES
    clock,
    alive,          \* does the sensor have a usable state
    owned,          \* is a config entry of another integration behind it
    watching,       \* _watched_entity is the sensor: installs priced by it
    started,        \* the timestamp of each install's latest cycle
    waiting,        \* the installs whose cycle has not reached its watchdog
    watchdog,       \* _state
    reloaded,       \* _LAST_RELOAD of the owner
    issues,         \* the issue registry: installs with a repair issue up
    reload_at,      \* history: when the owner was really reloaded last
    tried           \* history: reloads of the owner since the install's dead_since

cycles  == <<started, waiting>>
mended  == <<reloaded, reload_at, issues, tried>>
feed == <<clock, alive, owned, watching, cycles, watchdog, mended>>

WatchdogState == [dead_since : Never..Followed, reloads : 0..MaxReloads,
                  last_reload : Never..Followed, issue_raised : BOOLEAN]

WatchdogTypeOK ==
    /\ clock \in 0..Followed
    /\ alive \in BOOLEAN /\ owned \in BOOLEAN
    /\ watching \subseteq Installs /\ waiting \subseteq Installs /\ issues \subseteq Installs
    /\ started \in [Installs -> 0..Followed]
    /\ watchdog \in [Installs -> WatchdogState]
    /\ reloaded \in Never..Followed /\ reload_at \in reloaded..Followed
    /\ tried \in [Installs -> Nat]

-----------------------------------------------------------------------------
(* decide, on a dead feed: the timestamp is that of the cycle's start *)

Becomes(i, s) == watchdog' = [watchdog EXCEPT ![i] = s]

Notices(i) ==
    /\ watchdog[i].dead_since = Never
    /\ Becomes(i, [watchdog[i] EXCEPT !.dead_since = started[i]])
    /\ UNCHANGED mended

Outlasted(i) ==
    /\ watchdog[i].dead_since # Never
    /\ started[i] - watchdog[i].dead_since >= Grace

\* Mutation: one attempt too many.
SpentLate(i) == watchdog[i].reloads > MaxReloads

Spent(i) == watchdog[i].reloads >= MaxReloads

Due(i) ==
    \/ watchdog[i].last_reload = Never
    \/ started[i] - watchdog[i].last_reload >= RetryAfter

Bides(i) ==
    /\ watchdog[i].dead_since # Never
    /\ ~Outlasted(i) \/ (IF Spent(i) THEN watchdog[i].issue_raised ELSE ~Due(i))
    /\ UNCHANGED <<watchdog, mended>>

GivesUp(i) ==
    /\ Outlasted(i) /\ Spent(i) /\ ~watchdog[i].issue_raised
    /\ Becomes(i, [watchdog[i] EXCEPT !.issue_raised = TRUE])
    /\ issues' = issues \cup {i}
    /\ UNCHANGED <<reloaded, reload_at, tried>>

-----------------------------------------------------------------------------
(* _reload_owner *)

Attempted(i) == [watchdog[i] EXCEPT !.reloads = @ + 1, !.last_reload = started[i]]

\* Mutation: only one's own reloads count.
RecentNever(i) == FALSE

\* Mutation: a reload counts however old it is.
RecentOnce(i) == reloaded # Never

Recent(i) == reloaded # Never /\ started[i] - reloaded < RetryAfter

\* Nothing to reload: straight to the issue.
Despairs(i) ==
    /\ ~owned
    /\ Becomes(i, [Attempted(i) EXCEPT !.reloads = MaxReloads, !.issue_raised = TRUE])
    /\ issues' = issues \cup {i}
    /\ UNCHANGED <<reloaded, reload_at, tried>>

\* Mutation: a sibling's reload is not one's own attempt.
LeansUncounted(i) ==
    /\ owned /\ Recent(i)
    /\ Becomes(i, [Attempted(i) EXCEPT !.reloads = watchdog[i].reloads])
    /\ UNCHANGED mended

\* A sibling's reload counts as the attempt.
Leans(i) ==
    /\ owned /\ Recent(i)
    /\ Becomes(i, Attempted(i))
    /\ UNCHANGED mended

Reloads(i) ==
    /\ owned /\ ~Recent(i)
    /\ Becomes(i, Attempted(i))
    /\ reloaded' = started[i]
    /\ reload_at' = clock
    /\ tried' = [j \in Installs |-> IF watchdog[j].dead_since = Never THEN 0 ELSE tried[j] + 1]
    /\ UNCHANGED issues

Attempts(i) ==
    /\ Outlasted(i) /\ ~Spent(i) /\ Due(i)
    /\ Despairs(i) \/ Leans(i) \/ Reloads(i)

\* The feed lives, or there is nothing to watch: the outage is forgotten, and
\* its issue, if this watchdog raised it, is retracted.
Forgets(i) ==
    /\ Becomes(i, Healthy)
    /\ issues' = IF watchdog[i].issue_raised THEN issues \ {i} ELSE issues
    /\ tried' = [tried EXCEPT ![i] = 0]
    /\ UNCHANGED <<reloaded, reload_at>>

\* async_tick
Ticks(i) ==
    /\ i \in waiting
    /\ waiting' = waiting \ {i}
    /\ IF alive \/ i \notin watching
       THEN Forgets(i)
       ELSE Notices(i) \/ Bides(i) \/ GivesUp(i) \/ Attempts(i)
    /\ UNCHANGED <<clock, alive, owned, watching, started>>

-----------------------------------------------------------------------------
(* Around it *)

\* On schedule, or earlier on request.  A second cycle overlapping a waiting
\* one would only look twice.
Starts(i) ==
    /\ i \notin waiting
    /\ started[i] < clock
    /\ started' = [started EXCEPT ![i] = clock]
    /\ waiting' = waiting \cup {i}
    /\ UNCHANGED <<clock, alive, owned, watching, watchdog, mended>>

\* The entry is set up again, and its first refresh starts.
Reconfigures(i) ==
    /\ i \notin waiting
    /\ watching' \in {watching \cup {i}, watching \ {i}}
    /\ Becomes(i, Healthy)
    /\ started' = [started EXCEPT ![i] = clock]
    /\ waiting' = waiting \cup {i}
    /\ tried' = [tried EXCEPT ![i] = 0]
    /\ UNCHANGED <<clock, alive, owned, reloaded, reload_at, issues>>

\* Whatever a reload does, the sensor comes and goes of its own accord.
SensorTurns ==
    /\ alive' = ~alive
    /\ UNCHANGED <<clock, owned, watching, cycles, watchdog, mended>>

\* A restart of the platform forgets everything.
Restarts ==
    /\ waiting = {}
    /\ watchdog' = [i \in Installs |-> Healthy]
    /\ reloaded' = Never
    /\ reload_at' = Never
    /\ issues' = {}
    /\ tried' = [i \in Installs |-> 0]
    /\ started' = [i \in Installs |-> clock]
    /\ waiting' = Installs
    /\ UNCHANGED <<clock, alive, owned, watching>>

TimePasses ==
    /\ clock < Followed
    /\ \A i \in Installs : clock - started[i] < IF i \in waiting THEN Lag ELSE CycleLength
    /\ clock' = clock + 1
    /\ UNCHANGED <<alive, owned, watching, cycles, watchdog, mended>>

WatchdogInit ==
    /\ clock = 0
    /\ alive = TRUE
    /\ owned \in BOOLEAN
    /\ watching = Installs
    /\ started = [i \in Installs |-> 0]
    /\ waiting = Installs
    /\ watchdog = [i \in Installs |-> Healthy]
    /\ reloaded = Never
    /\ reload_at = Never
    /\ issues = {}
    /\ tried = [i \in Installs |-> 0]

WatchdogNext ==
    \/ \E i \in Installs : Ticks(i) \/ Starts(i) \/ Reconfigures(i)
    \/ SensorTurns \/ Restarts \/ TimePasses

WatchdogSpec == WatchdogInit /\ [][WatchdogNext]_feed

-----------------------------------------------------------------------------
(* Properties *)

\* No install reloads the owner while another's reload is still settling,
\* whatever each of them has counted; only the wait of a cycle that took its
\* timestamp before it shortens the spacing.
ReloadsSpaced ==
    (\E i \in Installs : Reloads(i)) /\ reload_at # Never => clock - reload_at >= RetryAfter - Lag

\* An install that gives up on a sensor it could mend has seen the owner
\* reloaded in this very outage, at least half as often as it has counted: a
\* cycle that started before a sibling's reload leans on that one, and so does
\* the attempt after it.
GivesUpTried ==
    \A i \in Installs :
        watchdog'[i].issue_raised /\ ~watchdog[i].issue_raised /\ owned => 2 * tried[i] >= MaxReloads

\* Between them the installs reload the owner neither too often nor too seldom
\* (PriceFeedWatchdog._reload_owner, decide).
ReloadsMeasured == [][ReloadsSpaced /\ GivesUpTried]_feed

\* An attempt comes as late after the one before it as a cycle allows.
AttemptBy(n) == Grace + (n - 1) * RetryAfter + n * (CycleLength - 1)

\* The longest an outage stays unreported: the grace, every attempt, and the
\* cycle that reports it.
Patience == AttemptBy(MaxReloads) + CycleLength + Lag

\* A feed that stays dead is reported, whichever install did the reloading.
GivesUpInTime ==
    \A i \in Installs :
        watchdog[i].dead_since # Never /\ clock - watchdog[i].dead_since > Patience
            => i \in issues

\* No outage is waited out in silence, and what is remembered of it is consistent
\* (WatchdogState, _LAST_RELOAD).
OutageReported == WatchdogTypeOK /\ GivesUpInTime

-----------------------------------------------------------------------------
(* Why they hold: the inductive invariant                                   *)

\* The cycles keep their pace.
Paced(i) ==
    started[i] <= clock /\ clock - started[i] <= IF i \in waiting THEN Lag ELSE CycleLength

\* What a watchdog remembers is of this outage.
Remembers(i) ==
    LET w == watchdog[i] IN
    /\ w.issue_raised => i \in issues
    /\ w.dead_since = Never => w = Healthy
    /\ w.dead_since # Never =>
        /\ w.dead_since <= started[i]
        /\ w.reloads = 0 => w.last_reload = Never
        /\ w.reloads > 0 => w.dead_since + Grace <= w.last_reload /\ w.last_reload <= started[i]

\* The latest start of a cycle that may leave the watchdog as it is.
Latest(w) ==
    IF w.reloads = 0 THEN w.dead_since + Grace - 1
    ELSE IF w.reloads < MaxReloads THEN w.last_reload + RetryAfter - 1
    ELSE w.last_reload

OnTime(i) ==
    LET w == watchdog[i] IN
    w.dead_since # Never /\ ~w.issue_raised =>
        /\ w.reloads > 0 => w.last_reload <= w.dead_since + AttemptBy(w.reloads)
        /\ started[i] <= Latest(w) + IF i \in waiting THEN CycleLength ELSE 0

\* An attempt in excess of the reloads there were leaned on one of them a second time: only
\* a reload after the latest attempt, or after the cycle under way began, is not used up.
Tallied(i) ==
    LET w == watchdog[i]
        fresh == IF w.reloads = 0 THEN IF reloaded > w.dead_since + Lag THEN 1 ELSE 0
                 ELSE IF i \in waiting /\ reloaded > started[i] THEN 2
                 ELSE IF reloaded > w.last_reload THEN 1 ELSE 0
    IN  owned /\ w.dead_since # Never => w.reloads + fresh <= 2 * tried[i]

\* A reload carries the timestamp of its cycle, which waited no longer than Lag.
Stamped ==
    /\ reload_at <= clock /\ reload_at - reloaded <= Lag
    /\ reload_at # Never => reloaded # Never

WatchdogInv ==
    /\ WatchdogTypeOK /\ Stamped
    /\ \A i \in Installs : Paced(i) /\ Remembers(i) /\ OnTime(i) /\ Tallied(i)

================================================================================
