-------------------------------- MODULE SolisRc --------------------------------
(***************************************************************************)
(* The Solis register driver (outbound/solis_driver.py) over the register   *)
(* writer (outbound/inverter.py) with its heartbeat (outbound/heartbeat.py). *)
(*                                                                          *)
(* A forced mode drives the inverter through its remote-control (RC)        *)
(* function: a selector, a setpoint, and a deadman that drops the function  *)
(* about five minutes after the last RC write.  A mode is a sequence of     *)
(* awaited service calls, so apply_mode, hold and the heartbeat's beat each *)
(* take the driver's write lock; `jobs` is that lock's FIFO queue.  A call   *)
(* made while the link to the inverter is down is swallowed.                *)
(***************************************************************************)
EXTENDS Integers, FiniteSets, SequencesExt

CONSTANTS
    Modes,
    Forced,         \* the RC-backed modes: those with a non-zero setpoint
    NoMode,         \* None; as a setpoint, 0 W
    Interval,       \* _RC_KEEPALIVE_INTERVAL
    Expiry,         \* how long the inverter holds the RC function unrefreshed
    RevertAfter,    \* how long the registers of a lapsed function stay as they were
    MaxLag          \* bound: longest a job waits and writes

ASSUME RcModesAssumption == Forced \subseteq Modes /\ NoMode \notin Modes
ASSUME RcTimingAssumption ==
    /\ Interval \in Nat \ {0}
    /\ Expiry \in Nat \ {0}
    /\ RevertAfter \in Nat
    /\ MaxLag \in Nat \ {0}
    /\ MaxLag < Interval
\* The function expires about five minutes after a refresh that comes every three, and
\* its registers revert only about ten minutes in: a job delayed by a minute neither
\* misses the deadman nor meets the revert.
ASSUME RcDeadmanAssumption == Interval + MaxLag < Expiry /\ MaxLag <= RevertAfter

VARIABLES
    jobs,           \* the write lock: its holder, then its waiters
    held_spec,
    beat_in,        \* time to the heartbeat's next beat, or Off
    closed,         \* shutdown() has run
    selector,       \* register 43132: the RC function is engaged
    setpoint,       \* register 43128, named by the mode it drives
    cached,         \* the setpoint the number entity shows
    rc_left,        \* time until the inverter drops the function, then reverts it
    link,           \* service calls reach the inverter
    outage          \* history: the link has been down since the start

driver   == <<held_spec, beat_in, closed>>
inverter == <<selector, setpoint, cached, rc_left>>
world    == <<link, outage>>
vars == <<jobs, driver, inverter, world>>

Off == -1

-----------------------------------------------------------------------------
(* The writes of a mode *)

Writes == {"registers", "engage", "timeout", "setpoint", "zero", "disengage"}

Engage  == <<"engage", "timeout", "setpoint">>

\* Mutation: the selector is released first.
DisengageSelectorFirst == <<"disengage", "zero">>

Disengage == <<"zero", "disengage">>

\* "registers": the 43110 bits, the currents and the export limit
ModeWrites(m) == <<"registers">> \o IF m \in Forced THEN Engage ELSE Disengage

\* Mutation: only the setpoint is refreshed, not the selector.
RefreshSetpoint(m) == IF m \in Forced THEN <<"setpoint">> ELSE <<>>

Refresh(m) == IF m \in Forced THEN Engage ELSE <<>>

Job == [kind : {"apply", "hold", "beat"},
        spec : Modes \cup {NoMode},
        todo : Seq(Writes),         \* empty: waits for the lock
        age  : 0..MaxLag]

TypeOK ==
    /\ jobs \in Seq(Job)
    /\ held_spec \in Modes \cup {NoMode}
    /\ beat_in \in {Off} \cup 0..Interval
    /\ closed \in BOOLEAN
    /\ selector \in BOOLEAN
    /\ setpoint \in Forced \cup {NoMode}
    /\ cached \in Forced \cup {NoMode}
    /\ rc_left \in -RevertAfter..Expiry
    /\ link \in BOOLEAN
    /\ outage \in BOOLEAN

Driving == selector /\ setpoint # NoMode /\ rc_left > 0

-----------------------------------------------------------------------------
(* Callers.  The control module's own lock admits one apply_mode or hold at a *)
(* time, and it holds only the mode it applied last.                          *)

Arrive(kind, m) ==
    jobs' = Append(jobs, [kind |-> kind, spec |-> m, todo |-> <<>>, age |-> 0])

CallerIdle == ~closed /\ \A i \in DOMAIN jobs : jobs[i].kind = "beat"

Apply(m) ==
    /\ CallerIdle
    /\ Arrive("apply", m)
    /\ UNCHANGED <<driver, inverter, world>>

Hold ==
    /\ CallerIdle
    /\ held_spec # NoMode
    /\ Arrive("hold", held_spec)
    /\ UNCHANGED <<driver, inverter, world>>

\* Heartbeat._on_beat: the interval timer re-arms itself, then the action runs
Beat ==
    /\ beat_in = 0
    /\ beat_in' = Interval
    /\ Arrive("beat", NoMode)
    /\ UNCHANGED <<held_spec, closed, inverter, world>>

Shutdown ==
    /\ ~closed
    /\ closed' = TRUE
    /\ beat_in' = Off
    /\ UNCHANGED <<jobs, held_spec, inverter, world>>

-----------------------------------------------------------------------------
(* Jobs under the write lock *)

\* Mutation: no write lock.
HolderUnlocked(i) == TRUE

Holder(i) == i = 1

\* The heartbeat after a full write: restarted from now, or stopped.
Phased(m) == IF m \in Forced THEN Interval ELSE Off

\* The lock is taken.  A beat re-arms whatever is held by now.
Acquire(i) ==
    LET m == IF jobs[i].kind = "beat" THEN held_spec ELSE jobs[i].spec
        todo == IF jobs[i].kind = "apply" THEN ModeWrites(m) ELSE Refresh(m)
    IN /\ Holder(i) /\ jobs[i].todo = <<>>
       /\ held_spec' = IF jobs[i].kind = "hold" THEN m ELSE held_spec
       /\ jobs' = IF todo = <<>> THEN RemoveAt(jobs, i)
                  ELSE [jobs EXCEPT ![i].spec = m, ![i].todo = todo]
       /\ UNCHANGED <<beat_in, closed, inverter, world>>

\* Mutation: the integration drops a refresh that changes nothing.
RenewsNothing(m) == cached # m

\* set_number with renew nudges an unchanged value, so the write reaches the
\* inverter; without renew the integration drops a write of what it already shows.
Renews(m) == m \in Forced \/ cached # m

\* What the inverter makes of a write that reaches it
Takes(w, m) ==
    /\ selector' = IF w = "engage" THEN TRUE ELSE IF w = "disengage" THEN FALSE ELSE selector
    /\ IF w \in {"setpoint", "zero"} /\ Renews(IF w = "zero" THEN NoMode ELSE m)
       THEN /\ setpoint' = IF w = "zero" THEN NoMode ELSE m
            /\ cached' = setpoint'
            /\ rc_left' = IF w = "setpoint" /\ selector THEN Expiry ELSE rc_left
       ELSE /\ UNCHANGED <<setpoint, cached>>
            /\ rc_left' = IF w = "engage" /\ (~selector \/ rc_left <= 0) THEN Expiry ELSE rc_left

\* A service call returns, having reached the inverter or not; after the last one
\* the driver's own state follows and the lock is released.
CallReturns(i) ==
    LET job == jobs[i]
        rest == Tail(job.todo)
        applied == rest = <<>> /\ job.kind = "apply"
    IN /\ job.todo # <<>>
       /\ IF link THEN Takes(Head(job.todo), job.spec) ELSE UNCHANGED inverter
       /\ jobs' = IF rest = <<>> THEN RemoveAt(jobs, i) ELSE [jobs EXCEPT ![i].todo = rest]
       /\ held_spec' = IF applied THEN job.spec ELSE held_spec
       /\ beat_in' = IF applied THEN Phased(job.spec) ELSE beat_in
       /\ UNCHANGED <<closed, world>>

-----------------------------------------------------------------------------
(* The world *)

\* The registers of an expired function revert minutes after it stopped acting.
Revert ==
    /\ rc_left = -RevertAfter /\ (selector \/ setpoint # NoMode)
    /\ selector' = FALSE
    /\ setpoint' = NoMode
    /\ UNCHANGED <<jobs, driver, cached, rc_left, world>>

Poll ==
    /\ cached # setpoint
    /\ cached' = setpoint
    /\ UNCHANGED <<jobs, driver, selector, setpoint, rc_left, world>>

LinkChange ==
    /\ link' = ~link
    /\ outage' = TRUE
    /\ UNCHANGED <<jobs, driver, inverter>>

Countdown(n, least) == IF n > least THEN n - 1 ELSE n

Pass ==
    /\ beat_in # 0
    /\ \A i \in DOMAIN jobs : jobs[i].age < MaxLag
    /\ jobs' = [i \in DOMAIN jobs |-> [jobs[i] EXCEPT !.age = @ + 1]]
    /\ beat_in' = Countdown(beat_in, Off)
    /\ rc_left' = Countdown(rc_left, -RevertAfter)
    /\ UNCHANGED <<held_spec, closed, selector, setpoint, cached, world>>

-----------------------------------------------------------------------------

\* A restart finds the registers as the last run left them.
Init ==
    /\ jobs = <<>>
    /\ held_spec = NoMode
    /\ beat_in = Off
    /\ closed = FALSE
    /\ selector \in BOOLEAN
    /\ setpoint \in IF selector THEN Forced \cup {NoMode} ELSE {NoMode}
    /\ cached = setpoint
    /\ rc_left \in IF selector THEN {0, Expiry} ELSE {0}
    /\ link = TRUE /\ outage = FALSE

JobStep == \E i \in DOMAIN jobs : Acquire(i) \/ CallReturns(i)

Next ==
    \/ \E m \in Modes : Apply(m)
    \/ Hold
    \/ Beat
    \/ Shutdown
    \/ JobStep
    \/ Revert \/ Poll \/ LinkChange
    \/ Pass

Spec == Init /\ [][Next]_vars

\* The event loop runs what is ready, calls return, timers fire, time passes.
\* Pass and Beat are strong: arriving jobs and polls interrupt them.
Fairness == WF_vars(JobStep) /\ SF_vars(Beat) /\ SF_vars(Pass)

FairSpec == Spec /\ Fairness

-----------------------------------------------------------------------------
(* Properties *)

ApplyInFlight == \E i \in DOMAIN jobs : jobs[i].kind = "apply"

ApplyingMode ==
    IF ApplyInFlight
    THEN jobs[CHOOSE i \in DOMAIN jobs : jobs[i].kind = "apply"].spec
    ELSE NoMode

\* The heartbeat runs exactly while the mode last applied is RC-backed: a mode
\* change that released the function leaves no timer to re-arm it, and one that
\* engaged it is kept alive.
HeartbeatFollowsHeld ==
    /\ beat_in # Off => held_spec \in Forced
    /\ held_spec \in Forced => beat_in # Off \/ closed

\* The inductive invariant.  Jobs that are past the lock are its holder ...
LockHeld == \A i \in DOMAIN jobs : i # 1 => jobs[i].todo = <<>>

\* ... at most one of them came from the control module ...
OneCaller ==
    \A i, j \in DOMAIN jobs : jobs[i].kind # "beat" /\ jobs[j].kind # "beat" => i = j

JobsCarryModes == \A i \in DOMAIN jobs : jobs[i].kind # "beat" => jobs[i].spec \in Modes

\* ... only an apply_mode writes anything but the mode held ...
OthersWriteHeld ==
    \A i \in DOMAIN jobs :
        jobs[i].kind = "hold" \/ (jobs[i].kind = "beat" /\ jobs[i].todo # <<>>)
            => jobs[i].spec = held_spec

\* ... and only a forced mode's sequence engages the function.
ForcedEngages ==
    \A i \in DOMAIN jobs : \A k \in DOMAIN jobs[i].todo :
        jobs[i].todo[k] \in {"engage", "setpoint"} => jobs[i].spec \in Forced

\* The queue at the write lock never holds a write of a mode that is neither held
\* nor being applied, and the heartbeat follows the held mode.
IInv ==
    /\ TypeOK
    /\ LockHeld
    /\ OneCaller
    /\ JobsCarryModes
    /\ OthersWriteHeld
    /\ ForcedEngages
    /\ HeartbeatFollowsHeld

\* As long as no call was lost, the selector is never off over a setpoint that is not
\* zero, so re-engaging cannot act on a setpoint of an earlier mode ...
ZeroUnlessEngaged == ~outage => (selector \/ setpoint = NoMode)

\* ... once a mode is held, a setpoint is that mode's or that of the apply_mode under way,
\* never one that a hold or a beat wrote for an earlier mode ...
SetpointWanted == ~outage /\ held_spec # NoMode => setpoint \in {NoMode, held_spec, ApplyingMode}

\* ... and a held mode that is not forced leaves neither setpoint nor selector on.
PassiveReleased ==
    ~outage /\ held_spec \in Modes \ Forced /\ ApplyingMode = NoMode => ~selector /\ setpoint = NoMode

\* No setpoint of a mode that was replaced acts, or is left for the next engagement.
NoStaleSetpoint == ZeroUnlessEngaged /\ SetpointWanted /\ PassiveReleased

\* A held forced mode does not lapse: with a working link and calls that return
\* within MaxLag, beats beat the inverter's deadman.
NeverLapses ==
    ~outage /\ ~closed /\ held_spec \in Forced /\ ~ApplyInFlight
        => Driving /\ setpoint = held_spec

\* What keeps both inductive.  What a job has left to write is the rest of its sequence ...
EngageRests  == {<<"registers">> \o Engage, Engage, <<"timeout", "setpoint">>, <<"setpoint">>}
ReleaseRests == {<<"registers">> \o Disengage, Disengage, <<"disengage">>}

WritesInOrder ==
    \A i \in DOMAIN jobs :
        jobs[i].todo = <<>> \/ jobs[i].todo \in IF jobs[i].spec \in Forced THEN EngageRests ELSE ReleaseRests

\* ... a setpoint that acts is the one the number shows, so zeroing it is no write dropped ...
SetpointShown == setpoint # NoMode => cached = setpoint

\* ... a sequence that engaged the function finds it engaged still, however long it took, and
\* one that zeroed the setpoint finds it zero ...
SequenceHolds ==
    ~outage => \A i \in DOMAIN jobs :
        /\ jobs[i].todo \in {<<"timeout", "setpoint">>, <<"setpoint">>} =>
                selector /\ rc_left + jobs[i].age >= 1
        /\ jobs[i].todo = <<"disengage">> => setpoint = NoMode

\* ... and the deadman was refreshed when the heartbeat last started counting, unless the
\* beat that refreshes it is in the queue.
RefreshedOrDue ==
    ~outage /\ ~closed /\ held_spec \in Forced /\ ~ApplyInFlight =>
        /\ selector /\ setpoint = held_spec
        /\ \/ rc_left >= Expiry - Interval + beat_in
           \/ \E i \in DOMAIN jobs :
                jobs[i].kind = "beat" /\ rc_left >= Expiry - Interval - jobs[i].age

DeadmanInv ==
    /\ IInv
    /\ outage \/ link
    /\ WritesInOrder
    /\ SetpointShown
    /\ ZeroUnlessEngaged
    /\ SequenceHolds
    /\ RefreshedOrDue

\* Whatever outages came before, a forced mode that stays held over a working
\* link ends up driven, and stays driven.
ForcedRecovers ==
    \A m \in Forced :
        <>[](held_spec = m /\ link /\ ~closed /\ ~ApplyInFlight)
            => <>[](Driving /\ setpoint = m)

\* The driver implements the abstract promise: an RC function that was stood
\* down is never resurrected by a beat, a hold or a late write.
Promise == INSTANCE ForcedHold WITH
    held <- held_spec, applying <- ApplyingMode, driving <- Driving

KeepsPromise == Promise!Spec
================================================================================
