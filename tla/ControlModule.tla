----------------------------- MODULE ControlModule -----------------------------
(***************************************************************************)
(* The post-DAG control module (outbound/inverter_control_module.py): it    *)
(* resolves a target mode, writes it once, verifies it by reading the       *)
(* inverter back and re-commands it when it drifts.                         *)
(*                                                                          *)
(* Everything runs on one asyncio loop, so a step of this module is the     *)
(* code between two awaits.  Coordinator ticks, override presses, scheduled *)
(* verify ticks and the force-verify service are jobs; each of them takes   *)
(* the FIFO dispatch lock, so `jobs` is the lock's queue and the job at its *)
(* head is the holder.  The platform driver is its promise only: a write    *)
(* takes time and may be lost, a readback says anything.                    *)
(***************************************************************************)
EXTENDS Integers, FiniteSets, SequencesExt

CONSTANTS
    Modes,          \* storage modes a target can name
    Overrides,      \* the modes the override select is set to in this instance
    Targets,        \* [mode with a spec -> [its control points -> value]]
    Points,         \* control points the driver reads back
    Values,         \* values a control point can hold
    NoMode,         \* Python's None for a mode
    NoRead,         \* an unreadable control point
    InitialDelay,   \* _VERIFY_INITIAL_DELAY_S
    PollInterval,   \* _VERIFY_POLL_INTERVAL_S
    Window,         \* _VERIFY_WINDOW_S
    DriftCycles,    \* _DRIFT_RECONCILE_CYCLES
    MaxLag,         \* bound: longest a job is queued or writing
    MaxLoad         \* bound: jobs plus armed timers an arrival may add to

ASSUME ModesAssumption ==
    /\ NoMode \notin Modes
    /\ Overrides \subseteq Modes
    /\ DOMAIN Targets \subseteq Modes
    /\ \A m \in DOMAIN Targets : DOMAIN Targets[m] \subseteq Points
    /\ \A m \in DOMAIN Targets : \A p \in DOMAIN Targets[m] : Targets[m][p] \in Values
ASSUME ReadAssumption == NoRead \notin Values
ASSUME TimingAssumption ==
    /\ InitialDelay \in Nat \ {0}
    /\ PollInterval \in Nat \ {0}
    /\ Window \in Nat \ {0}
    /\ DriftCycles \in Nat \ {0}
    /\ MaxLag \in Nat
    /\ MaxLoad \in Nat \ {0}

VARIABLES
    jobs,                       \* the dispatch lock: its holder, then its waiters
    last_commanded_mode,
    verify_state,
    verify_retried,
    window_age,                 \* time since _verify_window_started_at (saturates)
    consecutive_drift_cycles,
    reassert_next,
    last_automation_enabled,
    timers,                     \* [timer -> time left, or Off]
    verify_cancel,              \* the timer whose cancel handle the module keeps
    closed,                     \* shutdown() has run
    readback,                   \* what the driver's readback cache shows
    sent                        \* history: mode of the last apply_mode begun

verdict  == <<verify_state, verify_retried, window_age>>
drift    == <<consecutive_drift_cycles, reassert_next>>
clock    == <<timers, verify_cancel>>
vars == <<jobs, last_commanded_mode, verdict, drift,
          last_automation_enabled, clock, closed, readback, sent>>

-----------------------------------------------------------------------------
(* Types *)

Off      == -1
NoTimer  == 0
TimerIds == 1..MaxLoad
Elapsed  == Window + MaxLag         \* where window_age saturates

MaxDelay == IF InitialDelay > PollInterval THEN InitialDelay ELSE PollInterval

Job == [kind   : {"tick", "press", "verify"},
        at     : {"entry", "queued", "write", "hold"},
        target : Modes \cup {NoMode},   \* NoMode: nothing to dispatch
        age    : 0..MaxLag]         \* time since the job's `now` was taken

TypeOK ==
    /\ jobs \in Seq(Job)
    /\ last_commanded_mode \in DOMAIN Targets \cup {NoMode}
    /\ verify_state \in {"none", "pending", "ok", "mismatch", "unknown"}
    /\ verify_retried \in BOOLEAN
    /\ window_age \in 0..Elapsed
    /\ consecutive_drift_cycles \in 0..DriftCycles
    /\ reassert_next \in BOOLEAN
    /\ last_automation_enabled \in {"none", "on", "off"}
    /\ timers \in [TimerIds -> {Off} \cup 0..MaxDelay]
    /\ verify_cancel \in TimerIds \cup {NoTimer}
    /\ closed \in BOOLEAN
    /\ readback \in [Points -> Values \cup {NoRead}]
    /\ sent \in DOMAIN Targets \cup {NoMode}

-----------------------------------------------------------------------------
(* The readback comparison: one row per control point the mode targets *)

Rows(m) == IF m \in DOMAIN Targets THEN DOMAIN Targets[m] ELSE {}

Status(m, p) ==
    IF readback[p] = NoRead THEN "unknown"
    ELSE IF readback[p] = Targets[m][p] THEN "match" ELSE "mismatch"

Confirmed(m) == Rows(m) # {} /\ \A p \in Rows(m) : Status(m, p) = "match"
Drifted(m)   == \E p \in Rows(m) : Status(m, p) = "mismatch"
Blackout(m)  == ~ \E p \in Rows(m) : Status(m, p) = "match"

-----------------------------------------------------------------------------
(* The lock queue and the verify timer *)

\* Mutation: no lock, every job runs at once.
HolderUnlocked(i) == TRUE

Holder(i) == i = 1

\* A job that finds the lock free runs on without yielding to the loop.
Enqueue(kind, target, age) ==
    jobs' = Append(jobs, [kind |-> kind,
                          at |-> IF jobs = <<>> THEN "entry" ELSE "queued",
                          target |-> target, age |-> age])

Yielded == \A i \in DOMAIN jobs : jobs[i].at # "entry"

Armed == {t \in TimerIds : timers[t] # Off}

\* Only what an arrival adds is bounded: a job leaves at most one timer behind
\* and a timer leaves one job.
Arrival == ~closed /\ Yielded /\ Len(jobs) + Cardinality(Armed) < MaxLoad

Starts(i)     == Holder(i) /\ jobs[i].at \in {"entry", "queued"}
Await(i, at)  == jobs' = [jobs EXCEPT ![i].at = at]
Release(i)    == jobs' = RemoveAt(jobs, i)
Writing(i)    == jobs[i].at = "write"

Cancelled(handle) ==
    IF handle = NoTimer THEN timers ELSE [timers EXCEPT ![handle] = Off]

\* _schedule_verify: cancel what the handle names, arm a timer, keep its handle
ScheduleVerify(handle, delay) ==
    \E t \in TimerIds :
        /\ Cancelled(handle)[t] = Off
        /\ \A u \in 1..(t - 1) : Cancelled(handle)[u] # Off
        /\ timers' = [Cancelled(handle) EXCEPT ![t] = delay]
        /\ verify_cancel' = t

-----------------------------------------------------------------------------
(* Arrivals *)

\* an override is dispatched whatever the switch says; the switch gates the slot
Resolve(automation, override, slot) ==
    IF override # NoMode THEN override ELSE IF automation = "on" THEN slot ELSE NoMode

\* tick: the automation switch, the override select and the slot the schedule
\* holds for the cycle timestamp, which was taken `lag` before this call
Tick(automation, override, slot, lag) ==
    /\ Arrival
    /\ reassert_next' = (reassert_next \/ (automation = "on"
                                            /\ last_automation_enabled = "off"))
    /\ last_automation_enabled' = automation
    /\ Enqueue("tick", Resolve(automation, override, slot), lag)
    /\ UNCHANGED <<last_commanded_mode, verdict, consecutive_drift_cycles,
                   clock, closed, readback, sent>>

\* dispatch_override: the override select was just set
Press(automation, override, slot) ==
    /\ Arrival
    /\ Enqueue("press", Resolve(automation, override, slot), 0)
    /\ UNCHANGED <<last_commanded_mode, verdict, drift,
                   last_automation_enabled, clock, closed, readback, sent>>

ForceVerify ==
    /\ Arrival
    /\ timers' = Cancelled(verify_cancel)
    /\ verify_cancel' = NoTimer
    /\ IF last_commanded_mode = NoMode THEN UNCHANGED jobs
       ELSE Enqueue("verify", NoMode, 0)
    /\ UNCHANGED <<last_commanded_mode, verdict, drift,
                   last_automation_enabled, closed, readback, sent>>

\* async_call_later runs out: the verify tick starts and queues on the lock
Fire(t) ==
    /\ Yielded
    /\ timers[t] = 0
    /\ timers' = [timers EXCEPT ![t] = Off]
    /\ Enqueue("verify", NoMode, 0)
    /\ UNCHANGED <<last_commanded_mode, verdict, drift,
                   last_automation_enabled, verify_cancel, closed, readback, sent>>

Shutdown ==
    /\ Yielded /\ ~closed
    /\ timers' = Cancelled(verify_cancel)
    /\ verify_cancel' = NoTimer
    /\ closed' = TRUE
    /\ UNCHANGED <<jobs, last_commanded_mode, verdict, drift,
                   last_automation_enabled, readback, sent>>

-----------------------------------------------------------------------------
(* _apply_dispatch: a tick or a press that holds the lock *)

Dispatching(i) == Starts(i) /\ jobs[i].kind # "verify"

Target(i) == jobs[i].target

Resolved(i) == Dispatching(i) /\ Target(i) \in DOMAIN Targets

\* automation_disabled, no_target, no_spec
NothingToDispatch(i) ==
    /\ Dispatching(i)
    /\ Target(i) \notin DOMAIN Targets
    /\ Release(i)
    /\ UNCHANGED <<last_commanded_mode, verdict, drift,
                   last_automation_enabled, clock, closed, readback, sent>>

Command(i) ==
    /\ Resolved(i)
    /\ Target(i) # last_commanded_mode
    /\ Await(i, "write")
    /\ sent' = Target(i)
    /\ UNCHANGED <<last_commanded_mode, verdict, drift,
                   last_automation_enabled, clock, closed, readback>>

Holding(i) == Resolved(i) /\ Target(i) = last_commanded_mode

\* Mutation: "not drifted" taken for "confirmed".
HealsUndrifted == verify_state \in {"mismatch", "unknown"} /\ ~Drifted(last_commanded_mode)

Heals == verify_state \in {"mismatch", "unknown"} /\ Confirmed(last_commanded_mode)

SelfHeal(i) ==
    /\ Holding(i)
    /\ Heals
    /\ verify_state' = "ok"
    /\ consecutive_drift_cycles' = 0
    /\ Await(i, "hold")
    /\ UNCHANGED <<last_commanded_mode, verify_retried, window_age,
                   reassert_next, last_automation_enabled, clock, closed, readback, sent>>

\* Mutations: drift counted under every verdict; drift ignored under "unknown".
CountsDriftAlways == Drifted(last_commanded_mode)
CountsDriftWhenOk == verify_state = "ok" /\ Drifted(last_commanded_mode)

\* _reconcile_reason: the drift counter after this holding cycle
CountsDrift == verify_state \in {"ok", "unknown"} /\ Drifted(last_commanded_mode)

DriftCount == IF CountsDrift THEN consecutive_drift_cycles + 1 ELSE 0

ReconcileDue == reassert_next \/ DriftCount >= DriftCycles

Hold(i) ==
    /\ Holding(i)
    /\ ~Heals /\ ~ReconcileDue
    /\ consecutive_drift_cycles' = DriftCount
    /\ Await(i, "hold")
    /\ UNCHANGED <<last_commanded_mode, verdict, reassert_next,
                   last_automation_enabled, clock, closed, readback, sent>>

Reconcile(i) ==
    /\ Holding(i)
    /\ ~Heals /\ ReconcileDue
    /\ consecutive_drift_cycles' = IF reassert_next THEN consecutive_drift_cycles
                                   ELSE DriftCount
    /\ Await(i, "write")
    /\ sent' = Target(i)
    /\ UNCHANGED <<last_commanded_mode, verdict, reassert_next,
                   last_automation_enabled, clock, closed, readback>>

HoldDone(i) ==
    /\ jobs[i].at = "hold"
    /\ Release(i)
    /\ UNCHANGED <<last_commanded_mode, verdict, drift,
                   last_automation_enabled, clock, closed, readback, sent>>

\* _force_write_and_verify, once apply_mode has returned
WriteDone(i) ==
    /\ Writing(i) /\ jobs[i].kind # "verify"
    /\ last_commanded_mode' = Target(i)
    /\ verify_state' = "pending"
    /\ verify_retried' = FALSE
    /\ window_age' = jobs[i].age
    /\ reassert_next' = FALSE
    /\ consecutive_drift_cycles' = 0
    /\ ScheduleVerify(verify_cancel, InitialDelay)
    /\ Release(i)
    /\ UNCHANGED <<last_automation_enabled, closed, readback, sent>>

-----------------------------------------------------------------------------
(* _on_verify_tick: a verify job that holds the lock.  Its early returns for *)
(* a missing commanded mode or spec cannot be taken: a commanded mode is     *)
(* never cleared and always has a spec.                                      *)

Verifying(i) == Starts(i) /\ jobs[i].kind = "verify"

Expired(i) == window_age - jobs[i].age >= Window

\* Mutations: only a blackout is retried; only a mismatch is.
RetriesBlackout == Blackout(last_commanded_mode) /\ ~verify_retried

RetriesDrifted == Drifted(last_commanded_mode) /\ ~verify_retried

Retries == (Drifted(last_commanded_mode) \/ Blackout(last_commanded_mode))
           /\ ~verify_retried

\* Mutation: the poll forgets to schedule the next one.
VerifyPollOnce(i) ==
    /\ Verifying(i)
    /\ ~Confirmed(last_commanded_mode) /\ ~Expired(i)
    /\ verify_cancel' = NoTimer
    /\ Release(i)
    /\ UNCHANGED <<last_commanded_mode, verdict, drift, last_automation_enabled, timers,
                   closed, readback, sent>>

VerifyPoll(i) ==
    /\ Verifying(i)
    /\ ~Confirmed(last_commanded_mode) /\ ~Expired(i)
    /\ ScheduleVerify(NoTimer, PollInterval)
    /\ Release(i)
    /\ UNCHANGED <<last_commanded_mode, verdict, drift,
                   last_automation_enabled, closed, readback, sent>>

\* Mutation: the retry is not latched.
VerifyRetryUnlatched(i) ==
    /\ Verifying(i)
    /\ ~Confirmed(last_commanded_mode) /\ Expired(i) /\ Retries
    /\ verify_cancel' = NoTimer
    /\ Await(i, "write")
    /\ sent' = last_commanded_mode
    /\ UNCHANGED <<last_commanded_mode, verdict, drift, last_automation_enabled, timers,
                   closed, readback>>

VerifyRetry(i) ==
    /\ Verifying(i)
    /\ ~Confirmed(last_commanded_mode) /\ Expired(i) /\ Retries
    /\ verify_cancel' = NoTimer
    /\ verify_retried' = TRUE
    /\ Await(i, "write")
    /\ sent' = last_commanded_mode
    /\ UNCHANGED <<last_commanded_mode, verify_state, window_age, drift,
                   last_automation_enabled, timers, closed, readback>>

RetryDone(i) ==
    /\ Writing(i) /\ jobs[i].kind = "verify"
    /\ window_age' = jobs[i].age
    /\ ScheduleVerify(verify_cancel, InitialDelay)
    /\ Release(i)
    /\ UNCHANGED <<last_commanded_mode, verify_state, verify_retried,
                   drift, last_automation_enabled, closed, readback, sent>>

Settle(i) ==
    /\ Verifying(i)
    /\ \/ Confirmed(last_commanded_mode) /\ verify_state' = "ok"
       \/ /\ ~Confirmed(last_commanded_mode) /\ Expired(i) /\ ~Retries
          /\ verify_state' = IF Drifted(last_commanded_mode) THEN "mismatch"
                             ELSE "unknown"
    /\ verify_cancel' = NoTimer
    /\ Release(i)
    /\ UNCHANGED <<last_commanded_mode, verify_retried, window_age, drift,
                   last_automation_enabled, timers, closed, readback, sent>>

-----------------------------------------------------------------------------
(* The world *)

\* A poll lands, a write is lost or takes, a register drifts, an entity drops out
Readback(p, v) ==
    /\ Yielded
    /\ readback[p] # v
    /\ readback' = [readback EXCEPT ![p] = v]
    /\ UNCHANGED <<jobs, last_commanded_mode, verdict, drift,
                   last_automation_enabled, clock, closed, sent>>

Pass ==
    /\ Yielded
    /\ \A i \in DOMAIN jobs : jobs[i].age < MaxLag
    /\ jobs' = [i \in DOMAIN jobs |-> [jobs[i] EXCEPT !.age = @ + 1]]
    /\ window_age' = IF window_age < Elapsed THEN window_age + 1 ELSE window_age
    /\ timers' = [t \in TimerIds |-> IF timers[t] > 0 THEN timers[t] - 1 ELSE timers[t]]
    /\ UNCHANGED <<last_commanded_mode, verify_state, verify_retried, drift,
                   last_automation_enabled, verify_cancel, closed, readback, sent>>

-----------------------------------------------------------------------------

Init ==
    /\ jobs = <<>>
    /\ last_commanded_mode = NoMode
    /\ verify_state = "none"
    /\ verify_retried = FALSE
    /\ window_age = 0
    /\ consecutive_drift_cycles = 0
    /\ reassert_next = FALSE
    /\ last_automation_enabled = "none"
    /\ timers = [t \in TimerIds |-> Off]
    /\ verify_cancel = NoTimer
    /\ closed = FALSE
    /\ readback \in [Points -> Values \cup {NoRead}]
    /\ sent = NoMode

DispatchStep(i) ==
    \/ NothingToDispatch(i) \/ Command(i) \/ SelfHeal(i) \/ Hold(i) \/ Reconcile(i)
    \/ HoldDone(i) \/ WriteDone(i)

VerifyStep(i) == VerifyPoll(i) \/ VerifyRetry(i) \/ RetryDone(i) \/ Settle(i)

JobStep == \E i \in DOMAIN jobs : DispatchStep(i) \/ VerifyStep(i)

Switch  == {"on", "off"}
Choice == Overrides \cup {NoMode}
Slots   == Modes \cup {NoMode}

Ticks == \E automation \in Switch, override \in Choice, slot \in Slots, lag \in 0..MaxLag :
            Tick(automation, override, slot, lag)

Presses == \E automation \in Switch, override \in Choice, slot \in Slots :
            Press(automation, override, slot)

Next ==
    \/ Ticks
    \/ Presses
    \/ ForceVerify
    \/ \E t \in TimerIds : Fire(t)
    \/ Shutdown
    \/ JobStep
    \/ \E p \in Points, v \in Values \cup {NoRead} : Readback(p, v)
    \/ Pass

Spec == Init /\ [][Next]_vars

(***************************************************************************)
(* Fairness: the event loop runs every ready callback and releases an      *)
(* await (service calls return, failed or not), due timers fire, time      *)
(* passes, and the aligned coordinator tick keeps coming.  The last three   *)
(* are strong: an arriving job interrupts them again and again, but the     *)
(* loop runs its ready handles in turn.                                     *)
(***************************************************************************)
Fairness ==
    /\ WF_vars(JobStep)
    /\ \A t \in TimerIds : SF_vars(Fire(t))
    /\ SF_vars(Pass)
    /\ SF_vars(Ticks)

FairSpec == Spec /\ Fairness

-----------------------------------------------------------------------------
(* Safety *)

WriteInFlight == \E i \in DOMAIN jobs : Writing(i)

\* Whenever no write is in flight, the mode the module believes it commanded is
\* the mode of the last apply_mode: a verify retry queued behind a newer command
\* never re-writes the older mode (what the dispatch lock is for).
Lockstep == ~WriteInFlight => sent = last_commanded_mode

\* A pending verdict is never orphaned: until shutdown a verify timer is armed, a
\* verify job waits for the lock, or a write that will arm one is in flight.
\* Nothing else re-checks "pending", so losing the timer would lose the verdict.
PendingIsWatched ==
    verify_state = "pending" =>
        \/ closed
        \/ Armed # {}
        \/ WriteInFlight
        \/ \E i \in DOMAIN jobs : jobs[i].kind = "verify"

\* The module gives up on a write ("mismatch") only after it re-issued it ...
RetriedBeforeMismatch == verify_state = "mismatch" => verify_retried

\* ... and on judging it ("unknown") only after that too, unless some row reads back as
\* commanded: with every row unreadable the write itself was probably lost.
BlackoutIsRetried ==
    [][verify_state # "unknown" /\ verify_state' = "unknown"
        => verify_retried \/ ~Blackout(last_commanded_mode)]_vars

GivesUpAfterRetry == []RetriedBeforeMismatch /\ BlackoutIsRetried

\* "ok" is only ever reached on positive evidence: every row the commanded mode
\* targets was read and matches at that step - from the verify loop and from the
\* self-heal of a stale mismatch or unknown alike.
OkNeedsEvidence ==
    [][verify_state' = "ok" /\ verify_state # "ok" => Confirmed(last_commanded_mode)]_vars

-----------------------------------------------------------------------------
(* Liveness *)

CommandInFlight == \E i \in DOMAIN jobs : Writing(i) /\ jobs[i].kind # "verify"

\* Once commands stop, the verify loop reaches a verdict: polls, the retry and the
\* second window end, whatever the readback does (shutdown cuts the loop short).
VerifySettles == <>[]~CommandInFlight => <>[](verify_state # "pending" \/ closed)

\* Every dispatch that arrives resolves to m
OnlyTarget(m) ==
    Len(jobs') > Len(jobs) =>
        LET new == jobs'[Len(jobs')] IN new.kind = "verify" \/ new.target = m

\* Once the target, the readback and the automation switch stay put, register
\* writes stop: neither a write that will not take, nor an unreadable entity, nor
\* the drift reconciler keeps re-commanding the inverter for ever.
WritesCease ==
    \A m \in DOMAIN Targets :
        <>[][OnlyTarget(m) /\ UNCHANGED <<readback, last_automation_enabled>>]_vars
            => <>[]~WriteInFlight

\* While the same target keeps being dispatched, a register that reads back wrong
\* cannot go unnoticed for ever under a settled "ok" or "unknown" verdict.
DriftIsRepaired ==
    \A m \in DOMAIN Targets :
        <>[][OnlyTarget(m)]_vars
            => []<>(closed \/ ~(verify_state \in {"ok", "unknown"}
                               /\ Drifted(last_commanded_mode)))

-----------------------------------------------------------------------------
(* Why the safety properties hold: one job at a time is past the lock, and what *)
(* it is writing is what it will commit.                                        *)

LockHeld == \A i \in DOMAIN jobs : i # 1 => jobs[i].at = "queued"

CommitsWhatItSent ==
    \A i \in DOMAIN jobs :
        /\ Writing(i) => sent = IF jobs[i].kind = "verify" THEN last_commanded_mode
                                ELSE jobs[i].target
        /\ Writing(i) /\ jobs[i].kind # "verify" => jobs[i].target \in DOMAIN Targets
        /\ jobs[i].at = "hold" => jobs[i].kind # "verify"

PendingNeedsCommand == verify_state = "pending" => last_commanded_mode # NoMode

DriftBelowThreshold == ~CommandInFlight => consecutive_drift_cycles < DriftCycles

\* The inductive invariant: the parts above with the safety properties.
IInv ==
    /\ TypeOK
    /\ LockHeld
    /\ CommitsWhatItSent
    /\ PendingNeedsCommand
    /\ DriftBelowThreshold
    /\ Lockstep
    /\ PendingIsWatched
    /\ RetriedBeforeMismatch
=============================================================================
