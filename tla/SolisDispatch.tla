----------------------------- MODULE SolisDispatch -----------------------------
(***************************************************************************)
(* The Remote Dispatch driver (outbound/solis_dispatch_driver.py): forced   *)
(* modes are held by the inverter's dispatch block, everything else by the  *)
(* register driver it wraps.  Entering dispatch may discard the mode and    *)
(* target that follow the enable, so a commanded dispatch is written a      *)
(* second time by a one-shot timer that takes no lock.  A failsafe ends a   *)
(* dispatch nobody refreshes.                                               *)
(*                                                                          *)
(* Calls in flight are a queue to the inverter, in the order they were      *)
(* made; a call made over a dead link is swallowed.  The register driver is *)
(* what SolisRc is shown to keep: it drives a mode or stands down.          *)
(***************************************************************************)
EXTENDS Integers, FiniteSets, SequencesExt

CONSTANTS
    Modes,
    Forced,         \* _DISPATCH_MODES
    NoMode,         \* None; as a power target, 0 W
    Failsafe,       \* _FAILSAFE_MINUTES, in coordinator cycles
    LinkFails,      \* whether the link to the inverter may go down
    Restarts        \* whether the process may restart

ASSUME DispatchModesAssumption == Forced \subseteq Modes /\ NoMode \notin Modes
ASSUME DispatchBoundsAssumption ==
    /\ Failsafe \in Nat \ {0}
    /\ LinkFails \in BOOLEAN
    /\ Restarts \in BOOLEAN

VARIABLES
    job,            \* the apply_mode or hold in progress
    held,           \* mode of the last one that finished
    commanded,      \* _commanded, named by the mode it holds
    reconfirm,      \* payload of the armed re-confirm timer, or NoMode
    support,        \* _support, latched once positive
    closed,         \* shutdown() has run
    wire,           \* dispatch calls in flight
    running, target, failsafe,      \* the dispatch block, and its time left
    rc,             \* the mode the RC function drives
    available,      \* the service is registered and the capability is read
    link,           \* calls reach the inverter
    missed,         \* cycles since the control module last called (saturates)
    clean           \* history: held's dispatch was commanded and no call was lost since

driver == <<held, commanded, reconfirm, support, closed>>
block  == <<running, target, failsafe>>
world  == <<available, link>>
vars == <<job, driver, wire, block, rc, world, missed, clean>>

Idle == [kind |-> "idle", mode |-> NoMode, at |-> "done"]

Job == [kind : {"apply", "hold"}, mode : Modes, at : {"stop", "dispatch", "base"}]

Call == [by : {"job", "reconfirm"}, mode : Forced \cup {NoMode}]    \* NoMode: stop

TypeOK ==
    /\ job \in Job \cup {Idle}
    /\ held \in Modes \cup {NoMode}
    /\ commanded \in Forced \cup {NoMode}
    /\ reconfirm \in Forced \cup {NoMode}
    /\ support \in BOOLEAN
    /\ closed \in BOOLEAN
    /\ wire \in Seq(Call) /\ Len(wire) <= 3
    /\ running \in BOOLEAN
    /\ target \in Forced \cup {NoMode}
    /\ failsafe \in 0..Failsafe
    /\ rc \in Forced \cup {NoMode}
    /\ available \in BOOLEAN /\ link \in BOOLEAN
    /\ missed \in 0..Failsafe
    /\ clean \in BOOLEAN

-----------------------------------------------------------------------------
(* The driver *)

Send(by, m) == wire' = Append(wire, [by |-> by, mode |-> m])

\* _supported: a positive answer is latched, a negative one is asked again.
Supported == support \/ available

\* Mutation: STOP is sent but what was commanded is not forgotten.
ReleaseOnly(kind, m) ==
    /\ UNCHANGED <<reconfirm, commanded>>
    /\ IF commanded = NoMode
       THEN UNCHANGED wire /\ job' = [kind |-> kind, mode |-> m, at |-> "base"]
       ELSE Send("job", NoMode) /\ job' = [kind |-> kind, mode |-> m, at |-> "stop"]

\* _release: nothing to stop unless this process commanded it
Release(kind, m) ==
    /\ reconfirm' = NoMode
    /\ commanded' = NoMode
    /\ IF commanded = NoMode
       THEN UNCHANGED wire /\ job' = [kind |-> kind, mode |-> m, at |-> "base"]
       ELSE Send("job", NoMode) /\ job' = [kind |-> kind, mode |-> m, at |-> "stop"]

Dispatch(kind, m) ==
    /\ Send("job", m)
    /\ job' = [kind |-> kind, mode |-> m, at |-> "dispatch"]
    /\ UNCHANGED <<reconfirm, commanded>>

\* capability and control_path ask as well, outside any lock.
Probe ==
    /\ support' = Supported
    /\ UNCHANGED <<job, held, commanded, reconfirm, closed, wire, block, rc, world, missed, clean>>

\* The control module's lock admits one apply_mode or hold at a time.
CallerIdle == job = Idle /\ ~closed

Apply(m) ==
    /\ CallerIdle
    /\ support' = Supported
    /\ IF m \in Forced /\ Supported THEN Dispatch("apply", m) ELSE Release("apply", m)
    /\ clean' = (m \in Forced /\ Supported)
    /\ missed' = 0
    /\ UNCHANGED <<held, closed, block, rc, world>>

\* Mutation: a hold does not re-push the block.
RepushesNever(m) == FALSE

Repushes(m) == m \in Forced /\ Supported

Hold ==
    /\ CallerIdle
    /\ held # NoMode
    /\ support' = (support \/ (held \in Forced /\ available))
    /\ IF Repushes(held) THEN Dispatch("hold", held)
       ELSE /\ job' = [kind |-> "hold", mode |-> held, at |-> "base"]
            /\ UNCHANGED <<wire, reconfirm, commanded>>
    /\ missed' = 0
    /\ UNCHANGED <<held, closed, block, rc, world, clean>>

Returned(at) == job.at = at /\ \A i \in DOMAIN wire : wire[i].by # "job"

\* Mutation: no second write.
ReconfirmsNever == reconfirm

\* _schedule_reconfirm replaces the pending one; only a forced write arms it
Reconfirms == IF job.kind = "apply" THEN job.mode ELSE reconfirm

DispatchReturns ==
    /\ Returned("dispatch")
    /\ reconfirm' = Reconfirms
    /\ commanded' = job.mode
    /\ job' = [job EXCEPT !.at = "base"]
    /\ UNCHANGED <<held, support, closed, wire, block, rc, world, missed, clean>>

StopReturns ==
    /\ Returned("stop")
    /\ job' = [job EXCEPT !.at = "base"]
    /\ UNCHANGED <<driver, wire, block, rc, world, missed, clean>>

\* The wrapped driver gets the mode's spec without its RC leg under dispatch.
StandsDown == commanded # NoMode \/ job.mode \notin Forced

\* A hold of a passive mode writes nothing.
RcAfter ==
    IF ~link \/ (job.kind = "hold" /\ job.mode \notin Forced) THEN rc
    ELSE IF StandsDown THEN NoMode ELSE job.mode

BaseReturns ==
    /\ job.at = "base"
    /\ rc' = RcAfter
    /\ clean' = (clean /\ link)
    /\ held' = job.mode
    /\ job' = Idle
    /\ UNCHANGED <<commanded, reconfirm, support, closed, wire, block, world, missed>>

\* _on_reconfirm: a timer callback outside every lock
Reconfirm ==
    /\ reconfirm # NoMode
    /\ reconfirm' = NoMode
    /\ IF commanded # NoMode THEN Send("reconfirm", reconfirm) ELSE UNCHANGED wire
    /\ UNCHANGED <<job, held, commanded, support, closed, block, rc, world, missed, clean>>

Shutdown ==
    /\ ~closed
    /\ closed' = TRUE
    /\ reconfirm' = NoMode
    /\ UNCHANGED <<job, held, commanded, support, wire, block, rc, world, missed, clean>>

-----------------------------------------------------------------------------
(* The inverter and the world *)

\* Entering dispatch may discard the target; a running block always takes it.
Lands ==
    LET m == Head(wire).mode IN
    /\ wire # <<>>
    /\ wire' = Tail(wire)
    /\ clean' = (clean /\ link)
    /\ IF ~link THEN UNCHANGED block
       ELSE /\ running' = (m # NoMode)
            /\ target' \in IF running THEN {m} ELSE {m, NoMode}
            /\ failsafe' = IF m = NoMode THEN 0 ELSE Failsafe
    /\ UNCHANGED <<job, driver, rc, world, missed>>

\* Mutation: the failsafe runs on below zero.
CountdownUnchecked(n) == n - 1

Countdown(n) == IF n > 0 THEN n - 1 ELSE n

\* The heartbeat of a mode held by the RC function re-arms it; one nobody keeps
\* alive, or cannot, lapses within a cycle.
RcKept ==
    IF held \in Forced /\ commanded = NoMode /\ ~closed
    THEN IF link THEN {held} ELSE {rc, NoMode}
    ELSE {NoMode}

\* A coordinator cycle goes by: much longer than a call or a re-confirm takes.
Pass ==
    /\ job = Idle /\ wire = <<>> /\ reconfirm = NoMode
    /\ failsafe' = Countdown(failsafe)
    /\ running' = (running /\ failsafe' > 0)
    /\ target' = IF running' THEN target ELSE NoMode
    /\ clean' = (clean /\ running')
    /\ rc' \in RcKept
    /\ missed' = IF missed < Failsafe THEN missed + 1 ELSE missed
    /\ UNCHANGED <<job, driver, wire, world>>

AvailabilityChange ==
    /\ available' = ~available
    /\ UNCHANGED <<job, driver, wire, block, rc, link, missed, clean>>

LinkChange ==
    /\ LinkFails
    /\ link' = ~link
    /\ UNCHANGED <<job, driver, wire, block, rc, available, missed, clean>>

\* Home Assistant restarts; the inverter goes on with what it was told.
Restart ==
    /\ Restarts
    /\ job' = Idle
    /\ held' = NoMode /\ commanded' = NoMode /\ reconfirm' = NoMode
    /\ support' = FALSE /\ closed' = FALSE /\ available' = FALSE
    /\ wire' = <<>>
    /\ clean' = FALSE
    /\ missed' = 0
    /\ UNCHANGED <<block, rc, link>>

-----------------------------------------------------------------------------

Init ==
    /\ job = Idle
    /\ held = NoMode /\ commanded = NoMode /\ reconfirm = NoMode
    /\ support = FALSE /\ closed = FALSE /\ available \in BOOLEAN
    /\ wire = <<>>
    /\ running = FALSE /\ target = NoMode /\ failsafe = 0
    /\ rc = NoMode
    /\ link = TRUE /\ missed = 0 /\ clean = FALSE

JobStep == DispatchReturns \/ StopReturns \/ BaseReturns

Next ==
    \/ \E m \in Modes : Apply(m)
    \/ Hold
    \/ JobStep
    \/ Probe
    \/ Reconfirm
    \/ Shutdown
    \/ Lands
    \/ Pass
    \/ AvailabilityChange \/ LinkChange \/ Restart

Spec == Init /\ [][Next]_vars

\* Calls return, the timer fires, cycles come and each of them holds the mode.
Fairness == WF_vars(JobStep) /\ WF_vars(Lands) /\ WF_vars(Reconfirm)
            /\ SF_vars(Pass) /\ SF_vars(Hold)

FairSpec == Spec /\ Fairness

-----------------------------------------------------------------------------
(* Properties *)

Quiet == job = Idle /\ wire = <<>> /\ reconfirm = NoMode

Dispatching == running /\ target # NoMode

\* However a forced command, the re-confirm of an earlier one and holds
\* interleave, once everything has returned without a lost call the block runs
\* at the commanded target and the RC function is stood down.
ReconfirmRepairs ==
    Quiet /\ ~closed /\ clean => running /\ target = held /\ commanded = held /\ rc = NoMode

\* Whatever was lost before, a forced mode that stays held over a working link
\* ends up running at its target: the next hold repairs it, as long as holds come
\* before the failsafe.
ForcedTakes ==
    \A m \in Forced :
        <>[](held = m /\ link /\ support /\ ~closed /\ job.kind # "apply"
               /\ missed < Failsafe)
            => <>[](running /\ target = m)

\* The driver implements the abstract promise: a re-confirm or a hold in flight
\* never brings back a forced mode that was stood down.
Promise == INSTANCE ForcedHold WITH
    applying <- IF job.kind = "apply" THEN job.mode ELSE NoMode,
    driving <- Dispatching \/ rc # NoMode

KeepsPromise == Promise!Spec

\* _without_rc: "Two mechanisms must never drive power at once."
OneMechanism == Quiet => ~(Dispatching /\ rc # NoMode)

\* Every variable keeps its type, and what was lost or is in flight is repaired by what is
\* armed (_schedule_reconfirm, hold).
RepairsArmed == TypeOK /\ ReconfirmRepairs

-----------------------------------------------------------------------------
(* Why RepairsArmed holds: its inductive invariant                          *)

Waiting == job.at \in {"stop", "dispatch"}

JobOnWire == \E i \in DOMAIN wire : wire[i].by = "job"

Armed == IF reconfirm = NoMode THEN 0 ELSE 1

\* The job's one call is the one it waits for; a re-confirm's call is a dispatch.
CallsAreTheirs ==
    \A i \in DOMAIN wire :
        IF wire[i].by = "job"
        THEN /\ Waiting /\ wire[i].mode = (IF job.at = "stop" THEN NoMode ELSE job.mode)
             /\ \A j \in DOMAIN wire : wire[j].by = "job" => i = j
        ELSE wire[i].mode \in Forced

\* At most one re-confirm follows the job's call, and at most two are about.
FewReconfirms ==
    /\ Len(wire) + Armed <= IF JobOnWire THEN 3 ELSE IF Waiting THEN 1 ELSE 2
    /\ \A i \in DOMAIN wire : wire[i].by = "job" => Len(wire) - i + Armed <= 1

JobFits ==
    /\ job.at = "stop" => job.kind = "apply" /\ held \in Forced /\ commanded = NoMode
    /\ job.at = "dispatch" => job.mode \in Forced
    /\ job.kind = "hold" => job.mode = held

\* What is commanded is held, or about to be.
CommandedIsHeld ==
    commanded # NoMode =>
        IF job.kind = "apply" /\ job.at = "base" THEN job.mode \in Forced ELSE held \in Forced

\* What was stopped does not come back: no re-confirm is armed, and one in flight
\* goes before the STOP.
StoppedStays ==
    commanded = NoMode =>
        /\ reconfirm = NoMode
        /\ \A i \in DOMAIN wire : wire[i].by = "reconfirm" =>
                job.at = "stop" /\ \E j \in DOMAIN wire : i < j /\ wire[j].by = "job"

Wanted == IF job.kind = "apply" THEN job.mode ELSE held

\* The last write there will be, armed, in flight or landed, is of the mode wanted.
LastWriteIs(m) ==
    /\ reconfirm # NoMode => reconfirm = m
    /\ reconfirm = NoMode /\ wire # <<>> => wire[Len(wire)].mode = m
    /\ reconfirm = NoMode /\ wire = <<>> => target = m

\* While no call was lost the block runs from the first write on, and ends up at
\* the mode wanted.
CleanRepairs ==
    clean /\ ~closed =>
        /\ support /\ Wanted \in Forced /\ job.at # "stop"
        /\ running \/ (job.kind = "apply" /\ job.at = "dispatch" /\ JobOnWire)
        /\ (job.kind = "apply" /\ job.at = "dispatch") \/ (commanded = Wanted /\ LastWriteIs(Wanted))
        /\ job.kind = "apply" \/ rc = NoMode

IInv ==
    /\ TypeOK
    /\ CallsAreTheirs /\ FewReconfirms /\ JobFits
    /\ CommandedIsHeld /\ StoppedStays /\ CleanRepairs

================================================================================
