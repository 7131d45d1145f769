-------------------------- MODULE ControlModuleProofs --------------------------
(***************************************************************************)
(* What the control module keeps for every set of modes and control points, *)
(* every timing and every number of concurrent jobs.                        *)
(***************************************************************************)
EXTENDS ControlModule, CommonLemmas

-----------------------------------------------------------------------------
(* Operations on the lock queue *)

\* What a job is that has just asked for the lock.
LEMMA EnqueueEffect ==
    ASSUME TypeOK, NEW kind \in {"tick", "press", "verify"},
           NEW target \in Modes \cup {NoMode}, NEW age \in 0..MaxLag,
           Enqueue(kind, target, age)
    PROVE  /\ jobs' \in Seq(Job)
           /\ Len(jobs') = Len(jobs) + 1
           /\ \A i \in 1..Len(jobs) : jobs'[i] = jobs[i]
           /\ jobs'[Len(jobs) + 1].kind = kind
           /\ jobs'[Len(jobs) + 1].at \in {"entry", "queued"}
           /\ Len(jobs) # 0 => jobs'[Len(jobs) + 1].at = "queued"
PROOF
<1> DEFINE new == [kind |-> kind, at |-> IF jobs = <<>> THEN "entry" ELSE "queued",
                   target |-> target, age |-> age]
<1>1. new \in Job
  BY DEF Job
<1>2. jobs \in Seq(Job) /\ jobs' = Append(jobs, new)
  BY DEF TypeOK, Enqueue
<1>3. jobs' \in Seq(Job) /\ Len(jobs') = Len(jobs) + 1
      /\ \A i \in 1..Len(jobs) : jobs'[i] = jobs[i]
  BY <1>1, <1>2
<1>4. jobs'[Len(jobs) + 1] = new
  BY <1>1, <1>2
<1>5. Len(jobs) # 0 => new.at = "queued"
  BY <1>2
<1> QED
  BY <1>3, <1>4, <1>5

\* The holder releases the lock: nobody is past it any more.
LEMMA ReleaseEffect ==
    ASSUME TypeOK, LockHeld, jobs # <<>>, Release(1)
    PROVE  /\ jobs' \in Seq(Job)
           /\ Len(jobs') = Len(jobs) - 1
           /\ \A i \in 1..(Len(jobs) - 1) : jobs'[i] = jobs[i + 1]
           /\ \A i \in DOMAIN jobs' : jobs'[i].at = "queued"
PROOF
<1>1. jobs \in Seq(Job) /\ jobs' = RemoveAt(jobs, 1)
  BY DEF TypeOK, Release
<1>2. /\ jobs' \in Seq(Job)
      /\ Len(jobs') = Len(jobs) - 1
      /\ \A i \in 1..(Len(jobs) - 1) : jobs'[i] = jobs[i + 1]
  BY <1>1, RemoveHead
<1>3. \A i \in 1..(Len(jobs) - 1) : i + 1 \in DOMAIN jobs /\ i + 1 # 1
  BY <1>1
<1>4. \A i \in DOMAIN jobs' : i \in 1..(Len(jobs) - 1)
  BY <1>2
<1> QED
  BY <1>2, <1>3, <1>4 DEF LockHeld

\* The holder starts to write or to hold.
LEMMA AwaitEffect ==
    ASSUME TypeOK, jobs # <<>>, NEW at \in {"write", "hold"}, Await(1, at)
    PROVE  /\ jobs' \in Seq(Job)
           /\ DOMAIN jobs' = DOMAIN jobs
           /\ 1 \in DOMAIN jobs
           /\ jobs'[1] = [jobs[1] EXCEPT !.at = at]
           /\ jobs'[1].at = at /\ jobs'[1].kind = jobs[1].kind
           /\ jobs'[1].target = jobs[1].target
           /\ \A i \in DOMAIN jobs : i # 1 => jobs'[i] = jobs[i]
PROOF
<1>1. jobs \in Seq(Job) /\ jobs' = [jobs EXCEPT ![1].at = at] /\ 1 \in DOMAIN jobs
  BY DEF TypeOK, Await
<1>2. jobs[1] \in Job
  BY <1>1
<1>3. [jobs[1] EXCEPT !.at = at] \in Job
  BY <1>2 DEF Job
<1>4. jobs' = [jobs EXCEPT ![1] = [jobs[1] EXCEPT !.at = at]]
  BY <1>1
<1>5. jobs' \in Seq(Job)
  BY <1>1, <1>3, <1>4
<1> QED
  BY <1>1, <1>2, <1>3, <1>4, <1>5 DEF Job

\* A job past the lock is its holder, so it stands at the head of the queue.
LEMMA PastTheLock ==
    ASSUME TypeOK, LockHeld, NEW i \in DOMAIN jobs, jobs[i].at # "queued"
    PROVE  i = 1 /\ jobs # <<>>
PROOF
  BY DEF TypeOK, LockHeld

-----------------------------------------------------------------------------
(* The verify timer *)

\* _schedule_verify leaves a timer armed, and the handle names it.
LEMMA ScheduleEffect ==
    ASSUME TypeOK, NEW handle \in TimerIds \cup {NoTimer}, NEW delay \in 1..MaxDelay,
           ScheduleVerify(handle, delay)
    PROVE  /\ timers' \in [TimerIds -> {Off} \cup 0..MaxDelay]
           /\ verify_cancel' \in TimerIds
           /\ \E t \in TimerIds : timers'[t] # Off
PROOF
<1>1. Cancelled(handle) \in [TimerIds -> {Off} \cup 0..MaxDelay]
  BY DEF TypeOK, Cancelled
<1>2. PICK t \in TimerIds : /\ timers' = [Cancelled(handle) EXCEPT ![t] = delay]
                            /\ verify_cancel' = t
  BY DEF ScheduleVerify
<1>3. delay # Off /\ delay \in 0..MaxDelay
  BY DEF Off
<1> QED
  BY <1>1, <1>2, <1>3

LEMMA Delays ==
    InitialDelay \in 1..MaxDelay /\ PollInterval \in 1..MaxDelay /\ MaxDelay \in Nat
PROOF
  BY TimingAssumption DEF MaxDelay

-----------------------------------------------------------------------------
(* Arrivals: the queue grows by a job that is not past the lock *)

\* An arriving job disturbs nothing that the invariant says of the jobs before it.
LEMMA ArrivalKeepsQueue ==
    ASSUME IInv, NEW kind \in {"tick", "press", "verify"},
           NEW target \in Modes \cup {NoMode}, NEW age \in 0..MaxLag,
           Enqueue(kind, target, age), UNCHANGED <<last_commanded_mode, sent>>
    PROVE  /\ jobs' \in Seq(Job)
           /\ LockHeld'
           /\ CommitsWhatItSent'
           /\ WriteInFlight' <=> WriteInFlight
           /\ CommandInFlight' <=> CommandInFlight
           /\ (\E i \in DOMAIN jobs : jobs[i].kind = "verify")
                => \E i \in DOMAIN jobs' : jobs'[i].kind = "verify"
           /\ kind = "verify" => \E i \in DOMAIN jobs' : jobs'[i].kind = "verify"
PROOF
<1> DEFINE n == Len(jobs)
<1>0. TypeOK /\ jobs \in Seq(Job) /\ n \in Nat
  BY DEF IInv, TypeOK
<1>1. /\ jobs' \in Seq(Job) /\ Len(jobs') = n + 1
      /\ \A i \in 1..n : jobs'[i] = jobs[i]
      /\ jobs'[n + 1].kind = kind
      /\ jobs'[n + 1].at \in {"entry", "queued"}
      /\ n # 0 => jobs'[n + 1].at = "queued"
  BY <1>0, EnqueueEffect
<1>2. DOMAIN jobs' = DOMAIN jobs \cup {n + 1} /\ DOMAIN jobs = 1..n
  BY <1>0, <1>1
<1>3. LockHeld'
  BY <1>1, <1>2 DEF IInv, LockHeld
<1>4. CommitsWhatItSent'
  BY <1>1, <1>2 DEF IInv, CommitsWhatItSent, Writing
<1>5. (WriteInFlight' <=> WriteInFlight) /\ (CommandInFlight' <=> CommandInFlight)
  BY <1>1, <1>2 DEF WriteInFlight, CommandInFlight, Writing
<1>6. /\ (\E i \in DOMAIN jobs : jobs[i].kind = "verify")
             => \E i \in DOMAIN jobs' : jobs'[i].kind = "verify"
      /\ kind = "verify" => \E i \in DOMAIN jobs' : jobs'[i].kind = "verify"
  BY <1>1, <1>2
<1> QED
  BY <1>1, <1>3, <1>4, <1>5, <1>6

LEMMA ResolveType ==
    ASSUME NEW automation, NEW override \in Choice, NEW slot \in Slots
    PROVE  Resolve(automation, override, slot) \in Modes \cup {NoMode}
PROOF
  BY ModesAssumption DEF Resolve, Choice, Slots

LEMMA TickKeepsIInv ==
    ASSUME IInv, NEW automation \in Switch, NEW override \in Choice, NEW slot \in Slots,
           NEW lag \in 0..MaxLag, Tick(automation, override, slot, lag)
    PROVE  IInv'
PROOF
<1>1. /\ Enqueue("tick", Resolve(automation, override, slot), lag)
      /\ UNCHANGED <<last_commanded_mode, verdict, consecutive_drift_cycles, clock,
                     closed, readback, sent>>
      /\ reassert_next' \in BOOLEAN /\ last_automation_enabled' \in {"on", "off"}
  BY DEF Tick, Switch, IInv, TypeOK
<1>2. /\ jobs' \in Seq(Job) /\ LockHeld' /\ CommitsWhatItSent'
      /\ WriteInFlight' <=> WriteInFlight
      /\ CommandInFlight' <=> CommandInFlight
      /\ (\E i \in DOMAIN jobs : jobs[i].kind = "verify")
           => \E i \in DOMAIN jobs' : jobs'[i].kind = "verify"
  BY <1>1, ResolveType, ArrivalKeepsQueue
<1>3. TypeOK'
  BY <1>1, <1>2 DEF IInv, TypeOK, verdict, clock
<1>4. PendingNeedsCommand' /\ DriftBelowThreshold' /\ Lockstep' /\ RetriedBeforeMismatch'
  BY <1>1, <1>2 DEF IInv, PendingNeedsCommand, DriftBelowThreshold, Lockstep,
                    RetriedBeforeMismatch, verdict
<1>5. PendingIsWatched'
  BY <1>1, <1>2 DEF IInv, PendingIsWatched, Armed, verdict, clock
<1> QED
  BY <1>2, <1>3, <1>4, <1>5 DEF IInv

LEMMA PressKeepsIInv ==
    ASSUME IInv, NEW automation \in Switch, NEW override \in Choice, NEW slot \in Slots,
           Press(automation, override, slot)
    PROVE  IInv'
PROOF
<1>1. /\ Enqueue("press", Resolve(automation, override, slot), 0)
      /\ UNCHANGED <<last_commanded_mode, verdict, drift, last_automation_enabled, clock,
                     closed, readback, sent>>
  BY DEF Press
<1>2. /\ jobs' \in Seq(Job) /\ LockHeld' /\ CommitsWhatItSent'
      /\ WriteInFlight' <=> WriteInFlight
      /\ CommandInFlight' <=> CommandInFlight
      /\ (\E i \in DOMAIN jobs : jobs[i].kind = "verify")
           => \E i \in DOMAIN jobs' : jobs'[i].kind = "verify"
  <2>1. 0 \in 0..MaxLag
    BY TimingAssumption
  <2> QED
    BY <1>1, <2>1, ResolveType, ArrivalKeepsQueue
<1>3. TypeOK'
  BY <1>1, <1>2 DEF IInv, TypeOK, verdict, clock, drift
<1>4. PendingNeedsCommand' /\ DriftBelowThreshold' /\ Lockstep' /\ RetriedBeforeMismatch'
  BY <1>1, <1>2 DEF IInv, PendingNeedsCommand, DriftBelowThreshold, Lockstep,
                    RetriedBeforeMismatch, verdict, drift
<1>5. PendingIsWatched'
  BY <1>1, <1>2 DEF IInv, PendingIsWatched, Armed, verdict, clock
<1> QED
  BY <1>2, <1>3, <1>4, <1>5 DEF IInv

\* Cancelling a handle leaves every timer a timer.
LEMMA CancelledType ==
    ASSUME TypeOK
    PROVE  Cancelled(verify_cancel) \in [TimerIds -> {Off} \cup 0..MaxDelay]
PROOF
  BY DEF TypeOK, Cancelled

LEMMA ForceVerifyKeepsIInv ==
    ASSUME IInv, ForceVerify
    PROVE  IInv'
PROOF
<1>0. TypeOK
  BY DEF IInv
<1>1. /\ timers' = Cancelled(verify_cancel) /\ verify_cancel' = NoTimer
      /\ UNCHANGED <<last_commanded_mode, verdict, drift, last_automation_enabled,
                     closed, readback, sent>>
  BY DEF ForceVerify
<1>2. /\ jobs' \in Seq(Job) /\ LockHeld' /\ CommitsWhatItSent'
      /\ WriteInFlight' <=> WriteInFlight
      /\ CommandInFlight' <=> CommandInFlight
  <2>1. CASE last_commanded_mode = NoMode
    <3>1. UNCHANGED jobs
      BY <2>1 DEF ForceVerify
    <3> QED
      BY <1>1, <3>1 DEF IInv, TypeOK, LockHeld, CommitsWhatItSent, WriteInFlight,
            CommandInFlight, Writing
  <2>2. CASE last_commanded_mode # NoMode
    <3>1. Enqueue("verify", NoMode, 0) /\ 0 \in 0..MaxLag
      BY <2>2, TimingAssumption DEF ForceVerify
    <3> QED
      BY <1>1, <3>1, ArrivalKeepsQueue
  <2> QED
    BY <2>1, <2>2
<1>3. TypeOK'
  BY <1>0, <1>1, <1>2, CancelledType DEF TypeOK, verdict, drift
<1>4. PendingNeedsCommand' /\ DriftBelowThreshold' /\ Lockstep' /\ RetriedBeforeMismatch'
  BY <1>1, <1>2 DEF IInv, PendingNeedsCommand, DriftBelowThreshold, Lockstep,
                    RetriedBeforeMismatch, verdict, drift
<1>5. PendingIsWatched'
  <2>1. SUFFICES ASSUME verify_state = "pending"
                 PROVE  \E i \in DOMAIN jobs' : jobs'[i].kind = "verify"
    BY <1>1 DEF PendingIsWatched, verdict
  <2>2. Enqueue("verify", NoMode, 0) /\ 0 \in 0..MaxLag
    BY <2>1, TimingAssumption DEF ForceVerify, IInv, PendingNeedsCommand
  <2> QED
    BY <1>1, <2>2, ArrivalKeepsQueue
<1> QED
  BY <1>2, <1>3, <1>4, <1>5 DEF IInv

LEMMA FireKeepsIInv ==
    ASSUME IInv, NEW t \in TimerIds, Fire(t)
    PROVE  IInv'
PROOF
<1>1. /\ timers' = [timers EXCEPT ![t] = Off]
      /\ Enqueue("verify", NoMode, 0) /\ 0 \in 0..MaxLag
      /\ UNCHANGED <<last_commanded_mode, verdict, drift, last_automation_enabled,
                     verify_cancel, closed, readback, sent>>
  BY TimingAssumption DEF Fire
<1>2. /\ jobs' \in Seq(Job) /\ LockHeld' /\ CommitsWhatItSent'
      /\ WriteInFlight' <=> WriteInFlight
      /\ CommandInFlight' <=> CommandInFlight
      /\ \E i \in DOMAIN jobs' : jobs'[i].kind = "verify"
  BY <1>1, ArrivalKeepsQueue
<1>3. TypeOK'
  BY <1>1, <1>2 DEF IInv, TypeOK, verdict, drift
<1>4. PendingNeedsCommand' /\ DriftBelowThreshold' /\ Lockstep' /\ RetriedBeforeMismatch'
  BY <1>1, <1>2 DEF IInv, PendingNeedsCommand, DriftBelowThreshold, Lockstep,
                    RetriedBeforeMismatch, verdict, drift
<1> QED
  BY <1>2, <1>3, <1>4 DEF IInv, PendingIsWatched

LEMMA ShutdownKeepsIInv ==
    ASSUME IInv, Shutdown
    PROVE  IInv'
PROOF
<1>0. TypeOK
  BY DEF IInv
<1>1. /\ timers' = Cancelled(verify_cancel) /\ verify_cancel' = NoTimer /\ closed' = TRUE
      /\ UNCHANGED <<jobs, last_commanded_mode, verdict, drift, last_automation_enabled,
                     readback, sent>>
  BY DEF Shutdown
<1>2. TypeOK'
  BY <1>0, <1>1, CancelledType DEF TypeOK, verdict, drift
<1> QED
  BY <1>1, <1>2 DEF IInv, LockHeld, CommitsWhatItSent, PendingNeedsCommand, WriteInFlight,
        CommandInFlight, Writing, DriftBelowThreshold, Lockstep, PendingIsWatched, RetriedBeforeMismatch,
        verdict, drift

-----------------------------------------------------------------------------
(* Steps of the job that holds the lock *)

\* What the invariant says of a holder that is about to run.
LEMMA StartsFact ==
    ASSUME IInv, NEW i \in DOMAIN jobs, Starts(i)
    PROVE  /\ i = 1 /\ jobs # <<>> /\ TypeOK /\ LockHeld
           /\ ~WriteInFlight /\ sent = last_commanded_mode
           /\ consecutive_drift_cycles \in 0..(DriftCycles - 1)
           /\ jobs[1] \in Job
PROOF
<1>1. i = 1 /\ TypeOK /\ LockHeld /\ jobs[1].at \in {"entry", "queued"}
  BY DEF Starts, Holder, IInv
<1>2. jobs # <<>> /\ jobs[1] \in Job
  BY <1>1 DEF TypeOK
<1>3. ~WriteInFlight
  BY <1>1 DEF LockHeld, WriteInFlight, Writing
<1>4. sent = last_commanded_mode /\ consecutive_drift_cycles < DriftCycles
  BY <1>3 DEF IInv, Lockstep, DriftBelowThreshold, WriteInFlight, CommandInFlight
<1>5. consecutive_drift_cycles \in 0..(DriftCycles - 1)
  BY <1>1, <1>4, TimingAssumption DEF TypeOK
<1> QED
  BY <1>1, <1>2, <1>3, <1>4, <1>5

\* Once the holder has released the lock nobody writes, whatever else changed.
LEMMA ReleaseKeepsQueue ==
    ASSUME IInv, 1 \in DOMAIN jobs, Release(1)
    PROVE  /\ jobs' \in Seq(Job) /\ LockHeld' /\ CommitsWhatItSent' /\ ~WriteInFlight'
           /\ jobs[1].kind # "verify" =>
                ((\E i \in DOMAIN jobs : jobs[i].kind = "verify")
                    => \E i \in DOMAIN jobs' : jobs'[i].kind = "verify")
PROOF
<1>1. TypeOK /\ LockHeld /\ jobs # <<>> /\ jobs \in Seq(Job)
  BY DEF IInv, TypeOK
<1>2. /\ jobs' \in Seq(Job)
      /\ Len(jobs') = Len(jobs) - 1
      /\ \A k \in 1..(Len(jobs) - 1) : jobs'[k] = jobs[k + 1]
      /\ \A k \in DOMAIN jobs' : jobs'[k].at = "queued"
  BY <1>1, ReleaseEffect
<1>3. LockHeld' /\ CommitsWhatItSent' /\ ~WriteInFlight'
  BY <1>2 DEF LockHeld, CommitsWhatItSent, Writing, WriteInFlight
<1>4. ASSUME jobs[1].kind # "verify", NEW k \in DOMAIN jobs, jobs[k].kind = "verify"
      PROVE  \E j \in DOMAIN jobs' : jobs'[j].kind = "verify"
  <2>1. k # 1
    BY <1>4
  <2>2. k - 1 \in DOMAIN jobs' /\ jobs'[k - 1] = jobs[k]
    BY <1>1, <1>2, <2>1
  <2> QED
    BY <1>4, <2>2
<1> QED
  BY <1>2, <1>3, <1>4

\* The holder begins a write of the mode it will commit.
LEMMA WriteKeepsQueue ==
    ASSUME IInv, Starts(1), 1 \in DOMAIN jobs, Await(1, "write"),
           UNCHANGED last_commanded_mode,
           sent' = IF jobs[1].kind = "verify" THEN last_commanded_mode ELSE jobs[1].target,
           jobs[1].kind # "verify" => jobs[1].target \in DOMAIN Targets
    PROVE  /\ jobs' \in Seq(Job) /\ LockHeld' /\ CommitsWhatItSent' /\ WriteInFlight'
           /\ jobs[1].kind # "verify" => CommandInFlight'
PROOF
<1>1. TypeOK /\ LockHeld /\ jobs # <<>>
  BY DEF IInv, TypeOK
<1>2. /\ jobs' \in Seq(Job) /\ DOMAIN jobs' = DOMAIN jobs /\ 1 \in DOMAIN jobs
      /\ jobs'[1].at = "write" /\ jobs'[1].kind = jobs[1].kind
      /\ jobs'[1].target = jobs[1].target
      /\ \A i \in DOMAIN jobs : i # 1 => jobs'[i] = jobs[i]
  BY <1>1, AwaitEffect
<1>3. LockHeld' /\ WriteInFlight' /\ (jobs[1].kind # "verify" => CommandInFlight')
  BY <1>1, <1>2 DEF LockHeld, WriteInFlight, CommandInFlight, Writing
<1>4. CommitsWhatItSent'
  BY <1>1, <1>2 DEF LockHeld, CommitsWhatItSent, Writing
<1> QED
  BY <1>2, <1>3, <1>4

\* The holder, a dispatch, begins to hold.
LEMMA HoldKeepsQueue ==
    ASSUME IInv, Starts(1), 1 \in DOMAIN jobs, Await(1, "hold"), jobs[1].kind # "verify"
    PROVE  /\ jobs' \in Seq(Job) /\ LockHeld' /\ CommitsWhatItSent' /\ ~WriteInFlight'
           /\ (\E i \in DOMAIN jobs : jobs[i].kind = "verify")
                => \E i \in DOMAIN jobs' : jobs'[i].kind = "verify"
PROOF
<1>1. TypeOK /\ LockHeld /\ jobs # <<>>
  BY DEF IInv, TypeOK
<1>2. /\ jobs' \in Seq(Job) /\ DOMAIN jobs' = DOMAIN jobs /\ 1 \in DOMAIN jobs
      /\ jobs'[1].at = "hold" /\ jobs'[1].kind = jobs[1].kind
      /\ \A i \in DOMAIN jobs : i # 1 => jobs'[i] = jobs[i]
  BY <1>1, AwaitEffect
<1>3. LockHeld' /\ CommitsWhatItSent' /\ ~WriteInFlight'
  BY <1>1, <1>2 DEF LockHeld, CommitsWhatItSent, Writing, WriteInFlight
<1> QED
  BY <1>2, <1>3

LEMMA NothingKeepsIInv ==
    ASSUME IInv, NEW i \in DOMAIN jobs, NothingToDispatch(i)
    PROVE  IInv'
PROOF
<1>1. /\ i = 1 /\ Release(1) /\ jobs[1].kind # "verify"
      /\ TypeOK /\ ~WriteInFlight /\ sent = last_commanded_mode
      /\ consecutive_drift_cycles \in 0..(DriftCycles - 1)
      /\ UNCHANGED <<last_commanded_mode, verdict, drift, last_automation_enabled, clock,
                     closed, readback, sent>>
  BY StartsFact DEF NothingToDispatch, Dispatching
<1>2. /\ jobs' \in Seq(Job) /\ LockHeld' /\ CommitsWhatItSent' /\ ~WriteInFlight'
      /\ (\E k \in DOMAIN jobs : jobs[k].kind = "verify")
            => \E k \in DOMAIN jobs' : jobs'[k].kind = "verify"
  BY <1>1, ReleaseKeepsQueue
<1>3. TypeOK'
  BY <1>1, <1>2 DEF TypeOK, verdict, drift, clock
<1>4. Lockstep' /\ DriftBelowThreshold' /\ PendingNeedsCommand' /\ RetriedBeforeMismatch'
  BY <1>1, TimingAssumption DEF IInv, Lockstep, DriftBelowThreshold, PendingNeedsCommand,
                                RetriedBeforeMismatch, verdict, drift
<1>5. PendingIsWatched'
  BY <1>1, <1>2 DEF IInv, PendingIsWatched, Armed, verdict, clock
<1> QED
  BY <1>2, <1>3, <1>4, <1>5 DEF IInv

LEMMA CommandKeepsIInv ==
    ASSUME IInv, NEW i \in DOMAIN jobs, Command(i)
    PROVE  IInv'
PROOF
<1>1. /\ i = 1 /\ Starts(1) /\ Await(1, "write") /\ jobs[1].kind # "verify" /\ TypeOK
      /\ jobs[1].target \in DOMAIN Targets /\ sent' = jobs[1].target
      /\ UNCHANGED <<last_commanded_mode, verdict, drift, last_automation_enabled, clock,
                     closed, readback>>
  BY StartsFact DEF Command, Resolved, Dispatching, Target
<1>2. /\ jobs' \in Seq(Job) /\ LockHeld' /\ CommitsWhatItSent'
      /\ WriteInFlight' /\ CommandInFlight'
  BY <1>1, WriteKeepsQueue
<1>3. TypeOK'
  BY <1>1, <1>2 DEF TypeOK, verdict, drift, clock
<1>4. PendingNeedsCommand' /\ RetriedBeforeMismatch'
  BY <1>1 DEF IInv, PendingNeedsCommand, RetriedBeforeMismatch, verdict
<1> QED
  BY <1>2, <1>3, <1>4 DEF IInv, Lockstep, DriftBelowThreshold, PendingIsWatched

LEMMA SelfHealKeepsIInv ==
    ASSUME IInv, NEW i \in DOMAIN jobs, SelfHeal(i)
    PROVE  IInv'
PROOF
<1>1. /\ i = 1 /\ Starts(1) /\ Await(1, "hold") /\ jobs[1].kind # "verify" /\ TypeOK
      /\ sent = last_commanded_mode /\ jobs[1].target \in DOMAIN Targets
      /\ jobs[1].target = last_commanded_mode
      /\ verify_state' = "ok" /\ consecutive_drift_cycles' = 0
      /\ UNCHANGED <<last_commanded_mode, verify_retried, window_age, reassert_next,
                     last_automation_enabled, clock, closed, readback, sent>>
  BY StartsFact DEF SelfHeal, Holding, Resolved, Dispatching, Target
<1>2. jobs' \in Seq(Job) /\ LockHeld' /\ CommitsWhatItSent' /\ ~WriteInFlight'
  BY <1>1, HoldKeepsQueue
<1>3. TypeOK'
  BY <1>1, <1>2, TimingAssumption DEF TypeOK, clock
<1>4. Lockstep' /\ DriftBelowThreshold' /\ PendingIsWatched' /\ RetriedBeforeMismatch'
  BY <1>1, TimingAssumption DEF Lockstep, DriftBelowThreshold, PendingIsWatched,
                                RetriedBeforeMismatch
<1>5. PendingNeedsCommand'
  BY <1>1, ModesAssumption DEF PendingNeedsCommand
<1> QED
  BY <1>2, <1>3, <1>4, <1>5 DEF IInv

LEMMA HoldKeepsIInv ==
    ASSUME IInv, NEW i \in DOMAIN jobs, Hold(i)
    PROVE  IInv'
PROOF
<1>1. /\ i = 1 /\ Starts(1) /\ Await(1, "hold") /\ jobs[1].kind # "verify" /\ TypeOK
      /\ sent = last_commanded_mode
      /\ consecutive_drift_cycles \in 0..(DriftCycles - 1)
      /\ consecutive_drift_cycles' = DriftCount /\ ~(DriftCount >= DriftCycles)
      /\ UNCHANGED <<last_commanded_mode, verdict, reassert_next, last_automation_enabled,
                     clock, closed, readback, sent>>
  BY StartsFact DEF Hold, Holding, Resolved, Dispatching, ReconcileDue
<1>2. /\ jobs' \in Seq(Job) /\ LockHeld' /\ CommitsWhatItSent' /\ ~WriteInFlight'
      /\ (\E k \in DOMAIN jobs : jobs[k].kind = "verify")
            => \E k \in DOMAIN jobs' : jobs'[k].kind = "verify"
  BY <1>1, HoldKeepsQueue
<1>3. consecutive_drift_cycles' \in 0..(DriftCycles - 1)
  BY <1>1, TimingAssumption DEF DriftCount
<1>4. TypeOK'
  BY <1>1, <1>2, <1>3, TimingAssumption DEF TypeOK, verdict, clock
<1>5. Lockstep' /\ DriftBelowThreshold' /\ PendingNeedsCommand' /\ RetriedBeforeMismatch'
  BY <1>1, <1>3, TimingAssumption DEF IInv, Lockstep, DriftBelowThreshold,
                                      PendingNeedsCommand, RetriedBeforeMismatch, verdict
<1>6. PendingIsWatched'
  <2>1. ~WriteInFlight
    BY <1>1, StartsFact
  <2> QED
    BY <1>1, <1>2, <2>1 DEF IInv, PendingIsWatched, Armed, verdict, clock
<1> QED
  BY <1>2, <1>4, <1>5, <1>6 DEF IInv

LEMMA ReconcileKeepsIInv ==
    ASSUME IInv, NEW i \in DOMAIN jobs, Reconcile(i)
    PROVE  IInv'
PROOF
<1>1. /\ i = 1 /\ Starts(1) /\ Await(1, "write") /\ jobs[1].kind # "verify" /\ TypeOK
      /\ jobs[1].target \in DOMAIN Targets /\ sent' = jobs[1].target
      /\ consecutive_drift_cycles \in 0..(DriftCycles - 1)
      /\ consecutive_drift_cycles' = IF reassert_next THEN consecutive_drift_cycles
                                     ELSE DriftCount
      /\ UNCHANGED <<last_commanded_mode, verdict, reassert_next, last_automation_enabled,
                     clock, closed, readback>>
  BY StartsFact DEF Reconcile, Holding, Resolved, Dispatching, Target
<1>2. /\ jobs' \in Seq(Job) /\ LockHeld' /\ CommitsWhatItSent'
      /\ WriteInFlight' /\ CommandInFlight'
  BY <1>1, WriteKeepsQueue
<1>3. consecutive_drift_cycles' \in 0..DriftCycles
  BY <1>1, TimingAssumption DEF DriftCount
<1>4. TypeOK'
  BY <1>1, <1>2, <1>3 DEF TypeOK, verdict, clock
<1>5. PendingNeedsCommand' /\ RetriedBeforeMismatch'
  BY <1>1 DEF IInv, PendingNeedsCommand, RetriedBeforeMismatch, verdict
<1> QED
  BY <1>2, <1>4, <1>5 DEF IInv, Lockstep, DriftBelowThreshold, PendingIsWatched

LEMMA HoldDoneKeepsIInv ==
    ASSUME IInv, NEW i \in DOMAIN jobs, HoldDone(i)
    PROVE  IInv'
PROOF
<1>1. /\ jobs[i].at = "hold" /\ Release(i) /\ TypeOK /\ LockHeld
      /\ UNCHANGED <<last_commanded_mode, verdict, drift, last_automation_enabled, clock,
                     closed, readback, sent>>
  BY DEF HoldDone, IInv
<1>2. i = 1 /\ jobs[1].at = "hold" /\ jobs[1].kind # "verify" /\ Release(1)
  BY <1>1, PastTheLock DEF IInv, CommitsWhatItSent
<1>3. ~WriteInFlight /\ ~CommandInFlight
  BY <1>1, <1>2 DEF LockHeld, WriteInFlight, CommandInFlight, Writing
<1>4. /\ jobs' \in Seq(Job) /\ LockHeld' /\ CommitsWhatItSent' /\ ~WriteInFlight'
      /\ (\E k \in DOMAIN jobs : jobs[k].kind = "verify")
            => \E k \in DOMAIN jobs' : jobs'[k].kind = "verify"
  BY <1>2, ReleaseKeepsQueue
<1>5. TypeOK'
  BY <1>1, <1>4 DEF TypeOK, verdict, drift, clock
<1>6. Lockstep' /\ DriftBelowThreshold' /\ PendingNeedsCommand' /\ RetriedBeforeMismatch'
  BY <1>1, <1>3 DEF IInv, Lockstep, DriftBelowThreshold, PendingNeedsCommand,
                    RetriedBeforeMismatch, verdict, drift
<1>7. PendingIsWatched'
  BY <1>1, <1>3, <1>4 DEF IInv, PendingIsWatched, Armed, verdict, clock
<1> QED
  BY <1>4, <1>5, <1>6, <1>7 DEF IInv

LEMMA WriteDoneKeepsIInv ==
    ASSUME IInv, NEW i \in DOMAIN jobs, WriteDone(i)
    PROVE  IInv'
PROOF
<1>1. /\ jobs[i].at = "write" /\ jobs[i].kind # "verify" /\ Release(i) /\ TypeOK
      /\ LockHeld /\ last_commanded_mode' = jobs[i].target
      /\ verify_state' = "pending" /\ verify_retried' = FALSE
      /\ window_age' = jobs[i].age /\ reassert_next' = FALSE
      /\ consecutive_drift_cycles' = 0 /\ ScheduleVerify(verify_cancel, InitialDelay)
      /\ UNCHANGED <<last_automation_enabled, closed, readback, sent>>
  BY DEF WriteDone, Writing, Target, IInv
<1>2. i = 1
  BY <1>1, PastTheLock
<1>3. sent = jobs[1].target /\ jobs[1].target \in DOMAIN Targets /\ jobs[1] \in Job
  BY <1>1, <1>2 DEF IInv, CommitsWhatItSent, Writing, TypeOK
<1>4. jobs' \in Seq(Job) /\ LockHeld' /\ CommitsWhatItSent' /\ ~WriteInFlight'
  BY <1>1, <1>2, ReleaseKeepsQueue
<1>5. /\ timers' \in [TimerIds -> {Off} \cup 0..MaxDelay] /\ verify_cancel' \in TimerIds
      /\ \E t \in TimerIds : timers'[t] # Off
  <2>1. verify_cancel \in TimerIds \cup {NoTimer}
    BY <1>1 DEF TypeOK
  <2> QED
    BY <1>1, <2>1, Delays, ScheduleEffect
<1>6. TypeOK'
  <2>1. window_age' \in 0..Elapsed
    BY <1>1, <1>2, <1>3, TimingAssumption DEF Job, Elapsed
  <2>2. 0 \in 0..DriftCycles
    BY TimingAssumption
  <2>3. last_commanded_mode' \in DOMAIN Targets
    BY <1>1, <1>2, <1>3
  <2> QED
    BY <1>1, <1>4, <1>5, <2>1, <2>2, <2>3 DEF TypeOK
<1>7. Lockstep' /\ DriftBelowThreshold' /\ RetriedBeforeMismatch'
  BY <1>1, <1>2, <1>3, TimingAssumption DEF Lockstep, DriftBelowThreshold,
                                            RetriedBeforeMismatch
<1>8. PendingNeedsCommand'
  BY <1>1, <1>2, <1>3, ModesAssumption DEF PendingNeedsCommand
<1>9. PendingIsWatched'
  BY <1>5 DEF PendingIsWatched, Armed
<1> QED
  BY <1>4, <1>6, <1>7, <1>8, <1>9 DEF IInv

LEMMA VerifyPollKeepsIInv ==
    ASSUME IInv, NEW i \in DOMAIN jobs, VerifyPoll(i)
    PROVE  IInv'
PROOF
<1>1. /\ i = 1 /\ Release(1) /\ TypeOK /\ sent = last_commanded_mode
      /\ consecutive_drift_cycles \in 0..(DriftCycles - 1)
      /\ ScheduleVerify(NoTimer, PollInterval)
      /\ UNCHANGED <<last_commanded_mode, verdict, drift, last_automation_enabled, closed,
                     readback, sent>>
  BY StartsFact DEF VerifyPoll, Verifying
<1>2. jobs' \in Seq(Job) /\ LockHeld' /\ CommitsWhatItSent' /\ ~WriteInFlight'
  BY <1>1, ReleaseKeepsQueue
<1>3. /\ timers' \in [TimerIds -> {Off} \cup 0..MaxDelay] /\ verify_cancel' \in TimerIds
      /\ \E t \in TimerIds : timers'[t] # Off
  BY <1>1, Delays, ScheduleEffect
<1>4. TypeOK'
  BY <1>1, <1>2, <1>3 DEF TypeOK, verdict, drift
<1>5. Lockstep' /\ DriftBelowThreshold' /\ PendingNeedsCommand' /\ RetriedBeforeMismatch'
  BY <1>1, TimingAssumption DEF IInv, Lockstep, DriftBelowThreshold, PendingNeedsCommand,
                                RetriedBeforeMismatch, verdict, drift
<1>6. PendingIsWatched'
  BY <1>3 DEF PendingIsWatched, Armed
<1> QED
  BY <1>2, <1>4, <1>5, <1>6 DEF IInv

LEMMA VerifyRetryKeepsIInv ==
    ASSUME IInv, NEW i \in DOMAIN jobs, VerifyRetry(i)
    PROVE  IInv'
PROOF
<1>1. /\ i = 1 /\ Starts(1) /\ Await(1, "write") /\ jobs[1].kind = "verify" /\ TypeOK
      /\ sent' = last_commanded_mode /\ verify_cancel' = NoTimer /\ verify_retried' = TRUE
      /\ consecutive_drift_cycles \in 0..(DriftCycles - 1)
      /\ UNCHANGED <<last_commanded_mode, verify_state, window_age, drift,
                     last_automation_enabled, timers, closed, readback>>
  BY StartsFact DEF VerifyRetry, Verifying
<1>2. jobs' \in Seq(Job) /\ LockHeld' /\ CommitsWhatItSent' /\ WriteInFlight'
  BY <1>1, WriteKeepsQueue
<1>3. TypeOK'
  BY <1>1, <1>2 DEF TypeOK, drift
<1>4. PendingNeedsCommand' /\ RetriedBeforeMismatch'
  BY <1>1 DEF IInv, PendingNeedsCommand, RetriedBeforeMismatch
<1>5. DriftBelowThreshold'
  BY <1>1, TimingAssumption DEF DriftBelowThreshold, drift
<1> QED
  BY <1>2, <1>3, <1>4, <1>5 DEF IInv, Lockstep, PendingIsWatched

LEMMA RetryDoneKeepsIInv ==
    ASSUME IInv, NEW i \in DOMAIN jobs, RetryDone(i)
    PROVE  IInv'
PROOF
<1>1. /\ jobs[i].at = "write" /\ jobs[i].kind = "verify" /\ Release(i) /\ TypeOK /\ LockHeld
      /\ window_age' = jobs[i].age /\ ScheduleVerify(verify_cancel, InitialDelay)
      /\ UNCHANGED <<last_commanded_mode, verify_state, verify_retried, drift,
                     last_automation_enabled, closed, readback, sent>>
  BY DEF RetryDone, Writing, IInv
<1>2. i = 1
  BY <1>1, PastTheLock
<1>3. sent = last_commanded_mode /\ jobs[1] \in Job
  BY <1>1, <1>2 DEF IInv, CommitsWhatItSent, Writing, TypeOK
<1>4. jobs' \in Seq(Job) /\ LockHeld' /\ CommitsWhatItSent' /\ ~WriteInFlight'
  BY <1>1, <1>2, ReleaseKeepsQueue
<1>5. /\ timers' \in [TimerIds -> {Off} \cup 0..MaxDelay] /\ verify_cancel' \in TimerIds
      /\ \E t \in TimerIds : timers'[t] # Off
  <2>1. verify_cancel \in TimerIds \cup {NoTimer}
    BY <1>1 DEF TypeOK
  <2> QED
    BY <1>1, <2>1, Delays, ScheduleEffect
<1>6. TypeOK'
  <2>1. window_age' \in 0..Elapsed
    BY <1>1, <1>2, <1>3, TimingAssumption DEF Job, Elapsed
  <2> QED
    BY <1>1, <1>4, <1>5, <2>1 DEF TypeOK, drift
<1>7. Lockstep' /\ PendingNeedsCommand' /\ RetriedBeforeMismatch'
  BY <1>1, <1>3 DEF IInv, Lockstep, PendingNeedsCommand, RetriedBeforeMismatch
<1>8. PendingIsWatched'
  BY <1>5 DEF PendingIsWatched, Armed
<1>9. DriftBelowThreshold'
  <2>1. ~CommandInFlight
    BY <1>1, <1>2 DEF LockHeld, CommandInFlight, Writing
  <2> QED
    BY <1>1, <2>1 DEF IInv, DriftBelowThreshold, drift
<1> QED
  BY <1>4, <1>6, <1>7, <1>8, <1>9 DEF IInv

LEMMA SettleKeepsIInv ==
    ASSUME IInv, NEW i \in DOMAIN jobs, Settle(i)
    PROVE  IInv'
PROOF
<1>1. /\ i = 1 /\ Release(1) /\ TypeOK /\ sent = last_commanded_mode
      /\ consecutive_drift_cycles \in 0..(DriftCycles - 1)
      /\ verify_state' \in {"ok", "mismatch", "unknown"} /\ verify_cancel' = NoTimer
      /\ UNCHANGED <<last_commanded_mode, verify_retried, window_age, drift,
                     last_automation_enabled, timers, closed, readback, sent>>
  BY StartsFact DEF Settle, Verifying
<1>2. jobs' \in Seq(Job) /\ LockHeld' /\ CommitsWhatItSent' /\ ~WriteInFlight'
  BY <1>1, ReleaseKeepsQueue
<1>3. TypeOK'
  BY <1>1, <1>2 DEF TypeOK, drift
<1>4. Lockstep' /\ DriftBelowThreshold' /\ PendingIsWatched'
  BY <1>1, TimingAssumption DEF Lockstep, DriftBelowThreshold, PendingIsWatched, drift
<1>5. RetriedBeforeMismatch'
  \* a mismatched row makes the retry due, unless it was already spent
  BY <1>1 DEF Settle, Retries, RetriedBeforeMismatch
<1>6. PendingNeedsCommand'
  BY <1>1 DEF PendingNeedsCommand
<1> QED
  BY <1>2, <1>3, <1>4, <1>5, <1>6 DEF IInv

-----------------------------------------------------------------------------
(* The world *)

LEMMA ReadbackKeepsIInv ==
    ASSUME IInv, NEW p \in Points, NEW v \in Values \cup {NoRead}, Readback(p, v)
    PROVE  IInv'
PROOF
<1>1. /\ readback' = [readback EXCEPT ![p] = v] /\ TypeOK
      /\ UNCHANGED <<jobs, last_commanded_mode, verdict, drift, last_automation_enabled,
                     clock, closed, sent>>
  BY DEF Readback, IInv
<1>2. TypeOK'
  BY <1>1 DEF TypeOK, verdict, drift, clock
<1> QED
  BY <1>1, <1>2 DEF IInv, LockHeld, CommitsWhatItSent, PendingNeedsCommand, WriteInFlight,
        CommandInFlight, Writing, DriftBelowThreshold, Lockstep, PendingIsWatched, Armed,
        RetriedBeforeMismatch, verdict, drift, clock

\* Time only ages the jobs: who waits, writes or holds is unchanged.
LEMMA PassKeepsIInv ==
    ASSUME IInv, Pass
    PROVE  IInv'
PROOF
<1>1. /\ TypeOK /\ jobs \in Seq(Job)
      /\ \A i \in DOMAIN jobs : jobs[i].age < MaxLag
      /\ jobs' = [i \in DOMAIN jobs |-> [jobs[i] EXCEPT !.age = @ + 1]]
      /\ window_age' = IF window_age < Elapsed THEN window_age + 1 ELSE window_age
      /\ timers' = [t \in TimerIds |-> IF timers[t] > 0 THEN timers[t] - 1 ELSE timers[t]]
      /\ UNCHANGED <<last_commanded_mode, verify_state, verify_retried, drift,
                     last_automation_enabled, verify_cancel, closed, readback, sent>>
  BY DEF Pass, IInv, TypeOK
<1>2. DOMAIN jobs' = DOMAIN jobs
  BY <1>1
<1>3. \A i \in DOMAIN jobs : /\ jobs'[i] \in Job
                             /\ jobs'[i].at = jobs[i].at
                             /\ jobs'[i].kind = jobs[i].kind
                             /\ jobs'[i].target = jobs[i].target
  <2>1. TAKE i \in DOMAIN jobs
  <2>2. jobs[i] \in Job /\ jobs'[i] = [jobs[i] EXCEPT !.age = @ + 1] /\ jobs[i].age < MaxLag
    BY <1>1
  <2>3. jobs[i].age + 1 \in 0..MaxLag
    BY <2>2, TimingAssumption DEF Job
  <2> QED
    BY <2>2, <2>3 DEF Job
<1>4. jobs' \in Seq(Job)
  BY <1>1, <1>2, <1>3
<1>5. window_age' \in 0..Elapsed /\ timers' \in [TimerIds -> {Off} \cup 0..MaxDelay]
  BY <1>1, Delays, TimingAssumption DEF TypeOK, Off, Elapsed
<1>6. TypeOK'
  BY <1>1, <1>4, <1>5 DEF TypeOK, drift
<1>7. LockHeld' /\ CommitsWhatItSent'
  BY <1>1, <1>2, <1>3 DEF IInv, LockHeld, CommitsWhatItSent, Writing
<1>8. (WriteInFlight' <=> WriteInFlight) /\ (CommandInFlight' <=> CommandInFlight)
  BY <1>2, <1>3 DEF WriteInFlight, CommandInFlight, Writing
<1>9. /\ Lockstep' /\ DriftBelowThreshold' /\ PendingNeedsCommand' /\ RetriedBeforeMismatch'
  BY <1>1, <1>8 DEF IInv, Lockstep, DriftBelowThreshold, PendingNeedsCommand,
                    RetriedBeforeMismatch, drift
<1>10. PendingIsWatched'
  <2>1. ASSUME NEW t \in TimerIds, timers[t] # Off
        PROVE  timers'[t] # Off
    BY <1>1, <2>1, Delays DEF TypeOK, Off
  <2> QED
    BY <1>1, <1>2, <1>3, <1>8, <2>1 DEF IInv, PendingIsWatched, Armed
<1> QED
  BY <1>6, <1>7, <1>9, <1>10 DEF IInv

-----------------------------------------------------------------------------
(* The invariant *)

LEMMA InitIInv == Init => IInv
PROOF
<1>1. SUFFICES ASSUME Init PROVE IInv
  OBVIOUS
<1>2. DOMAIN jobs = {}
  BY <1>1 DEF Init
<1>3. TypeOK
  <2>1. timers \in [TimerIds -> {Off} \cup 0..MaxDelay]
    BY <1>1 DEF Init
  <2>2. 0 \in 0..Elapsed /\ 0 \in 0..DriftCycles
    BY TimingAssumption DEF Elapsed
  <2>3. jobs \in Seq(Job)
    BY <1>1 DEF Init
  <2> QED
    BY <1>1, <2>1, <2>2, <2>3 DEF Init, TypeOK
<1>4. LockHeld /\ CommitsWhatItSent
  BY <1>2 DEF LockHeld, CommitsWhatItSent
<1>5. PendingNeedsCommand /\ DriftBelowThreshold /\ Lockstep /\ PendingIsWatched
      /\ RetriedBeforeMismatch
  BY <1>1, TimingAssumption DEF Init, PendingNeedsCommand, DriftBelowThreshold, Lockstep,
                                PendingIsWatched, RetriedBeforeMismatch
<1> QED
  BY <1>3, <1>4, <1>5 DEF IInv

LEMMA StutterKeepsIInv == IInv /\ UNCHANGED vars => IInv'
PROOF
  BY DEF vars, IInv, TypeOK, LockHeld, CommitsWhatItSent, PendingNeedsCommand, WriteInFlight,
        CommandInFlight, Writing, DriftBelowThreshold, Lockstep, PendingIsWatched, Armed,
        RetriedBeforeMismatch, verdict, drift, clock

LEMMA NextKeepsIInv == IInv /\ [Next]_vars => IInv'
PROOF
<1>1. SUFFICES ASSUME IInv, [Next]_vars PROVE IInv'
  OBVIOUS
<1>2. CASE Ticks
  BY <1>1, <1>2, TickKeepsIInv DEF Ticks
<1>3. CASE Presses
  BY <1>1, <1>3, PressKeepsIInv DEF Presses
<1>4. CASE ForceVerify
  BY <1>1, <1>4, ForceVerifyKeepsIInv
<1>5. CASE \E t \in TimerIds : Fire(t)
  BY <1>1, <1>5, FireKeepsIInv
<1>6. CASE Shutdown
  BY <1>1, <1>6, ShutdownKeepsIInv
<1>7. CASE JobStep
  <2>1. PICK i \in DOMAIN jobs : DispatchStep(i) \/ VerifyStep(i)
    BY <1>7 DEF JobStep
  <2>2. CASE DispatchStep(i)
    BY <1>1, <2>2, NothingKeepsIInv, CommandKeepsIInv, SelfHealKeepsIInv, HoldKeepsIInv,
       ReconcileKeepsIInv, HoldDoneKeepsIInv, WriteDoneKeepsIInv DEF DispatchStep
  <2>3. CASE VerifyStep(i)
    BY <1>1, <2>3, VerifyPollKeepsIInv, VerifyRetryKeepsIInv, RetryDoneKeepsIInv,
       SettleKeepsIInv DEF VerifyStep
  <2> QED
    BY <2>1, <2>2, <2>3
<1>8. CASE \E p \in Points, v \in Values \cup {NoRead} : Readback(p, v)
  BY <1>1, <1>8, ReadbackKeepsIInv
<1>9. CASE Pass
  BY <1>1, <1>9, PassKeepsIInv
<1>10. CASE UNCHANGED vars
  BY <1>1, <1>10, StutterKeepsIInv
<1> QED
  BY <1>1, <1>2, <1>3, <1>4, <1>5, <1>6, <1>7, <1>8, <1>9, <1>10 DEF Next

LEMMA SpecIInv == Spec => []IInv
PROOF
  BY InitIInv, NextKeepsIInv, PTL DEF Spec

-----------------------------------------------------------------------------
(* What the module guarantees *)

\* Every variable of the control module keeps its type, the drift counter its bound.
THEOREM TypeCorrect == Spec => []TypeOK
PROOF
<1>1. IInv => TypeOK
  BY DEF IInv
<1> QED
  BY SpecIInv, <1>1, PTL

\* With no write in flight, the last mode written is the mode the module believes it
\* commanded: no retry of an older command can land after a newer one.
THEOREM CommandedIsWritten == Spec => []Lockstep
PROOF
<1>1. IInv => Lockstep
  BY DEF IInv
<1> QED
  BY SpecIInv, <1>1, PTL

\* Until shutdown a pending verdict always has a timer, a queued verify or a write
\* behind it, so it can be decided.
THEOREM PendingStaysWatched == Spec => []PendingIsWatched
PROOF
<1>1. IInv => PendingIsWatched
  BY DEF IInv
<1> QED
  BY SpecIInv, <1>1, PTL

\* A verdict of "mismatch" is only reported once the write has been re-issued, and
\* _on_verify_tick settles as "unknown" without a second write only if some row the mode
\* targets reads back as commanded: a write lost with every row unreadable is re-issued.
THEOREM GivesUpRetried == Spec => GivesUpAfterRetry
PROOF
<1> DEFINE Judged == verify_state # "unknown" /\ verify_state' = "unknown"
                        => verify_retried \/ ~Blackout(last_commanded_mode)
<1>1. IInv => RetriedBeforeMismatch
  BY DEF IInv
<1>2. [Next]_vars => [Judged]_vars
  <2>1. SUFFICES ASSUME Next, verify_state # "unknown", verify_state' = "unknown"
                 PROVE  verify_retried \/ ~Blackout(last_commanded_mode)
    OBVIOUS
  <2>2. ASSUME NEW i \in DOMAIN jobs, DispatchStep(i) PROVE FALSE
    BY <2>1, <2>2 DEF DispatchStep, NothingToDispatch, Command, SelfHeal, Heals, Hold,
                      Reconcile, HoldDone, WriteDone, verdict
  <2>3. ASSUME NEW i \in DOMAIN jobs, VerifyStep(i)
        PROVE  verify_retried \/ ~Blackout(last_commanded_mode)
    BY <2>1, <2>3 DEF VerifyStep, VerifyPoll, VerifyRetry, RetryDone, Settle, Retries, verdict
  <2>4. CASE \/ Ticks \/ Presses \/ ForceVerify \/ Shutdown \/ Pass
             \/ \E t \in TimerIds : Fire(t)
             \/ \E p \in Points, v \in Values \cup {NoRead} : Readback(p, v)
    BY <2>1, <2>4 DEF Ticks, Tick, Presses, Press, ForceVerify, Shutdown, Pass, Fire,
                      Readback, verdict
  <2> QED
    BY <2>1, <2>2, <2>3, <2>4 DEF Next, JobStep
<1> QED
  BY <1>1, <1>2, SpecIInv, PTL DEF Spec, GivesUpAfterRetry, BlackoutIsRetried

\* "ok" is only reached when every row of the commanded mode reads back and matches.
THEOREM OkOnEvidence == Spec => OkNeedsEvidence
PROOF
<1> DEFINE Evidence == verify_state' = "ok" /\ verify_state # "ok"
                          => Confirmed(last_commanded_mode)
<1>1. [Next]_vars => [Evidence]_vars
  <2>1. SUFFICES ASSUME Next, verify_state' = "ok", verify_state # "ok"
                 PROVE  Confirmed(last_commanded_mode)
    OBVIOUS
  <2>2. ASSUME NEW i \in DOMAIN jobs, DispatchStep(i)
        PROVE  Confirmed(last_commanded_mode)
    BY <2>1, <2>2 DEF DispatchStep, NothingToDispatch, Command, SelfHeal, Heals, Hold,
                      Reconcile, HoldDone, WriteDone, verdict
  <2>3. ASSUME NEW i \in DOMAIN jobs, VerifyStep(i)
        PROVE  Confirmed(last_commanded_mode)
    BY <2>1, <2>3 DEF VerifyStep, VerifyPoll, VerifyRetry, RetryDone, Settle, verdict
  <2>4. CASE \/ Ticks \/ Presses \/ ForceVerify \/ Shutdown \/ Pass
             \/ \E t \in TimerIds : Fire(t)
             \/ \E p \in Points, v \in Values \cup {NoRead} : Readback(p, v)
    BY <2>1, <2>4 DEF Ticks, Tick, Presses, Press, ForceVerify, Shutdown, Pass, Fire,
                      Readback, verdict
  <2> QED
    BY <2>1, <2>2, <2>3, <2>4 DEF Next, JobStep
<1> QED
  BY <1>1, PTL DEF Spec, OkNeedsEvidence
=============================================================================
