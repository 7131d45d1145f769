----------------------------- MODULE SolisRcProofs -----------------------------
(***************************************************************************)
(* What the register driver keeps for every set of modes, every interval    *)
(* and deadman, and every number of queued jobs: its heartbeat follows the  *)
(* held mode, it implements the abstract promise ForcedHold, it never       *)
(* re-engages a stale setpoint, and its beats beat the inverter's deadman.  *)
(***************************************************************************)
EXTENDS SolisRc, CommonLemmas

-----------------------------------------------------------------------------
(* The writes of a mode *)

\* Only a forced mode's sequence holds an engaging write.
LEMMA ModeWritesFact ==
    ASSUME NEW mode \in Modes
    PROVE  /\ ModeWrites(mode) \in Seq(Writes) /\ ModeWrites(mode) # <<>>
           /\ \A k \in DOMAIN ModeWrites(mode) :
                ModeWrites(mode)[k] \in {"engage", "setpoint"} => mode \in Forced
PROOF
<1>1. CASE mode \in Forced
  <2>1. ModeWrites(mode) = <<"registers">> \o <<"engage", "timeout", "setpoint">>
    BY <1>1 DEF ModeWrites, Engage
  <2>2. <<"registers">> \in Seq(Writes) /\ <<"engage", "timeout", "setpoint">> \in Seq(Writes)
    BY DEF Writes
  <2>3. ModeWrites(mode) \in Seq(Writes) /\ Len(ModeWrites(mode)) # 0
    BY <2>1, <2>2, ConcatProperties
  <2> QED
    BY <1>1, <2>3
<1>2. CASE mode \notin Forced
  <2>1. ModeWrites(mode) = <<"registers">> \o <<"zero", "disengage">>
    BY <1>2 DEF ModeWrites, Disengage
  <2>2. <<"registers">> \in Seq(Writes) /\ <<"zero", "disengage">> \in Seq(Writes)
    BY DEF Writes
  <2>3. /\ ModeWrites(mode) \in Seq(Writes) /\ Len(ModeWrites(mode)) = 3
        /\ \A k \in 1..3 : ModeWrites(mode)[k] =
             IF k <= 1 THEN <<"registers">>[k] ELSE <<"zero", "disengage">>[k - 1]
    BY <2>1, <2>2, ConcatProperties
  <2>4. \A k \in 1..3 : ModeWrites(mode)[k] \in {"registers", "zero", "disengage"}
    BY <2>3
  <2> QED
    BY <2>3, <2>4
<1> QED
  BY <1>1, <1>2

\* A refresh is empty for a passive mode.
LEMMA RefreshFact ==
    ASSUME NEW mode
    PROVE  /\ Refresh(mode) \in Seq(Writes)
           /\ Refresh(mode) # <<>> => mode \in Forced
PROOF
<1>1. Engage \in Seq(Writes) /\ Engage # <<>>
  BY DEF Engage, Writes
<1> QED
  BY <1>1 DEF Refresh

-----------------------------------------------------------------------------
(* Arrivals at the lock *)

\* A job that asks for the lock disturbs nothing the invariant says of the queue,
\* as long as it comes from the control module only when no other does.
LEMMA ArrivalKeepsQueue ==
    ASSUME IInv, NEW kind \in {"apply", "hold", "beat"}, NEW mode \in Modes \cup {NoMode},
           Arrive(kind, mode), UNCHANGED held_spec,
           kind # "beat" => mode \in Modes /\ CallerIdle,
           kind = "hold" => mode = held_spec
    PROVE  /\ jobs' \in Seq(Job) /\ LockHeld' /\ OneCaller' /\ JobsCarryModes'
           /\ OthersWriteHeld' /\ ForcedEngages'
PROOF
<1> DEFINE new == [kind |-> kind, spec |-> mode, todo |-> <<>>, age |-> 0]
           n == Len(jobs)
<1>1. new \in Job
  BY RcTimingAssumption DEF Job
<1>2. jobs \in Seq(Job) /\ jobs' = Append(jobs, new)
  BY DEF IInv, TypeOK, Arrive
<1>3. /\ jobs' \in Seq(Job) /\ n \in Nat
      /\ DOMAIN jobs' = DOMAIN jobs \cup {n + 1}
      /\ \A k \in DOMAIN jobs : k # n + 1 /\ jobs'[k] = jobs[k]
      /\ jobs'[n + 1] = new
  BY <1>1, <1>2, AppendTail
<1>4. LockHeld'
  BY <1>3 DEF IInv, LockHeld
<1>5. OneCaller'
  <2>1. CASE kind = "beat"
    BY <1>3, <2>1 DEF IInv, OneCaller
  <2>2. CASE kind # "beat"
    BY <1>3, <2>2 DEF CallerIdle, OneCaller
  <2> QED
    BY <2>1, <2>2
<1>6. JobsCarryModes'
  BY <1>3 DEF IInv, JobsCarryModes
<1>7. OthersWriteHeld'
  BY <1>3 DEF IInv, OthersWriteHeld
<1>8. ForcedEngages'
  <2>1. DOMAIN new.todo = {}
    OBVIOUS
  <2> QED
    BY <1>3, <2>1 DEF IInv, ForcedEngages
<1> QED
  BY <1>3, <1>4, <1>5, <1>6, <1>7, <1>8

LEMMA ApplyKeepsIInv ==
    ASSUME IInv, NEW mode \in Modes, Apply(mode)
    PROVE  IInv'
PROOF
<1>1. /\ Arrive("apply", mode) /\ CallerIdle
      /\ UNCHANGED <<held_spec, beat_in, closed, selector, setpoint, cached, rc_left, link, outage>>
  BY DEF Apply, driver, inverter, world
<1>2. /\ jobs' \in Seq(Job) /\ LockHeld' /\ OneCaller' /\ JobsCarryModes'
      /\ OthersWriteHeld' /\ ForcedEngages'
  BY <1>1, ArrivalKeepsQueue
<1>3. TypeOK' /\ HeartbeatFollowsHeld'
  BY <1>1, <1>2 DEF IInv, TypeOK, HeartbeatFollowsHeld
<1> QED
  BY <1>2, <1>3 DEF IInv

LEMMA HoldKeepsIInv ==
    ASSUME IInv, Hold
    PROVE  IInv'
PROOF
<1>1. /\ Arrive("hold", held_spec) /\ CallerIdle /\ held_spec \in Modes
      /\ UNCHANGED <<held_spec, beat_in, closed, selector, setpoint, cached, rc_left, link, outage>>
  BY DEF Hold, driver, inverter, world, IInv, TypeOK
<1>2. /\ jobs' \in Seq(Job) /\ LockHeld' /\ OneCaller' /\ JobsCarryModes'
      /\ OthersWriteHeld' /\ ForcedEngages'
  BY <1>1, ArrivalKeepsQueue
<1>3. TypeOK' /\ HeartbeatFollowsHeld'
  BY <1>1, <1>2 DEF IInv, TypeOK, HeartbeatFollowsHeld
<1> QED
  BY <1>2, <1>3 DEF IInv

LEMMA BeatKeepsIInv ==
    ASSUME IInv, Beat
    PROVE  IInv'
PROOF
<1>1. /\ Arrive("beat", NoMode) /\ beat_in = 0 /\ beat_in' = Interval
      /\ UNCHANGED <<held_spec, closed, selector, setpoint, cached, rc_left, link, outage>>
  BY DEF Beat, inverter, world
<1>2. /\ jobs' \in Seq(Job) /\ LockHeld' /\ OneCaller' /\ JobsCarryModes'
      /\ OthersWriteHeld' /\ ForcedEngages'
  BY <1>1, ArrivalKeepsQueue
<1>3. TypeOK' /\ HeartbeatFollowsHeld'
  BY <1>1, <1>2, RcTimingAssumption DEF IInv, TypeOK, HeartbeatFollowsHeld, Off
<1> QED
  BY <1>2, <1>3 DEF IInv

-----------------------------------------------------------------------------
(* Steps of the job that holds the lock *)

\* A job leaves the queue: what the invariant says of the others stays true, also
\* when it leaves another mode held, as long as no hold still waits.
LEMMA DepartureKeepsQueue ==
    ASSUME IInv, 1 \in DOMAIN jobs, jobs' = RemoveAt(jobs, 1),
           held_spec' = held_spec \/ jobs[1].kind = "apply"
    PROVE  /\ jobs' \in Seq(Job) /\ LockHeld' /\ OneCaller' /\ JobsCarryModes'
           /\ OthersWriteHeld' /\ ForcedEngages'
PROOF
<1>1. jobs \in Seq(Job) /\ jobs # <<>> /\ Len(jobs) \in Nat
  BY DEF IInv, TypeOK
<1>2. /\ jobs' \in Seq(Job) /\ DOMAIN jobs' = 1..(Len(jobs) - 1)
      /\ \A k \in DOMAIN jobs' : jobs'[k] = jobs[k + 1]
  BY <1>1, RemoveHead
<1>3. \A k \in DOMAIN jobs' : k + 1 \in DOMAIN jobs /\ k + 1 # 1
  BY <1>1, <1>2
<1>4. \A k \in DOMAIN jobs' : jobs'[k].todo = <<>>
  BY <1>2, <1>3 DEF IInv, LockHeld
<1>5. LockHeld' /\ JobsCarryModes'
  BY <1>2, <1>3, <1>4 DEF IInv, LockHeld, JobsCarryModes
<1>6. OneCaller'
  <2>1. SUFFICES ASSUME NEW i \in DOMAIN jobs', NEW j \in DOMAIN jobs',
                        jobs'[i].kind # "beat", jobs'[j].kind # "beat"
                 PROVE  i = j
    BY DEF OneCaller
  <2>2. i + 1 = j + 1
    BY <1>2, <1>3, <2>1 DEF IInv, OneCaller
  <2> QED
    BY <1>2, <2>2
<1>7. OthersWriteHeld'
  <2>1. SUFFICES ASSUME NEW i \in DOMAIN jobs', jobs'[i].kind = "hold"
                 PROVE  jobs'[i].spec = held_spec'
    BY <1>4 DEF OthersWriteHeld
  <2>2. jobs[i + 1].kind = "hold" /\ i + 1 \in DOMAIN jobs /\ i + 1 # 1
    BY <1>2, <1>3, <2>1
  <2>3. jobs[1].kind # "apply"
    BY <2>2 DEF IInv, OneCaller
  <2> QED
    BY <1>2, <2>1, <2>2, <2>3 DEF IInv, OthersWriteHeld
<1>8. ForcedEngages'
  <2>1. \A k \in DOMAIN jobs' : DOMAIN jobs'[k].todo = {}
    BY <1>4
  <2> QED
    BY <2>1 DEF ForcedEngages
<1> QED
  BY <1>2, <1>5, <1>6, <1>7, <1>8

\* The holder goes on with another job record of the same kind.
LEMMA HolderKeepsQueue ==
    ASSUME IInv, 1 \in DOMAIN jobs, NEW new \in Job, jobs' = [jobs EXCEPT ![1] = new],
           UNCHANGED held_spec, new.kind = jobs[1].kind,
           new.kind # "beat" => new.spec = jobs[1].spec,
           new.kind = "beat" => new.spec = held_spec,
           \A k \in DOMAIN new.todo :
                new.todo[k] \in {"engage", "setpoint"} => new.spec \in Forced
    PROVE  /\ jobs' \in Seq(Job) /\ LockHeld' /\ OneCaller' /\ JobsCarryModes'
           /\ OthersWriteHeld' /\ ForcedEngages'
PROOF
<1>1. /\ jobs' \in Seq(Job) /\ DOMAIN jobs' = DOMAIN jobs /\ jobs'[1] = new
      /\ \A k \in DOMAIN jobs : k # 1 => jobs'[k] = jobs[k]
      /\ \A k \in DOMAIN jobs : jobs'[k].kind = jobs[k].kind
  BY DEF IInv, TypeOK
<1>2. LockHeld' /\ OneCaller' /\ JobsCarryModes'
  BY <1>1 DEF IInv, LockHeld, OneCaller, JobsCarryModes
<1>3. OthersWriteHeld'
  BY <1>1 DEF IInv, LockHeld, OthersWriteHeld
<1>4. ForcedEngages'
  BY <1>1 DEF IInv, ForcedEngages
<1> QED
  BY <1>1, <1>2, <1>3, <1>4

LEMMA AcquireKeepsIInv ==
    ASSUME IInv, NEW i \in DOMAIN jobs, Acquire(i)
    PROVE  IInv'
PROOF
<1> DEFINE mode == IF jobs[1].kind = "beat" THEN held_spec ELSE jobs[1].spec
           todo == IF jobs[1].kind = "apply" THEN ModeWrites(mode) ELSE Refresh(mode)
<1>1. /\ i = 1 /\ 1 \in DOMAIN jobs /\ jobs[1] \in Job
      /\ UNCHANGED <<beat_in, closed, selector, setpoint, cached, rc_left, link, outage>>
      /\ held_spec' = IF jobs[1].kind = "hold" THEN mode ELSE held_spec
      /\ jobs' = IF todo = <<>> THEN RemoveAt(jobs, 1)
                 ELSE [jobs EXCEPT ![1].spec = mode, ![1].todo = todo]
  BY DEF Acquire, Holder, IInv, TypeOK, inverter, world
<1>2. held_spec' = held_spec
  BY <1>1 DEF IInv, OthersWriteHeld
<1>3. mode \in Modes \cup {NoMode} /\ (jobs[1].kind = "apply" => mode \in Modes)
  BY <1>1 DEF IInv, TypeOK, JobsCarryModes, Job
<1>4. /\ todo \in Seq(Writes)
      /\ \A k \in DOMAIN todo : todo[k] \in {"engage", "setpoint"} => mode \in Forced
  BY <1>3, ModeWritesFact, RefreshFact
<1>5. /\ jobs' \in Seq(Job) /\ LockHeld' /\ OneCaller' /\ JobsCarryModes'
      /\ OthersWriteHeld' /\ ForcedEngages'
  <2>1. CASE todo = <<>>
    BY <1>1, <1>2, <2>1, DepartureKeepsQueue
  <2>2. CASE todo # <<>>
    <3> DEFINE new == [jobs[1] EXCEPT !.spec = mode, !.todo = todo]
    <3>1. new \in Job /\ new.kind = jobs[1].kind /\ new.spec = mode /\ new.todo = todo
      BY <1>1, <1>3, <1>4 DEF Job
    <3>2. jobs' = [jobs EXCEPT ![1] = new]
      BY <1>1, <2>2
    <3> HIDE DEF todo, new
    <3> QED
      BY <1>1, <1>2, <1>4, <3>1, <3>2, HolderKeepsQueue
  <2> QED
    BY <2>1, <2>2
<1>6. TypeOK' /\ HeartbeatFollowsHeld'
  BY <1>1, <1>2, <1>5 DEF IInv, TypeOK, HeartbeatFollowsHeld
<1> QED
  BY <1>5, <1>6 DEF IInv

\* A write that reaches the inverter leaves its registers well typed.
LEMMA TakesType ==
    ASSUME TypeOK, NEW w \in Writes, NEW mode \in Modes \cup {NoMode},
           w = "setpoint" => mode \in Forced, Takes(w, mode)
    PROVE  /\ selector' \in BOOLEAN
           /\ setpoint' \in Forced \cup {NoMode} /\ cached' \in Forced \cup {NoMode}
           /\ rc_left' \in -RevertAfter..Expiry
PROOF
<1>1. Expiry \in -RevertAfter..Expiry
  BY RcTimingAssumption
<1> QED
  BY <1>1 DEF Takes, TypeOK

\* What the invariant says of a job with a write to do.
LEMMA WriterFact ==
    ASSUME IInv, NEW i \in DOMAIN jobs, CallReturns(i)
    PROVE  /\ i = 1 /\ jobs[1] \in Job /\ 1 \in DOMAIN jobs
           /\ Head(jobs[1].todo) \in Writes /\ Tail(jobs[1].todo) \in Seq(Writes)
           /\ Head(jobs[1].todo) \in {"engage", "setpoint"} => jobs[1].spec \in Forced
           /\ \A k \in DOMAIN Tail(jobs[1].todo) :
                Tail(jobs[1].todo)[k] \in {"engage", "setpoint"} => jobs[1].spec \in Forced
           /\ jobs[1].kind # "apply" => jobs[1].spec = held_spec
PROOF
<1>1. i = 1 /\ jobs[1] \in Job /\ 1 \in DOMAIN jobs /\ jobs[1].todo # <<>>
  BY DEF CallReturns, IInv, LockHeld, TypeOK
<1>2. jobs[1].todo \in Seq(Writes)
  BY <1>1 DEF Job
<1>3. /\ Head(jobs[1].todo) = jobs[1].todo[1] /\ 1 \in DOMAIN jobs[1].todo
      /\ Head(jobs[1].todo) \in Writes /\ Tail(jobs[1].todo) \in Seq(Writes)
      /\ \A k \in DOMAIN Tail(jobs[1].todo) :
            k + 1 \in DOMAIN jobs[1].todo /\ Tail(jobs[1].todo)[k] = jobs[1].todo[k + 1]
  BY <1>1, <1>2
<1>4. \A k \in DOMAIN jobs[1].todo :
        jobs[1].todo[k] \in {"engage", "setpoint"} => jobs[1].spec \in Forced
  BY <1>1 DEF IInv, ForcedEngages
<1>5. jobs[1].kind # "apply" => jobs[1].spec = held_spec
  BY <1>1 DEF IInv, OthersWriteHeld, Job
<1> QED
  BY <1>1, <1>3, <1>4, <1>5

LEMMA CallReturnsKeepsIInv ==
    ASSUME IInv, NEW i \in DOMAIN jobs, CallReturns(i)
    PROVE  IInv'
PROOF
<1> DEFINE job == jobs[1]
           rest == Tail(job.todo)
           applied == rest = <<>> /\ job.kind = "apply"
<1>1. /\ i = 1 /\ job \in Job /\ 1 \in DOMAIN jobs
      /\ Head(job.todo) \in Writes /\ rest \in Seq(Writes)
      /\ Head(job.todo) \in {"engage", "setpoint"} => job.spec \in Forced
      /\ \A k \in DOMAIN rest : rest[k] \in {"engage", "setpoint"} => job.spec \in Forced
      /\ job.kind # "apply" => job.spec = held_spec
  BY WriterFact
<1>2. /\ IF link THEN Takes(Head(job.todo), job.spec) ELSE UNCHANGED inverter
      /\ jobs' = IF rest = <<>> THEN RemoveAt(jobs, 1) ELSE [jobs EXCEPT ![1].todo = rest]
      /\ held_spec' = IF applied THEN job.spec ELSE held_spec
      /\ beat_in' = IF applied THEN Phased(job.spec) ELSE beat_in
      /\ UNCHANGED <<closed, link, outage>>
  BY <1>1 DEF CallReturns, world
<1>3. /\ jobs' \in Seq(Job) /\ LockHeld' /\ OneCaller' /\ JobsCarryModes'
      /\ OthersWriteHeld' /\ ForcedEngages'
  <2>1. CASE rest = <<>>
    BY <1>1, <1>2, <2>1, DepartureKeepsQueue
  <2>2. CASE rest # <<>>
    <3> DEFINE new == [job EXCEPT !.todo = rest]
    <3>1. /\ new \in Job /\ new.kind = jobs[1].kind /\ new.spec = jobs[1].spec
          /\ new.todo = rest
      BY <1>1 DEF Job
    <3>2. jobs' = [jobs EXCEPT ![1] = new] /\ UNCHANGED held_spec
      BY <1>2, <2>2
    <3>3. new.kind = "beat" => new.spec = held_spec
      BY <1>1, <3>1
    <3> HIDE DEF new, rest
    <3> QED
      BY <1>1, <3>1, <3>2, <3>3, HolderKeepsQueue
  <2> QED
    BY <2>1, <2>2
<1>4. /\ selector' \in BOOLEAN
      /\ setpoint' \in Forced \cup {NoMode} /\ cached' \in Forced \cup {NoMode}
      /\ rc_left' \in -RevertAfter..Expiry
  <2>1. CASE link
    BY <1>1, <1>2, <2>1, TakesType DEF IInv, Job
  <2>2. CASE ~link
    BY <1>2, <2>2 DEF IInv, TypeOK, inverter, world
  <2> QED
    BY <2>1, <2>2 DEF IInv, TypeOK
<1>5. applied => held_spec' \in Modes /\ beat_in' = IF held_spec' \in Forced THEN Interval ELSE Off
  BY <1>1, <1>2 DEF IInv, JobsCarryModes, Phased
<1>6. beat_in' \in {Off} \cup 0..Interval /\ held_spec' \in Modes \cup {NoMode}
  <2>1. Interval \in 0..Interval
    BY RcTimingAssumption
  <2>2. CASE applied
    BY <1>5, <2>1, <2>2
  <2>3. CASE ~applied
    BY <1>2, <2>3 DEF IInv, TypeOK
  <2> QED
    BY <2>2, <2>3
<1>7. HeartbeatFollowsHeld'
  <2>1. Interval # Off
    BY RcTimingAssumption DEF Off
  <2>2. CASE applied
    BY <1>5, <2>1, <2>2 DEF HeartbeatFollowsHeld
  <2>3. CASE ~applied
    BY <1>2, <2>3 DEF IInv, HeartbeatFollowsHeld
  <2> QED
    BY <2>2, <2>3
<1>8. TypeOK'
  BY <1>2, <1>3, <1>4, <1>6 DEF TypeOK, IInv
<1> QED
  BY <1>3, <1>7, <1>8 DEF IInv

-----------------------------------------------------------------------------
(* The world *)

LEMMA PassKeepsIInv ==
    ASSUME IInv, Pass
    PROVE  IInv'
PROOF
<1>1. /\ jobs \in Seq(Job) /\ \A i \in DOMAIN jobs : jobs[i].age < MaxLag
      /\ jobs' = [i \in DOMAIN jobs |-> [jobs[i] EXCEPT !.age = @ + 1]]
      /\ beat_in # 0 /\ beat_in \in {Off} \cup 0..Interval
      /\ beat_in' = IF beat_in > Off THEN beat_in - 1 ELSE beat_in
      /\ rc_left' = IF rc_left > -RevertAfter THEN rc_left - 1 ELSE rc_left
      /\ UNCHANGED <<held_spec, closed, selector, setpoint, cached, link, outage>>
  BY DEF Pass, Countdown, world, IInv, TypeOK
<1>2. DOMAIN jobs' = DOMAIN jobs
  BY <1>1
<1>3. \A i \in DOMAIN jobs : /\ jobs'[i] \in Job
                             /\ jobs'[i].kind = jobs[i].kind
                             /\ jobs'[i].spec = jobs[i].spec
                             /\ jobs'[i].todo = jobs[i].todo
  <2>1. TAKE i \in DOMAIN jobs
  <2>2. jobs[i] \in Job /\ jobs'[i] = [jobs[i] EXCEPT !.age = @ + 1] /\ jobs[i].age < MaxLag
    BY <1>1
  <2>3. jobs[i].age + 1 \in 0..MaxLag
    BY <2>2, RcTimingAssumption DEF Job
  <2> QED
    BY <2>2, <2>3 DEF Job
<1>4. jobs' \in Seq(Job)
  BY <1>1, <1>2, <1>3
<1>5. LockHeld' /\ OneCaller' /\ JobsCarryModes' /\ OthersWriteHeld' /\ ForcedEngages'
  BY <1>1, <1>2, <1>3 DEF IInv, LockHeld, OneCaller, JobsCarryModes, OthersWriteHeld,
                          ForcedEngages
<1>6. beat_in' \in {Off} \cup 0..Interval /\ (beat_in' # Off <=> beat_in # Off)
  BY <1>1, RcTimingAssumption DEF Off
<1>7. rc_left' \in -RevertAfter..Expiry
  BY <1>1, RcTimingAssumption DEF IInv, TypeOK
<1>8. TypeOK' /\ HeartbeatFollowsHeld'
  BY <1>1, <1>4, <1>6, <1>7 DEF IInv, TypeOK, HeartbeatFollowsHeld
<1> QED
  BY <1>5, <1>8 DEF IInv

LEMMA ShutdownKeepsIInv ==
    ASSUME IInv, Shutdown
    PROVE  IInv'
PROOF
  BY DEF Shutdown, inverter, world, IInv, TypeOK, LockHeld, OneCaller, JobsCarryModes,
         OthersWriteHeld, ForcedEngages, HeartbeatFollowsHeld

LEMMA WorldKeepsIInv ==
    ASSUME IInv, Revert \/ Poll \/ LinkChange
    PROVE  IInv'
PROOF
<1>1. UNCHANGED <<jobs, held_spec, beat_in, closed, rc_left>>
  BY DEF Revert, Poll, LinkChange, driver, inverter, world
<1>2. /\ selector' \in BOOLEAN /\ link' \in BOOLEAN /\ outage' \in BOOLEAN
      /\ setpoint' \in Forced \cup {NoMode} /\ cached' \in Forced \cup {NoMode}
  BY DEF Revert, Poll, LinkChange, inverter, world, IInv, TypeOK
<1> QED
  BY <1>1, <1>2 DEF IInv, TypeOK, LockHeld, OneCaller, JobsCarryModes, OthersWriteHeld,
                    ForcedEngages, HeartbeatFollowsHeld

-----------------------------------------------------------------------------
(* The invariant *)

LEMMA InitIInv == Init => IInv
PROOF
<1>1. SUFFICES ASSUME Init PROVE IInv
  OBVIOUS
<1>2. DOMAIN jobs = {} /\ jobs \in Seq(Job)
  BY <1>1 DEF Init
<1>3. TypeOK
  <2>1. 0 \in -RevertAfter..Expiry /\ Expiry \in -RevertAfter..Expiry
    BY RcTimingAssumption
  <2>2. rc_left \in {0, Expiry} /\ setpoint \in Forced \cup {NoMode}
    BY <1>1 DEF Init
  <2> QED
    BY <1>1, <1>2, <2>1, <2>2 DEF Init, TypeOK
<1>4. HeartbeatFollowsHeld
  BY <1>1, RcModesAssumption DEF Init, HeartbeatFollowsHeld
<1> QED
  BY <1>2, <1>3, <1>4 DEF IInv, LockHeld, OneCaller, JobsCarryModes, OthersWriteHeld,
                          ForcedEngages

LEMMA NextIInv == IInv /\ [Next]_vars => IInv'
PROOF
<1>1. SUFFICES ASSUME IInv, [Next]_vars PROVE IInv'
  OBVIOUS
<1>2. CASE UNCHANGED vars
  BY <1>1, <1>2 DEF vars, driver, inverter, world, IInv, TypeOK, LockHeld, OneCaller, JobsCarryModes,
                    OthersWriteHeld, ForcedEngages, HeartbeatFollowsHeld
<1>3. CASE \E m \in Modes : Apply(m)
  BY <1>1, <1>3, ApplyKeepsIInv
<1>4. CASE Hold \/ Beat \/ Shutdown \/ Pass
  BY <1>1, <1>4, HoldKeepsIInv, BeatKeepsIInv, ShutdownKeepsIInv, PassKeepsIInv
<1>5. CASE JobStep
  BY <1>1, <1>5, AcquireKeepsIInv, CallReturnsKeepsIInv DEF JobStep
<1>6. CASE Revert \/ Poll \/ LinkChange
  BY <1>1, <1>6, WorldKeepsIInv
<1> QED
  BY <1>1, <1>2, <1>3, <1>4, <1>5, <1>6 DEF Next

LEMMA SpecIInv == Spec => []IInv
PROOF
  BY InitIInv, NextIInv, PTL DEF Spec

-----------------------------------------------------------------------------
(* Theorems *)

\* Every variable of the register driver keeps its type.
THEOREM TypeCorrect == Spec => []TypeOK
PROOF
<1>1. IInv => TypeOK
  BY DEF IInv
<1> QED
  BY SpecIInv, <1>1, PTL

\* The heartbeat never runs for a mode that does not need it, and a held forced
\* mode is never without it before shutdown.
THEOREM HeartbeatFollows == Spec => []HeartbeatFollowsHeld
PROOF
<1>1. IInv => HeartbeatFollowsHeld
  BY DEF IInv
<1> QED
  BY SpecIInv, <1>1, PTL

-----------------------------------------------------------------------------
(* The mode being applied, as a function of the queue *)

ApplyingIn(q) ==
    IF \E i \in DOMAIN q : q[i].kind = "apply"
    THEN q[CHOOSE i \in DOMAIN q : q[i].kind = "apply"].spec
    ELSE NoMode

\* With one apply_mode in the queue, it is that one's mode.
LEMMA ApplyingOne ==
    ASSUME NEW q, NEW i \in DOMAIN q, q[i].kind = "apply",
           \A j \in DOMAIN q : q[j].kind = "apply" => j = i
    PROVE  ApplyingIn(q) = q[i].spec
PROOF
<1>1. (CHOOSE j \in DOMAIN q : q[j].kind = "apply") = i
  OBVIOUS
<1> QED
  BY <1>1 DEF ApplyingIn

LEMMA ApplyingNone ==
    ASSUME NEW q, \A i \in DOMAIN q : q[i].kind # "apply"
    PROVE  ApplyingIn(q) = NoMode
PROOF
  BY DEF ApplyingIn

\* Queues with the same apply_mode, or with none, apply the same mode.
LEMMA ApplyingSame ==
    ASSUME NEW q, NEW r,
           \A i, j \in DOMAIN q : q[i].kind = "apply" /\ q[j].kind = "apply" => i = j,
           \A i, j \in DOMAIN r : r[i].kind = "apply" /\ r[j].kind = "apply" => i = j,
           \A i \in DOMAIN q : q[i].kind = "apply" =>
                \E j \in DOMAIN r : r[j].kind = "apply" /\ r[j].spec = q[i].spec,
           \A j \in DOMAIN r : r[j].kind = "apply" => \E i \in DOMAIN q : q[i].kind = "apply"
    PROVE  ApplyingIn(r) = ApplyingIn(q)
PROOF
<1>1. CASE \E i \in DOMAIN q : q[i].kind = "apply"
  <2>1. PICK i \in DOMAIN q : q[i].kind = "apply"
    BY <1>1
  <2>2. PICK j \in DOMAIN r : r[j].kind = "apply" /\ r[j].spec = q[i].spec
    BY <2>1
  <2>3. ApplyingIn(q) = q[i].spec
    BY <2>1, ApplyingOne
  <2>4. ApplyingIn(r) = r[j].spec
    BY <2>2, ApplyingOne
  <2> QED
    BY <2>2, <2>3, <2>4
<1>2. CASE ~\E i \in DOMAIN q : q[i].kind = "apply"
  <2>1. ~\E j \in DOMAIN r : r[j].kind = "apply"
    BY <1>2
  <2> QED
    BY <1>2, <2>1, ApplyingNone
<1> QED
  BY <1>1, <1>2

LEMMA ApplyingIsMode == ApplyingMode = ApplyingIn(jobs) /\ ApplyingMode' = ApplyingIn(jobs')
PROOF
  BY DEF ApplyingMode, ApplyingIn, ApplyInFlight

\* At most one apply_mode is queued, before and after a step.
LEMMA OneApply ==
    ASSUME IInv, IInv'
    PROVE  /\ \A i, j \in DOMAIN jobs :
                jobs[i].kind = "apply" /\ jobs[j].kind = "apply" => i = j
           /\ \A i, j \in DOMAIN jobs' :
                jobs'[i].kind = "apply" /\ jobs'[j].kind = "apply" => i = j
PROOF
  BY DEF IInv, OneCaller

\* A job that is not an apply_mode may come without changing the mode applied ...
LEMMA ArrivalKeepsApplying ==
    ASSUME IInv, IInv', NEW kind \in {"hold", "beat"}, NEW mode \in Modes \cup {NoMode},
           Arrive(kind, mode)
    PROVE  UNCHANGED ApplyingMode
PROOF
<1> DEFINE new == [kind |-> kind, spec |-> mode, todo |-> <<>>, age |-> 0]
<1>1. jobs \in Seq(Job) /\ jobs' = Append(jobs, new) /\ new \in Job
  BY RcTimingAssumption DEF IInv, TypeOK, Arrive, Job
<1>2. /\ DOMAIN jobs' = DOMAIN jobs \cup {Len(jobs) + 1}
      /\ \A k \in DOMAIN jobs : jobs'[k] = jobs[k]
      /\ jobs'[Len(jobs) + 1] = new /\ new.kind # "apply"
  BY <1>1, AppendTail
<1>3. /\ \A i \in DOMAIN jobs : jobs[i].kind = "apply" =>
            \E j \in DOMAIN jobs' : jobs'[j].kind = "apply" /\ jobs'[j].spec = jobs[i].spec
      /\ \A j \in DOMAIN jobs' : jobs'[j].kind = "apply" =>
            \E i \in DOMAIN jobs : jobs[i].kind = "apply"
  BY <1>2
<1>4. ApplyingIn(jobs') = ApplyingIn(jobs)
  BY <1>3, OneApply, ApplyingSame
<1> QED
  BY <1>4, ApplyingIsMode

\* ... or go, ...
LEMMA DepartureKeepsApplying ==
    ASSUME IInv, IInv', 1 \in DOMAIN jobs, jobs' = RemoveAt(jobs, 1), jobs[1].kind # "apply"
    PROVE  UNCHANGED ApplyingMode
PROOF
<1>1. jobs \in Seq(Job) /\ jobs # <<>>
  BY DEF IInv, TypeOK
<1>2. /\ Len(jobs) \in Nat /\ DOMAIN jobs = 1..Len(jobs)
      /\ DOMAIN jobs' = 1..(Len(jobs) - 1)
      /\ \A k \in DOMAIN jobs' : jobs'[k] = jobs[k + 1]
  BY <1>1, RemoveHead
<1>3. ASSUME NEW i \in DOMAIN jobs, jobs[i].kind = "apply"
      PROVE  \E j \in DOMAIN jobs' : jobs'[j].kind = "apply" /\ jobs'[j].spec = jobs[i].spec
  <2>1. i # 1
    BY <1>3
  <2>2. i - 1 \in DOMAIN jobs' /\ jobs'[i - 1] = jobs[i]
    BY <1>2, <2>1
  <2> QED
    BY <1>3, <2>2
<1>4. ASSUME NEW j \in DOMAIN jobs', jobs'[j].kind = "apply"
      PROVE  \E i \in DOMAIN jobs : jobs[i].kind = "apply"
  <2>1. j + 1 \in DOMAIN jobs /\ jobs[j + 1].kind = "apply"
    BY <1>2, <1>4
  <2> QED
    BY <2>1
<1>5. ApplyingIn(jobs') = ApplyingIn(jobs)
  BY <1>3, <1>4, OneApply, ApplyingSame
<1> QED
  BY <1>5, ApplyingIsMode

\* ... and so may any job go on.
LEMMA ProgressKeepsApplying ==
    ASSUME IInv, IInv', DOMAIN jobs' = DOMAIN jobs,
           \A i \in DOMAIN jobs : /\ jobs'[i].kind = jobs[i].kind
                                  /\ (jobs[i].kind = "apply" => jobs'[i].spec = jobs[i].spec)
    PROVE  UNCHANGED ApplyingMode
PROOF
<1>1. /\ \A i \in DOMAIN jobs : jobs[i].kind = "apply" =>
            \E j \in DOMAIN jobs' : jobs'[j].kind = "apply" /\ jobs'[j].spec = jobs[i].spec
      /\ \A j \in DOMAIN jobs' : jobs'[j].kind = "apply" =>
            \E i \in DOMAIN jobs : jobs[i].kind = "apply"
  OBVIOUS
<1>2. ApplyingIn(jobs') = ApplyingIn(jobs)
  BY <1>1, OneApply, ApplyingSame
<1> QED
  BY <1>2, ApplyingIsMode

-----------------------------------------------------------------------------
(* The promise *)

\* A write drives the inverter only for the mode it belongs to.
LEMMA TakesDrives ==
    ASSUME TypeOK, NEW w \in Writes, NEW mode, Takes(w, mode), Driving', ~Driving
    PROVE  w \in {"engage", "setpoint"}
PROOF
<1>1. SUFFICES ASSUME w \notin {"engage", "setpoint"} PROVE FALSE
  OBVIOUS
<1>2. rc_left' = rc_left
  BY <1>1 DEF Takes
<1>3. selector' => selector
  BY <1>1 DEF Takes
<1>4. setpoint' # NoMode => setpoint' = setpoint
  BY <1>1 DEF Takes, Writes
<1> QED
  BY <1>2, <1>3, <1>4 DEF Driving, TypeOK

LEMMA DrivingType == TypeOK => Driving \in BOOLEAN
PROOF
  BY DEF TypeOK, Driving

\* A step that leaves what is held and applied alone, and drives only for one of
\* them, is a refresh.
LEMMA RefreshStep ==
    ASSUME IInv, IInv', UNCHANGED <<held_spec, ApplyingMode>>,
           Driving' => Driving \/ {held_spec, ApplyingMode} \cap Forced # {}
    PROVE  Promise!Refresh
PROOF
<1>1. Driving \in BOOLEAN /\ Driving' \in BOOLEAN
  BY DrivingType DEF IInv, TypeOK, Driving
<1> QED
  BY <1>1 DEF Promise!Refresh, Promise!Drive

LEMMA ApplyKeepsPromise ==
    ASSUME IInv, IInv', NEW mode \in Modes, Apply(mode)
    PROVE  Promise!Begin(mode)
PROOF
<1> DEFINE new == [kind |-> "apply", spec |-> mode, todo |-> <<>>, age |-> 0]
           n == Len(jobs) + 1
<1>1. /\ jobs \in Seq(Job) /\ jobs' = Append(jobs, new) /\ new \in Job
      /\ UNCHANGED <<held_spec, selector, setpoint, rc_left>>
      /\ \A i \in DOMAIN jobs : jobs[i].kind = "beat"
  BY RcTimingAssumption DEF IInv, TypeOK, Apply, Arrive, Job, CallerIdle, driver, inverter, world
<1>2. /\ n \in DOMAIN jobs' /\ jobs'[n] = new
      /\ \A k \in DOMAIN jobs' : k # n => k \in DOMAIN jobs /\ jobs'[k] = jobs[k]
  BY <1>1, AppendTail
<1>3. ApplyingIn(jobs) = NoMode
  BY <1>1, ApplyingNone
<1>4. ApplyingIn(jobs') = mode
  <2>1. \A k \in DOMAIN jobs' : jobs'[k].kind = "apply" => k = n
    BY <1>1, <1>2
  <2>2. jobs'[n].kind = "apply" /\ jobs'[n].spec = mode
    BY <1>2
  <2> HIDE DEF n
  <2> QED
    BY <1>2, <2>1, <2>2, ApplyingOne
<1>5. Driving \in BOOLEAN /\ Driving' = Driving
  BY <1>1, DrivingType DEF IInv, Driving
<1> QED
  BY <1>1, <1>3, <1>4, <1>5, ApplyingIsMode DEF Promise!Begin, Promise!Drive

LEMMA AcquireKeepsPromise ==
    ASSUME IInv, IInv', NEW i \in DOMAIN jobs, Acquire(i)
    PROVE  Promise!Refresh
PROOF
<1> DEFINE mode == IF jobs[1].kind = "beat" THEN held_spec ELSE jobs[1].spec
           todo == IF jobs[1].kind = "apply" THEN ModeWrites(mode) ELSE Refresh(mode)
<1>1. /\ 1 \in DOMAIN jobs /\ jobs \in Seq(Job) /\ jobs[1] \in Job
      /\ UNCHANGED <<selector, setpoint, rc_left>>
      /\ held_spec' = IF jobs[1].kind = "hold" THEN mode ELSE held_spec
      /\ jobs' = IF todo = <<>> THEN RemoveAt(jobs, 1)
                 ELSE [jobs EXCEPT ![1].spec = mode, ![1].todo = todo]
  BY DEF Acquire, Holder, IInv, TypeOK, inverter, world
<1>2. UNCHANGED held_spec
  BY <1>1 DEF IInv, OthersWriteHeld
<1>3. UNCHANGED ApplyingMode
  <2>1. CASE todo = <<>>
    <3>1. jobs[1].kind # "apply"
      BY <1>1, <2>1, ModeWritesFact DEF IInv, JobsCarryModes
    <3> QED
      BY <1>1, <2>1, <3>1, DepartureKeepsApplying
  <2>2. CASE todo # <<>>
    <3> DEFINE new == [jobs[1] EXCEPT !.spec = mode, !.todo = todo]
    <3>1. new.kind = jobs[1].kind /\ (jobs[1].kind = "apply" => new.spec = jobs[1].spec)
      BY <1>1 DEF Job
    <3>2. jobs' = [jobs EXCEPT ![1] = new]
      BY <1>1, <2>2
    <3> HIDE DEF new, todo
    <3>3. /\ DOMAIN jobs' = DOMAIN jobs /\ jobs'[1] = new
          /\ \A k \in DOMAIN jobs : k # 1 => jobs'[k] = jobs[k]
      BY <1>1, <3>2
    <3> QED
      BY <3>1, <3>3, ProgressKeepsApplying
  <2> QED
    BY <2>1, <2>2
<1>4. Driving' = Driving
  BY <1>1 DEF Driving
<1> QED
  BY <1>2, <1>3, <1>4, RefreshStep

\* A write that returns belongs to the mode held or applied; only the last one of an
\* apply_mode changes which these are.
LEMMA WriteKeepsApplying ==
    ASSUME IInv, IInv', NEW i \in DOMAIN jobs, CallReturns(i)
    PROVE  /\ jobs[1].kind = "apply" => ApplyingMode = jobs[1].spec /\ ApplyingMode # NoMode
           /\ jobs[1].kind # "apply" => jobs[1].spec = held_spec
           /\ IF Tail(jobs[1].todo) = <<>> /\ jobs[1].kind = "apply"
              THEN held_spec' = jobs[1].spec /\ ApplyingMode' = NoMode
              ELSE UNCHANGED <<held_spec, ApplyingMode>>
PROOF
<1> DEFINE job == jobs[1]
           rest == Tail(job.todo)
           applied == rest = <<>> /\ job.kind = "apply"
<1>1. /\ i = 1 /\ job \in Job /\ 1 \in DOMAIN jobs
      /\ job.kind # "apply" => job.spec = held_spec
  BY WriterFact
<1>2. /\ jobs' = IF rest = <<>> THEN RemoveAt(jobs, 1) ELSE [jobs EXCEPT ![1].todo = rest]
      /\ held_spec' = IF applied THEN job.spec ELSE held_spec
  BY <1>1 DEF CallReturns, world
<1>3. job.kind = "apply" => ApplyingMode = job.spec /\ job.spec # NoMode
  <2>1. job.kind = "apply" => ApplyingMode = job.spec
    BY <1>1, OneApply, ApplyingOne, ApplyingIsMode
  <2>2. job.kind = "apply" => job.spec # NoMode
    BY <1>1, RcModesAssumption DEF IInv, JobsCarryModes
  <2> QED
    BY <2>1, <2>2
<1>4. CASE applied
  <2>1. jobs' = RemoveAt(jobs, 1) /\ held_spec' = job.spec
    BY <1>2, <1>4
  <2>2. \A k \in DOMAIN jobs' : jobs'[k].kind # "apply"
    <3>1. jobs \in Seq(Job) /\ jobs # <<>>
      BY <1>1 DEF IInv, TypeOK
    <3>2. \A k \in DOMAIN jobs' : jobs'[k] = jobs[k + 1] /\ k + 1 \in DOMAIN jobs /\ k + 1 # 1
      BY <2>1, <3>1, RemoveHead
    <3> QED
      BY <1>1, <1>4, <3>2, OneApply
  <2>3. ApplyingMode' = NoMode
    BY <2>2, ApplyingNone, ApplyingIsMode
  <2> QED
    BY <1>1, <1>3, <1>4, <2>1, <2>3
<1>5. CASE ~applied
  <2>1. UNCHANGED held_spec
    BY <1>2, <1>5
  <2>2. UNCHANGED ApplyingMode
    <3>1. CASE rest = <<>>
      BY <1>1, <1>2, <1>5, <3>1, DepartureKeepsApplying
    <3>2. CASE rest # <<>>
      <4> DEFINE new == [job EXCEPT !.todo = rest]
      <4>1. new.kind = jobs[1].kind /\ new.spec = jobs[1].spec
        BY <1>1 DEF Job
      <4>2. jobs' = [jobs EXCEPT ![1] = new] /\ jobs \in Seq(Job)
        BY <1>2, <3>2 DEF IInv, TypeOK
      <4> HIDE DEF new, rest
      <4>3. /\ DOMAIN jobs' = DOMAIN jobs /\ jobs'[1] = new
            /\ \A k \in DOMAIN jobs : k # 1 => jobs'[k] = jobs[k]
        BY <1>1, <4>2
      <4> QED
        BY <4>1, <4>3, ProgressKeepsApplying
    <3> QED
      BY <3>1, <3>2
  <2> QED
    BY <1>1, <1>3, <1>5, <2>1, <2>2
<1> QED
  BY <1>4, <1>5

LEMMA CallReturnsKeepsPromise ==
    ASSUME IInv, IInv', NEW i \in DOMAIN jobs, CallReturns(i)
    PROVE  Promise!Refresh \/ Promise!Finish
PROOF
<1> DEFINE job == jobs[1]
           applied == Tail(job.todo) = <<>> /\ job.kind = "apply"
<1>1. /\ Head(job.todo) \in Writes
      /\ Head(job.todo) \in {"engage", "setpoint"} => job.spec \in Forced
  BY WriterFact
<1>2. IF link THEN Takes(Head(job.todo), job.spec) ELSE UNCHANGED inverter
  BY WriterFact DEF CallReturns
<1>3. /\ job.kind = "apply" => ApplyingMode = job.spec /\ ApplyingMode # NoMode
      /\ job.spec \in {held_spec, ApplyingMode}
      /\ IF applied THEN held_spec' = job.spec /\ ApplyingMode' = NoMode
                    ELSE UNCHANGED <<held_spec, ApplyingMode>>
  BY WriteKeepsApplying
<1>4. Driving' => Driving \/ {held_spec, ApplyingMode} \cap Forced # {}
  <2>1. SUFFICES ASSUME Driving', ~Driving PROVE job.spec \in Forced
    BY <1>3
  <2>2. CASE link
    BY <1>1, <1>2, <2>1, <2>2, TakesDrives DEF IInv
  <2>3. CASE ~link
    BY <1>2, <2>1, <2>3 DEF Driving, inverter, world
  <2> QED
    BY <2>2, <2>3 DEF IInv, TypeOK
<1>5. CASE applied
  <2>1. Driving \in BOOLEAN /\ Driving' \in BOOLEAN
    BY DrivingType DEF IInv, TypeOK, Driving
  <2>2. Promise!Drive
    BY <1>4, <2>1 DEF Promise!Drive
  <2> QED
    BY <1>3, <1>5, <2>2 DEF Promise!Finish
<1>6. CASE ~applied
  BY <1>3, <1>4, <1>6, RefreshStep
<1> QED
  BY <1>5, <1>6

\* Steps that neither come to the lock nor leave it.
LEMMA OthersKeepPromise ==
    ASSUME IInv, IInv', Hold \/ Beat \/ Shutdown \/ Revert \/ Poll \/ LinkChange \/ Pass
    PROVE  Promise!Refresh
PROOF
<1>1. UNCHANGED held_spec
  BY DEF Hold, Beat, Shutdown, Revert, Poll, LinkChange, Pass, driver, inverter, world
<1>2. UNCHANGED ApplyingMode
  <2>1. CASE Hold
    BY <2>1, ArrivalKeepsApplying DEF Hold, IInv, TypeOK
  <2>2. CASE Beat
    BY <2>2, ArrivalKeepsApplying DEF Beat
  <2>3. CASE Shutdown \/ Revert \/ Poll \/ LinkChange
    <3>1. UNCHANGED jobs
      BY <2>3 DEF Shutdown, Revert, Poll, LinkChange
    <3> QED
      BY <3>1, ApplyingIsMode
  <2>4. CASE Pass
    <3>1. /\ jobs' = [i \in DOMAIN jobs |-> [jobs[i] EXCEPT !.age = @ + 1]]
          /\ \A i \in DOMAIN jobs : jobs[i] \in Job
      BY <2>4 DEF Pass, IInv, TypeOK
    <3>2. \A i \in DOMAIN jobs : jobs'[i].kind = jobs[i].kind /\ jobs'[i].spec = jobs[i].spec
      BY <3>1 DEF Job
    <3> QED
      BY <3>1, <3>2, ProgressKeepsApplying
  <2> QED
    BY <2>1, <2>2, <2>3, <2>4
<1>3. Driving' => Driving
  <2>1. CASE Pass
    <3>1. /\ UNCHANGED <<selector, setpoint>>
          /\ rc_left' = IF rc_left > -RevertAfter THEN rc_left - 1 ELSE rc_left
      BY <2>1 DEF Pass, Countdown
    <3>2. rc_left' > 0 => rc_left > 0
      BY <3>1, RcTimingAssumption DEF IInv, TypeOK
    <3> QED
      BY <3>1, <3>2 DEF Driving
  <2>2. CASE Revert
    BY <2>2 DEF Revert, Driving
  <2>3. CASE Hold \/ Beat \/ Shutdown \/ Poll \/ LinkChange
    <3>1. UNCHANGED <<selector, setpoint, rc_left>>
      BY <2>3 DEF Hold, Beat, Shutdown, Poll, LinkChange, inverter, world
    <3> QED
      BY <3>1 DEF Driving
  <2> QED
    BY <2>1, <2>2, <2>3
<1> QED
  BY <1>1, <1>2, <1>3, RefreshStep

LEMMA InitPromise == Init => Promise!Init
PROOF
<1>1. SUFFICES ASSUME Init PROVE Promise!Init
  OBVIOUS
<1>2. IInv
  BY <1>1, InitIInv
<1>3. DOMAIN jobs = {} /\ held_spec = NoMode
  BY <1>1 DEF Init
<1>4. ApplyingMode = NoMode
  BY <1>3 DEF ApplyingMode, ApplyInFlight
<1> QED
  BY <1>2, <1>3, <1>4, DrivingType DEF Promise!Init, IInv

\* The register driver implements the promise: an RC function that was stood down is
\* never brought back by a beat, a hold or a write that arrives late.
THEOREM ImplementsPromise == Spec => KeepsPromise
PROOF
<1>1. IInv /\ IInv' /\ [Next]_vars => [Promise!Next]_(Promise!vars)
  <2>1. SUFFICES ASSUME IInv, IInv', [Next]_vars PROVE [Promise!Next]_(Promise!vars)
    OBVIOUS
  <2>2. CASE UNCHANGED vars
    <3>1. UNCHANGED <<jobs, held_spec, selector, setpoint, rc_left>>
      BY <2>2 DEF vars, driver, inverter, world
    <3> QED
      BY <3>1 DEF Promise!vars, ApplyingMode, ApplyInFlight, Driving
  <2>3. CASE \E m \in Modes : Apply(m)
    BY <2>1, <2>3, ApplyKeepsPromise DEF Promise!Next
  <2>4. CASE JobStep
    BY <2>1, <2>4, AcquireKeepsPromise, CallReturnsKeepsPromise DEF JobStep, Promise!Next
  <2>5. CASE Hold \/ Beat \/ Shutdown \/ Revert \/ Poll \/ LinkChange \/ Pass
    BY <2>1, <2>5, OthersKeepPromise DEF Promise!Next
  <2> QED
    BY <2>1, <2>2, <2>3, <2>4, <2>5 DEF Next
<1> QED
  BY <1>1, InitPromise, SpecIInv, PTL DEF Spec, KeepsPromise, Promise!Spec

-----------------------------------------------------------------------------
(* What is left of a sequence after each of its writes *)

\* The sequences of a mode, write by write.
LEMMA EngageRest ==
    /\ <<"registers">> \o Engage = <<"registers", "engage", "timeout", "setpoint">>
    /\ Head(<<"registers">> \o Engage) = "registers" /\ Tail(<<"registers">> \o Engage) = Engage
    /\ Head(Engage) = "engage" /\ Tail(Engage) = <<"timeout", "setpoint">>
    /\ Head(<<"timeout", "setpoint">>) = "timeout" /\ Tail(<<"timeout", "setpoint">>) = <<"setpoint">>
    /\ Head(<<"setpoint">>) = "setpoint" /\ Tail(<<"setpoint">>) = <<>>
PROOF
<1> DEFINE all == <<"registers", "engage", "timeout", "setpoint">>
<1>1. /\ all \in Seq(Writes) /\ Engage \in Seq(Writes) /\ <<"timeout", "setpoint">> \in Seq(Writes)
      /\ <<"setpoint">> \in Seq(Writes) /\ <<>> \in Seq(Writes)
  BY DEF Writes, Engage
<1>2. <<"registers">> \o Engage = all /\ Head(all) = "registers" /\ Tail(all) = Engage
  <2>1. "registers" \in Writes /\ Len(all) = Len(Engage) + 1 /\ all[1] = "registers"
    BY DEF Writes, Engage
  <2>2. \A k \in 1..Len(Engage) : all[k + 1] = Engage[k]
    BY DEF Engage
  <2> HIDE DEF all
  <2> QED
    BY <1>1, <2>1, <2>2, ConsIs
<1>3. Head(Engage) = "engage" /\ Tail(Engage) = <<"timeout", "setpoint">>
  <2>1. /\ "engage" \in Writes /\ Len(Engage) = Len(<<"timeout", "setpoint">>) + 1 /\ Engage[1] = "engage"
        /\ \A k \in 1..Len(<<"timeout", "setpoint">>) : Engage[k + 1] = <<"timeout", "setpoint">>[k]
    BY DEF Writes, Engage
  <2> QED
    BY <1>1, <2>1, ConsIs
<1>4. Head(<<"timeout", "setpoint">>) = "timeout" /\ Tail(<<"timeout", "setpoint">>) = <<"setpoint">>
  OBVIOUS
<1>5. Head(<<"setpoint">>) = "setpoint" /\ Tail(<<"setpoint">>) = <<>>
  OBVIOUS
<1> QED
  BY <1>2, <1>3, <1>4, <1>5

LEMMA ReleaseRest ==
    /\ <<"registers">> \o Disengage = <<"registers", "zero", "disengage">>
    /\ Head(<<"registers">> \o Disengage) = "registers" /\ Tail(<<"registers">> \o Disengage) = Disengage
    /\ Head(Disengage) = "zero" /\ Tail(Disengage) = <<"disengage">>
    /\ Head(<<"disengage">>) = "disengage" /\ Tail(<<"disengage">>) = <<>>
PROOF
<1> DEFINE all == <<"registers", "zero", "disengage">>
<1>1. all \in Seq(Writes) /\ Disengage \in Seq(Writes)
  BY DEF Writes, Disengage
<1>2. <<"registers">> \o Disengage = all /\ Head(all) = "registers" /\ Tail(all) = Disengage
  <2>1. "registers" \in Writes /\ Len(all) = Len(Disengage) + 1 /\ all[1] = "registers"
    BY DEF Writes, Disengage
  <2>2. \A k \in 1..Len(Disengage) : all[k + 1] = Disengage[k]
    BY DEF Disengage
  <2> HIDE DEF all
  <2> QED
    BY <1>1, <2>1, <2>2, ConsIs
<1>3. Head(Disengage) = "zero" /\ Tail(Disengage) = <<"disengage">>
  BY DEF Disengage
<1>4. Head(<<"disengage">>) = "disengage" /\ Tail(<<"disengage">>) = <<>>
  OBVIOUS
<1> QED
  BY <1>2, <1>3, <1>4

\* A sequence begun with its first or second write is past neither.
LEMMA RestsApart ==
    ASSUME NEW t \in {Engage, Disengage, <<"registers">> \o Engage, <<"registers">> \o Disengage}
    PROVE  t \notin {<<"timeout", "setpoint">>, <<"setpoint">>, <<"disengage">>, <<>>}
PROOF
<1>1. Engage \notin {<<"timeout", "setpoint">>, <<"setpoint">>, <<"disengage">>, <<>>}
  BY DEF Engage
<1>2. Disengage \notin {<<"timeout", "setpoint">>, <<"setpoint">>, <<"disengage">>, <<>>}
  BY DEF Disengage
<1>3. <<"registers">> \o Engage \notin {<<"timeout", "setpoint">>, <<"setpoint">>, <<"disengage">>, <<>>}
  BY EngageRest
<1>4. <<"registers">> \o Disengage \notin {<<"timeout", "setpoint">>, <<"setpoint">>, <<"disengage">>, <<>>}
  BY ReleaseRest
<1> QED
  BY <1>1, <1>2, <1>3, <1>4

LEMMA ShortRestsApart ==
    /\ <<"timeout", "setpoint">> \notin {<<"setpoint">>, <<"disengage">>, <<>>}
    /\ <<"setpoint">> \notin {<<"disengage">>, <<>>}
    /\ <<"disengage">> # <<>>
PROOF
  OBVIOUS

LEMMA EngageWrites ==
    ASSUME NEW t \in EngageRests
    PROVE  /\ t # <<>>
           /\ \/ Head(t) = "registers" /\ Tail(t) = Engage
              \/ Head(t) = "engage" /\ Tail(t) = <<"timeout", "setpoint">>
              \/ Head(t) = "timeout" /\ Tail(t) = <<"setpoint">> /\ t = <<"timeout", "setpoint">>
              \/ Head(t) = "setpoint" /\ Tail(t) = <<>> /\ t = <<"setpoint">>
PROOF
<1>1. CASE t = <<"registers">> \o Engage
  BY <1>1, EngageRest, RestsApart
<1>2. CASE t = Engage
  BY <1>2, EngageRest, RestsApart
<1>3. CASE t = <<"timeout", "setpoint">>
  BY <1>3, EngageRest, ShortRestsApart
<1>4. CASE t = <<"setpoint">>
  BY <1>4, EngageRest, ShortRestsApart
<1> QED
  BY <1>1, <1>2, <1>3, <1>4 DEF EngageRests

LEMMA ReleaseWrites ==
    ASSUME NEW t \in ReleaseRests
    PROVE  /\ t # <<>>
           /\ \/ Head(t) = "registers" /\ Tail(t) = Disengage
              \/ Head(t) = "zero" /\ Tail(t) = <<"disengage">>
              \/ Head(t) = "disengage" /\ Tail(t) = <<>> /\ t = <<"disengage">>
PROOF
<1>1. CASE t = <<"registers">> \o Disengage
  BY <1>1, ReleaseRest, RestsApart
<1>2. CASE t = Disengage
  BY <1>2, ReleaseRest, RestsApart
<1>3. CASE t = <<"disengage">>
  BY <1>3, ReleaseRest
<1> QED
  BY <1>1, <1>2, <1>3 DEF ReleaseRests

LEMMA FullSequences ==
    ASSUME NEW mode \in Modes
    PROVE  /\ mode \in Forced => ModeWrites(mode) = <<"registers">> \o Engage /\ Refresh(mode) = Engage
           /\ mode \notin Forced => ModeWrites(mode) = <<"registers">> \o Disengage /\ Refresh(mode) = <<>>
PROOF
  BY DEF ModeWrites, Refresh

-----------------------------------------------------------------------------
(* The queue around a write *)

\* Whoever asks for the lock has written nothing yet, and a beat that is queued stays.
LEMMA ArrivalQueue ==
    ASSUME TypeOK, NEW kind \in {"apply", "hold", "beat"}, NEW mode \in Modes \cup {NoMode},
           Arrive(kind, mode)
    PROVE  /\ \A k \in DOMAIN jobs' :
                \/ jobs'[k].todo = <<>>
                \/ k \in DOMAIN jobs /\ jobs'[k] = jobs[k]
           /\ \A k \in DOMAIN jobs : k \in DOMAIN jobs' /\ jobs'[k] = jobs[k]
           /\ \E k \in DOMAIN jobs' : jobs'[k].kind = kind /\ jobs'[k].age = 0
PROOF
<1> DEFINE new == [kind |-> kind, spec |-> mode, todo |-> <<>>, age |-> 0]
<1>1. new \in Job /\ jobs \in Seq(Job) /\ jobs' = Append(jobs, new)
  BY RcTimingAssumption DEF TypeOK, Job, Arrive
<1>2. new.todo = <<>> /\ new.kind = kind /\ new.age = 0
  OBVIOUS
<1> HIDE DEF new
<1>3. /\ DOMAIN jobs' = DOMAIN jobs \cup {Len(jobs) + 1}
      /\ \A k \in DOMAIN jobs : jobs'[k] = jobs[k]
      /\ jobs'[Len(jobs) + 1] = new
  BY <1>1, AppendTail
<1> QED
  BY <1>2, <1>3

\* A write that returns leaves the holder with the rest of its sequence, or lets it go.
LEMMA WriteQueue ==
    ASSUME IInv, NEW i \in DOMAIN jobs, CallReturns(i)
    PROVE  /\ \A k \in DOMAIN jobs' : jobs'[k].todo # <<>> =>
                /\ Tail(jobs[1].todo) # <<>>
                /\ jobs'[k].todo = Tail(jobs[1].todo)
                /\ jobs'[k].spec = jobs[1].spec /\ jobs'[k].age = jobs[1].age
           /\ \A k \in DOMAIN jobs : k # 1 \/ Tail(jobs[1].todo) # <<>> =>
                \E j \in DOMAIN jobs' : jobs'[j].kind = jobs[k].kind /\ jobs'[j].age = jobs[k].age
PROOF
<1> DEFINE job == jobs[1]
           rest == Tail(job.todo)
<1>1. /\ i = 1 /\ job \in Job /\ 1 \in DOMAIN jobs /\ jobs \in Seq(Job) /\ jobs # <<>>
      /\ jobs' = IF rest = <<>> THEN RemoveAt(jobs, 1) ELSE [jobs EXCEPT ![1].todo = rest]
      /\ \A k \in DOMAIN jobs : k # 1 => jobs[k].todo = <<>>
  <2>1. i = 1 /\ job \in Job /\ 1 \in DOMAIN jobs
    BY WriterFact
  <2>2. jobs \in Seq(Job) /\ jobs # <<>> /\ \A k \in DOMAIN jobs : k # 1 => jobs[k].todo = <<>>
    BY <2>1 DEF IInv, TypeOK, LockHeld
  <2> QED
    BY <2>1, <2>2 DEF CallReturns
<1>2. CASE rest = <<>>
  <2>1. /\ DOMAIN jobs = 1..Len(jobs) /\ Len(jobs) \in Nat /\ DOMAIN jobs' = 1..(Len(jobs) - 1)
        /\ \A k \in DOMAIN jobs' : jobs'[k] = jobs[k + 1]
    BY <1>1, <1>2, RemoveHead
  <2>2. ASSUME NEW k \in DOMAIN jobs' PROVE jobs'[k].todo = <<>>
    <3>1. k + 1 \in DOMAIN jobs /\ k + 1 # 1
      BY <2>1
    <3> QED
      BY <1>1, <2>1, <3>1
  <2>3. ASSUME NEW k \in DOMAIN jobs, k # 1
        PROVE  \E j \in DOMAIN jobs' : jobs'[j].kind = jobs[k].kind /\ jobs'[j].age = jobs[k].age
    <3>1. k - 1 \in DOMAIN jobs' /\ jobs'[k - 1] = jobs[k]
      BY <2>1, <2>3
    <3> QED
      BY <3>1
  <2> QED
    BY <1>2, <2>2, <2>3
<1>3. CASE rest # <<>>
  <2> DEFINE new == [job EXCEPT !.todo = rest]
  <2>1. /\ new.kind = job.kind /\ new.spec = job.spec /\ new.age = job.age /\ new.todo = rest
    BY <1>1 DEF Job
  <2>2. jobs' = [jobs EXCEPT ![1] = new]
    BY <1>1, <1>3
  <2> HIDE DEF new, rest
  <2>3. /\ DOMAIN jobs' = DOMAIN jobs /\ jobs'[1] = new
        /\ \A k \in DOMAIN jobs : k # 1 => jobs'[k] = jobs[k]
    BY <1>1, <2>2
  <2>4. \A k \in DOMAIN jobs' : jobs'[k].todo # <<>> => k = 1
    BY <1>1, <2>3
  <2>5. \A k \in DOMAIN jobs : jobs'[k].kind = jobs[k].kind /\ jobs'[k].age = jobs[k].age
    BY <2>1, <2>3
  <2> QED
    BY <1>3, <2>1, <2>3, <2>4, <2>5 DEF rest
<1> QED
  BY <1>2, <1>3

-----------------------------------------------------------------------------
(* The deadman *)

\* What the write that returns does, and what the invariant knew of it.
LEMMA WriteFact ==
    ASSUME DeadmanInv, NEW i \in DOMAIN jobs, CallReturns(i)
    PROVE  /\ jobs[1].spec \in Forced => jobs[1].todo \in EngageRests
           /\ jobs[1].spec \notin Forced => jobs[1].todo \in ReleaseRests
           /\ 1 \in DOMAIN jobs /\ jobs[1] \in Job
           /\ IF link THEN Takes(Head(jobs[1].todo), jobs[1].spec) ELSE UNCHANGED inverter
           /\ held_spec' = IF Tail(jobs[1].todo) = <<>> /\ jobs[1].kind = "apply"
                           THEN jobs[1].spec ELSE held_spec
           /\ beat_in' = IF Tail(jobs[1].todo) = <<>> /\ jobs[1].kind = "apply"
                         THEN Phased(jobs[1].spec) ELSE beat_in
           /\ UNCHANGED <<closed, link, outage>>
           /\ jobs[1].kind # "apply" => jobs[1].spec = held_spec
PROOF
<1>1. i = 1 /\ jobs[1] \in Job /\ 1 \in DOMAIN jobs /\ (jobs[1].kind # "apply" => jobs[1].spec = held_spec)
  BY WriterFact DEF DeadmanInv
<1>2. jobs[1].todo # <<>>
  BY <1>1 DEF CallReturns
<1> QED
  BY <1>1, <1>2 DEF DeadmanInv, WritesInOrder, CallReturns, world

LEMMA WriteKeepsOrder ==
    ASSUME DeadmanInv, NEW i \in DOMAIN jobs, CallReturns(i)
    PROVE  WritesInOrder'
PROOF
<1> DEFINE rest == Tail(jobs[1].todo)
<1>1. rest = <<>> \/ rest \in IF jobs[1].spec \in Forced THEN EngageRests ELSE ReleaseRests
  BY WriteFact, EngageWrites, ReleaseWrites DEF EngageRests, ReleaseRests
<1>2. \A k \in DOMAIN jobs' : jobs'[k].todo # <<>> =>
        jobs'[k].todo = rest /\ jobs'[k].spec = jobs[1].spec /\ rest # <<>>
  BY WriteQueue DEF DeadmanInv
<1> HIDE DEF rest
<1> QED
  BY <1>1, <1>2 DEF WritesInOrder

LEMMA WriteKeepsShown ==
    ASSUME DeadmanInv, NEW i \in DOMAIN jobs, CallReturns(i)
    PROVE  SetpointShown'
PROOF
<1>1. CASE link
  BY <1>1, WriteFact DEF Takes, SetpointShown, DeadmanInv
<1>2. CASE ~link
  BY <1>2, WriteFact DEF inverter, SetpointShown, DeadmanInv
<1> QED
  BY <1>1, <1>2 DEF DeadmanInv, IInv, TypeOK

\* Over a working link, the registers after each write of a sequence.
LEMMA WriteEffect ==
    ASSUME DeadmanInv, NEW i \in DOMAIN jobs, CallReturns(i), ~outage
    PROVE  /\ Head(jobs[1].todo) \in {"registers", "timeout"} =>
                UNCHANGED <<selector, setpoint, rc_left>>
           /\ Head(jobs[1].todo) = "engage" =>
                /\ selector' /\ UNCHANGED setpoint /\ rc_left' >= 1
                /\ (selector /\ rc_left > 0) => rc_left' = rc_left
           /\ Head(jobs[1].todo) = "setpoint" =>
                jobs[1].spec \in Forced /\ selector' /\ setpoint' = jobs[1].spec /\ rc_left' = Expiry
           /\ Head(jobs[1].todo) = "zero" => setpoint' = NoMode
           /\ Head(jobs[1].todo) = "disengage" => setpoint' = NoMode /\ ~selector'
PROOF
<1> DEFINE w == Head(jobs[1].todo)
           m == jobs[1].spec
<1>1. Takes(w, m) /\ link
  BY WriteFact DEF DeadmanInv
<1>2. /\ selector \in BOOLEAN /\ rc_left \in Int /\ Expiry \in Nat \ {0}
      /\ NoMode \notin Forced
  BY RcTimingAssumption, RcModesAssumption DEF DeadmanInv, IInv, TypeOK
<1>3. w = "setpoint" => m \in Forced /\ selector
  <2>1. SUFFICES ASSUME w = "setpoint" PROVE m \in Forced /\ selector
    OBVIOUS
  <2>2. m \in Forced /\ jobs[1].todo = <<"setpoint">>
    BY <2>1, WriteFact, EngageWrites, ReleaseWrites
  <2> QED
    BY <2>2, WriteFact DEF DeadmanInv, SequenceHolds
<1>4. w = "disengage" => setpoint = NoMode
  <2>1. SUFFICES ASSUME w = "disengage" PROVE setpoint = NoMode
    OBVIOUS
  <2>2. jobs[1].todo = <<"disengage">>
    BY <2>1, WriteFact, EngageWrites, ReleaseWrites
  <2> QED
    BY <2>2, WriteFact DEF DeadmanInv, SequenceHolds
<1>5. setpoint # NoMode => cached = setpoint
  BY DEF DeadmanInv, SetpointShown
<1> HIDE DEF w, m
<1>6. w \in {"registers", "timeout"} => UNCHANGED <<selector, setpoint, rc_left>>
  BY <1>1 DEF Takes
<1>7. w = "engage" => /\ selector' /\ UNCHANGED setpoint /\ rc_left' >= 1
                      /\ (selector /\ rc_left > 0) => rc_left' = rc_left
  BY <1>1, <1>2 DEF Takes
<1>8. w = "setpoint" => m \in Forced /\ selector' /\ setpoint' = m /\ rc_left' = Expiry
  BY <1>1, <1>2, <1>3 DEF Takes, Renews
<1>9. w = "zero" => setpoint' = NoMode
  BY <1>1, <1>2, <1>5 DEF Takes, Renews
<1>10. w = "disengage" => setpoint' = NoMode /\ ~selector'
  BY <1>1, <1>4 DEF Takes
<1> QED
  BY <1>6, <1>7, <1>8, <1>9, <1>10 DEF w, m

LEMMA WriteKeepsSequence ==
    ASSUME DeadmanInv, NEW i \in DOMAIN jobs, CallReturns(i)
    PROVE  ZeroUnlessEngaged' /\ SequenceHolds'
PROOF
<1> DEFINE t == jobs[1].todo
<1>1. SUFFICES ASSUME ~outage PROVE ZeroUnlessEngaged' /\ SequenceHolds'
  BY WriteFact DEF ZeroUnlessEngaged, SequenceHolds
<1>2. selector \/ setpoint = NoMode
  BY <1>1 DEF DeadmanInv, ZeroUnlessEngaged
<1>3. t \in EngageRests \/ t \in ReleaseRests
  BY WriteFact
<1>4. ZeroUnlessEngaged'
  <2>1. Head(t) \in {"registers", "engage", "timeout", "setpoint", "zero", "disengage"}
    BY <1>3, EngageWrites, ReleaseWrites
  <2> QED
    BY <1>1, <1>2, <2>1, WriteEffect DEF ZeroUnlessEngaged
<1>5. SequenceHolds'
  <2>1. SUFFICES ASSUME NEW k \in DOMAIN jobs', jobs'[k].todo # <<>>
                 PROVE  /\ jobs'[k].todo \in {<<"timeout", "setpoint">>, <<"setpoint">>} =>
                                selector' /\ rc_left' + jobs'[k].age >= 1
                        /\ jobs'[k].todo = <<"disengage">> => setpoint' = NoMode
    BY <1>1, WriteFact, ShortRestsApart DEF SequenceHolds
  <2>2. /\ jobs'[k].todo = Tail(t) /\ jobs'[k].age = jobs[1].age /\ Tail(t) # <<>>
        /\ jobs[1].age \in Nat
    BY <2>1, WriteQueue, WriteFact, RcTimingAssumption DEF DeadmanInv, Job
  <2>3. CASE Tail(t) = <<"timeout", "setpoint">>
    <3>1. Head(t) = "engage"
      BY <1>3, <2>3, EngageWrites, ReleaseWrites, RestsApart, ShortRestsApart
    <3>2. selector' /\ rc_left' >= 1 /\ rc_left' \in Int
      BY <1>1, <3>1, WriteEffect, CallReturnsKeepsIInv DEF DeadmanInv, IInv, TypeOK
    <3> QED
      BY <2>2, <2>3, <3>2
  <2>4. CASE Tail(t) = <<"setpoint">>
    <3>1. Head(t) = "timeout" /\ t = <<"timeout", "setpoint">>
      BY <1>3, <2>4, EngageWrites, ReleaseWrites, RestsApart, ShortRestsApart
    <3>2. selector /\ rc_left + jobs[1].age >= 1
      BY <1>1, <3>1, WriteFact DEF DeadmanInv, SequenceHolds
    <3>3. selector' = selector /\ rc_left' = rc_left
      BY <1>1, <3>1, WriteEffect
    <3> QED
      BY <2>2, <2>4, <3>2, <3>3, ShortRestsApart
  <2>5. CASE Tail(t) = <<"disengage">>
    <3>1. Head(t) = "zero"
      BY <1>3, <2>5, EngageWrites, ReleaseWrites, RestsApart, ShortRestsApart
    <3> QED
      BY <1>1, <2>2, <2>5, <3>1, WriteEffect
  <2>6. CASE Tail(t) \in {Engage, Disengage}
    BY <2>2, <2>6, RestsApart, ShortRestsApart
  <2> QED
    BY <1>3, <2>2, <2>3, <2>4, <2>5, <2>6, EngageWrites, ReleaseWrites
<1> QED
  BY <1>4, <1>5

LEMMA QueueAges ==
    ASSUME TypeOK
    PROVE  \A k \in DOMAIN jobs : jobs[k].age \in 0..MaxLag
PROOF
<1>1. \A k \in DOMAIN jobs : jobs[k] \in Job
  BY DEF TypeOK
<1> QED
  BY <1>1 DEF Job

\* The time a queued beat has waited leaves the function something to live on.
LEMMA StillAlive ==
    ASSUME DeadmanInv, ~outage, ~closed, held_spec \in Forced, ~ApplyInFlight
    PROVE  /\ selector /\ setpoint = held_spec /\ rc_left >= 1 /\ rc_left \in Int
           /\ beat_in \in 0..Interval
PROOF
<1>1. selector /\ setpoint = held_spec
  BY DEF DeadmanInv, RefreshedOrDue
<1>2. rc_left \in Int /\ beat_in \in 0..Interval
  BY DEF DeadmanInv, IInv, TypeOK, HeartbeatFollowsHeld, Off
<1>3. \A k \in DOMAIN jobs : jobs[k].age \in 0..MaxLag
  BY QueueAges DEF DeadmanInv, IInv
<1>4. \/ rc_left >= Expiry - Interval + beat_in
      \/ \E k \in DOMAIN jobs : rc_left >= Expiry - Interval - jobs[k].age
  BY DEF DeadmanInv, RefreshedOrDue
<1>5. rc_left >= 1
  BY <1>2, <1>3, <1>4, RcTimingAssumption, RcDeadmanAssumption
<1> QED
  BY <1>1, <1>2, <1>5

LEMMA WriteKeepsRefreshed ==
    ASSUME DeadmanInv, NEW i \in DOMAIN jobs, CallReturns(i)
    PROVE  RefreshedOrDue'
PROOF
<1> DEFINE t == jobs[1].todo
<1>1. SUFFICES ASSUME ~outage, ~closed, held_spec' \in Forced, ~ApplyInFlight'
               PROVE  /\ selector' /\ setpoint' = held_spec'
                      /\ \/ rc_left' >= Expiry - Interval + beat_in'
                         \/ \E k \in DOMAIN jobs' :
                                jobs'[k].kind = "beat" /\ rc_left' >= Expiry - Interval - jobs'[k].age
  BY WriteFact DEF RefreshedOrDue
<1>2. Expiry \in Nat /\ Interval \in Nat
  BY RcTimingAssumption
<1>3. \A k \in DOMAIN jobs : jobs[k].kind = "apply" => k = 1 /\ Tail(t) = <<>>
  BY <1>1, WriteQueue DEF DeadmanInv, ApplyInFlight
<1>4. CASE jobs[1].kind = "apply"
  <2>1. Tail(t) = <<>> /\ held_spec' = jobs[1].spec /\ beat_in' = Interval /\ jobs[1].spec \in Forced
    BY <1>1, <1>3, <1>4, WriteFact DEF Phased
  <2>2. Head(t) = "setpoint"
    BY <2>1, WriteFact, EngageWrites, RestsApart, ShortRestsApart
  <2>3. selector' /\ setpoint' = held_spec' /\ rc_left' = Expiry
    BY <1>1, <2>1, <2>2, WriteEffect
  <2> QED
    BY <1>2, <2>1, <2>3
<1>5. CASE jobs[1].kind # "apply"
  <2>1. ~ApplyInFlight
    BY <1>3, <1>5 DEF ApplyInFlight
  <2>2. held_spec' = held_spec /\ beat_in' = beat_in /\ jobs[1].spec = held_spec /\ t \in EngageRests
    BY <1>1, <1>5, WriteFact
  <2>3. selector /\ setpoint = held_spec /\ rc_left >= 1 /\ rc_left \in Int /\ beat_in \in 0..Interval
    BY <1>1, <2>1, <2>2, StillAlive
  <2>4. CASE Head(t) = "setpoint"
    <3>1. selector' /\ setpoint' = held_spec' /\ rc_left' = Expiry
      BY <1>1, <2>2, <2>4, WriteEffect
    <3> QED
      BY <1>2, <2>2, <2>3, <3>1
  <2>5. CASE Head(t) # "setpoint"
    <3>1. Tail(t) # <<>> /\ Head(t) \in {"registers", "engage", "timeout"}
      BY <2>2, <2>5, EngageWrites, RestsApart, ShortRestsApart
    <3>2. selector' /\ setpoint' = setpoint /\ rc_left' = rc_left
      <4>1. CASE Head(t) = "engage"
        <5>1. rc_left > 0
          BY <2>3
        <5> QED
          BY <1>1, <2>3, <4>1, <5>1, WriteEffect
      <4>2. CASE Head(t) \in {"registers", "timeout"}
        BY <1>1, <2>3, <4>2, WriteEffect
      <4> QED
        BY <3>1, <4>1, <4>2
    <3>3. \A k \in DOMAIN jobs :
            \E j \in DOMAIN jobs' : jobs'[j].kind = jobs[k].kind /\ jobs'[j].age = jobs[k].age
      BY <3>1, WriteQueue DEF DeadmanInv
    <3>4. \/ rc_left >= Expiry - Interval + beat_in
          \/ \E k \in DOMAIN jobs :
                jobs[k].kind = "beat" /\ rc_left >= Expiry - Interval - jobs[k].age
      BY <1>1, <2>1, <2>2 DEF DeadmanInv, RefreshedOrDue
    <3> QED
      BY <2>2, <2>3, <3>2, <3>3, <3>4
  <2> QED
    BY <2>4, <2>5
<1> QED
  BY <1>4, <1>5

LEMMA WriteKeepsDeadman ==
    ASSUME DeadmanInv, NEW i \in DOMAIN jobs, CallReturns(i)
    PROVE  DeadmanInv'
PROOF
<1>1. IInv' /\ (outage \/ link)'
  BY CallReturnsKeepsIInv, WriteFact DEF DeadmanInv
<1> QED
  BY <1>1, WriteKeepsOrder, WriteKeepsShown, WriteKeepsSequence, WriteKeepsRefreshed DEF DeadmanInv

\* Steps that change no register: what they may do to the queue and to what is held.
LEMMA QueueStepKeepsDeadman ==
    ASSUME DeadmanInv, IInv', UNCHANGED <<selector, setpoint, cached, rc_left, link, outage>>,
           \A k \in DOMAIN jobs' :
                \/ jobs'[k].todo \in {<<>>, Engage, <<"registers">> \o Engage} /\ jobs'[k].spec \in Forced
                \/ jobs'[k].todo \in {<<>>, Disengage, <<"registers">> \o Disengage} /\ jobs'[k].spec \notin Forced
                \/ k \in DOMAIN jobs /\ jobs'[k] = jobs[k],
           RefreshedOrDue'
    PROVE  DeadmanInv'
PROOF
<1>1. WritesInOrder'
  BY DEF DeadmanInv, WritesInOrder, EngageRests, ReleaseRests
<1>2. SequenceHolds'
  BY RestsApart, ShortRestsApart DEF DeadmanInv, SequenceHolds
<1> QED
  BY <1>1, <1>2 DEF DeadmanInv, SetpointShown, ZeroUnlessEngaged

LEMMA ArrivalKeepsDeadman ==
    ASSUME DeadmanInv, Hold \/ Beat \/ \E m \in Modes : Apply(m)
    PROVE  DeadmanInv'
PROOF
<1>1. PICK kind \in {"apply", "hold", "beat"}, mode \in Modes \cup {NoMode} :
        /\ Arrive(kind, mode)
        /\ kind = "beat" => beat_in = 0 /\ beat_in' = Interval
        /\ kind # "beat" => beat_in' = beat_in
  BY DEF Apply, Hold, Beat, driver, DeadmanInv, IInv, TypeOK
<1>2. UNCHANGED <<held_spec, closed, selector, setpoint, cached, rc_left, link, outage>>
  BY DEF Apply, Hold, Beat, driver, inverter, world
<1>3. IInv'
  BY ApplyKeepsIInv, HoldKeepsIInv, BeatKeepsIInv DEF DeadmanInv
<1>4. /\ \A k \in DOMAIN jobs' : jobs'[k].todo = <<>> \/ (k \in DOMAIN jobs /\ jobs'[k] = jobs[k])
      /\ \A k \in DOMAIN jobs : k \in DOMAIN jobs' /\ jobs'[k] = jobs[k]
      /\ \E k \in DOMAIN jobs' : jobs'[k].kind = kind /\ jobs'[k].age = 0
  BY <1>1, ArrivalQueue DEF DeadmanInv, IInv
<1>5. RefreshedOrDue'
  <2>1. SUFFICES ASSUME ~outage, ~closed, held_spec \in Forced, ~ApplyInFlight'
                 PROVE  RefreshedOrDue'
    BY <1>2 DEF RefreshedOrDue
  <2>2. ~ApplyInFlight
    BY <1>4, <2>1 DEF ApplyInFlight
  <2>3. /\ selector /\ setpoint = held_spec /\ rc_left \in Int
        /\ \/ rc_left >= Expiry - Interval + beat_in
           \/ \E k \in DOMAIN jobs :
                jobs[k].kind = "beat" /\ rc_left >= Expiry - Interval - jobs[k].age
    BY <2>1, <2>2, StillAlive DEF DeadmanInv, RefreshedOrDue
  <2>4. CASE kind = "beat"
    <3>1. \E k \in DOMAIN jobs' : jobs'[k].kind = "beat" /\ rc_left' >= Expiry - Interval - jobs'[k].age
      BY <1>1, <1>2, <1>4, <2>3, <2>4, RcTimingAssumption
    <3> QED
      BY <1>2, <2>3, <3>1 DEF RefreshedOrDue
  <2>5. CASE kind # "beat"
    BY <1>1, <1>2, <1>4, <2>3, <2>5 DEF RefreshedOrDue
  <2> QED
    BY <2>4, <2>5
<1> QED
  BY <1>2, <1>3, <1>4, <1>5, QueueStepKeepsDeadman

LEMMA AcquireKeepsDeadman ==
    ASSUME DeadmanInv, NEW i \in DOMAIN jobs, Acquire(i)
    PROVE  DeadmanInv'
PROOF
<1> DEFINE job == jobs[1]
           mode == IF job.kind = "beat" THEN held_spec ELSE job.spec
           todo == IF job.kind = "apply" THEN ModeWrites(mode) ELSE Refresh(mode)
           new == [job EXCEPT !.spec = mode, !.todo = todo]
<1>1. /\ i = 1 /\ 1 \in DOMAIN jobs /\ jobs \in Seq(Job) /\ job \in Job /\ jobs # <<>>
      /\ UNCHANGED <<beat_in, closed, selector, setpoint, cached, rc_left, link, outage>>
      /\ jobs' = IF todo = <<>> THEN RemoveAt(jobs, 1)
                 ELSE [jobs EXCEPT ![1].spec = mode, ![1].todo = todo]
      /\ held_spec' = IF job.kind = "hold" THEN mode ELSE held_spec
  BY DEF Acquire, Holder, DeadmanInv, IInv, TypeOK, inverter, world
<1>2. held_spec' = held_spec /\ IInv' /\ (job.kind = "hold" => job.spec = held_spec)
  BY <1>1, AcquireKeepsIInv DEF DeadmanInv, IInv, OthersWriteHeld
<1>3. mode \in Modes \cup {NoMode} /\ (job.kind # "beat" => mode \in Modes)
  BY <1>1 DEF DeadmanInv, IInv, TypeOK, JobsCarryModes, Job
<1>4. /\ mode \in Forced => todo \in {Engage, <<"registers">> \o Engage}
      /\ mode \notin Forced => todo \in {<<>>, <<"registers">> \o Disengage}
      /\ mode \notin Forced /\ job.kind = "apply" => todo = <<"registers">> \o Disengage
  BY <1>3 DEF ModeWrites, Refresh
<1>5. CASE todo = <<>>
  <2>1. mode \notin Forced /\ job.kind # "apply"
    BY <1>4, <1>5, RestsApart
  <2>2. held_spec \notin Forced
    BY <1>1, <1>2, <2>1 DEF Job
  <2>3. \A k \in DOMAIN jobs' : k + 1 \in DOMAIN jobs /\ k + 1 # 1 /\ jobs'[k] = jobs[k + 1]
    BY <1>1, <1>5, RemoveHead
  <2>4. \A k \in DOMAIN jobs' : jobs'[k].todo = <<>>
    BY <2>3 DEF DeadmanInv, IInv, LockHeld
  <2> HIDE DEF todo
  <2> QED
    BY <1>1, <1>2, <2>2, <2>4, QueueStepKeepsDeadman DEF RefreshedOrDue
<1>6. CASE todo # <<>>
  <2>1. /\ new.kind = job.kind /\ new.age = job.age /\ new.spec = mode /\ new.todo = todo
    BY <1>1 DEF Job
  <2>2. jobs' = [jobs EXCEPT ![1] = new]
    BY <1>1, <1>6
  <2> HIDE DEF new, todo
  <2>3. /\ DOMAIN jobs' = DOMAIN jobs /\ jobs'[1] = new
        /\ \A k \in DOMAIN jobs : k # 1 => jobs'[k] = jobs[k]
    BY <1>1, <2>2
  <2>4. \A k \in DOMAIN jobs : jobs'[k].kind = jobs[k].kind /\ jobs'[k].age = jobs[k].age
    BY <2>1, <2>3
  <2>5. RefreshedOrDue'
    BY <1>1, <1>2, <2>3, <2>4 DEF DeadmanInv, RefreshedOrDue, ApplyInFlight
  <2> HIDE DEF mode
  <2>6. \A k \in DOMAIN jobs' :
            \/ jobs'[k].todo \in {<<>>, Engage, <<"registers">> \o Engage} /\ jobs'[k].spec \in Forced
            \/ jobs'[k].todo \in {<<>>, Disengage, <<"registers">> \o Disengage} /\ jobs'[k].spec \notin Forced
            \/ k \in DOMAIN jobs /\ jobs'[k] = jobs[k]
    BY <1>4, <2>1, <2>3
  <2> QED
    BY <1>1, <1>2, <2>5, <2>6, QueueStepKeepsDeadman
<1> QED
  BY <1>5, <1>6

LEMMA PassKeepsDeadman ==
    ASSUME DeadmanInv, Pass
    PROVE  DeadmanInv'
PROOF
<1>1. /\ \A k \in DOMAIN jobs : jobs[k] \in Job /\ jobs[k].age < MaxLag
      /\ jobs' = [k \in DOMAIN jobs |-> [jobs[k] EXCEPT !.age = @ + 1]]
      /\ beat_in # 0
      /\ beat_in' = IF beat_in > Off THEN beat_in - 1 ELSE beat_in
      /\ rc_left' = IF rc_left > -RevertAfter THEN rc_left - 1 ELSE rc_left
      /\ UNCHANGED <<held_spec, closed, selector, setpoint, cached, link, outage>>
  BY DEF Pass, Countdown, world, DeadmanInv, IInv, TypeOK
<1>2. /\ DOMAIN jobs' = DOMAIN jobs
      /\ \A k \in DOMAIN jobs : /\ jobs'[k].kind = jobs[k].kind /\ jobs'[k].spec = jobs[k].spec
                                /\ jobs'[k].todo = jobs[k].todo /\ jobs'[k].age = jobs[k].age + 1
                                /\ jobs[k].age \in Nat
  BY <1>1, RcTimingAssumption DEF Job
<1>3. rc_left \in Int /\ RevertAfter \in Nat /\ MaxLag \in Nat
  BY RcTimingAssumption DEF DeadmanInv, IInv, TypeOK
<1>4. IInv' /\ WritesInOrder' /\ SetpointShown' /\ ZeroUnlessEngaged'
  <2>1. IInv' /\ WritesInOrder /\ SetpointShown /\ ZeroUnlessEngaged
    BY PassKeepsIInv DEF DeadmanInv
  <2>2. WritesInOrder'
    BY <1>2, <2>1 DEF WritesInOrder
  <2> QED
    BY <1>1, <2>1, <2>2 DEF SetpointShown, ZeroUnlessEngaged
<1>5. SequenceHolds'
  <2>1. SUFFICES ASSUME ~outage, NEW k \in DOMAIN jobs
                 PROVE  /\ jobs[k].todo \in {<<"timeout", "setpoint">>, <<"setpoint">>} =>
                                selector /\ rc_left' + jobs'[k].age >= 1
                        /\ jobs[k].todo = <<"disengage">> => setpoint = NoMode
    BY <1>1, <1>2 DEF SequenceHolds
  <2>2. /\ jobs[k].todo \in {<<"timeout", "setpoint">>, <<"setpoint">>} =>
                selector /\ rc_left + jobs[k].age >= 1
        /\ jobs[k].todo = <<"disengage">> => setpoint = NoMode
    BY <2>1 DEF DeadmanInv, SequenceHolds
  <2>3. rc_left + jobs[k].age >= 1 => rc_left' = rc_left - 1
    <3>1. jobs[k].age \in Nat /\ jobs[k].age < MaxLag
      BY <1>1, <1>2
    <3>2. rc_left + jobs[k].age >= 1 => rc_left > -RevertAfter
      BY <1>3, <3>1, RcDeadmanAssumption
    <3> QED
      BY <1>1, <3>2
  <2> QED
    BY <1>2, <1>3, <2>2, <2>3
<1>6. RefreshedOrDue'
  <2>1. SUFFICES ASSUME ~outage, ~closed, held_spec \in Forced, ~ApplyInFlight
                 PROVE  RefreshedOrDue'
    BY <1>1, <1>2 DEF RefreshedOrDue, ApplyInFlight
  <2>2. /\ selector /\ setpoint = held_spec /\ rc_left >= 1 /\ beat_in \in 0..Interval
    BY <2>1, StillAlive
  <2>3. rc_left' = rc_left - 1 /\ beat_in' = beat_in - 1 /\ beat_in \in Int
    BY <1>1, <1>3, <2>2, RcTimingAssumption DEF Off
  <2>4. \/ rc_left >= Expiry - Interval + beat_in
        \/ \E k \in DOMAIN jobs :
                jobs[k].kind = "beat" /\ rc_left >= Expiry - Interval - jobs[k].age
    BY <2>1 DEF DeadmanInv, RefreshedOrDue
  <2>5. \/ rc_left' >= Expiry - Interval + beat_in'
        \/ \E k \in DOMAIN jobs' :
                jobs'[k].kind = "beat" /\ rc_left' >= Expiry - Interval - jobs'[k].age
    BY <1>2, <1>3, <2>3, <2>4, RcTimingAssumption
  <2> QED
    BY <1>1, <2>2, <2>5 DEF RefreshedOrDue
<1> QED
  BY <1>1, <1>4, <1>5, <1>6 DEF DeadmanInv

LEMMA RevertKeepsDeadman ==
    ASSUME DeadmanInv, Revert
    PROVE  DeadmanInv'
PROOF
<1>1. /\ rc_left = -RevertAfter /\ ~selector' /\ setpoint' = NoMode
      /\ UNCHANGED <<jobs, held_spec, beat_in, closed, cached, rc_left, link, outage>>
  BY DEF Revert, driver, world, DeadmanInv, IInv, TypeOK
<1>2. IInv' /\ WritesInOrder' /\ SetpointShown' /\ ZeroUnlessEngaged'
  BY <1>1, WorldKeepsIInv DEF DeadmanInv, WritesInOrder, SetpointShown, ZeroUnlessEngaged
<1>3. SequenceHolds'
  <2>1. SUFFICES ASSUME ~outage, NEW k \in DOMAIN jobs,
                        jobs[k].todo \in {<<"timeout", "setpoint">>, <<"setpoint">>}
                 PROVE  FALSE
    BY <1>1 DEF SequenceHolds
  <2>2. rc_left + jobs[k].age >= 1 /\ jobs[k].age \in 0..MaxLag
    BY <2>1, QueueAges DEF DeadmanInv, SequenceHolds, IInv
  <2> QED
    BY <1>1, <2>2, RcTimingAssumption, RcDeadmanAssumption
<1>4. RefreshedOrDue'
  <2>1. SUFFICES ASSUME ~outage, ~closed, held_spec \in Forced, ~ApplyInFlight PROVE FALSE
    BY <1>1 DEF RefreshedOrDue, ApplyInFlight
  <2>2. rc_left >= 1
    BY <2>1, StillAlive
  <2> QED
    BY <1>1, <2>2, RcTimingAssumption
<1> QED
  BY <1>1, <1>2, <1>3, <1>4 DEF DeadmanInv

LEMMA OthersKeepDeadman ==
    ASSUME DeadmanInv, Shutdown \/ Poll \/ LinkChange
    PROVE  DeadmanInv'
PROOF
<1>1. /\ IInv' /\ UNCHANGED <<jobs, held_spec, selector, setpoint, rc_left>>
      /\ outage' \/ link'
      /\ cached' = cached \/ cached' = setpoint
      /\ outage' = outage \/ outage'
      /\ UNCHANGED <<beat_in, closed>> \/ closed'
  BY ShutdownKeepsIInv, WorldKeepsIInv
     DEF Shutdown, Poll, LinkChange, driver, inverter, world, DeadmanInv
<1>2. ~outage' => ~outage
  BY <1>1
<1>3. WritesInOrder' /\ SetpointShown' /\ ZeroUnlessEngaged'
  BY <1>1, <1>2 DEF DeadmanInv, WritesInOrder, SetpointShown, ZeroUnlessEngaged
<1>4. SequenceHolds'
  BY <1>1, <1>2 DEF DeadmanInv, SequenceHolds
<1>5. RefreshedOrDue'
  BY <1>1, <1>2 DEF DeadmanInv, RefreshedOrDue, ApplyInFlight
<1> QED
  BY <1>1, <1>3, <1>4, <1>5 DEF DeadmanInv

LEMMA SpecDeadmanInv == Spec => []DeadmanInv
PROOF
<1>1. Init => DeadmanInv
  <2>1. SUFFICES ASSUME Init PROVE DeadmanInv
    OBVIOUS
  <2>2. /\ IInv /\ DOMAIN jobs = {} /\ held_spec \notin Forced /\ link
        /\ cached = setpoint /\ (selector \/ setpoint = NoMode)
    BY <2>1, InitIInv, RcModesAssumption DEF Init
  <2> QED
    BY <2>2 DEF DeadmanInv, WritesInOrder, SetpointShown, ZeroUnlessEngaged, SequenceHolds,
                RefreshedOrDue
<1>2. DeadmanInv /\ [Next]_vars => DeadmanInv'
  <2>1. SUFFICES ASSUME DeadmanInv, [Next]_vars PROVE DeadmanInv'
    OBVIOUS
  <2>2. CASE UNCHANGED vars
    <3>1. IInv' /\ UNCHANGED <<jobs, held_spec, beat_in, closed, selector, setpoint, cached, rc_left, link, outage>>
      BY <2>1, <2>2, NextIInv DEF vars, driver, inverter, world, DeadmanInv
    <3> QED
      BY <2>1, <3>1 DEF DeadmanInv, WritesInOrder, SetpointShown, ZeroUnlessEngaged, SequenceHolds,
                        RefreshedOrDue, ApplyInFlight
  <2>3. CASE JobStep
    BY <2>1, <2>3, AcquireKeepsDeadman, WriteKeepsDeadman DEF JobStep
  <2> QED
    BY <2>1, <2>2, <2>3, ArrivalKeepsDeadman, PassKeepsDeadman, RevertKeepsDeadman,
       OthersKeepDeadman DEF Next
<1> QED
  BY <1>1, <1>2, PTL DEF Spec

-----------------------------------------------------------------------------

\* Steps that write nothing, or drop a function the inverter gave up, leave what is on with
\* the modes it was on for.
LEMMA QuietKeepsWanted ==
    ASSUME SetpointWanted, PassiveReleased, UNCHANGED <<held_spec, ApplyingMode>>,
           outage => outage', setpoint' \in {setpoint, NoMode}, selector' => selector
    PROVE  SetpointWanted' /\ PassiveReleased'
PROOF
  BY DEF SetpointWanted, PassiveReleased

LEMMA WriteKeepsWanted ==
    ASSUME DeadmanInv, SetpointWanted, PassiveReleased, NEW i \in DOMAIN jobs, CallReturns(i)
    PROVE  SetpointWanted' /\ PassiveReleased'
PROOF
<1> DEFINE job == jobs[1]
           t == job.todo
           w == Head(t)
<1>1. SUFFICES ASSUME ~outage PROVE SetpointWanted' /\ PassiveReleased'
  BY WriteFact DEF SetpointWanted, PassiveReleased
<1>2. /\ job.kind = "apply" => ApplyingMode = job.spec /\ ApplyingMode # NoMode
      /\ job.kind # "apply" => job.spec = held_spec
      /\ IF Tail(t) = <<>> /\ job.kind = "apply"
         THEN held_spec' = job.spec /\ ApplyingMode' = NoMode
         ELSE UNCHANGED <<held_spec, ApplyingMode>>
  BY WriteKeepsApplying, CallReturnsKeepsIInv DEF DeadmanInv
<1>3. /\ job.spec \in Forced =>
            \/ w \in {"registers", "engage", "timeout"} /\ Tail(t) # <<>>
            \/ w = "setpoint" /\ Tail(t) = <<>>
      /\ job.spec \notin Forced =>
            \/ w \in {"registers", "zero"} /\ Tail(t) # <<>>
            \/ w = "disengage" /\ Tail(t) = <<>>
  BY WriteFact, EngageWrites, ReleaseWrites, RestsApart, ShortRestsApart
<1>4. /\ w \in {"registers", "engage", "timeout"} => UNCHANGED setpoint
      /\ w = "setpoint" => setpoint' = job.spec
      /\ w \in {"zero", "disengage"} => setpoint' = NoMode
      /\ w \in {"registers", "zero"} => UNCHANGED selector
      /\ w = "disengage" => ~selector'
  <2>1. Takes(w, job.spec)
    BY <1>1, WriteFact DEF DeadmanInv
  <2>2. w \in {"registers", "zero"} => UNCHANGED selector
    BY <2>1 DEF Takes
  <2> QED
    BY <1>1, <2>2, WriteEffect
<1> HIDE DEF w, t
<1>5. CASE Tail(t) = <<>> /\ job.kind = "apply"
  BY <1>2, <1>3, <1>4, <1>5 DEF SetpointWanted, PassiveReleased
<1>6. CASE ~(Tail(t) = <<>> /\ job.kind = "apply")
  <2>1. UNCHANGED <<held_spec, ApplyingMode>> /\ setpoint' \in {setpoint, NoMode, job.spec}
    BY <1>2, <1>3, <1>4, <1>6
  <2>2. SetpointWanted'
    BY <1>1, <1>2, <2>1 DEF SetpointWanted
  <2>3. PassiveReleased'
    <3>1. SUFFICES ASSUME held_spec \in Modes \ Forced, ApplyingMode = NoMode
                   PROVE  ~selector' /\ setpoint' = NoMode
      BY <2>1 DEF PassiveReleased
    <3>2. ~selector /\ setpoint = NoMode
      BY <1>1, <3>1 DEF PassiveReleased
    <3>3. job.spec \notin Forced
      BY <1>2, <3>1
    <3> QED
      BY <1>3, <1>4, <3>2, <3>3
  <2> QED
    BY <2>2, <2>3
<1> QED
  BY <1>5, <1>6

LEMMA NextWanted ==
    ASSUME DeadmanInv, DeadmanInv', SetpointWanted, PassiveReleased, [Next]_vars
    PROVE  SetpointWanted' /\ PassiveReleased'
PROOF
<1>1. IInv /\ IInv'
  BY DEF DeadmanInv
<1>2. ASSUME NEW m \in Modes, Apply(m) PROVE SetpointWanted' /\ PassiveReleased'
  <2>1. /\ ApplyingMode = NoMode /\ ApplyingMode' = m /\ UNCHANGED held_spec
        /\ UNCHANGED <<selector, setpoint, outage>> /\ m # NoMode
    BY <1>1, <1>2, ApplyKeepsPromise, RcModesAssumption DEF Promise!Begin, Apply, inverter, world
  <2> QED
    BY <2>1 DEF SetpointWanted, PassiveReleased
<1>3. CASE Hold \/ Beat \/ Shutdown \/ Revert \/ Poll \/ LinkChange \/ Pass
  <2>1. UNCHANGED <<held_spec, ApplyingMode>>
    BY <1>1, <1>3, OthersKeepPromise DEF Promise!Refresh
  <2>2. (outage => outage') /\ setpoint' \in {setpoint, NoMode} /\ (selector' => selector)
    BY <1>3 DEF Hold, Beat, Shutdown, Revert, Poll, LinkChange, Pass, inverter, world
  <2> QED
    BY <2>1, <2>2, QuietKeepsWanted
<1>4. ASSUME NEW i \in DOMAIN jobs, Acquire(i) PROVE SetpointWanted' /\ PassiveReleased'
  <2>1. UNCHANGED <<held_spec, ApplyingMode>>
    BY <1>1, <1>4, AcquireKeepsPromise DEF Promise!Refresh
  <2>2. UNCHANGED <<selector, setpoint, outage>>
    BY <1>4 DEF Acquire, inverter, world
  <2> QED
    BY <2>1, <2>2, QuietKeepsWanted
<1>5. CASE UNCHANGED vars
  <2>1. UNCHANGED <<jobs, held_spec, selector, setpoint, outage>>
    BY <1>5 DEF vars, driver, inverter, world
  <2>2. UNCHANGED ApplyingMode
    BY <2>1, ApplyingIsMode
  <2> QED
    BY <2>1, <2>2, QuietKeepsWanted
<1> QED
  BY <1>2, <1>3, <1>4, <1>5, WriteKeepsWanted DEF Next, JobStep

\* As long as no call was lost to an outage: a selector that is off is off over a setpoint of
\* zero, so re-engaging the remote-control function acts on nothing an earlier mode left;
\* once a mode is held, the setpoint is zero, that mode's, or the one being applied; and a
\* held mode that is not forced has both off.  The writes of set_storage_mode zero the
\* setpoint before they release the selector, and what waits for the write lock, a hold, a
\* beat or a newer mode, writes for what is held by then, however long it waited.
THEOREM NeverStale == Spec => []NoStaleSetpoint
PROOF
<1>1. Init => SetpointWanted /\ PassiveReleased
  BY RcModesAssumption DEF Init, SetpointWanted, PassiveReleased
<1>2. DeadmanInv /\ ZeroUnlessEngaged /\ SetpointWanted /\ PassiveReleased => NoStaleSetpoint
  BY DEF NoStaleSetpoint
<1>3. DeadmanInv => ZeroUnlessEngaged
  BY DEF DeadmanInv
<1>4. /\ DeadmanInv /\ DeadmanInv' /\ (SetpointWanted /\ PassiveReleased) /\ [Next]_vars
      => (SetpointWanted /\ PassiveReleased)'
  BY NextWanted
<1> QED
  BY <1>1, <1>2, <1>3, <1>4, SpecDeadmanInv, PTL DEF Spec

\* A held forced mode does not lapse: beats of _on_rc_beat refresh the function before the
\* inverter drops it, also when a beat waits behind other jobs for as long as a job may.
THEOREM BeatsTheDeadman == Spec => []NeverLapses
PROOF
<1>1. DeadmanInv => NeverLapses
  <2>1. SUFFICES ASSUME DeadmanInv, ~outage, ~closed, held_spec \in Forced, ~ApplyInFlight
                 PROVE  Driving /\ setpoint = held_spec
    BY DEF NeverLapses
  <2>2. selector /\ setpoint = held_spec /\ rc_left >= 1 /\ rc_left \in Int
    BY <2>1, StillAlive
  <2> QED
    BY <2>1, <2>2, RcModesAssumption DEF Driving
<1> QED
  BY <1>1, SpecDeadmanInv, PTL
================================================================================
