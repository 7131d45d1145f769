------------------------- MODULE SolisDispatchProofs -------------------------
(***************************************************************************)
(* What the Remote Dispatch driver keeps for every set of modes, every      *)
(* failsafe, with and without lost calls and restarts: its second write     *)
(* repairs what the first one may have lost, and it implements the abstract *)
(* promise ForcedHold.                                                      *)
(***************************************************************************)
EXTENDS SolisDispatch, CommonLemmas

-----------------------------------------------------------------------------
(* The calls in flight *)

\* A call is made: it comes last, and the others stay where they are.
LEMMA SendFact ==
    ASSUME TypeOK, NEW by \in {"job", "reconfirm"}, NEW m \in Forced \cup {NoMode}, Send(by, m)
    PROVE  /\ wire' \in Seq(Call) /\ wire' # <<>>
           /\ Len(wire) \in Nat /\ Len(wire') = Len(wire) + 1
           /\ DOMAIN wire = 1..Len(wire) /\ DOMAIN wire' = 1..(Len(wire) + 1)
           /\ \A k \in 1..Len(wire) : wire'[k] = wire[k]
           /\ wire'[Len(wire) + 1].by = by /\ wire'[Len(wire) + 1].mode = m
PROOF
<1> DEFINE e == [by |-> by, mode |-> m]
<1>1. e \in Call
  BY DEF Call
<1>2. wire \in Seq(Call) /\ wire' = Append(wire, e)
  BY DEF TypeOK, Send
<1>3. /\ wire' \in Seq(Call) /\ Len(wire') = Len(wire) + 1
      /\ DOMAIN wire' = DOMAIN wire \cup {Len(wire) + 1}
      /\ \A k \in DOMAIN wire : wire'[k] = wire[k]
      /\ wire'[Len(wire) + 1] = e
  BY <1>1, <1>2, AppendTail
<1>4. Len(wire) \in Nat /\ DOMAIN wire = 1..Len(wire)
  BY <1>2
<1>5. wire' # <<>>
  BY <1>3, <1>4
<1> QED
  BY <1>3, <1>4, <1>5

\* A call arrives: the first one goes, and the others move up.
LEMMA ArrivalFact ==
    ASSUME TypeOK, wire # <<>>, wire' = Tail(wire)
    PROVE  /\ wire' \in Seq(Call)
           /\ Len(wire) \in Nat \ {0} /\ Len(wire') = Len(wire) - 1
           /\ DOMAIN wire = 1..Len(wire) /\ DOMAIN wire' = 1..(Len(wire) - 1)
           /\ \A k \in 1..(Len(wire) - 1) : wire'[k] = wire[k + 1]
           /\ Head(wire) = wire[1] /\ wire[1] \in Call
PROOF
<1>1. wire \in Seq(Call)
  BY DEF TypeOK
<1>2. /\ Head(wire) \in Call /\ Head(wire) = wire[1]
      /\ Tail(wire) \in Seq(Call) /\ Len(Tail(wire)) = Len(wire) - 1
      /\ \A k \in 1..Len(Tail(wire)) : Tail(wire)[k] = wire[k + 1]
  BY <1>1, HeadTailProperties
<1>3. Len(wire) \in Nat \ {0} /\ DOMAIN wire = 1..Len(wire)
  BY <1>1
<1>4. DOMAIN wire' = 1..Len(wire')
  BY <1>2
<1> QED
  BY <1>2, <1>3, <1>4

\* Between two calls of the control module nothing of a job is in flight.
LEMMA NoJobInFlight ==
    ASSUME IInv, ~Waiting
    PROVE  /\ ~JobOnWire /\ Len(wire) + Armed <= 2
           /\ \A i \in DOMAIN wire : wire[i].by # "job" /\ wire[i].mode \in Forced
PROOF
<1>1. \A i \in DOMAIN wire : wire[i].by # "job" /\ wire[i].mode \in Forced
  BY DEF IInv, CallsAreTheirs
<1>2. ~JobOnWire
  BY <1>1 DEF JobOnWire
<1> QED
  BY <1>1, <1>2 DEF IInv, FewReconfirms

-----------------------------------------------------------------------------
(* Each step keeps the invariant *)

\* A job that is idle makes its call.
LEMMA CallKeepsQueue ==
    ASSUME IInv, ~Waiting, NEW m \in Forced \cup {NoMode}, Send("job", m),
           reconfirm' \in {reconfirm, NoMode},
           job'.at = IF m = NoMode THEN "stop" ELSE "dispatch",
           m # NoMode => job'.mode = m
    PROVE  /\ wire' \in Seq(Call) /\ Len(wire') <= 3
           /\ CallsAreTheirs' /\ FewReconfirms' /\ JobOnWire'
PROOF
<1> DEFINE n == Len(wire)
<1>1. /\ wire' \in Seq(Call) /\ wire' # <<>>
      /\ n \in Nat /\ Len(wire') = n + 1
      /\ DOMAIN wire = 1..n /\ DOMAIN wire' = 1..(n + 1)
      /\ \A k \in 1..n : wire'[k] = wire[k]
      /\ wire'[n + 1].by = "job" /\ wire'[n + 1].mode = m
  BY SendFact DEF IInv
<1>2. /\ n + Armed <= 2
      /\ \A i \in 1..n : wire[i].by # "job" /\ wire[i].mode \in Forced
  BY <1>1, NoJobInFlight
<1>3. Armed \in 0..1 /\ Armed' \in 0..1 /\ Armed' <= Armed
  BY DEF Armed
<1>4. \A i \in 1..(n + 1) : IF i = n + 1 THEN wire'[i].by = "job" /\ wire'[i].mode = m
                            ELSE wire'[i].by # "job" /\ wire'[i].mode \in Forced
  BY <1>1, <1>2
<1>5. CallsAreTheirs'
  BY <1>1, <1>4 DEF CallsAreTheirs, Waiting
<1>6. JobOnWire'
  BY <1>1 DEF JobOnWire
<1>7. FewReconfirms'
  BY <1>1, <1>2, <1>3, <1>4, <1>6 DEF FewReconfirms
<1> QED
  BY <1>1, <1>2, <1>3, <1>5, <1>6, <1>7

LEMMA ApplyKeepsIInv ==
    ASSUME IInv, NEW m \in Modes, Apply(m)
    PROVE  IInv'
PROOF
<1>1. /\ job = Idle /\ ~closed /\ support' = Supported /\ missed' = 0
      /\ clean' = (m \in Forced /\ Supported)
      /\ UNCHANGED <<held, closed, running, target, failsafe, rc, available, link>>
  BY DEF Apply, CallerIdle, block, world
<1>2. ~Waiting
  BY <1>1 DEF Waiting, Idle
<1>3. commanded # NoMode => held \in Forced
  BY <1>1 DEF IInv, CommandedIsHeld, Idle
<1>4. support' \in BOOLEAN /\ clean' \in BOOLEAN
  BY <1>1 DEF Supported
<1>5. missed' \in 0..Failsafe
  BY <1>1, DispatchBoundsAssumption
<1>6. CASE m \in Forced /\ Supported
  <2>1. /\ Send("job", m) /\ job' = [kind |-> "apply", mode |-> m, at |-> "dispatch"]
        /\ reconfirm' = reconfirm /\ commanded' = commanded
    BY <1>6 DEF Apply, Dispatch
  <2>2. m \in Forced \cup {NoMode} /\ m # NoMode
    BY <1>6, DispatchModesAssumption
  <2>3. /\ wire' \in Seq(Call) /\ Len(wire') <= 3
        /\ CallsAreTheirs' /\ FewReconfirms' /\ JobOnWire'
    BY <1>2, <2>1, <2>2, CallKeepsQueue
  <2>4. job' \in Job
    BY <2>1 DEF Job
  <2>5. TypeOK'
    BY <1>1, <1>4, <1>5, <2>1, <2>3, <2>4 DEF IInv, TypeOK
  <2>6. JobFits' /\ CommandedIsHeld' /\ CleanRepairs'
    BY <1>1, <1>3, <1>6, <2>1, <2>3 DEF JobFits, CommandedIsHeld, CleanRepairs, Wanted
  <2>7. StoppedStays'
    <3>1. commanded = NoMode => /\ reconfirm = NoMode
                                /\ \A i \in DOMAIN wire : wire[i].by # "reconfirm"
      BY <1>1 DEF IInv, StoppedStays, Idle
    <3>2. /\ DOMAIN wire = 1..Len(wire) /\ DOMAIN wire' = 1..(Len(wire) + 1) /\ Len(wire) \in Nat
          /\ \A k \in 1..Len(wire) : wire'[k] = wire[k]
          /\ wire'[Len(wire) + 1].by = "job"
      BY <2>1, <2>2, SendFact DEF IInv
    <3>3. commanded = NoMode => \A i \in DOMAIN wire' : wire'[i].by # "reconfirm"
      BY <3>1, <3>2
    <3> QED
      BY <2>1, <3>1, <3>3 DEF StoppedStays
  <2> QED
    BY <2>3, <2>5, <2>6, <2>7 DEF IInv
<1>7. CASE ~(m \in Forced /\ Supported)
  <2>1. /\ reconfirm' = NoMode /\ commanded' = NoMode /\ ~clean'
        /\ IF commanded = NoMode
           THEN wire' = wire /\ job' = [kind |-> "apply", mode |-> m, at |-> "base"]
           ELSE Send("job", NoMode) /\ job' = [kind |-> "apply", mode |-> m, at |-> "stop"]
    BY <1>1, <1>7 DEF Apply, Release
  <2>2. CommandedIsHeld' /\ CleanRepairs'
    BY <2>1 DEF CommandedIsHeld, CleanRepairs
  <2>3. CASE commanded = NoMode
    <3>1. wire' = wire /\ job' = [kind |-> "apply", mode |-> m, at |-> "base"]
      BY <2>1, <2>3
    <3>2. TypeOK'
      <4>1. job' \in Job
        BY <3>1 DEF Job
      <4> QED
        BY <1>1, <1>4, <1>5, <2>1, <3>1, <4>1 DEF IInv, TypeOK
    <3>3. /\ ~JobOnWire /\ Len(wire) + Armed <= 2
          /\ \A i \in DOMAIN wire : wire[i].by # "job" /\ wire[i].mode \in Forced
      BY <1>2, NoJobInFlight
    <3>4. CallsAreTheirs'
      BY <3>1, <3>3 DEF CallsAreTheirs
    <3>5. FewReconfirms'
      <4>1. ~JobOnWire' /\ ~Waiting'
        BY <3>1, <3>3 DEF JobOnWire, Waiting
      <4>2. Armed' <= Armed /\ Armed \in 0..1 /\ Armed' \in 0..1 /\ Len(wire) \in Nat
        BY <2>1 DEF Armed, IInv, TypeOK
      <4> QED
        BY <3>1, <3>3, <4>1, <4>2 DEF FewReconfirms
    <3>6. JobFits'
      BY <3>1 DEF JobFits
    <3>7. StoppedStays'
      BY <1>1, <2>1, <2>3, <3>1 DEF IInv, StoppedStays, Idle
    <3> QED
      BY <2>2, <3>2, <3>4, <3>5, <3>6, <3>7 DEF IInv
  <2>4. CASE commanded # NoMode
    <3>1. Send("job", NoMode) /\ job' = [kind |-> "apply", mode |-> m, at |-> "stop"]
      BY <2>1, <2>4
    <3>2. /\ wire' \in Seq(Call) /\ Len(wire') <= 3
          /\ CallsAreTheirs' /\ FewReconfirms' /\ JobOnWire'
      BY <1>2, <2>1, <3>1, CallKeepsQueue
    <3>3. TypeOK'
      <4>1. job' \in Job
        BY <3>1 DEF Job
      <4> QED
        BY <1>1, <1>4, <1>5, <2>1, <3>2, <4>1 DEF IInv, TypeOK
    <3>4. JobFits'
      BY <1>1, <1>3, <2>1, <2>4, <3>1 DEF JobFits
    <3>5. StoppedStays'
      <4>1. /\ DOMAIN wire' = 1..(Len(wire) + 1) /\ Len(wire) \in Nat
            /\ wire'[Len(wire) + 1].by = "job"
        BY <3>1, SendFact DEF IInv
      <4>2. ASSUME NEW i \in DOMAIN wire', wire'[i].by = "reconfirm"
            PROVE  i < Len(wire) + 1 /\ Len(wire) + 1 \in DOMAIN wire'
        BY <4>1, <4>2
      <4> QED
        BY <2>1, <3>1, <4>1, <4>2 DEF StoppedStays
    <3> QED
      BY <2>2, <3>2, <3>3, <3>4, <3>5 DEF IInv
  <2> QED
    BY <2>3, <2>4
<1> QED
  BY <1>6, <1>7

LEMMA HoldKeepsIInv ==
    ASSUME IInv, Hold
    PROVE  IInv'
PROOF
<1>1. /\ job = Idle /\ ~closed /\ held \in Modes /\ held # NoMode /\ missed' = 0
      /\ support' = (support \/ (held \in Forced /\ available))
      /\ UNCHANGED <<held, closed, running, target, failsafe, rc, available, link, clean>>
  BY DEF Hold, CallerIdle, block, world, IInv, TypeOK
<1>2. ~Waiting /\ job.kind # "apply"
  BY <1>1 DEF Waiting, Idle
<1>3. support' \in BOOLEAN /\ missed' \in 0..Failsafe
  <2>1. support' \in BOOLEAN
    BY <1>1
  <2>2. missed' \in 0..Failsafe
    BY <1>1, DispatchBoundsAssumption
  <2> QED
    BY <2>1, <2>2
<1>4. /\ commanded # NoMode => held \in Forced
      /\ commanded = NoMode => reconfirm = NoMode /\ \A i \in DOMAIN wire : wire[i].by # "reconfirm"
  BY <1>1 DEF IInv, CommandedIsHeld, StoppedStays, Idle
<1>5. clean /\ ~closed => /\ support /\ held \in Forced /\ running /\ rc = NoMode
                          /\ commanded = held /\ LastWriteIs(held)
  BY <1>1, <1>2 DEF IInv, CleanRepairs, Wanted, Idle
<1>6. CASE Repushes(held)
  <2>1. /\ Send("job", held) /\ job' = [kind |-> "hold", mode |-> held, at |-> "dispatch"]
        /\ reconfirm' = reconfirm /\ commanded' = commanded /\ held \in Forced
    BY <1>6 DEF Hold, Dispatch, Repushes
  <2>2. held \in Forced \cup {NoMode} /\ held # NoMode
    BY <1>1, <2>1
  <2>3. /\ wire' \in Seq(Call) /\ Len(wire') <= 3
        /\ CallsAreTheirs' /\ FewReconfirms' /\ JobOnWire'
    BY <1>2, <2>1, <2>2, CallKeepsQueue
  <2>4. TypeOK'
    <3>1. job' \in Job
      BY <1>1, <2>1 DEF Job
    <3> QED
      BY <1>1, <1>3, <2>1, <2>3, <3>1 DEF IInv, TypeOK
  <2>5. JobFits' /\ CommandedIsHeld'
    BY <1>1, <2>1 DEF JobFits, CommandedIsHeld
  <2>6. /\ DOMAIN wire = 1..Len(wire) /\ DOMAIN wire' = 1..(Len(wire) + 1) /\ Len(wire) \in Nat
        /\ \A k \in 1..Len(wire) : wire'[k] = wire[k]
        /\ wire'[Len(wire) + 1].by = "job" /\ wire'[Len(wire) + 1].mode = held
        /\ wire' # <<>> /\ Len(wire') = Len(wire) + 1
    BY <2>1, <2>2, SendFact DEF IInv
  <2>7. StoppedStays'
    <3>1. commanded = NoMode => \A i \in DOMAIN wire' : wire'[i].by # "reconfirm"
      BY <1>4, <2>6
    <3> QED
      BY <1>4, <2>1, <3>1 DEF StoppedStays
  <2>8. CleanRepairs'
    <3>1. wire'[Len(wire')].mode = held
      BY <2>6
    <3>2. clean /\ ~closed => LastWriteIs(held)'
      BY <1>1, <1>5, <2>1, <2>6, <3>1 DEF LastWriteIs
    <3>3. Wanted' = held
      BY <1>1, <2>1 DEF Wanted
    <3> QED
      BY <1>1, <1>5, <2>1, <3>2, <3>3 DEF CleanRepairs, LastWriteIs
  <2> QED
    BY <2>3, <2>4, <2>5, <2>7, <2>8 DEF IInv
<1>7. CASE ~Repushes(held)
  <2>1. /\ job' = [kind |-> "hold", mode |-> held, at |-> "base"]
        /\ UNCHANGED <<wire, reconfirm, commanded>>
    BY <1>7 DEF Hold
  <2>2. TypeOK'
    <3>1. job' \in Job
      BY <1>1, <2>1 DEF Job
    <3> QED
      BY <1>1, <1>3, <2>1, <3>1 DEF IInv, TypeOK
  <2>3. /\ ~JobOnWire /\ Len(wire) + Armed <= 2
        /\ \A i \in DOMAIN wire : wire[i].by # "job" /\ wire[i].mode \in Forced
    BY <1>2, NoJobInFlight
  <2>4. ~Waiting' /\ ~JobOnWire' /\ Armed' = Armed
    BY <2>1, <2>3 DEF Waiting, JobOnWire, Armed
  <2>5. CallsAreTheirs' /\ FewReconfirms'
    BY <2>1, <2>3, <2>4 DEF CallsAreTheirs, FewReconfirms
  <2>6. JobFits' /\ CommandedIsHeld' /\ StoppedStays'
    BY <1>1, <1>4, <2>1 DEF JobFits, CommandedIsHeld, StoppedStays
  <2>7. CleanRepairs'
    <3>1. Wanted' = held
      BY <1>1, <2>1 DEF Wanted
    <3> QED
      BY <1>1, <1>5, <2>1, <3>1 DEF CleanRepairs, LastWriteIs
  <2> QED
    BY <2>2, <2>5, <2>6, <2>7 DEF IInv
<1> QED
  BY <1>6, <1>7

\* The dispatch of a forced mode returns: an apply arms its re-confirm.
LEMMA DispatchReturnsKeepsIInv ==
    ASSUME IInv, DispatchReturns
    PROVE  IInv'
PROOF
<1>1. /\ job.at = "dispatch" /\ ~JobOnWire
      /\ reconfirm' = (IF job.kind = "apply" THEN job.mode ELSE reconfirm)
      /\ commanded' = job.mode /\ job' = [job EXCEPT !.at = "base"]
      /\ UNCHANGED <<held, support, closed, wire, running, target, failsafe, rc, available, link, missed, clean>>
  BY DEF DispatchReturns, Returned, Reconfirms, JobOnWire, block, world
<1>2. job \in Job /\ job.mode \in Forced /\ (job.kind = "hold" => job.mode = held)
  BY <1>1 DEF IInv, TypeOK, JobFits, Idle
<1>3. /\ job' = [kind |-> job.kind, mode |-> job.mode, at |-> "base"] /\ job' \in Job
      /\ job.kind \in {"apply", "hold"}
  BY <1>1, <1>2 DEF Job
<1>4. job.mode # NoMode
  BY <1>2, DispatchModesAssumption
<1>5. TypeOK'
  BY <1>1, <1>2, <1>3 DEF IInv, TypeOK
<1>6. CallsAreTheirs' /\ ~JobOnWire' /\ ~Waiting'
  BY <1>1, <1>3 DEF IInv, CallsAreTheirs, JobOnWire, Waiting
<1>7. FewReconfirms'
  <2>1. Len(wire) + Armed <= 1 /\ Len(wire) \in Nat /\ Armed \in 0..1 /\ Armed' \in 0..1
    BY <1>1 DEF IInv, FewReconfirms, Waiting, TypeOK, Armed
  <2>2. \A i \in DOMAIN wire' : wire'[i].by # "job"
    BY <1>6 DEF JobOnWire
  <2> QED
    BY <1>1, <1>6, <2>1, <2>2 DEF FewReconfirms
<1>8. JobFits' /\ CommandedIsHeld' /\ StoppedStays'
  BY <1>1, <1>2, <1>3, <1>4 DEF JobFits, CommandedIsHeld, StoppedStays
<1>9. CleanRepairs'
  <2>1. Wanted' = Wanted
    BY <1>1, <1>3 DEF Wanted
  <2>2. clean /\ ~closed => support /\ Wanted \in Forced /\ running /\ (job.kind = "apply" \/ rc = NoMode)
    BY <1>1 DEF IInv, CleanRepairs
  <2>3. CASE job.kind = "apply"
    BY <1>1, <1>3, <1>4, <2>1, <2>2, <2>3 DEF CleanRepairs, LastWriteIs, Wanted
  <2>4. CASE job.kind = "hold"
    <3>1. clean /\ ~closed => LastWriteIs(Wanted)
      BY <2>4 DEF IInv, CleanRepairs
    <3> QED
      BY <1>1, <1>2, <1>3, <2>1, <2>2, <2>4, <3>1 DEF CleanRepairs, LastWriteIs, Wanted
  <2> QED
    BY <1>3, <2>3, <2>4
<1> QED
  BY <1>5, <1>6, <1>7, <1>8, <1>9 DEF IInv

LEMMA StopReturnsKeepsIInv ==
    ASSUME IInv, StopReturns
    PROVE  IInv'
PROOF
<1>1. /\ job.at = "stop" /\ ~JobOnWire /\ job' = [job EXCEPT !.at = "base"]
      /\ UNCHANGED <<held, commanded, reconfirm, support, closed, wire, running, target, failsafe,
                     rc, available, link, missed, clean>>
  BY DEF StopReturns, Returned, JobOnWire, driver, block, world
<1>2. job \in Job /\ job.kind = "apply" /\ held \in Forced /\ commanded = NoMode
  BY <1>1 DEF IInv, TypeOK, JobFits, Idle
<1>3. job' = [kind |-> job.kind, mode |-> job.mode, at |-> "base"] /\ job' \in Job
  BY <1>1, <1>2 DEF Job
<1>4. TypeOK'
  BY <1>1, <1>3 DEF IInv, TypeOK
<1>5. CallsAreTheirs' /\ ~JobOnWire' /\ ~Waiting'
  BY <1>1, <1>3 DEF IInv, CallsAreTheirs, JobOnWire, Waiting
<1>6. FewReconfirms'
  <2>1. Len(wire) + Armed <= 1 /\ Armed' = Armed /\ Len(wire) \in Nat /\ Armed \in 0..1
    BY <1>1 DEF IInv, FewReconfirms, Waiting, Armed, TypeOK
  <2>2. \A i \in DOMAIN wire' : wire'[i].by # "job"
    BY <1>5 DEF JobOnWire
  <2> QED
    BY <1>1, <1>5, <2>1, <2>2 DEF FewReconfirms
<1>7. JobFits' /\ CommandedIsHeld'
  BY <1>1, <1>2, <1>3 DEF JobFits, CommandedIsHeld
<1>8. StoppedStays'
  BY <1>1, <1>3 DEF IInv, StoppedStays, JobOnWire
<1>9. CleanRepairs'
  BY <1>1 DEF IInv, CleanRepairs
<1> QED
  BY <1>4, <1>5, <1>6, <1>7, <1>8, <1>9 DEF IInv

LEMMA BaseReturnsKeepsIInv ==
    ASSUME IInv, BaseReturns
    PROVE  IInv'
PROOF
<1>1. /\ job.at = "base" /\ job' = Idle /\ held' = job.mode /\ rc' = RcAfter
      /\ clean' = (clean /\ link)
      /\ UNCHANGED <<commanded, reconfirm, support, closed, wire, running, target, failsafe,
                     available, link, missed>>
  BY DEF BaseReturns, block, world
<1>2. job \in Job
  BY <1>1 DEF IInv, TypeOK, Idle
<1>3. job.kind \in {"apply", "hold"} /\ job.mode \in Modes /\ (job.kind = "hold" => job.mode = held)
  BY <1>2 DEF Job, IInv, JobFits
<1>4. rc' \in Forced \cup {NoMode}
  BY <1>1, <1>3 DEF RcAfter, StandsDown, IInv, TypeOK
<1>5. TypeOK'
  <2>1. clean' \in BOOLEAN
    BY <1>1
  <2> QED
    BY <1>1, <1>3, <1>4, <2>1 DEF IInv, TypeOK
<1>6. ~Waiting /\ ~Waiting'
  BY <1>1 DEF Waiting, Idle
<1>7. CallsAreTheirs' /\ FewReconfirms'
  <2>1. /\ ~JobOnWire /\ Len(wire) + Armed <= 2
        /\ \A i \in DOMAIN wire : wire[i].by # "job" /\ wire[i].mode \in Forced
    BY <1>6, NoJobInFlight
  <2>2. ~JobOnWire' /\ Armed' = Armed
    BY <1>1, <2>1 DEF JobOnWire, Armed
  <2>4. \A i \in DOMAIN wire' : wire'[i].by # "job" /\ wire'[i].mode \in Forced
    BY <1>1, <2>1
  <2>3. CallsAreTheirs'
    BY <2>4 DEF CallsAreTheirs
  <2>5. Len(wire') + Armed' <= 2
    BY <1>1, <2>1, <2>2
  <2> QED
    BY <1>6, <2>2, <2>3, <2>4, <2>5 DEF FewReconfirms
<1>8. JobFits' /\ CommandedIsHeld'
  BY <1>1, <1>3 DEF IInv, JobFits, CommandedIsHeld, Idle
<1>9. StoppedStays'
  BY <1>1 DEF IInv, StoppedStays, Idle
<1>10. CleanRepairs'
  <2>1. Wanted' = job.mode /\ Wanted = job.mode
    BY <1>1, <1>3 DEF Wanted, Idle
  <2>2. clean /\ ~closed => /\ support /\ Wanted \in Forced /\ running
                            /\ commanded = Wanted /\ LastWriteIs(Wanted)
    BY <1>1 DEF IInv, CleanRepairs
  <2>3. clean /\ ~closed => commanded # NoMode
    BY <2>2, DispatchModesAssumption
  <2>4. clean /\ link /\ ~closed => rc' = NoMode
    BY <1>1, <2>1, <2>2, <2>3 DEF RcAfter, StandsDown
  <2> QED
    BY <1>1, <2>1, <2>2, <2>4 DEF CleanRepairs, LastWriteIs, Idle
<1> QED
  BY <1>5, <1>7, <1>8, <1>9, <1>10 DEF IInv

LEMMA ReconfirmKeepsIInv ==
    ASSUME IInv, Reconfirm
    PROVE  IInv'
PROOF
<1> DEFINE n == Len(wire)
<1>1. /\ reconfirm \in Forced /\ reconfirm # NoMode /\ reconfirm' = NoMode
      /\ UNCHANGED <<job, held, commanded, support, closed, running, target, failsafe, rc,
                     available, link, missed, clean>>
  BY DEF Reconfirm, block, world, IInv, TypeOK
<1>2. commanded # NoMode /\ Send("reconfirm", reconfirm)
  BY <1>1 DEF IInv, StoppedStays, Reconfirm
<1>3. /\ wire' \in Seq(Call) /\ wire' # <<>>
      /\ n \in Nat /\ Len(wire') = n + 1
      /\ DOMAIN wire = 1..n /\ DOMAIN wire' = 1..(n + 1)
      /\ \A k \in 1..n : wire'[k] = wire[k]
      /\ wire'[n + 1].by = "reconfirm" /\ wire'[n + 1].mode = reconfirm
  BY <1>1, <1>2, SendFact DEF IInv
<1>4. Armed = 1 /\ Armed' = 0
  BY <1>1 DEF Armed
<1>5. \A i \in 1..(n + 1) : wire'[i].by = "job" <=> i # n + 1 /\ wire[i].by = "job"
  BY <1>3
<1>6. (JobOnWire' <=> JobOnWire) /\ (Waiting' <=> Waiting)
  BY <1>1, <1>3, <1>5 DEF JobOnWire, Waiting
<1>7. CallsAreTheirs'
  BY <1>1, <1>3, <1>5, <1>6 DEF IInv, CallsAreTheirs, Waiting
<1>8. FewReconfirms'
  <2>1. \A i \in DOMAIN wire' : wire'[i].by = "job" => (n + 1) - i + 0 <= 1
    BY <1>3, <1>4, <1>5 DEF IInv, FewReconfirms
  <2>2. n + 1 <= IF JobOnWire THEN 3 ELSE IF Waiting THEN 1 ELSE 2
    BY <1>3, <1>4 DEF IInv, FewReconfirms
  <2> QED
    BY <1>3, <1>4, <1>6, <2>1, <2>2 DEF FewReconfirms
<1>9. TypeOK'
  <2>1. Len(wire') <= 3
    BY <1>3, <1>4 DEF IInv, FewReconfirms
  <2> QED
    BY <1>1, <1>3, <2>1 DEF IInv, TypeOK
<1>10. JobFits' /\ CommandedIsHeld' /\ StoppedStays'
  BY <1>1, <1>2 DEF IInv, JobFits, CommandedIsHeld, StoppedStays
<1>11. CleanRepairs'
  <2>1. Wanted' = Wanted
    BY <1>1 DEF Wanted
  <2>2. wire'[Len(wire')].mode = reconfirm
    BY <1>3
  <2>3. LastWriteIs(Wanted) => LastWriteIs(Wanted)'
    BY <1>1, <1>3, <2>1, <2>2 DEF LastWriteIs
  <2> QED
    BY <1>1, <1>6, <2>1, <2>3 DEF IInv, CleanRepairs, LastWriteIs
<1> QED
  BY <1>7, <1>8, <1>9, <1>10, <1>11 DEF IInv

\* A call arrives at the inverter, or is lost.
LEMMA LandsKeepsIInv ==
    ASSUME IInv, Lands
    PROVE  IInv'
PROOF
<1> DEFINE n == Len(wire)
           m == wire[1].mode
<1>1. /\ wire # <<>> /\ wire' = Tail(wire) /\ clean' = (clean /\ link)
      /\ UNCHANGED <<job, held, commanded, reconfirm, support, closed, rc, available, link, missed>>
  BY DEF Lands, driver, world
<1>2. /\ wire' \in Seq(Call)
      /\ n \in Nat \ {0} /\ Len(wire') = n - 1
      /\ DOMAIN wire = 1..n /\ DOMAIN wire' = 1..(n - 1)
      /\ \A k \in 1..(n - 1) : wire'[k] = wire[k + 1]
      /\ Head(wire) = wire[1] /\ wire[1] \in Call
  BY <1>1, ArrivalFact DEF IInv
<1>3. m \in Forced \cup {NoMode}
  BY <1>2 DEF Call
<1>4. /\ ~link => UNCHANGED <<running, target, failsafe>>
      /\ link => /\ running' = (m # NoMode)
                 /\ target' \in IF running THEN {m} ELSE {m, NoMode}
                 /\ failsafe' = IF m = NoMode THEN 0 ELSE Failsafe
  BY <1>2 DEF Lands, block
<1>5. TypeOK'
  <2>1. running' \in BOOLEAN /\ clean' \in BOOLEAN
    BY <1>1, <1>4 DEF IInv, TypeOK
  <2>2. target' \in Forced \cup {NoMode} /\ failsafe' \in 0..Failsafe
    BY <1>3, <1>4, DispatchBoundsAssumption DEF IInv, TypeOK
  <2>3. Len(wire') <= 3
    BY <1>2 DEF IInv, TypeOK
  <2> QED
    BY <1>1, <1>2, <2>1, <2>2, <2>3 DEF IInv, TypeOK
<1>6. (Waiting' <=> Waiting) /\ Armed' = Armed /\ Armed \in 0..1
  BY <1>1 DEF Waiting, Armed
<1>7. CallsAreTheirs'
  <2>1. ASSUME NEW i \in 1..(n - 1), NEW j \in 1..(n - 1), i + 1 = j + 1
        PROVE  i = j
    BY <2>1
  <2>2. \A i \in 1..(n - 1) : i + 1 \in DOMAIN wire
    BY <1>2
  <2> QED
    BY <1>1, <1>2, <1>6, <2>1, <2>2 DEF IInv, CallsAreTheirs, Waiting
<1>8. JobOnWire' => JobOnWire
  <2>1. ASSUME NEW i \in 1..(n - 1), wire'[i].by = "job"
        PROVE  i + 1 \in DOMAIN wire /\ wire[i + 1].by = "job"
    BY <1>2, <2>1
  <2> QED
    BY <1>2, <2>1 DEF JobOnWire
<1>9. JobOnWire /\ ~JobOnWire' => wire[1].by = "job"
  <2>1. ASSUME NEW i \in DOMAIN wire, wire[i].by = "job", i # 1
        PROVE  i - 1 \in DOMAIN wire' /\ wire'[i - 1].by = "job"
    <3>1. i - 1 \in 1..(n - 1) /\ (i - 1) + 1 = i
      BY <1>2, <2>1
    <3> QED
      BY <1>2, <2>1, <3>1
  <2> QED
    BY <2>1 DEF JobOnWire
<1>10. FewReconfirms'
  <2>1. \A i \in 1..(n - 1) : wire'[i].by = "job" => (n - 1) - i + Armed <= 1
    <3>1. TAKE i \in 1..(n - 1)
    <3>2. wire'[i] = wire[i + 1] /\ i + 1 \in DOMAIN wire
      BY <1>2
    <3>3. wire[i + 1].by = "job" => n - (i + 1) + Armed <= 1
      BY <3>2 DEF IInv, FewReconfirms
    <3> QED
      BY <1>2, <1>6, <3>2, <3>3
  <2>2. CASE JobOnWire'
    BY <1>1, <1>2, <1>6, <1>8, <2>1, <2>2 DEF IInv, FewReconfirms
  <2>3. CASE JobOnWire /\ ~JobOnWire'
    <3>1. n - 1 + Armed <= 1
      BY <1>2, <1>9, <2>3 DEF IInv, FewReconfirms
    <3> QED
      BY <1>1, <1>2, <1>6, <2>1, <2>3, <3>1 DEF FewReconfirms
  <2>4. CASE ~JobOnWire
    <3>1. n - 1 + Armed <= IF Waiting THEN 1 ELSE 2
      BY <1>2, <1>6, <2>4 DEF IInv, FewReconfirms
    <3> QED
      BY <1>1, <1>2, <1>6, <1>8, <2>1, <2>4, <3>1 DEF FewReconfirms
  <2> QED
    BY <2>2, <2>3, <2>4
<1>11. JobFits' /\ CommandedIsHeld'
  BY <1>1 DEF IInv, JobFits, CommandedIsHeld
<1>12. StoppedStays'
  <2>1. SUFFICES ASSUME commanded = NoMode, NEW i \in 1..(n - 1), wire'[i].by = "reconfirm"
                 PROVE  job.at = "stop" /\ \E j \in 1..(n - 1) : i < j /\ wire'[j].by = "job"
    BY <1>1, <1>2 DEF IInv, StoppedStays
  <2>2. wire[i + 1].by = "reconfirm" /\ i + 1 \in DOMAIN wire
    BY <1>2, <2>1
  <2>3. PICK j \in DOMAIN wire : i + 1 < j /\ wire[j].by = "job"
    BY <2>1, <2>2 DEF IInv, StoppedStays
  <2>4. j - 1 \in 1..(n - 1) /\ i < j - 1 /\ (j - 1) + 1 = j
    BY <1>2, <2>3
  <2>5. wire'[j - 1].by = "job"
    BY <1>2, <2>3, <2>4
  <2>6. job.at = "stop"
    BY <2>1, <2>2 DEF IInv, StoppedStays
  <2> QED
    BY <2>4, <2>5, <2>6
<1>13. CleanRepairs'
  <2>1. SUFFICES ASSUME clean, link, ~closed
                 PROVE  CleanRepairs'
    BY <1>1 DEF CleanRepairs
  <2>2. Wanted' = Wanted /\ Wanted \in Forced /\ support /\ job.at # "stop"
    BY <1>1, <2>1 DEF IInv, CleanRepairs, Wanted
  <2>3. m \in Forced
    <3>1. CASE wire[1].by = "job"
      <4>1. Waiting /\ m = job.mode
        BY <1>2, <2>2, <3>1 DEF IInv, CallsAreTheirs
      <4> QED
        BY <2>2, <4>1 DEF IInv, JobFits, Waiting
    <3>2. CASE wire[1].by # "job"
      BY <1>2, <3>2 DEF IInv, CallsAreTheirs
    <3> QED
      BY <3>1, <3>2
  <2>4. running' = TRUE
    BY <1>4, <2>1, <2>3, DispatchModesAssumption
  <2>5. CASE job.kind = "apply" /\ job.at = "dispatch"
    BY <1>1, <2>2, <2>4, <2>5 DEF CleanRepairs
  <2>6. CASE ~(job.kind = "apply" /\ job.at = "dispatch")
    <3>1. /\ running /\ commanded = Wanted /\ LastWriteIs(Wanted)
          /\ job.kind = "apply" \/ rc = NoMode
      BY <2>1, <2>6 DEF IInv, CleanRepairs
    <3>2. CASE n = 1
      <4>1. wire' = <<>>
        BY <1>2, <3>2
      <4>2. target' = m
        BY <1>4, <2>1, <3>1
      <4>3. reconfirm = NoMode => m = Wanted
        BY <1>1, <3>1, <3>2 DEF LastWriteIs
      <4> QED
        BY <1>1, <2>2, <2>4, <2>6, <3>1, <4>1, <4>2, <4>3 DEF CleanRepairs, LastWriteIs
    <3>3. CASE n # 1
      <4>1. wire' # <<>> /\ wire'[Len(wire')] = wire[n]
        BY <1>2, <3>3
      <4> QED
        BY <1>1, <2>2, <2>4, <2>6, <3>1, <4>1 DEF CleanRepairs, LastWriteIs
    <3> QED
      BY <3>2, <3>3
  <2> QED
    BY <2>5, <2>6
<1> QED
  BY <1>5, <1>7, <1>10, <1>11, <1>12, <1>13 DEF IInv

LEMMA PassKeepsIInv ==
    ASSUME IInv, Pass
    PROVE  IInv'
PROOF
<1>1. /\ job = Idle /\ wire = <<>> /\ reconfirm = NoMode
      /\ failsafe' = Countdown(failsafe) /\ running' = (running /\ failsafe' > 0)
      /\ target' = (IF running' THEN target ELSE NoMode)
      /\ clean' = (clean /\ running') /\ rc' \in RcKept
      /\ missed' = IF missed < Failsafe THEN missed + 1 ELSE missed
      /\ UNCHANGED <<job, held, commanded, reconfirm, support, closed, wire, available, link>>
  BY DEF Pass, driver, world
<1>2. TypeOK'
  <2>1. failsafe' \in 0..Failsafe /\ missed' \in 0..Failsafe
    BY <1>1, DispatchBoundsAssumption DEF IInv, TypeOK, Countdown
  <2>2. running' \in BOOLEAN /\ clean' \in BOOLEAN
    BY <1>1
  <2>3. target' \in Forced \cup {NoMode} /\ rc' \in Forced \cup {NoMode}
    BY <1>1 DEF RcKept, IInv, TypeOK
  <2> QED
    BY <1>1, <2>1, <2>2, <2>3 DEF IInv, TypeOK
<1>3. CallsAreTheirs' /\ FewReconfirms' /\ JobFits' /\ CommandedIsHeld' /\ StoppedStays'
  BY <1>1 DEF IInv, CallsAreTheirs, FewReconfirms, JobOnWire, Waiting, Armed, JobFits,
              CommandedIsHeld, StoppedStays
<1>4. CleanRepairs'
  <2>1. SUFFICES ASSUME clean, running', ~closed
                 PROVE  CleanRepairs'
    BY <1>1 DEF CleanRepairs
  <2>2. Wanted' = held /\ Wanted = held
    BY <1>1 DEF Wanted, Idle
  <2>3. /\ support /\ held \in Forced /\ commanded = held /\ LastWriteIs(held)
    BY <1>1, <2>1, <2>2 DEF IInv, CleanRepairs, Idle
  <2>4. rc' = NoMode
    BY <1>1, <2>3, DispatchModesAssumption DEF RcKept
  <2> QED
    BY <1>1, <2>1, <2>2, <2>3, <2>4 DEF CleanRepairs, LastWriteIs, Idle
<1> QED
  BY <1>2, <1>3, <1>4 DEF IInv

\* Steps that touch neither the calls nor the block
LEMMA QuietStepsKeepIInv ==
    ASSUME IInv, Probe \/ AvailabilityChange \/ LinkChange
    PROVE  IInv'
PROOF
<1>1. /\ UNCHANGED <<job, held, commanded, reconfirm, closed, wire, running, target, failsafe, rc,
                     missed, clean>>
      /\ support' \in {support, Supported}
      /\ available' \in {available, ~available} /\ link' \in {link, ~link}
  BY DEF Probe, AvailabilityChange, LinkChange, driver, block, world
<1>2. TypeOK'
  <2>1. support' \in BOOLEAN /\ available' \in BOOLEAN /\ link' \in BOOLEAN /\ (support => support')
    BY <1>1 DEF Supported, IInv, TypeOK
  <2> QED
    BY <1>1, <2>1 DEF IInv, TypeOK
<1>3. support => support'
  BY <1>1 DEF Supported
<1>4. CallsAreTheirs' /\ FewReconfirms' /\ JobFits' /\ CommandedIsHeld' /\ StoppedStays'
  BY <1>1 DEF IInv, CallsAreTheirs, FewReconfirms, JobOnWire, Waiting, Armed, JobFits,
              CommandedIsHeld, StoppedStays
<1>5. CleanRepairs'
  BY <1>1, <1>3 DEF IInv, CleanRepairs, JobOnWire, Wanted, LastWriteIs
<1> QED
  BY <1>2, <1>4, <1>5 DEF IInv

LEMMA ShutdownKeepsIInv ==
    ASSUME IInv, Shutdown
    PROVE  IInv'
PROOF
<1>1. /\ closed' = TRUE /\ reconfirm' = NoMode
      /\ UNCHANGED <<job, held, commanded, support, wire, running, target, failsafe, rc,
                     available, link, missed, clean>>
  BY DEF Shutdown, block, world
<1>2. TypeOK' /\ CallsAreTheirs' /\ JobFits' /\ CommandedIsHeld' /\ StoppedStays' /\ CleanRepairs'
  BY <1>1 DEF IInv, TypeOK, CallsAreTheirs, Waiting, JobFits, CommandedIsHeld, StoppedStays,
              CleanRepairs
<1>3. FewReconfirms'
  <2>1. /\ Armed' = 0 /\ Armed \in 0..1 /\ Len(wire) \in Nat
        /\ (JobOnWire' <=> JobOnWire) /\ (Waiting' <=> Waiting)
    BY <1>1 DEF Armed, JobOnWire, Waiting, IInv, TypeOK
  <2>2. \A i \in DOMAIN wire : i \in Nat
    BY DEF IInv, TypeOK
  <2> QED
    BY <1>1, <2>1, <2>2 DEF IInv, FewReconfirms
<1> QED
  BY <1>2, <1>3 DEF IInv

LEMMA RestartKeepsIInv ==
    ASSUME IInv, Restart
    PROVE  IInv'
PROOF
<1>1. /\ job' = Idle /\ held' = NoMode /\ commanded' = NoMode /\ reconfirm' = NoMode
      /\ support' = FALSE /\ closed' = FALSE /\ available' = FALSE
      /\ wire' = <<>> /\ clean' = FALSE /\ missed' = 0
      /\ UNCHANGED <<running, target, failsafe, rc, link>>
  BY DEF Restart, block
<1>2. TypeOK'
  <2>1. missed' \in 0..Failsafe
    BY <1>1, DispatchBoundsAssumption
  <2>2. wire' \in Seq(Call) /\ Len(wire') <= 3
    BY <1>1
  <2> QED
    BY <1>1, <2>1, <2>2 DEF IInv, TypeOK
<1>3. CallsAreTheirs' /\ FewReconfirms' /\ JobFits' /\ CommandedIsHeld' /\ StoppedStays' /\ CleanRepairs'
  BY <1>1 DEF CallsAreTheirs, FewReconfirms, JobOnWire, Waiting, Armed, JobFits,
              CommandedIsHeld, StoppedStays, CleanRepairs, Idle
<1> QED
  BY <1>2, <1>3 DEF IInv

LEMMA Init_IInv == Init => IInv
PROOF
<1> SUFFICES ASSUME Init PROVE IInv
  OBVIOUS
<1>1. TypeOK
  <2>1. failsafe \in 0..Failsafe /\ missed \in 0..Failsafe
    BY DispatchBoundsAssumption DEF Init
  <2>2. wire \in Seq(Call) /\ Len(wire) <= 3
    BY DEF Init
  <2> QED
    BY <2>1, <2>2 DEF Init, TypeOK
<1>2. CallsAreTheirs /\ FewReconfirms /\ JobFits /\ CommandedIsHeld /\ StoppedStays /\ CleanRepairs
  BY DEF Init, CallsAreTheirs, FewReconfirms, JobOnWire, Waiting, Armed, JobFits,
         CommandedIsHeld, StoppedStays, CleanRepairs, Idle
<1> QED
  BY <1>1, <1>2 DEF IInv

LEMMA StutterKeepsIInv ==
    ASSUME IInv, UNCHANGED vars
    PROVE  IInv'
PROOF
  BY DEF vars, driver, block, world, IInv, TypeOK, CallsAreTheirs, FewReconfirms, JobOnWire, Waiting,
         Armed, JobFits, CommandedIsHeld, StoppedStays, CleanRepairs, Wanted, LastWriteIs

LEMMA Next_IInv == IInv /\ [Next]_vars => IInv'
PROOF
<1> SUFFICES ASSUME IInv, [Next]_vars PROVE IInv'
  OBVIOUS
<1>1. CASE Next
  BY <1>1, ApplyKeepsIInv, HoldKeepsIInv, DispatchReturnsKeepsIInv, StopReturnsKeepsIInv,
     BaseReturnsKeepsIInv, ReconfirmKeepsIInv, LandsKeepsIInv, PassKeepsIInv, QuietStepsKeepIInv,
     ShutdownKeepsIInv, RestartKeepsIInv DEF Next, JobStep
<1>2. CASE UNCHANGED vars
  BY <1>2, StutterKeepsIInv
<1> QED
  BY <1>1, <1>2

THEOREM Invariant == Spec => []IInv
PROOF
  BY Init_IInv, Next_IInv, PTL DEF Spec

\* Whatever calls are lost before and however re-confirms, holds and new modes
\* interleave: once everything has returned, a dispatch none of whose calls was lost
\* runs at the target commanded last, and the RC function is stood down
\* (_schedule_reconfirm, _on_reconfirm, hold).
THEOREM Repairs == Spec => []RepairsArmed
PROOF
<1>1. IInv => RepairsArmed
  BY DEF IInv, RepairsArmed, ReconfirmRepairs, CleanRepairs, Quiet, LastWriteIs, Wanted, Idle
<1> QED
  BY <1>1, Invariant, PTL

-----------------------------------------------------------------------------
(* The driver implements ForcedHold *)

Driving == Dispatching \/ rc # NoMode

Applying == IF job.kind = "apply" THEN job.mode ELSE NoMode

\* A step that brings the power back does it for a mode being applied or held.
LEMMA RefreshStep ==
    ASSUME UNCHANGED <<held, Applying>>,
           Driving' => Driving \/ {held, Applying} \cap Forced # {}
    PROVE  Promise!Refresh
PROOF
<1>1. Driving \in BOOLEAN /\ Driving' \in BOOLEAN
  BY DEF Driving
<1> QED
  BY <1>1 DEF Promise!Refresh, Promise!Drive, Driving, Applying

LEMMA ApplyKeepsPromise ==
    ASSUME IInv, NEW m \in Modes, Apply(m)
    PROVE  Promise!Begin(m)
PROOF
<1>1. /\ job = Idle /\ UNCHANGED <<held, running, target, rc>>
      /\ job'.kind = "apply" /\ job'.mode = m
  BY DEF Apply, CallerIdle, block, Dispatch, Release
<1>2. Applying = NoMode /\ Applying' = m
  BY <1>1 DEF Applying, Idle
<1>3. Driving' = Driving /\ Driving \in BOOLEAN
  BY <1>1 DEF Driving, Dispatching
<1> QED
  BY <1>1, <1>2, <1>3 DEF Promise!Begin, Promise!Drive, Driving, Applying

\* The wrapped driver drives a mode only when nothing is commanded.
LEMMA BaseReturnsKeepsPromise ==
    ASSUME IInv, BaseReturns
    PROVE  Promise!Refresh \/ Promise!Finish
PROOF
<1>1. /\ job.at = "base" /\ job' = Idle /\ held' = job.mode /\ rc' = RcAfter
      /\ UNCHANGED <<running, target>>
  BY DEF BaseReturns, block
<1>2. /\ job.kind \in {"apply", "hold"} /\ job.mode \in Modes /\ job.mode # NoMode
      /\ job.kind = "hold" => job.mode = held
  BY <1>1, DispatchModesAssumption DEF Job, IInv, TypeOK, JobFits, Idle
<1>3. Driving' => Driving \/ job.mode \in Forced
  BY <1>1 DEF Driving, Dispatching, RcAfter, StandsDown
<1>4. CASE job.kind = "apply"
  <2>1. Applying = job.mode /\ Applying' = NoMode
    BY <1>1, <1>4 DEF Applying, Idle
  <2>2. Driving \in BOOLEAN /\ Driving' \in BOOLEAN
    BY DEF Driving
  <2>3. Driving' => Driving \/ {held, Applying} \cap Forced # {}
    BY <1>3, <2>1
  <2> QED
    BY <1>1, <1>2, <2>1, <2>2, <2>3 DEF Promise!Finish, Promise!Drive, Driving, Applying
<1>5. CASE job.kind = "hold"
  <2>1. UNCHANGED <<held, Applying>>
    BY <1>1, <1>2, <1>5 DEF Applying, Idle
  <2> QED
    BY <1>2, <1>3, <1>5, <2>1, RefreshStep
<1> QED
  BY <1>2, <1>4, <1>5

\* A call that lands is a STOP, the dispatch of the job that waits for it, or a
\* re-confirm of a mode still held.
LEMMA LandsKeepsPromise ==
    ASSUME IInv, Lands
    PROVE  Promise!Refresh
PROOF
<1> DEFINE call == wire[1]
<1>1. /\ wire # <<>> /\ UNCHANGED <<job, held, rc>>
      /\ ~link => UNCHANGED <<running, target>>
      /\ link => running' = (Head(wire).mode # NoMode)
  BY DEF Lands, driver, block
<1>2. /\ Head(wire) = call /\ 1 \in DOMAIN wire /\ call \in Call
  BY <1>1, HeadTailProperties DEF IInv, TypeOK
<1>3. UNCHANGED Applying
  BY <1>1 DEF Applying
<1>4. call.mode # NoMode => {held, Applying} \cap Forced # {}
  <2>1. CASE call.by = "job"
    <3>1. Waiting /\ call.mode = (IF job.at = "stop" THEN NoMode ELSE job.mode)
      BY <1>2, <2>1 DEF IInv, CallsAreTheirs
    <3>2. call.mode # NoMode => job.at = "dispatch" /\ job.mode \in Forced
      BY <3>1 DEF Waiting, IInv, JobFits
    <3>3. job.at = "dispatch" => job.kind \in {"apply", "hold"}
      BY DEF IInv, TypeOK, Job, Idle
    <3> QED
      BY <3>2, <3>3 DEF IInv, JobFits, Applying
  <2>2. CASE call.by # "job"
    <3>1. call.by = "reconfirm"
      BY <1>2, <2>2 DEF Call
    <3>2. CASE commanded # NoMode
      BY <3>2 DEF IInv, CommandedIsHeld, Applying
    <3>3. CASE commanded = NoMode
      <4>1. job.at = "stop"
        BY <1>2, <3>1, <3>3 DEF IInv, StoppedStays
      <4> QED
        BY <4>1 DEF IInv, JobFits
    <3> QED
      BY <3>2, <3>3
  <2> QED
    BY <2>1, <2>2
<1>5. Driving' => Driving \/ {held, Applying} \cap Forced # {}
  BY <1>1, <1>2, <1>4 DEF Driving, Dispatching, IInv, TypeOK
<1> QED
  BY <1>1, <1>3, <1>5, RefreshStep

\* The heartbeat of the wrapped driver keeps the power up only for a mode held.
LEMMA OthersKeepPromise ==
    ASSUME IInv, \/ Hold \/ DispatchReturns \/ StopReturns \/ Probe \/ Reconfirm \/ Shutdown
                 \/ Pass \/ AvailabilityChange \/ LinkChange
    PROVE  Promise!Refresh
PROOF
<1>1. UNCHANGED held
  BY DEF Hold, DispatchReturns, StopReturns, Probe, Reconfirm, Shutdown, Pass, AvailabilityChange,
         LinkChange, driver
<1>2. UNCHANGED Applying
  <2>1. CASE Hold
    <3>1. job = Idle /\ job'.kind = "hold"
      BY <2>1 DEF Hold, CallerIdle, Dispatch
    <3> QED
      BY <3>1 DEF Applying, Idle
  <2>2. CASE DispatchReturns \/ StopReturns
    <3>1. job.at # "done" /\ job' = [job EXCEPT !.at = "base"]
      BY <2>2 DEF DispatchReturns, StopReturns, Returned
    <3>2. job \in Job
      BY <3>1 DEF IInv, TypeOK, Idle
    <3>3. job'.kind = job.kind /\ job'.mode = job.mode
      BY <3>1, <3>2 DEF Job
    <3> QED
      BY <3>3 DEF Applying
  <2>3. CASE Probe \/ Reconfirm \/ Shutdown \/ Pass \/ AvailabilityChange \/ LinkChange
    BY <2>3 DEF Probe, Reconfirm, Shutdown, Pass, AvailabilityChange, LinkChange, Applying
  <2> QED
    BY <2>1, <2>2, <2>3
<1>3. Driving' => Driving \/ {held, Applying} \cap Forced # {}
  <2>1. CASE Pass
    <3>1. rc' \in RcKept /\ (running' => running) /\ (running' => target' = target)
      BY <2>1 DEF Pass
    <3>2. Dispatching' => Dispatching
      BY <3>1 DEF Dispatching
    <3>3. rc' # NoMode => rc # NoMode \/ held \in Forced
      BY <3>1 DEF RcKept
    <3> QED
      BY <3>2, <3>3 DEF Driving
  <2>2. CASE ~Pass
    <3>1. UNCHANGED <<running, target, rc>>
      BY <2>2 DEF Hold, DispatchReturns, StopReturns, Probe, Reconfirm, Shutdown,
                  AvailabilityChange, LinkChange, block
    <3> QED
      BY <3>1 DEF Driving, Dispatching
  <2> QED
    BY <2>1, <2>2
<1> QED
  BY <1>1, <1>2, <1>3, RefreshStep

LEMMA InitPromise == Init => Promise!Init
PROOF
<1>1. SUFFICES ASSUME Init PROVE Promise!Init
  OBVIOUS
<1>2. held = NoMode /\ Applying = NoMode /\ Driving \in BOOLEAN
  BY <1>1 DEF Init, Idle, Applying, Driving
<1> QED
  BY <1>2 DEF Promise!Init, Applying, Driving

LEMMA NextKeepsPromise ==
    ASSUME IInv, [Next]_vars
    PROVE  [Promise!Next]_(Promise!vars)
PROOF
<1>1. CASE UNCHANGED vars
  BY <1>1 DEF vars, driver, block, Promise!vars, Dispatching
<1>2. CASE Restart
  <2>1. held' = NoMode /\ Applying' = NoMode /\ UNCHANGED <<running, target, rc>>
    BY <1>2 DEF Restart, block, Applying, Idle
  <2>2. Driving' = Driving /\ Driving \in BOOLEAN
    BY <2>1 DEF Driving, Dispatching
  <2>3. Promise!Restart
    BY <2>1, <2>2 DEF Promise!Restart, Promise!Drive, Driving, Applying
  <2> QED
    BY <2>3 DEF Promise!Next
<1>3. CASE Next /\ ~Restart
  <2>1. \/ \E m \in Modes : Promise!Begin(m)
        \/ Promise!Refresh \/ Promise!Finish
    BY <1>3, ApplyKeepsPromise, BaseReturnsKeepsPromise, LandsKeepsPromise, OthersKeepPromise
    DEF Next, JobStep
  <2> QED
    BY <2>1 DEF Promise!Next
<1> QED
  BY <1>1, <1>2, <1>3

\* The dispatch driver keeps the promise of every driver with a volatile hold: the
\* inverter follows a forced target only on behalf of a mode being applied or held,
\* whatever calls, re-confirms and restarts interleave.
THEOREM ImplementsPromise == Spec => KeepsPromise
PROOF
<1>1. Init => Promise!Init
  BY InitPromise
<1>2. IInv /\ [Next]_vars => [Promise!Next]_(Promise!vars)
  BY NextKeepsPromise
<1> QED
  BY <1>1, <1>2, Invariant, PTL DEF Spec, KeepsPromise, Promise!Spec

================================================================================
