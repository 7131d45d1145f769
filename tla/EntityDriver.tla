------------------------------- MODULE EntityDriver -------------------------------
(***************************************************************************)
(* The driver that turns a storage mode into writes of Home Assistant         *)
(* entities (outbound/entity_control.py), with its write lock, the plan it     *)
(* holds and the heartbeat that renews a timed one; the Solis register driver  *)
(* has the same shape and is one of the platforms.  Each service call is an    *)
(* await, so a step is one write.                                             *)
(*                                                                           *)
(* Time is counted in beats of the heartbeat.                                 *)
(***************************************************************************)
EXTENDS ControlPlans

CONSTANTS
    Tight,          \* a narrow bound that one number entity may advertise
    Deadman,        \* the beats that a forcible command of Huawei outlives
    MaxFaults       \* bound: failed writes, foreign writes and moves of a bound

ASSUME DriverAssumption == Tight \in Nat \ {0} /\ Deadman \in Nat \ {0} /\ MaxFaults \in Nat

\* Huawei's command outlives the beats that may fail (_KEEPALIVE_INTERVAL against
\* _FORCIBLE_DURATION_MIN).
ASSUME KeepaliveAssumption == MaxFaults < Deadman

VARIABLES
    platform,       \* the configured platform
    unmapped,       \* roles without an entity
    tight,          \* the role whose bound is narrow now
    entities,       \* what the entities hold: by kind, by role
    forcible,       \* external: the inverter's own timed command and its age
    commanded,      \* the mode the control module commanded last
    jobs,           \* what the control module and the heartbeat are doing
    owner,          \* who holds _write_lock
    held,           \* _held_plan
    beating,        \* the heartbeat runs
    loaded,         \* the entry is loaded
    faults,         \* history: faults so far
    disturbed,      \* history: a fault since the last command may show in the readback
    released        \* history: the beats since a forced mode was wanted last, or Late

fixed  == <<platform, unmapped>>
device == <<entities, forcible>>
vars   == <<fixed, tight, device, commanded, jobs, owner, held, beating, loaded, faults, disturbed,
            released>>

NoMode   == "none"
Callers  == {"module", "beat"}
NoSpec   == [mode |-> NoMode, tight |-> "none"]
Resting  == [at |-> "idle", kind |-> "apply", spec |-> NoSpec, next |-> 1]
Numbers  == {"export", "power", "charge", "discharge", "rc_timeout", "rc_setpoint"}
Selects  == {"mode", "direction", "rc"}
Switches == {"self_use", "tou", "grid_charge", "feed_in"}
Late     == -1      \* an apply_mode ended after the unload
Powers   == -Rated..(Rated + Charge + Discharge + ExportCap)

TypeOK ==
    /\ platform \in Platforms /\ unmapped \subseteq {"mode", "export", "device"}
    /\ tight \in Numbers \cup {"none"}
    /\ entities.number \in [Numbers -> Powers]
    /\ DOMAIN entities.select = Selects /\ entities.switch \in [Switches -> BOOLEAN]
    /\ forcible.direction \in {"none", "charge", "discharge"} /\ forcible.age \in 0..Deadman
    /\ commanded \in Dispatched \cup {NoMode} /\ held.mode \in Dispatched \cup {NoMode}
    /\ \A c \in Callers : /\ jobs[c].at \in {"idle", "waiting", "writing"}
                          /\ jobs[c].kind \in {"apply", "hold", "beat"}
    /\ owner \in Callers \cup {"none"} /\ beating \in BOOLEAN
    /\ loaded \in BOOLEAN
    /\ faults \in 0..MaxFaults /\ disturbed \in BOOLEAN
    /\ released \in Late..(Deadman + 1)
    /\ \A c \in Callers : (owner = c) <=> (jobs[c].at = "writing")

----------------------------------------------------------------------------
\* EntityActuator.

\* limit_for and Limit.clamp: an unmapped role advertises no bound.
Clamp(role, value, narrow) ==
    IF role = narrow /\ role \notin unmapped
    THEN Max({-Tight, Min({value, Tight})}) ELSE value

\* Mutation: the plan is compared as composed, not as it can be written.
ReduceNothing(write, narrow) == write

\* _reduce_write.
Reduce(write, narrow) ==
    IF write.kind = "number"
    THEN [write EXCEPT !.value = Clamp(write.role, write.value, narrow)] ELSE write

\* effective_spec.
Effective(spec) ==
    LET plan == Plans[platform][spec.mode]
    IN  [i \in DOMAIN plan |-> Reduce(plan[i], spec.tight)]

\* What a caller writes: an apply the whole plan, a renewal what is volatile in it.
Writes(job) ==
    IF job.kind = "apply" THEN Effective(job.spec)
    ELSE IF KeepsAlive(platform, job.spec.mode)
         THEN Renewed(platform, Effective(job.spec)) ELSE <<>>

\* A call that gets through.  An unmapped role is skipped, a number is clamped again.
Landed(write) ==
    IF write.role \in unmapped THEN UNCHANGED device
    ELSE IF write.kind = "service"
    THEN /\ forcible' = [direction |-> IF write.value = "stop" THEN "none" ELSE write.value,
                         age |-> 0]
         /\ UNCHANGED entities
    ELSE /\ entities' = [entities EXCEPT ![write.kind][write.role] =
                            IF write.kind = "number"
                            THEN Clamp(write.role, write.value, tight) ELSE write.value]
         /\ UNCHANGED forcible

----------------------------------------------------------------------------
\* The control module calls.

\* apply_mode, with the spec resolved before the lock is waited for.
Command(mode) ==
    /\ loaded /\ jobs["module"].at = "idle"
    /\ commanded' = mode
    /\ jobs' = [jobs EXCEPT !["module"] =
                   [at |-> "waiting", kind |-> "apply", next |-> 1,
                    spec |-> [mode |-> mode, tight |-> tight]]]
    /\ disturbed' = FALSE
    /\ released' = IF mode \in Forced THEN 0 ELSE released
    /\ UNCHANGED <<fixed, tight, device, owner, held, beating, loaded, faults>>

\* hold, on a cycle that finds the mode unchanged.
Hold ==
    /\ loaded /\ jobs["module"].at = "idle" /\ commanded # NoMode
    /\ jobs' = [jobs EXCEPT !["module"] =
                   [at |-> "waiting", kind |-> "hold", next |-> 1,
                    spec |-> [mode |-> commanded, tight |-> tight]]]
    /\ UNCHANGED <<fixed, tight, device, commanded, owner, held, beating, loaded, faults, disturbed,
                   released>>

\* Mutation: the heartbeat does not take the write lock.
AcquiredUnlocked(c) == jobs[c].at = "waiting" /\ (c = "beat" \/ owner = "none")

Acquired(c) == jobs[c].at = "waiting" /\ owner = "none"

\* The lock is taken: hold notes its plan first, a beat reads the held plan only now.
Acquire(c) ==
    /\ Acquired(c)
    /\ owner' = c
    /\ LET spec == IF c = "beat" THEN held ELSE jobs[c].spec
       IN  /\ jobs' = [jobs EXCEPT ![c].at = "writing", ![c].spec = spec]
           /\ held' = IF jobs[c].kind = "hold" THEN spec ELSE held
    /\ UNCHANGED <<fixed, tight, device, commanded, beating, loaded, faults, disturbed, released>>

\* One write, in plan order; _call_service logs a failure and goes on.
WriteNext(c) ==
    LET job == jobs[c]
    IN  /\ job.at = "writing" /\ job.spec.mode # NoMode /\ job.next <= Len(Writes(job))
        /\ jobs' = [jobs EXCEPT ![c].next = @ + 1]
        /\ \/ /\ Landed(Writes(job)[job.next])
              /\ UNCHANGED <<faults, disturbed>>
           \/ /\ faults < MaxFaults
              /\ faults' = faults + 1
              /\ disturbed' = (disturbed \/ job.kind = "apply")
              /\ UNCHANGED device
        /\ UNCHANGED <<fixed, tight, commanded, owner, held, beating, loaded, released>>

\* Mutation: the heartbeat of an earlier mode is left running, none is started.
PhasedNever(spec) == beating

\* Heartbeat.start and stop, phased to the write.
Phased(spec) == KeepsAlive(platform, spec.mode)

\* Everything is written: an apply notes its plan and rephases the heartbeat.
Finish(c) ==
    LET job == jobs[c]
    IN  /\ job.at = "writing" /\ (job.spec.mode = NoMode \/ job.next > Len(Writes(job)))
        /\ jobs' = [jobs EXCEPT ![c] = Resting]
        /\ owner' = "none"
        /\ IF job.kind = "apply"
           THEN held' = job.spec /\ beating' = Phased(job.spec)
           ELSE UNCHANGED <<held, beating>>
        /\ released' = IF job.kind = "apply" /\ ~loaded THEN Late ELSE released
        /\ UNCHANGED <<fixed, tight, device, commanded, loaded, faults, disturbed>>

----------------------------------------------------------------------------
\* Time, and the world.

\* One interval passes: the inverter counts, a beat falls due.  No call takes longer
\* than an interval.
Tick ==
    /\ \A c \in Callers : jobs[c].at = "idle"
    /\ forcible' = IF forcible.direction = "none" THEN forcible
                   ELSE IF forcible.age < Deadman THEN [forcible EXCEPT !.age = @ + 1]
                   ELSE [direction |-> "none", age |-> 0]
    /\ jobs' = IF beating
               THEN [jobs EXCEPT !["beat"] = [Resting EXCEPT !.at = "waiting", !.kind = "beat"]]
               ELSE jobs
    /\ released' = IF released = Late \/ (loaded /\ commanded \in Forced) THEN released
                   ELSE Min({released + 1, Deadman + 1})
    /\ UNCHANGED <<fixed, tight, entities, commanded, owner, held, beating, loaded, faults, disturbed>>

\* Mutation: the heartbeat outlives the entry.
ShutdownForgets ==
    /\ loaded
    /\ loaded' = FALSE
    /\ UNCHANGED <<fixed, tight, device, commanded, jobs, owner, held, beating, faults, disturbed,
                   released>>

\* shutdown: the heartbeat stops; a call that is under way goes on.
Shutdown ==
    /\ loaded
    /\ loaded' = FALSE
    /\ beating' = FALSE
    /\ UNCHANGED <<fixed, tight, device, commanded, jobs, owner, held, faults, disturbed, released>>

\* Somebody else sets the mode, or the integration moves a bound.
Foreign ==
    /\ faults < MaxFaults
    /\ faults' = faults + 1 /\ disturbed' = TRUE
    /\ \/ /\ \E mode \in Dispatched, i \in 1..2 :
                LET write == Plans[platform][mode][i]
                IN  write.kind = "select" /\ Landed(write)
          /\ UNCHANGED tight
       \/ /\ tight' = IF tight = "none" THEN "export" ELSE "none"
          /\ UNCHANGED device
    /\ UNCHANGED <<fixed, commanded, jobs, owner, held, beating, loaded, released>>

\* What the entities show after a mode was set.
Shown(p, mode) ==
    LET plan == Plans[p][mode]
        of(kind, role, default) ==
            LET mine == {i \in DOMAIN plan : plan[i].kind = kind /\ plan[i].role = role}
            IN  IF mine = {} THEN default ELSE plan[Max(mine)].value
    IN  [number |-> [r \in Numbers |-> of("number", r, 0)],
         select |-> [r \in Selects |-> of("select", r, Unknown)],
         switch |-> [r \in Switches |-> of("switch", r, FALSE)]]

\* A restart finds the command of the last run in force.
Init ==
    /\ platform \in Platforms
    /\ unmapped \in IF platform = "solis" THEN {{}}
                    ELSE IF platform = "huawei" THEN {{}, {"mode"}, {"device"}} ELSE {{}, {"export"}}
    /\ tight \in {"none", "export"} \cup (IF platform = "solis" THEN {"discharge", "rc_setpoint"} ELSE {})
    /\ \E mode \in {"SelfUse", "GridCharge"} : entities = Shown(platform, mode)
    /\ forcible \in [direction : {"none"} \cup (IF platform = "huawei" THEN {"charge"} ELSE {}), age : {0}]
    /\ commanded = NoMode
    /\ jobs = [c \in Callers |-> Resting]
    /\ owner = "none" /\ held = NoSpec /\ beating = FALSE
    /\ loaded = TRUE
    /\ faults = 0 /\ disturbed = FALSE /\ released = 0

Next ==
    \/ \E mode \in Dispatched : Command(mode)
    \/ Hold
    \/ \E c \in Callers : Acquire(c) \/ WriteNext(c) \/ Finish(c)
    \/ Tick \/ Shutdown \/ Foreign

Spec == Init /\ [][Next]_vars

----------------------------------------------------------------------------
\* What the driver reads back.

Mapped(role) == role \notin unmapped

\* _row_for, _register_row: an entity that cannot be read is no mismatch.
Mismatched(write) ==
    /\ write.row /\ Mapped(write.role)
    /\ entities[write.kind][write.role] # write.value

\* control_surface, composed with the bounds of this moment.
Surface(mode) == Effective([mode |-> mode, tight |-> tight])

Verified(mode) == \A i \in DOMAIN Surface(mode) : ~Mismatched(Surface(mode)[i])

\* decode_observed.
Observed ==
    IF platform = "solis"
    THEN DecodeRegisters({bit \in Switches : entities.switch[bit]}, entities.number["discharge"],
                         entities.number["rc_setpoint"], entities.number["export"],
                         entities.select["rc"] = "engaged")
    ELSE LET of(role) == IF Mapped(role) THEN entities.select[role] ELSE Unknown
         IN  DecodeState(platform, of("mode"), of("direction"))

\* External: the flow the settings force on the battery.
ForcedFlow ==
    CASE platform = "huawei" -> forcible.direction
      [] platform \in {"solax", "sungrow"} ->
            IF entities.select["mode"] = "manual" /\ entities.select["direction"] # "stop"
            THEN entities.select["direction"] ELSE "none"
      [] platform = "goodwe" ->
            IF entities.number["power"] = 0 \/ entities.select["mode"] = "general" THEN "none"
            ELSE IF entities.select["mode"] = "eco_charge" THEN "charge" ELSE "discharge"
      [] platform = "deye" ->
            IF entities.switch["grid_charge"] THEN "charge" ELSE "none"
      [] platform = "solis" ->
            IF entities.select["rc"] # "engaged" \/ entities.number["rc_setpoint"] = 0 THEN "none"
            ELSE IF entities.number["rc_setpoint"] < 0 THEN "charge" ELSE "discharge"

\* Deye has no forced discharge, only a selling priority.
Intended(mode) ==
    CASE mode = "GridCharge" -> "charge"
      [] mode = "Discharge" /\ platform # "deye" -> "discharge"
      [] OTHER -> "none"

\* Mutation: the remote control's own bound is left out.
ReachWithoutRc == IF tight \in {"discharge", "export"} THEN Tight ELSE Rated + Discharge + ExportCap

\* _capability: what the planner is told a discharge to the grid can reach.  A bound
\* that is not narrow is above what is configured.
Reach == IF tight \in {"discharge", "rc_setpoint", "export"} THEN Tight ELSE Rated + Discharge + ExportCap

----------------------------------------------------------------------------
\* Properties.  A command has settled when it was applied in full and nothing
\* disturbed it since.

Settled == /\ loaded /\ commanded # NoMode /\ held.mode = commanded /\ ~disturbed
           /\ \A c \in Callers : jobs[c].at = "idle"

\* What was written is what is compared: a settled command never shows a mismatch, which
\* no write could resolve (effective_spec against the clamp of the write path).
AppliedVerifies == Settled => Verified(commanded)

\* A settled mode is read back as itself, or as the mode its platform cannot tell it
\* from, whatever an earlier mode left in the entities it does not write.
DecodedAsApplied ==
    Settled /\ unmapped = {} /\ Effective(held) = Plans[platform][commanded] =>
        \/ Observed = commanded
        \/ /\ platform # "solis"
           /\ \/ Observed = "SelfUse" /\ commanded \notin Forced
              \/ Observed \in {"SelfUse", "FeedIn"} /\ platform \in {"huawei", "deye"}
              \/ Observed = "GridCharge" /\ platform = "goodwe" /\ commanded = "StandBy"

\* A forced mode that settled is in force until it is replaced: beats renew it in time
\* and survive a failed write (keepalive, _KEEPALIVE_INTERVAL).
ForceLasts ==
    Settled /\ unmapped = {} /\ Intended(commanded) # "none" => ForcedFlow = Intended(commanded)

\* The flow that is forced is the one the settled mode intends, none of an earlier mode is
\* left running: under every mode where each plan undoes what the forced ones did, and under
\* StandBy on Huawei and Deye, whose other passive plans do not.
PassiveEndsForce ==
    Settled /\ unmapped = {} /\ (platform \notin {"huawei", "deye"} \/ commanded = "StandBy")
        => ForcedFlow = Intended(commanded)

\* What a passive plan or an unload leaves of Huawei's timed command is renewed by nobody: it
\* is over when as many beats went by as the command outlives.  Only an apply_mode in flight
\* at the unload may force it for longer.
LeftoverLapses == platform = "huawei" /\ released > Deadman => forcible.direction = "none"

\* A discharge that was planned within the reported capability is commanded in full.
PlannedIsCommanded ==
    platform = "solis" /\ Settled /\ commanded = "Discharge" /\ held.tight = tight =>
        Min({Min({Discharge, Rated, ExportCap}), Reach}) =
        Min({entities.number["discharge"], entities.number["rc_setpoint"], entities.number["export"]})

\* What the rows, the decoded mode and the planner are told of a settled command is what
\* was commanded (control_rows, decode_mode, capability).
SettledShows == TypeOK /\ AppliedVerifies /\ DecodedAsApplied /\ PlannedIsCommanded

\* The flow in force is that of the mode commanded last: kept while it is held, and gone when
\* another takes over or the entry is unloaded, at once or with its time (apply_mode, hold,
\* shutdown).
ForceFollowsMode == ForceLasts /\ PassiveEndsForce /\ LeftoverLapses

=============================================================================
