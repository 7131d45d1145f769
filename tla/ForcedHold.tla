------------------------------ MODULE ForcedHold ------------------------------
(***************************************************************************)
(* What a driver with a volatile hold promises the control module           *)
(* (outbound/driver.py): the inverter is driven at a forced power only on   *)
(* behalf of a mode that is being applied or is held.  A driver whose       *)
(* refresh arrives late, is retried or is interleaved with a mode change    *)
(* must not bring back a forced mode that was stood down.                   *)
(***************************************************************************)
CONSTANTS
    Modes,
    Forced,         \* the modes that drive a power target
    NoMode

VARIABLES
    held,           \* mode of the last finished apply_mode
    applying,       \* mode of the apply_mode in progress
    driving         \* the inverter follows a forced power target

vars == <<held, applying, driving>>

TypeOK ==
    /\ held \in Modes \cup {NoMode}
    /\ applying \in Modes \cup {NoMode}
    /\ driving \in BOOLEAN

Init == held = NoMode /\ applying = NoMode /\ driving \in BOOLEAN

\* A forced power target may be set, renewed or lost while a forced mode is
\* wanted; otherwise it can only be lost.
Drive == driving' \in IF {held, applying} \cap Forced # {} THEN BOOLEAN ELSE {driving, FALSE}

Begin(m) == applying = NoMode /\ applying' = m /\ held' = held /\ Drive

Finish == applying # NoMode /\ held' = applying /\ applying' = NoMode /\ Drive

Refresh == UNCHANGED <<held, applying>> /\ Drive

\* The process restarts: what it held is forgotten, the inverter goes on.
Restart == held' = NoMode /\ applying' = NoMode /\ Drive

Next == (\E m \in Modes : Begin(m)) \/ Finish \/ Refresh \/ Restart

Spec == Init /\ [][Next]_vars
===============================================================================
