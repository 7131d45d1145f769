---------------------------- MODULE MCControlModule ----------------------------
(* A small instance: a passive mode, a forced mode that drives one more     *)
(* control point, and a mode without a spec.                                *)
EXTENDS ControlModule

CONSTANTS SelfUse, Discharge, Unknown, reg, rc, lo, hi

MCModes   == {SelfUse, Discharge, Unknown}
MCPoints  == {reg, rc}
MCValues  == {lo, hi}
MCTargets == (SelfUse   :> (reg :> lo))
          @@ (Discharge :> (reg :> hi @@ rc :> hi))

\* one control point, no mode without a spec: the same control flow, fewer readings
OneModes   == {SelfUse, Discharge}
OnePoints  == {reg}
NoOverride == {}
OneTargets == (SelfUse :> (reg :> lo)) @@ (Discharge :> (reg :> hi))
=============================================================================
