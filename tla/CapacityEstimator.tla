-------------------------- MODULE CapacityEstimator --------------------------
(***************************************************************************)
(* What a battery really holds, learnt from its own cycles (CapacityEstimator *)
(* of pipeline/battery.py).                                                  *)
(*                                                                           *)
(* Energies are whole Wh, measured on the AC side; the state of charge is in  *)
(* percent.  The one-way efficiency, sqrt(round trip) in the code, is the     *)
(* fraction EtaNum / EtaDen, and quotients are rounded down.                 *)
(***************************************************************************)
EXTENDS Integers, Sequences, SequencesExt

CONSTANTS
    EtaNum, EtaDen,     \* one-way efficiency
    MinSwing,           \* CAPACITY_OBS_MIN_SOC_DELTA
    NominalEps,         \* _NOMINAL_CHANGE_EPS_KWH
    Schema              \* _CAPACITY_SCHEMA_VERSION

ASSUME EstimatorAssumption ==
    /\ EtaNum \in Nat \ {0} /\ EtaDen \in Nat \ {0} /\ EtaNum <= EtaDen
    /\ MinSwing \in Nat \ {0}
    /\ NominalEps \in Nat /\ Schema \in Nat

\* CapacityObservation
Observation == [soc_start : 0..100, soc_end : 0..100, energy : Nat \ {0},
                direction : {"charge", "discharge"}]

Distance(a, b) == IF a > b THEN a - b ELSE b - a

FreshEstimator(nominal) == [nominal |-> nominal, obs |-> <<>>]

\* _implied, of an observation whose swing is not zero: the energy that went in
\* is more than what is stored, the energy that came out is less.
Implied(o) ==
    LET swing == Distance(o.soc_end, o.soc_start)
    IN  IF o.direction = "charge"
        THEN (o.energy * 100 * EtaNum) \div (swing * EtaDen)
        ELSE (o.energy * 100 * EtaDen) \div (swing * EtaNum)

\* Mutation: any swing is believed.
AcceptUnbanded(nominal, o) == Distance(o.soc_end, o.soc_start) >= MinSwing

\* _accept: between half and twice the nameplate
Accept(nominal, o) ==
    /\ Distance(o.soc_end, o.soc_start) >= MinSwing
    /\ nominal <= 2 * Implied(o)
    /\ Implied(o) <= 2 * nominal

\* add_observation
AddObservation(est, o) ==
    IF Accept(est.nominal, o) THEN [est EXCEPT !.obs = Append(@, o)] ELSE est

\* estimated_capacity_kwh: each observation weighs 9/10 of the next one; what
\* the plausibility filter refuses today does not count, whenever it came in.
Estimate(est) ==
    LET good == SelectSeq(est.obs, LAMBDA o : Accept(est.nominal, o))
        n    == Len(good)
        Index == [i \in 1..n |-> i]
        num  == FoldLeft(LAMBDA acc, i : 9 * acc + (10 ^ (i - 1)) * Implied(good[i]), 0, Index)
        den  == FoldLeft(LAMBDA acc, i : 9 * acc + 10 ^ (i - 1), 0, Index)
    IN  IF n = 0 THEN est.nominal ELSE num \div den

-----------------------------------------------------------------------------
(* Persistence *)

\* to_dict: the efficiency is configuration and is not stored
ToDict(est) == [schema |-> Schema, nominal |-> est.nominal, obs |-> est.obs]

\* Mutation: the nominal that was stored is kept.
FromDictOwnNominal(data, nominal) ==
    IF data.schema < Schema THEN FreshEstimator(data.nominal) ELSE [nominal |-> data.nominal, obs |-> data.obs]

\* Mutation: what was stored is always taken back.
FromDictKeepAll(data, nominal) == [nominal |-> nominal, obs |-> data.obs]

\* from_dict: samples of an old schema and of a pack of another size are dropped
FromDict(data, nominal) ==
    IF data.schema < Schema \/ Distance(nominal, data.nominal) > NominalEps
    THEN FreshEstimator(nominal)
    ELSE [nominal |-> nominal, obs |-> data.obs]
==============================================================================
