------------------------------- MODULE DagEngine -------------------------------
(***************************************************************************)
(* The tiered executor of the coordinator's computation nodes                *)
(* (pipeline/dag_engine.py).  A value is named by its type; a context is the  *)
(* set of types present in `primary' and in `secondary'.  Nodes never await,  *)
(* so a tier runs as one step; what a node computes is left to the modules    *)
(* that model it: here it deposits its output, or raises and deposits nothing. *)
(***************************************************************************)
EXTENDS Integers, FiniteSets, FiniteSetsExt

CONSTANTS
    Nodes,
    Output,         \* the type a node deposits
    Consumes,       \* the types that gate a node
    Optional        \* the types a node reads after their producers but can miss

\* The nodes whose outputs n waits for.
DepProducers(n) == {p \in Nodes : Output[p] \in Consumes[n] \cup Optional[n]}

\* The same, as a function: what the constructor builds its edges from.
WaitsFor == [n \in Nodes |-> DepProducers(n)]

\* A type has one producer, and nodes do not wait for each other: constructing the engine
\* raises when there is a cycle.
ASSUME GraphAssumption ==
    /\ IsFiniteSet(Nodes) /\ Nodes # {}
    /\ \A m, n \in Nodes : Output[m] = Output[n] => m = n
    /\ \A S \in SUBSET Nodes : S # {} => \E n \in S : WaitsFor[n] \cap S = {}

\* Longest-path layering: a node lies above everything it waits for.
Resolve[n \in Nodes] == 1 + Max({Resolve[p] : p \in WaitsFor[n]} \cup {-1})

Tier == [n \in Nodes |-> Resolve[n]]

LastTier == Max({Tier[n] : n \in Nodes})

\* Mutation: an optional input gates its reader like a required one.
AllGate(n, primary, secondary) ==
    (Consumes[n] \cup Optional[n]) \ primary \subseteq secondary

\* all_secondary_deps_satisfied: what is not primary has been deposited.
Satisfied(n, primary, secondary) == Consumes[n] \ primary \subseteq secondary

\* One tier: readiness is read before any of its nodes runs; a node that raises
\* is isolated.
RunTier(k, primary, secondary, broken) ==
    secondary \cup {Output[n] : n \in {r \in Nodes : /\ Tier[r] = k
                                                     /\ Satisfied(r, primary, secondary)
                                                     /\ r \notin broken}}

\* What one run leaves in the secondary context, tier after tier.
Run(primary, broken) ==
    LET after[k \in 0..(LastTier + 1)] ==
            IF k = 0 THEN {}
            ELSE UNION {RunTier(k - 1, primary, below, broken) : below \in {after[k - 1]}}
    IN  after[LastTier + 1]

----------------------------------------------------------------------------
\* The promise, without tiers: the nodes that can compute at all are those that
\* no raising node and no absent input lies upstream of.
Upstream(n) ==
    LET reach[d \in 0..Cardinality(Nodes)] ==
            IF d = 0 THEN {n}
            ELSE UNION {near \cup {p \in Nodes : \E m \in near : Output[p] \in Consumes[m]} :
                            near \in {reach[d - 1]}}
    IN  reach[Cardinality(Nodes)]

Produced == {Output[n] : n \in Nodes}

UpstreamOf == [n \in Nodes |-> Upstream(n)]
InputsOf   == [n \in Nodes |-> (UNION {Consumes[u] : u \in UpstreamOf[n]}) \ Produced]

Promised(primary, broken) ==
    {Output[n] : n \in {m \in Nodes : UpstreamOf[m] \cap broken = {} /\ InputsOf[m] \subseteq primary}}
=============================================================================
