------------------------- MODULE CoordinatorCycleProofs -------------------------
(***************************************************************************)
(* What the coordinator keeps whatever its graph of nodes is, however many    *)
(* cycles are under way and however long they last: the operator's override   *)
(* has the last word, and commands reach the inverter in the order of the     *)
(* ticks.  First, what the tiers of any acyclic graph of nodes leave in the   *)
(* context: exactly the outputs of the nodes with no raising node and no      *)
(* absent input upstream.                                                    *)
(*                                                                           *)
(* Last, what the planner promises of every plan the cycle asks it for,       *)
(* whatever the prices, the sun, the load and the policy: it is a chain of    *)
(* slots within the battery's limits that never spends the reserve, and       *)
(* energy goes to the grid on purpose only where it pays.                    *)
(***************************************************************************)
EXTENDS CoordinatorCycle, SchedulePlanner, CommonLemmas

USE DEF Never

----------------------------------------------------------------------------
(* The graph of nodes *)

\* The layering of _assign_tiers exists, and a node lies above everything it waits for.
LEMMA Layered ==
    /\ Tier \in [Nodes -> Nat]
    /\ \A n \in Nodes : \A p \in DepProducers(n) : Tier[p] < Tier[n]
    /\ LastTier \in Nat /\ \A n \in Nodes : Tier[n] <= LastTier
PROOF
<1> DEFINE above(X) == 1 + Max(X \cup {-1})
           step == [x \in Nodes \X SUBSET Nat |-> IF above(x[2]) \in Nat THEN above(x[2]) ELSE 0]
<1>1. WaitsFor \in [Nodes -> SUBSET Nodes]
  BY DEF WaitsFor, DepProducers
<1>2. \A S \in SUBSET Nodes : S # {} => \E n \in S : WaitsFor[n] \cap S = {}
  BY GraphAssumption
<1>3. step \in [Nodes \X SUBSET Nat -> Nat]
  OBVIOUS
<1>4. \A n \in Nodes, X \in SUBSET Nat :
         step[<<n, X>>] = IF above(X) \in Nat THEN above(X) ELSE 0
  OBVIOUS
<1> HIDE DEF step
<1>5. PICK f \in [Nodes -> Nat] : Follows(f, Nodes, WaitsFor, step)
  BY <1>1, <1>2, <1>3, OrderedRecursion
<1>6. ASSUME NEW n \in Nodes
      PROVE  /\ f[n] = above({f[p] : p \in WaitsFor[n]})
             /\ \A p \in WaitsFor[n] : f[p] < f[n]
  <2> DEFINE X == {f[p] : p \in WaitsFor[n]}
             Y == X \cup {-1}
  <2>1. X \in SUBSET Nat
    BY <1>1
  <2>2. IsFiniteSet(WaitsFor[n])
    BY <1>1, GraphAssumption, FS_Subset
  <2>3. IsFiniteSet(X)
    BY <2>2, FiniteImage
  <2>4. \A p \in WaitsFor[n] : f[p] \in X
    OBVIOUS
  <2> HIDE DEF X
  <2>5. IsFiniteSet(Y) /\ Y \in SUBSET Int /\ Y # {} /\ \A y \in Y : y >= -1
    BY <2>1, <2>3, FS_AddElement
  <2>6. Max(Y) \in Y /\ \A y \in Y : y <= Max(Y)
    BY <2>5, Largest
  <2>7. Max(Y) \in Int /\ Max(Y) >= -1
    BY <2>5, <2>6
  <2>8. f[n] = 1 + Max(Y)
    <3>1. f[n] = step[<<n, X>>]
      BY <1>5 DEF Follows, X
    <3>2. above(X) = 1 + Max(Y) /\ above(X) \in Nat
      BY <2>7
    <3> QED
      BY <1>4, <2>1, <3>1, <3>2
  <2>9. \A p \in WaitsFor[n] : f[p] < f[n]
    <3> SUFFICES ASSUME NEW p \in WaitsFor[n] PROVE f[p] < f[n]
      OBVIOUS
    <3>1. f[p] \in Y /\ f[p] \in Nat /\ f[n] \in Nat
      BY <1>1, <2>4
    <3> QED
      BY <2>6, <2>7, <2>8, <3>1
  <2> QED
    BY <2>8, <2>9 DEF X
<1>7. f = [n \in Nodes |-> 1 + Max({f[p] : p \in WaitsFor[n]} \cup {-1})]
  BY <1>6
<1>8. Resolve = [n \in Nodes |-> 1 + Max({Resolve[p] : p \in WaitsFor[n]} \cup {-1})]
  BY <1>7 DEF Resolve
<1>9. \A n \in Nodes : Resolve[n] = f[n]
  <2> DEFINE D == {n \in Nodes : Resolve[n] # f[n]}
  <2> SUFFICES ASSUME D # {} PROVE FALSE
    OBVIOUS
  <2>1. PICK n \in D : WaitsFor[n] \cap D = {}
    BY <1>2
  <2>2. \A p \in WaitsFor[n] : Resolve[p] = f[p]
    BY <1>1, <2>1
  <2>3. {Resolve[p] : p \in WaitsFor[n]} = {f[p] : p \in WaitsFor[n]}
    BY <2>2
  <2>4. Resolve[n] = 1 + Max({Resolve[p] : p \in WaitsFor[n]} \cup {-1})
    BY <1>8
  <2>5. f[n] = 1 + Max({f[p] : p \in WaitsFor[n]} \cup {-1})
    BY <1>6
  <2> QED
    BY <2>3, <2>4, <2>5
<1>10. Tier = f
  BY <1>9 DEF Tier
<1>11. \A n \in Nodes : \A p \in DepProducers(n) : Tier[p] < Tier[n]
  BY <1>6, <1>10 DEF WaitsFor
<1>12. LastTier \in Nat /\ \A n \in Nodes : Tier[n] <= LastTier
  <2> DEFINE T == {Tier[n] : n \in Nodes}
  <2>1. T \in SUBSET Nat /\ T \in SUBSET Int /\ T # {}
    BY <1>10, GraphAssumption
  <2>2. IsFiniteSet(T)
    BY GraphAssumption, FiniteImage
  <2>3. LastTier = Max(T) /\ \A n \in Nodes : Tier[n] \in T
    BY DEF LastTier
  <2> HIDE DEF T
  <2>4. Max(T) \in T /\ \A x \in T : x <= Max(T)
    BY <2>1, <2>2, Largest
  <2> QED
    BY <2>1, <2>3, <2>4
<1> QED
  BY <1>10, <1>11, <1>12

\* Tier by tier: what the context holds once the tiers below k are through.
LEMMA RunFact ==
    ASSUME NEW primary, NEW broken
    PROVE  \E after \in [Nat -> SUBSET Produced] :
               /\ after[0] = {}
               /\ \A k \in Nat : after[k + 1] = RunTier(k, primary, after[k], broken)
               /\ Run(primary, broken) = after[LastTier + 1]
PROOF
<1> DEFINE step == [x \in Nat \X SUBSET Produced |-> RunTier(x[1], primary, x[2], broken)]
           last == LastTier + 1
           Recursive(g) == g = [k \in 0..last |->
               IF k = 0 THEN {}
               ELSE UNION {RunTier(k - 1, primary, below, broken) : below \in {g[k - 1]}}]
           chosen == CHOOSE g : Recursive(g)
<1>1. \A k \in Nat, X \in SUBSET Produced : RunTier(k, primary, X, broken) \in SUBSET Produced
  BY DEF RunTier, Produced
<1>2. step \in [Nat \X SUBSET Produced -> SUBSET Produced]
  BY <1>1
<1>3. \A k \in Nat, X \in SUBSET Produced : step[<<k, X>>] = RunTier(k, primary, X, broken)
  OBVIOUS
<1>4. {} \in SUBSET Produced
  OBVIOUS
<1> HIDE DEF step
<1>5. PICK f \in [Nat -> SUBSET Produced] : Iterates(f, {}, step)
  BY <1>2, <1>4, PrimitiveRecursion
<1>6. f[0] = {} /\ \A k \in Nat : f[k + 1] = RunTier(k, primary, f[k], broken)
  BY <1>3, <1>5 DEF Iterates
<1>7. last \in Nat /\ LastTier \in Nat
  BY Layered
<1>8. Recursive([k \in 0..last |-> f[k]])
  <2> DEFINE g == [k \in 0..last |-> f[k]]
  <2>1. \A k \in 0..last : g[k] = f[k]
    OBVIOUS
  <2>2. ASSUME NEW k \in 0..last, k # 0
        PROVE  g[k] = UNION {RunTier(k - 1, primary, below, broken) : below \in {g[k - 1]}}
    <3>1. k - 1 \in Nat /\ (k - 1) + 1 = k /\ k - 1 \in 0..last
      BY <1>7, <2>2
    <3>2. f[(k - 1) + 1] = RunTier(k - 1, primary, f[k - 1], broken)
      BY <1>6, <3>1
    <3>3. g[k] = RunTier(k - 1, primary, g[k - 1], broken)
      BY <2>1, <3>1, <3>2
    <3> QED
      BY <3>3
  <2>3. 0 \in 0..last /\ g[0] = {}
    BY <1>6, <1>7
  <2>4. g = [k \in 0..last |-> g[k]]
    OBVIOUS
  <2> HIDE DEF g
  <2> QED
    BY <2>2, <2>3, <2>4 DEF g
<1>9. Recursive(chosen)
  <2> HIDE DEF Recursive
  <2> QED
    BY <1>8
<1>10. Run(primary, broken) = chosen[last]
  BY DEF Run
<1>11. chosen[0] = {} /\ \A k \in Nat : k + 1 \in 0..last
                          => chosen[k + 1] = RunTier(k, primary, chosen[k], broken)
  <2>1. 0 \in 0..last
    BY <1>7
  <2>2. chosen[0] = {}
    BY <1>9, <2>1
  <2>3. ASSUME NEW k \in Nat, k + 1 \in 0..last
        PROVE  chosen[k + 1] = RunTier(k, primary, chosen[k], broken)
    <3>1. k + 1 # 0 /\ (k + 1) - 1 = k
      OBVIOUS
    <3>2. chosen[k + 1] = UNION {RunTier((k + 1) - 1, primary, below, broken) :
                                     below \in {chosen[(k + 1) - 1]}}
      BY <1>9, <2>3, <3>1
    <3>3. \A j, x : UNION {RunTier(j, primary, below, broken) : below \in {x}}
                        = RunTier(j, primary, x, broken)
      OBVIOUS
    <3>4. chosen[k + 1] = RunTier((k + 1) - 1, primary, chosen[(k + 1) - 1], broken)
      BY <3>2, <3>3
    <3> QED
      BY <3>1, <3>4
  <2> QED
    BY <2>2, <2>3
<1> HIDE DEF chosen
<1>12. \A k \in 0..last : chosen[k] = f[k]
  <2> DEFINE T == {k \in Nat : k \in 0..last /\ chosen[k] # f[k]}
  <2> SUFFICES ASSUME T # {} PROVE FALSE
    BY <1>7
  <2>1. PICK k \in T : \A j \in T : k <= j
    BY LeastNat
  <2>2. k # 0
    BY <1>6, <1>11
  <2>3. k - 1 \in Nat /\ (k - 1) + 1 = k /\ k - 1 \in 0..last /\ ~(k <= k - 1)
    BY <1>7, <2>2
  <2>4. chosen[k - 1] = f[k - 1]
    BY <2>1, <2>3
  <2>5. chosen[(k - 1) + 1] = f[(k - 1) + 1]
    BY <1>6, <1>11, <2>3, <2>4
  <2> QED
    BY <2>3, <2>5
<1>13. last \in 0..last
  BY <1>7
<1> QED
  BY <1>5, <1>6, <1>10, <1>12, <1>13

----------------------------------------------------------------------------
\* Upstream.

\* A set of nodes and the producers of what they consume.
Grown(near) == near \cup {p \in Nodes : \E m \in near : Output[p] \in Consumes[m]}

\* Upstream as a number of steps up the graph.
LEMMA UpstreamFact ==
    ASSUME NEW n \in Nodes
    PROVE  \E reach \in [Nat -> SUBSET Nodes] :
               /\ reach[0] = {n} /\ \A d \in Nat : reach[d + 1] = Grown(reach[d])
               /\ Upstream(n) = reach[Cardinality(Nodes)]
PROOF
<1> DEFINE step == [x \in Nat \X SUBSET Nodes |-> Grown(x[2])]
           last == Cardinality(Nodes)
           Recursive(g) == g = [d \in 0..last |->
               IF d = 0 THEN {n}
               ELSE UNION {near \cup {p \in Nodes : \E m \in near : Output[p] \in Consumes[m]} :
                               near \in {g[d - 1]}}]
           chosen == CHOOSE g : Recursive(g)
<1>1. step \in [Nat \X SUBSET Nodes -> SUBSET Nodes]
  BY DEF Grown
<1>2. \A d \in Nat, X \in SUBSET Nodes : step[<<d, X>>] = Grown(X)
  OBVIOUS
<1>3. {n} \in SUBSET Nodes
  OBVIOUS
<1> HIDE DEF step
<1>4. PICK f \in [Nat -> SUBSET Nodes] : Iterates(f, {n}, step)
  BY <1>1, <1>3, PrimitiveRecursion
<1>5. f[0] = {n} /\ \A d \in Nat : f[d + 1] = Grown(f[d])
  BY <1>2, <1>4 DEF Iterates
<1>6. last \in Nat
  BY GraphAssumption, FS_CardinalityType
<1> HIDE DEF last
<1>7. \A x : UNION {near \cup {p \in Nodes : \E m \in near : Output[p] \in Consumes[m]} : near \in {x}}
            = Grown(x)
  BY DEF Grown
<1>8. Recursive([d \in 0..last |-> f[d]])
  <2> DEFINE g == [d \in 0..last |-> f[d]]
  <2>1. \A d \in 0..last : g[d] = f[d]
    OBVIOUS
  <2>2. ASSUME NEW d \in 0..last, d # 0
        PROVE  g[d] = UNION {near \cup {p \in Nodes : \E m \in near : Output[p] \in Consumes[m]} :
                                 near \in {g[d - 1]}}
    <3>1. d - 1 \in Nat /\ (d - 1) + 1 = d /\ d - 1 \in 0..last
      BY <1>6, <2>2
    <3>2. f[(d - 1) + 1] = Grown(f[d - 1])
      BY <1>5, <3>1
    <3>3. g[d] = Grown(g[d - 1])
      BY <2>1, <3>1, <3>2
    <3> QED
      BY <1>7, <3>3
  <2>3. 0 \in 0..last /\ g[0] = {n}
    BY <1>5, <1>6
  <2>4. g = [d \in 0..last |-> g[d]]
    OBVIOUS
  <2> HIDE DEF g
  <2> QED
    BY <2>2, <2>3, <2>4 DEF g
<1>9. Recursive(chosen)
  <2> HIDE DEF Recursive
  <2> QED
    BY <1>8
<1>10. Upstream(n) = chosen[last]
  BY DEF Upstream, last
<1>11. chosen[0] = {n} /\ \A d \in Nat : d + 1 \in 0..last => chosen[d + 1] = Grown(chosen[d])
  <2>1. 0 \in 0..last
    BY <1>6
  <2>2. chosen[0] = {n}
    BY <1>9, <2>1
  <2>3. ASSUME NEW d \in Nat, d + 1 \in 0..last
        PROVE  chosen[d + 1] = Grown(chosen[d])
    <3>1. d + 1 # 0 /\ (d + 1) - 1 = d
      OBVIOUS
    <3>2. chosen[d + 1] = UNION {near \cup {p \in Nodes : \E m \in near : Output[p] \in Consumes[m]} :
                                     near \in {chosen[(d + 1) - 1]}}
      BY <1>9, <2>3, <3>1
    <3>3. chosen[d + 1] = Grown(chosen[(d + 1) - 1])
      BY <1>7, <3>2
    <3> QED
      BY <3>1, <3>3
  <2> QED
    BY <2>2, <2>3
<1> HIDE DEF chosen
<1>12. \A d \in 0..last : chosen[d] = f[d]
  <2> DEFINE T == {d \in Nat : d \in 0..last /\ chosen[d] # f[d]}
  <2> SUFFICES ASSUME T # {} PROVE FALSE
    BY <1>6
  <2>1. PICK d \in T : \A j \in T : d <= j
    BY LeastNat
  <2>2. d # 0
    BY <1>5, <1>11
  <2>3. d - 1 \in Nat /\ (d - 1) + 1 = d /\ d - 1 \in 0..last /\ ~(d <= d - 1)
    BY <1>6, <2>2
  <2>4. chosen[d - 1] = f[d - 1]
    BY <2>1, <2>3
  <2>5. chosen[(d - 1) + 1] = f[(d - 1) + 1]
    BY <1>5, <1>11, <2>3, <2>4
  <2> QED
    BY <2>3, <2>5
<1>13. last \in 0..last
  BY <1>6
<1> QED
  BY <1>5, <1>10, <1>12, <1>13 DEF last

\* Upstream of a node is the smallest set around it that holds the producers of its
\* members: as many steps as there are nodes leave none out.
LEMMA UpstreamIsLeast ==
    ASSUME NEW n \in Nodes
    PROVE  /\ n \in Upstream(n) /\ Upstream(n) \in SUBSET Nodes
           /\ Grown(Upstream(n)) = Upstream(n)
           /\ \A X \in SUBSET Nodes : n \in X /\ Grown(X) = X => Upstream(n) \subseteq X
PROOF
<1> DEFINE last == Cardinality(Nodes)
<1>1. PICK reach \in [Nat -> SUBSET Nodes] :
         /\ reach[0] = {n} /\ \A d \in Nat : reach[d + 1] = Grown(reach[d])
         /\ Upstream(n) = reach[last]
  BY UpstreamFact
<1>2. last \in Nat
  BY GraphAssumption, FS_CardinalityType
<1>3. \A d \in Nat : reach[d] \subseteq reach[d + 1]
  BY <1>1 DEF Grown
<1>4. \A d \in Nat : n \in reach[d]
  <2> DEFINE T == {d \in Nat : n \notin reach[d]}
  <2> SUFFICES ASSUME T # {} PROVE FALSE
    OBVIOUS
  <2>1. PICK d \in T : \A j \in T : d <= j
    BY LeastNat
  <2>2. d # 0
    BY <1>1
  <2>3. d - 1 \in Nat /\ (d - 1) + 1 = d /\ ~(d <= d - 1)
    BY <2>2
  <2>4. n \in reach[d - 1]
    BY <2>1, <2>3
  <2>5. reach[d - 1] \subseteq reach[(d - 1) + 1]
    BY <1>3, <2>3
  <2> QED
    BY <2>3, <2>4, <2>5
<1>5. ASSUME NEW X \in SUBSET Nodes, n \in X, Grown(X) = X
      PROVE  \A d \in Nat : reach[d] \subseteq X
  <2> DEFINE T == {d \in Nat : ~(reach[d] \subseteq X)}
  <2> SUFFICES ASSUME T # {} PROVE FALSE
    OBVIOUS
  <2>1. PICK d \in T : \A j \in T : d <= j
    BY LeastNat
  <2>2. d # 0
    BY <1>1, <1>5
  <2>3. d - 1 \in Nat /\ (d - 1) + 1 = d /\ ~(d <= d - 1)
    BY <2>2
  <2>4. reach[d - 1] \subseteq X
    BY <2>1, <2>3
  <2>5. reach[(d - 1) + 1] = Grown(reach[d - 1])
    BY <1>1, <2>3
  <2>6. Grown(reach[d - 1]) \subseteq X
    BY <1>5, <2>4 DEF Grown
  <2> QED
    BY <2>3, <2>5, <2>6
<1>6. \A d \in Nat : IsFiniteSet(reach[d]) /\ Cardinality(reach[d]) \in Nat /\ Cardinality(reach[d]) <= last
  BY <1>1, GraphAssumption, FS_Subset, FS_CardinalityType
<1> HIDE DEF last
\* Either the set is closed, or it has grown with every step.
<1>7. \A d \in Nat : Grown(reach[d]) = reach[d] \/ Cardinality(reach[d]) >= d + 1
  <2> DEFINE T == {d \in Nat : ~(Grown(reach[d]) = reach[d] \/ Cardinality(reach[d]) >= d + 1)}
  <2> SUFFICES ASSUME T # {} PROVE FALSE
    OBVIOUS
  <2>1. PICK d \in T : \A j \in T : d <= j
    BY LeastNat
  <2>2. d # 0
    <3>1. Cardinality({n}) = 1
      BY FS_Singleton
    <3> QED
      BY <1>1, <3>1
  <2>3. d \in Nat /\ d - 1 \in Nat /\ (d - 1) + 1 = d /\ ~(d <= d - 1)
    BY <2>2
  <2>4. Grown(reach[d - 1]) = reach[d - 1] \/ Cardinality(reach[d - 1]) >= d
    BY <2>1, <2>3
  <2>5. reach[d] = Grown(reach[d - 1]) /\ reach[d - 1] \subseteq reach[d]
    <3>1. reach[(d - 1) + 1] = Grown(reach[d - 1]) /\ reach[d - 1] \subseteq reach[(d - 1) + 1]
      BY <1>1, <1>3, <2>3
    <3> QED
      BY <2>3, <3>1
  <2>6. reach[d] # reach[d - 1]
    BY <2>5
  <2>7. CASE Grown(reach[d - 1]) = reach[d - 1]
    BY <2>5, <2>6, <2>7
  <2>8. CASE Cardinality(reach[d - 1]) >= d
    <3>1. /\ Cardinality(reach[d - 1]) <= Cardinality(reach[d])
          /\ Cardinality(reach[d]) = Cardinality(reach[d - 1]) => reach[d] = reach[d - 1]
      BY <1>6, <2>3, <2>5, FS_Subset
    <3>2. Cardinality(reach[d - 1]) \in Nat /\ Cardinality(reach[d]) \in Nat
      BY <1>6, <2>3
    <3>3. Cardinality(reach[d]) >= d + 1
      BY <2>3, <2>6, <2>8, <3>1, <3>2
    <3> QED
      BY <3>3
  <2> QED
    BY <2>4, <2>7, <2>8
<1>8. Grown(reach[last]) = reach[last]
  BY <1>2, <1>6, <1>7
<1> QED
  BY <1>1, <1>2, <1>4, <1>5, <1>8

\* The nodes whose outputs n needs.
Needs(n) == {p \in Nodes : Output[p] \in Consumes[n]}

\* Upstream of a node lie the node itself and what is upstream of the nodes it needs.
LEMMA UpstreamSplits ==
    ASSUME NEW n \in Nodes
    PROVE  Upstream(n) = {n} \cup UNION {Upstream(p) : p \in Needs(n)}
PROOF
<1> DEFINE X == {n} \cup UNION {Upstream(p) : p \in Needs(n)}
<1>1. \A m \in Nodes : /\ m \in Upstream(m) /\ Upstream(m) \in SUBSET Nodes
                       /\ Grown(Upstream(m)) = Upstream(m)
                       /\ \A Y \in SUBSET Nodes : m \in Y /\ Grown(Y) = Y => Upstream(m) \subseteq Y
  BY UpstreamIsLeast
<1>2. Needs(n) \subseteq Nodes /\ Needs(n) \subseteq Upstream(n)
  BY <1>1 DEF Needs, Grown
<1>3. X \subseteq Upstream(n)
  BY <1>1, <1>2
<1>4. X \in SUBSET Nodes /\ n \in X
  BY <1>1, <1>2
<1>5. Grown(X) = X
  <2> SUFFICES ASSUME NEW p \in Nodes, NEW m \in X, Output[p] \in Consumes[m]
               PROVE  p \in X
    BY DEF Grown
  <2>1. CASE m = n
    BY <1>1, <2>1 DEF Needs
  <2>2. CASE m # n
    <3>1. PICK q \in Needs(n) : m \in Upstream(q)
      BY <2>2
    <3>2. p \in Upstream(q)
      BY <1>1, <1>2, <3>1 DEF Grown
    <3> QED
      BY <3>1, <3>2
  <2> QED
    BY <2>1, <2>2
<1>6. Upstream(n) \subseteq X
  <2> HIDE DEF X
  <2> QED
    BY <1>1, <1>4, <1>5
<1> QED
  BY <1>3, <1>6

----------------------------------------------------------------------------
\* A run.

\* Nothing upstream of the node raises, and the inputs of all of it are there.
Able(n, primary, broken) == UpstreamOf[n] \cap broken = {} /\ InputsOf[n] \subseteq primary

\* A node is able when it does not raise, has its inputs, and those it needs are able.
LEMMA AbleSplits ==
    ASSUME NEW n \in Nodes, NEW primary, NEW broken
    PROVE  Able(n, primary, broken) <=>
               /\ n \notin broken /\ Consumes[n] \ Produced \subseteq primary
               /\ \A p \in Needs(n) : Able(p, primary, broken)
PROOF
<1>1. Needs(n) \subseteq Nodes
  BY DEF Needs
<1>2. UpstreamOf[n] = {n} \cup UNION {UpstreamOf[p] : p \in Needs(n)}
  <2>1. \A m \in Nodes : UpstreamOf[m] = Upstream(m)
    BY DEF UpstreamOf
  <2>2. {Upstream(p) : p \in Needs(n)} = {UpstreamOf[p] : p \in Needs(n)}
    BY <1>1, <2>1
  <2> QED
    BY <2>1, <2>2, UpstreamSplits
<1>3. \A t : \A m \in Nodes : t \in InputsOf[m] <=> t \notin Produced /\ \E u \in UpstreamOf[m] : t \in Consumes[u]
  <2> SUFFICES ASSUME NEW m \in Nodes, NEW t
               PROVE  t \in InputsOf[m] <=> t \notin Produced /\ \E u \in UpstreamOf[m] : t \in Consumes[u]
    OBVIOUS
  <2> DEFINE U == UNION {Consumes[u] : u \in UpstreamOf[m]}
  <2>1. InputsOf[m] = U \ Produced
    BY DEF InputsOf
  <2>2. t \in U <=> \E u \in UpstreamOf[m] : t \in Consumes[u]
    OBVIOUS
  <2> HIDE DEF U
  <2> QED
    BY <2>1, <2>2
<1>4. \A u : u \in UpstreamOf[n] <=> u = n \/ \E p \in Needs(n) : u \in UpstreamOf[p]
  BY <1>2
<1>5. \A t : t \in InputsOf[n] <=> t \in Consumes[n] \ Produced \/ \E p \in Needs(n) : t \in InputsOf[p]
  <2> SUFFICES ASSUME NEW t
               PROVE  t \in InputsOf[n] <=> t \in Consumes[n] \ Produced \/ \E p \in Needs(n) : t \in InputsOf[p]
    OBVIOUS
  <2>1. t \in InputsOf[n] <=> t \notin Produced /\ \E u \in UpstreamOf[n] : t \in Consumes[u]
    BY <1>3
  <2>2. \A p \in Needs(n) : t \in InputsOf[p] <=> t \notin Produced /\ \E u \in UpstreamOf[p] : t \in Consumes[u]
    BY <1>1, <1>3
  <2>3. (\E u \in UpstreamOf[n] : t \in Consumes[u])
        <=> t \in Consumes[n] \/ \E p \in Needs(n) : \E u \in UpstreamOf[p] : t \in Consumes[u]
    BY <1>4
  <2> QED
    BY <2>1, <2>2, <2>3
<1> QED
  BY <1>4, <1>5 DEF Able

\* Whatever raises and whatever is missing, a run leaves exactly the outputs of the nodes
\* that nothing upstream keeps from computing: the tiers lose nothing and let nothing
\* through, in any acyclic graph whose nodes find among the primary inputs no type that
\* another node produces (DagEngine.run, all_secondary_deps_satisfied).
THEOREM RunKeepsPromise ==
    ASSUME NEW primary, NEW broken, \A n \in Nodes : Consumes[n] \cap Produced \cap primary = {}
    PROVE  Run(primary, broken) = Promised(primary, broken)
PROOF
<1> DEFINE able(n) == Able(n, primary, broken)
<1>1. PICK after \in [Nat -> SUBSET Produced] :
         /\ after[0] = {}
         /\ \A k \in Nat : after[k + 1] = RunTier(k, primary, after[k], broken)
         /\ Run(primary, broken) = after[LastTier + 1]
  BY RunFact
<1>2. /\ Tier \in [Nodes -> Nat]
      /\ \A n \in Nodes : \A p \in DepProducers(n) : Tier[p] < Tier[n]
      /\ LastTier \in Nat /\ \A n \in Nodes : Tier[n] <= LastTier
  BY Layered
<1>3. \A n \in Nodes : able(n) <=> /\ n \notin broken /\ Consumes[n] \ Produced \subseteq primary
                                   /\ \A p \in Needs(n) : able(p)
  BY AbleSplits
<1>4. \A n \in Nodes : Needs(n) \subseteq DepProducers(n)
  BY DEF Needs, DepProducers
<1> HIDE DEF able
<1> DEFINE Done(k) == {Output[n] : n \in {m \in Nodes : Tier[m] < k /\ able(m)}}
\* Tier by tier, readiness comes to the same as being able.
<1>5. ASSUME NEW k \in Nat, after[k] = Done(k), NEW n \in Nodes, Tier[n] = k
      PROVE  Satisfied(n, primary, after[k]) /\ n \notin broken <=> able(n)
  <2>1. ASSUME able(n), NEW t \in Consumes[n] \ primary
        PROVE  t \in after[k]
    <3>1. t \in Produced
      BY <1>3, <2>1
    <3>2. PICK p \in Nodes : t = Output[p]
      BY <3>1 DEF Produced
    <3>3. p \in Needs(n)
      BY <2>1, <3>2 DEF Needs
    <3>4. able(p) /\ Tier[p] < k
      BY <1>2, <1>3, <1>4, <1>5, <2>1, <3>3
    <3> QED
      BY <1>5, <3>2, <3>4
  <2>2. ASSUME Satisfied(n, primary, after[k]), n \notin broken
        PROVE  able(n)
    <3>1. Consumes[n] \ primary \subseteq after[k]
      BY <2>2 DEF Satisfied
    <3>2. Consumes[n] \ Produced \subseteq primary
      BY <1>1, <3>1
    <3>3. ASSUME NEW p \in Needs(n)
          PROVE  able(p)
      <4>1. p \in Nodes /\ Output[p] \in Consumes[n] /\ Output[p] \in Produced
        BY <3>3 DEF Needs, Produced
      <4>2. Output[p] \in after[k]
        BY <3>1, <4>1
      <4>3. PICK m \in Nodes : able(m) /\ Output[m] = Output[p]
        BY <1>5, <4>2
      <4> QED
        BY <4>1, <4>3, GraphAssumption
    <3> QED
      BY <1>3, <2>2, <3>2, <3>3
  <2> QED
    BY <1>3, <2>1, <2>2 DEF Satisfied
<1>6. ASSUME NEW k \in Nat, after[k] = Done(k)
      PROVE  after[k + 1] = Done(k + 1)
  <2>1. after[k + 1] = after[k] \cup
            {Output[n] : n \in {r \in Nodes : /\ Tier[r] = k
                                              /\ Satisfied(r, primary, after[k])
                                              /\ r \notin broken}}
    BY <1>1 DEF RunTier
  <2>2. {r \in Nodes : /\ Tier[r] = k
                       /\ Satisfied(r, primary, after[k])
                       /\ r \notin broken}
        = {r \in Nodes : Tier[r] = k /\ able(r)}
    BY <1>5, <1>6
  <2>3. \A m \in Nodes : Tier[m] < k + 1 <=> Tier[m] < k \/ Tier[m] = k
    BY <1>2
  <2> QED
    BY <1>6, <2>1, <2>2, <2>3
<1>7. \A k \in Nat : after[k] = Done(k)
  <2> DEFINE T == {k \in Nat : after[k] # Done(k)}
  <2> SUFFICES ASSUME T # {} PROVE FALSE
    OBVIOUS
  <2>1. PICK k \in T : \A j \in T : k <= j
    BY LeastNat
  <2>2. k # 0
    <3>1. \A n \in Nodes : ~(Tier[n] < 0)
      BY <1>2
    <3> QED
      BY <1>1, <3>1
  <2>3. k - 1 \in Nat /\ (k - 1) + 1 = k /\ ~(k <= k - 1)
    BY <2>2
  <2> HIDE DEF Done
  <2>4. after[k - 1] = Done(k - 1)
    BY <2>1, <2>3
  <2>5. after[(k - 1) + 1] = Done((k - 1) + 1)
    BY <1>6, <2>3, <2>4
  <2> QED
    BY <2>3, <2>5
<1>8. LastTier + 1 \in Nat /\ \A n \in Nodes : Tier[n] < LastTier + 1
  BY <1>2
<1>9. Run(primary, broken) = Done(LastTier + 1)
  BY <1>1, <1>7, <1>8
<1> QED
  BY <1>8, <1>9 DEF Promised, Able, able

----------------------------------------------------------------------------
\* The jobs at the lock.

\* A caller takes its place behind the others.
LEMMA JobArrives ==
    ASSUME NEW task \in Job, jobs \in Seq(Job), jobs' = Append(jobs, task)
    PROVE  /\ jobs' \in Seq(Job) /\ Len(jobs) \in Nat
           /\ DOMAIN jobs = 1..Len(jobs) /\ DOMAIN jobs' = 1..(Len(jobs) + 1)
           /\ \A i \in 1..Len(jobs) : jobs'[i] = jobs[i]
           /\ jobs'[Len(jobs) + 1] = task
PROOF
<1>1. /\ jobs' \in Seq(Job) /\ Len(jobs') = Len(jobs) + 1
      /\ \A i \in DOMAIN jobs : jobs'[i] = jobs[i]
      /\ jobs'[Len(jobs) + 1] = task
  BY AppendTail
<1> QED
  BY <1>1

\* Its holder leaves the lock.
LEMMA JobLeaves ==
    ASSUME jobs \in Seq(Job), jobs # <<>>, jobs' = Tail(jobs)
    PROVE  /\ jobs' \in Seq(Job) /\ Len(jobs) \in Nat \ {0}
           /\ DOMAIN jobs = 1..Len(jobs) /\ DOMAIN jobs' = 1..(Len(jobs) - 1)
           /\ \A i \in 1..(Len(jobs) - 1) : jobs'[i] = jobs[i + 1]
           /\ Head(jobs) = jobs[1] /\ jobs[1] \in Job
PROOF
  BY HeadTailProperties

\* Time passes for all of them.
LEMMA JobsAge ==
    ASSUME jobs \in Seq(Job), MaxLag \in Nat, \A i \in DOMAIN jobs : jobs[i].age < MaxLag,
           jobs' = [i \in DOMAIN jobs |-> [jobs[i] EXCEPT !.age = @ + 1]]
    PROVE  /\ jobs' \in Seq(Job) /\ DOMAIN jobs' = DOMAIN jobs
           /\ \A i \in DOMAIN jobs : jobs'[i].of = jobs[i].of /\ jobs'[i].want = jobs[i].want
PROOF
<1>1. \A i \in DOMAIN jobs : jobs[i] \in Job
  OBVIOUS
<1>2. \A i \in DOMAIN jobs : jobs[i].age \in 0..MaxLag
  BY <1>1 DEF Job
<1>3. \A i \in DOMAIN jobs : jobs[i].age + 1 \in 0..MaxLag
  BY <1>2
<1>4. \A i \in DOMAIN jobs : /\ jobs'[i] \in Job
                             /\ jobs'[i].of = jobs[i].of /\ jobs'[i].want = jobs[i].want
  BY <1>1, <1>3 DEF Job
<1>5. Len(jobs) \in Nat /\ DOMAIN jobs = 1..Len(jobs) /\ DOMAIN jobs' = 1..Len(jobs)
  OBVIOUS
<1>6. jobs' = [i \in 1..Len(jobs) |-> jobs'[i]]
  BY <1>5
<1>7. jobs' \in Seq(Job)
  BY <1>4, <1>5, <1>6
<1> QED
  BY <1>4, <1>5, <1>7

\* What the override invariants say carries over when every job keeps its place and want.
LEMMA SameJobs ==
    ASSUME OverrideSpreads, LastWord, DOMAIN jobs' = DOMAIN jobs,
           \A i \in DOMAIN jobs : jobs'[i].of = jobs[i].of /\ jobs'[i].want = jobs[i].want,
           UNCHANGED <<mode_override, unheard, restored, sent>>
    PROVE  OverrideSpreads' /\ LastWord'
PROOF
  BY DEF OverrideSpreads, Overtaken, LastWord

----------------------------------------------------------------------------
\* The cycles.

\* One that is free starts, at age 0.
LEMMA StartedFact ==
    ASSUME WellFormed, Free # {}, NEW kind \in Kinds
    PROVE  /\ Started(kind) \in [Procs -> Cycle]
           /\ \E p \in Free :
                 /\ Started(kind)[p].at = "translate" /\ Started(kind)[p].kind = kind
                 /\ Started(kind)[p].age = 0
                 /\ \A q \in Procs : q # p => Started(kind)[q] = cycles[q]
PROOF
<1> DEFINE p == CHOOSE q \in Free : TRUE
           new == [Idle EXCEPT !.at = "translate", !.kind = kind]
           Blank == [at : {"idle", "translate"}, kind : Kinds, age : {0},
                     primary : {{}}, secondary : {{}}]
<1>1. p \in Free /\ p \in Procs
  BY DEF Free
<1>2. Idle \in Blank
  BY DEF Idle, Kinds
<1>3. new \in Cycle /\ new.at = "translate" /\ new.kind = kind /\ new.age = 0
  <2>1. new \in Blank /\ new.at = "translate" /\ new.kind = kind /\ new.age = 0
    BY <1>2
  <2>2. 0 \in 0..MaxLag
    BY CycleAssumption
  <2>3. Blank \subseteq Cycle
    BY <2>2 DEF Cycle, Phases
  <2> QED
    BY <2>1, <2>3
<1>4. Started(kind) = [cycles EXCEPT ![p] = new]
  BY DEF Started
<1> HIDE DEF p, new
<1>6. /\ Started(kind) \in [Procs -> Cycle] /\ Started(kind)[p] = new
      /\ \A q \in Procs : q # p => Started(kind)[q] = cycles[q]
  BY <1>1, <1>3, <1>4 DEF WellFormed
<1> QED
  BY <1>1, <1>3, <1>6

\* No cycle that is under way ends in the step.
NoneEnds == \A q \in UnderWay : cycles'[q].at # "idle"

----------------------------------------------------------------------------
\* Each step keeps the invariant.

\* The wall clock: every cycle under way, every job and the newest commit grow older.
LEMMA ElapseKeeps ==
    ASSUME CycleInv, NEW base \in [Procs -> Cycle], Due, Elapse(base),
           \A p \in UnderWay : base[p] = cycles[p], in_flight' \in BOOLEAN,
           \A p \in Procs : p \notin UnderWay => base[p].at \in {"idle", "translate"}
    PROVE  /\ WellFormed' /\ JobWaits' /\ OverrideSpreads' /\ LastWord'
           /\ \A p \in UnderWay : /\ cycles'[p].at = cycles[p].at /\ cycles'[p].kind = cycles[p].kind
                                  /\ served = Never \/ cycles[p].age <= served
                                        => served' = Never \/ cycles'[p].age <= served'
           /\ \A p \in Procs : p \notin UnderWay => cycles'[p] = base[p]
PROOF
<1>1. /\ cycles \in [Procs -> Cycle] /\ jobs \in Seq(Job) /\ MaxLag \in Nat
      /\ served \in Never..MaxAge /\ MaxAge = MaxLag + 1
  BY CycleAssumption DEF CycleInv, WellFormed, MaxAge
<1>2. /\ UNCHANGED <<restored, mode_override, sent, unheard>>
      /\ cycles' = [p \in Procs |-> IF base[p].at = "idle" \/ p \notin UnderWay THEN base[p]
                                    ELSE [base[p] EXCEPT !.age = @ + 1]]
      /\ jobs' = [i \in DOMAIN jobs |-> [jobs[i] EXCEPT !.age = @ + 1]]
      /\ served' = IF served \in {Never, MaxAge} THEN served ELSE served + 1
  BY DEF Elapse, lives
<1>3. \A p \in UnderWay : p \in Procs /\ base[p] = cycles[p] /\ base[p].at # "idle"
                          /\ base[p].age \in 0..MaxLag /\ base[p].age < MaxLag
  BY <1>1 DEF UnderWay, Due, Cycle
<1>4. \A p \in UnderWay : base[p].age + 1 \in 0..MaxLag
  BY <1>1, <1>3
<1>5. \A p \in UnderWay : /\ cycles'[p] \in Cycle /\ cycles'[p].age = cycles[p].age + 1
                          /\ cycles'[p].at = cycles[p].at /\ cycles'[p].kind = cycles[p].kind
                          /\ cycles'[p].primary = cycles[p].primary
  <2> TAKE p \in UnderWay
  <2>1. /\ p \in Procs /\ base[p] = cycles[p] /\ base[p].at # "idle"
        /\ cycles[p] \in Cycle /\ base[p].age + 1 \in 0..MaxLag
    BY <1>1, <1>3, <1>4
  <2>2. cycles'[p] = [cycles[p] EXCEPT !.age = @ + 1]
    BY <1>2, <2>1
  <2> QED
    BY <2>1, <2>2 DEF Cycle
<1>6. \A p \in Procs : p \notin UnderWay => cycles'[p] = base[p]
  BY <1>2
<1>7. cycles' \in [Procs -> Cycle]
  BY <1>2, <1>5, <1>6
<1>8. /\ jobs' \in Seq(Job) /\ DOMAIN jobs' = DOMAIN jobs
      /\ \A i \in DOMAIN jobs : jobs'[i].of = jobs[i].of /\ jobs'[i].want = jobs[i].want
  BY <1>1, <1>2, JobsAge DEF Due
<1>9. served' \in Never..MaxAge /\ (served # Never => served' # Never /\ (served' = served + 1 \/ served' = MaxAge))
  BY <1>1, <1>2
<1>10. WellFormed'
  <2>1. \A p \in Procs : cycles'[p].at = "steps" => cycles'[p].primary \in Read
    BY <1>5, <1>6 DEF CycleInv, WellFormed
  <2> QED
    BY <1>2, <1>7, <1>8, <1>9, <2>1 DEF CycleInv, WellFormed
<1>11. JobWaits'
  BY <1>5, <1>6, <1>8 DEF CycleInv, JobWaits
<1>12. OverrideSpreads' /\ LastWord'
  BY <1>2, <1>8, SameJobs DEF CycleInv
<1>13. ASSUME NEW p \in UnderWay, served = Never \/ cycles[p].age <= served
       PROVE  served' = Never \/ cycles'[p].age <= served'
  BY <1>1, <1>2, <1>3, <1>4, <1>5, <1>9, <1>13
<1> QED
  BY <1>5, <1>6, <1>10, <1>11, <1>12, <1>13

LEMMA AlignedTickKeeps ==
    ASSUME CycleInv, AlignedTick
    PROVE  CycleInv' /\ NoneEnds
PROOF
<1> DEFINE base == Started("aligned")
<1>1. /\ Due /\ ~in_flight /\ Free # {} /\ in_flight' = TRUE /\ Elapse(base)
      /\ WellFormed /\ OneAligned /\ served \in Never..MaxAge
  BY DEF AlignedTick, CycleInv, WellFormed
<1>2. PICK p \in Free : /\ base \in [Procs -> Cycle]
                        /\ base[p].at = "translate" /\ base[p].kind = "aligned" /\ base[p].age = 0
                        /\ \A q \in Procs : q # p => base[q] = cycles[q]
  BY <1>1, StartedFact DEF Kinds
<1> HIDE DEF base
<1>3. p \in Procs /\ p \notin UnderWay /\ UnderWay \subseteq Procs
  BY DEF Free, UnderWay
<1>4. /\ \A q \in UnderWay : base[q] = cycles[q]
      /\ \A q \in Procs : q \notin UnderWay => base[q].at \in {"idle", "translate"}
  BY <1>2, <1>3 DEF UnderWay
<1>5. /\ WellFormed' /\ JobWaits' /\ OverrideSpreads' /\ LastWord'
      /\ \A q \in UnderWay : cycles'[q].at = cycles[q].at /\ cycles'[q].kind = cycles[q].kind
      /\ \A q \in Procs : q \notin UnderWay => cycles'[q] = base[q]
  BY <1>1, <1>2, <1>4, ElapseKeeps
<1>6. UnderWay' = UnderWay \cup {p}
  BY <1>2, <1>3, <1>5 DEF UnderWay
<1>7. \A q \in UnderWay : cycles'[q].kind # "aligned"
  BY <1>1, <1>5 DEF OneAligned
<1>8. cycles'[p].age = 0 /\ served' \in Never..MaxAge
  BY <1>2, <1>3, <1>5 DEF WellFormed
<1>9. MaxAge \in Nat
  BY CycleAssumption DEF MaxAge
<1>10. served' = Never \/ cycles'[p].age <= served'
  BY <1>8, <1>9
<1>11. OneAligned'
  BY <1>1, <1>6, <1>7, <1>10 DEF OneAligned
<1>12. NoneEnds
  BY <1>5 DEF NoneEnds, UnderWay
<1> QED
  BY <1>5, <1>11, <1>12 DEF CycleInv

LEMMA SkippedTickKeeps ==
    ASSUME CycleInv, SkippedTick
    PROVE  CycleInv' /\ NoneEnds
PROOF
<1>1. Due /\ in_flight' = in_flight /\ Elapse(cycles) /\ WellFormed /\ OneAligned
  BY DEF SkippedTick, CycleInv
<1>2. /\ cycles \in [Procs -> Cycle] /\ in_flight' \in BOOLEAN
      /\ \A p \in Procs : p \notin UnderWay => cycles[p].at = "idle"
  BY <1>1 DEF WellFormed, UnderWay
<1>3. /\ WellFormed' /\ JobWaits' /\ OverrideSpreads' /\ LastWord'
      /\ \A p \in UnderWay : /\ cycles'[p].at = cycles[p].at /\ cycles'[p].kind = cycles[p].kind
                             /\ served = Never \/ cycles[p].age <= served
                                   => served' = Never \/ cycles'[p].age <= served'
      /\ \A p \in Procs : p \notin UnderWay => cycles'[p] = cycles[p]
  BY <1>1, <1>2, ElapseKeeps
<1>4. UnderWay' = UnderWay
  BY <1>3 DEF UnderWay
<1>5. OneAligned'
  BY <1>1, <1>3, <1>4 DEF OneAligned
<1>6. NoneEnds
  BY <1>3 DEF NoneEnds, UnderWay
<1> QED
  BY <1>3, <1>5, <1>6 DEF CycleInv

\* A requested cycle starts, or nothing of the invariant moves.
LEMMA RequestKeeps ==
    ASSUME CycleInv,
           (Free # {} /\ cycles' = Started("requested")) \/ UNCHANGED cycles,
           UNCHANGED <<restored, in_flight, mode_override, jobs, sent, served, unheard>>
    PROVE  CycleInv' /\ NoneEnds
PROOF
<1>1. CASE UNCHANGED cycles
  BY <1>1 DEF CycleInv, WellFormed, JobWaits, OneAligned, UnderWay, OverrideSpreads, Overtaken,
              LastWord, NoneEnds
<1>2. CASE Free # {} /\ cycles' = Started("requested")
  <2>1. WellFormed /\ JobWaits /\ OneAligned
    BY DEF CycleInv
  <2>2. PICK p \in Free : /\ cycles' \in [Procs -> Cycle]
                          /\ cycles'[p].at = "translate" /\ cycles'[p].kind = "requested"
                          /\ \A q \in Procs : q # p => cycles'[q] = cycles[q]
    BY <1>2, <2>1, StartedFact DEF Kinds
  <2>3. p \in Procs /\ p \notin UnderWay
    BY DEF Free
  <2>4. WellFormed'
    <3>1. \A q \in Procs : cycles'[q].at = "steps" => cycles'[q].primary \in Read
      BY <2>1, <2>2, <2>3 DEF WellFormed
    <3> QED
      BY <2>1, <2>2, <3>1 DEF WellFormed
  <2>5. JobWaits'
    BY <2>1, <2>2, <2>3 DEF JobWaits
  <2>6. UnderWay' = UnderWay \cup {p}
    BY <2>2, <2>3 DEF UnderWay
  <2>7. \A q \in UnderWay : cycles'[q] = cycles[q]
    BY <2>2, <2>3 DEF UnderWay
  <2>8. OneAligned'
    BY <2>1, <2>2, <2>6, <2>7 DEF OneAligned
  <2>9. OverrideSpreads' /\ LastWord'
    BY SameJobs DEF CycleInv
  <2>10. NoneEnds
    BY <2>7 DEF NoneEnds, UnderWay
  <2> QED
    BY <2>4, <2>5, <2>8, <2>9, <2>10 DEF CycleInv
<1> QED
  BY <1>1, <1>2

LEMMA TranslatedKeeps ==
    ASSUME CycleInv, NEW p \in Procs, NEW missing \in Absent, NEW raised,
           Translated(p, missing, raised)
    PROVE  CycleInv'
PROOF
<1>1. /\ WellFormed /\ JobWaits /\ OneAligned /\ cycles[p].at = "translate"
      /\ cycles' = [cycles EXCEPT ![p].at = "steps", ![p].primary = Readings \ missing]
      /\ UNCHANGED <<restored, in_flight, mode_override, jobs, sent, served, unheard>>
  BY DEF CycleInv, Translated, lives
<1>2. Readings \ missing \in Read
  BY DEF Read, Contexts
<1>3. cycles[p] \in Cycle
  BY <1>1 DEF WellFormed
<1>4. /\ cycles'[p] \in Cycle /\ cycles'[p].at = "steps" /\ cycles'[p].kind = cycles[p].kind
      /\ cycles'[p].age = cycles[p].age /\ cycles'[p].primary = Readings \ missing
      /\ cycles' \in [Procs -> Cycle]
      /\ \A q \in Procs : q # p => cycles'[q] = cycles[q]
  BY <1>1, <1>2, <1>3 DEF WellFormed, Cycle, Gathered, Phases
<1>5. WellFormed'
  <2>1. \A q \in Procs : cycles'[q].at = "steps" => cycles'[q].primary \in Read
    BY <1>1, <1>2, <1>4 DEF WellFormed
  <2> QED
    BY <1>1, <1>4, <2>1 DEF WellFormed
<1>6. JobWaits'
  BY <1>1, <1>4 DEF JobWaits
<1>7. UnderWay' = UnderWay
  BY <1>1, <1>4 DEF UnderWay
<1>8. OneAligned'
  BY <1>1, <1>4, <1>7 DEF OneAligned, UnderWay
<1>9. OverrideSpreads' /\ LastWord'
  BY <1>1, SameJobs DEF CycleInv
<1> QED
  BY <1>5, <1>6, <1>8, <1>9 DEF CycleInv

\* A cycle that is over leaves its place, and its tick's flag, to the next.
LEMMA FreedKeeps ==
    ASSUME WellFormed, OneAligned, NEW p \in UnderWay, Freed(p),
           served' = served \/ cycles[p].kind = "aligned"
    PROVE  /\ OneAligned' /\ cycles' \in [Procs -> Cycle] /\ in_flight' \in BOOLEAN
           /\ cycles'[p].at = "idle" /\ \A q \in Procs : q # p => cycles'[q] = cycles[q]
PROOF
<1>1. p \in Procs /\ cycles[p].kind \in Kinds
  BY DEF UnderWay, WellFormed, Cycle
<1>2. Idle \in Cycle /\ Idle.at = "idle"
  <2>1. 0 \in 0..MaxLag
    BY CycleAssumption
  <2>2. Idle.at = "idle"
    BY DEF Idle
  <2> QED
    BY <2>1, <2>2 DEF Idle, Cycle, Kinds
<1>3. /\ cycles' = [cycles EXCEPT ![p] = Idle]
      /\ in_flight' = IF cycles[p].kind = "aligned" THEN FALSE ELSE in_flight
  BY DEF Freed
<1>4. /\ cycles' \in [Procs -> Cycle] /\ cycles'[p].at = "idle"
      /\ \A q \in Procs : q # p => cycles'[q] = cycles[q]
  BY <1>1, <1>2, <1>3 DEF WellFormed
<1>5. in_flight' \in BOOLEAN
  BY <1>3 DEF WellFormed
<1>6. UnderWay' = UnderWay \ {p}
  BY <1>4 DEF UnderWay
<1>7. OneAligned'
  <2>1. CASE cycles[p].kind = "aligned"
    <3>1. \A q \in UnderWay' : cycles'[q].kind # "aligned"
      BY <1>4, <1>6, <2>1 DEF OneAligned, UnderWay
    <3> QED
      BY <3>1 DEF OneAligned
  <2>2. CASE cycles[p].kind # "aligned"
    <3>1. in_flight' = in_flight /\ served' = served
      BY <1>3, <2>2
    <3>2. \A q \in UnderWay' : q \in UnderWay /\ cycles'[q] = cycles[q]
      BY <1>4, <1>6 DEF UnderWay
    <3> QED
      BY <3>1, <3>2 DEF OneAligned
  <2> QED
    BY <2>1, <2>2
<1> QED
  BY <1>4, <1>5, <1>7

\* A caller that wants the override in force may queue up behind anybody.
LEMMA CallerKeeps ==
    ASSUME CycleInv, NEW task \in Job, jobs' = Append(jobs, task), task.of # "press",
           mode_override # NoMode => task.want = mode_override,
           task.want \in {mode_override, "slot", "nothing"},
           UNCHANGED <<restored, mode_override, unheard, sent>>
    PROVE  OverrideSpreads' /\ LastWord'
PROOF
<1>1. OverrideSpreads /\ LastWord /\ jobs \in Seq(Job)
  BY DEF CycleInv, WellFormed
<1> DEFINE n == Len(jobs)
<1>2. /\ n \in Nat /\ DOMAIN jobs = 1..n /\ DOMAIN jobs' = 1..(n + 1)
      /\ \A i \in 1..n : jobs'[i] = jobs[i]
      /\ jobs'[n + 1] = task
  BY <1>1, JobArrives
<1> HIDE DEF n
<1>3. \A i \in 1..(n + 1) : i \in 1..n \/ i = n + 1
  BY <1>2
<1>4. 1..n \subseteq 1..(n + 1) /\ \A i, j \in 1..(n + 1) : i < j => i \in 1..n
  BY <1>2
<1>5. \A i \in DOMAIN jobs' : Overtaken(i)' \/ jobs'[i].want \in {mode_override', "slot", "nothing"}
  BY <1>1, <1>2, <1>3, <1>4 DEF OverrideSpreads, Overtaken
<1>6. ASSUME mode_override' # NoMode
      PROVE  \A i, j \in DOMAIN jobs' :
                 i < j /\ jobs'[i].want = mode_override' => jobs'[j].want = mode_override'
  BY <1>1, <1>2, <1>3, <1>4, <1>6 DEF OverrideSpreads
<1>7. ASSUME mode_override' # NoMode, ~unheard'
      PROVE  \A i \in DOMAIN jobs' : jobs'[i].want = mode_override'
  BY <1>1, <1>2, <1>3, <1>7 DEF OverrideSpreads
<1>8. ASSUME ~restored'
      PROVE  mode_override' = NoMode /\ \A i \in DOMAIN jobs' : jobs'[i].of # "press"
  BY <1>1, <1>2, <1>3, <1>8 DEF OverrideSpreads
<1> QED
  BY <1>1, <1>5, <1>6, <1>7, <1>8 DEF OverrideSpreads, LastWord

\* The holder of the lock commits, or fails, and leaves.
LEMMA CommitKeeps ==
    ASSUME CycleInv, jobs # <<>>, jobs' = Tail(jobs), NEW ok \in BOOLEAN, Commit(Head(jobs), ok),
           UNCHANGED <<restored, mode_override>>
    PROVE  /\ OverrideSpreads' /\ LastWord'
           /\ jobs' \in Seq(Job) /\ served' \in Never..MaxAge /\ unheard' \in BOOLEAN
           /\ served' = served \/ (Head(jobs).of \in Procs /\ cycles[Head(jobs).of].kind = "aligned")
           /\ \A i \in DOMAIN jobs : i # 1 => \E k \in DOMAIN jobs' : jobs'[k] = jobs[i]
PROOF
<1>1. /\ OverrideSpreads /\ LastWord /\ jobs \in Seq(Job) /\ unheard \in BOOLEAN
      /\ served \in Never..MaxAge
  BY DEF CycleInv, WellFormed
<1> DEFINE n == Len(jobs)
           head == Head(jobs)
<1>2. /\ jobs' \in Seq(Job) /\ n \in Nat \ {0}
      /\ DOMAIN jobs = 1..n /\ DOMAIN jobs' = 1..(n - 1)
      /\ \A i \in 1..(n - 1) : jobs'[i] = jobs[i + 1]
      /\ head = jobs[1] /\ head \in Job
  BY <1>1, JobLeaves
<1>3. Commit(head, ok)
  OBVIOUS
<1> HIDE DEF n, head
<1>4. \/ /\ ok /\ head.want # "nothing" /\ sent' = head.want
         /\ served' = IF head.of \in Procs /\ cycles[head.of].kind = "aligned"
                      THEN head.age ELSE served
         /\ unheard' = (unheard /\ head.want # mode_override)
      \/ UNCHANGED <<sent, served, unheard>>
  BY <1>3 DEF Commit
<1>5. head.age \in 0..MaxLag /\ MaxLag \in Nat /\ MaxAge = MaxLag + 1
  BY <1>2, CycleAssumption DEF Job, MaxAge
<1>6. served' \in Never..MaxAge
  BY <1>1, <1>4, <1>5
<1>7. unheard' \in BOOLEAN
  BY <1>1, <1>4
<1>8. served' = served \/ (head.of \in Procs /\ cycles[head.of].kind = "aligned")
  BY <1>4
<1>9. \A i \in 1..(n - 1) : i + 1 \in 1..n /\ 1 < i + 1
  BY <1>2
<1>10. 1 \in 1..n /\ \A i \in 1..n : i # 1 => i - 1 \in 1..(n - 1) /\ (i - 1) + 1 = i
  BY <1>2
<1>11. \A i \in 1..(n - 1), j \in 1..n : i + 1 < j => j - 1 \in 1..(n - 1) /\ i < j - 1 /\ j # 1
  BY <1>2
<1>12. \A i, j \in 1..(n - 1) : i < j => i + 1 < j + 1
  BY <1>2
<1>13. \A i \in DOMAIN jobs : i # 1 => \E k \in DOMAIN jobs' : jobs'[k] = jobs[i]
  BY <1>2, <1>10
<1>14. \A i \in DOMAIN jobs' : Overtaken(i)' \/ jobs'[i].want \in {mode_override', "slot", "nothing"}
  <2> SUFFICES ASSUME NEW i \in 1..(n - 1), jobs[i + 1].want \notin {mode_override, "slot", "nothing"}
               PROVE  \E j \in 1..(n - 1) : i < j /\ jobs'[j].of = "press"
    BY <1>2 DEF Overtaken
  <2>1. PICK j \in 1..n : i + 1 < j /\ jobs[j].of = "press"
    BY <1>1, <1>2, <1>9 DEF OverrideSpreads, Overtaken
  <2>2. j - 1 \in 1..(n - 1) /\ i < j - 1 /\ (j - 1) + 1 = j
    BY <1>10, <1>11, <2>1
  <2>3. jobs'[j - 1] = jobs[(j - 1) + 1]
    BY <1>2, <2>2
  <2> QED
    BY <2>1, <2>2, <2>3
<1>15. ASSUME mode_override' # NoMode
       PROVE  \A i, j \in DOMAIN jobs' :
                  i < j /\ jobs'[i].want = mode_override' => jobs'[j].want = mode_override'
  BY <1>1, <1>2, <1>9, <1>12, <1>15 DEF OverrideSpreads
<1>16. ASSUME mode_override' # NoMode, ~unheard'
       PROVE  \A i \in DOMAIN jobs : i # 1 => jobs[i].want = mode_override
  <2>1. CASE ~unheard
    BY <1>1, <1>16, <2>1 DEF OverrideSpreads
  <2>2. CASE unheard
    <3>1. jobs[1].want = mode_override
      BY <1>2, <1>4, <1>16, <2>2
    <3>2. \A i \in 1..n : i # 1 => 1 < i
      BY <1>2
    <3> QED
      BY <1>1, <1>2, <1>10, <1>16, <3>1, <3>2 DEF OverrideSpreads
  <2> QED
    BY <2>1, <2>2
<1>17. ASSUME mode_override' # NoMode, ~unheard'
       PROVE  \A i \in DOMAIN jobs' : jobs'[i].want = mode_override'
  <2>1. \A i \in 1..(n - 1) : i + 1 \in DOMAIN jobs /\ i + 1 # 1
    BY <1>2, <1>9
  <2> QED
    BY <1>2, <1>16, <1>17, <2>1
<1>18. ASSUME ~restored'
       PROVE  mode_override' = NoMode /\ \A i \in DOMAIN jobs' : jobs'[i].of # "press"
  BY <1>1, <1>2, <1>9, <1>18 DEF OverrideSpreads
<1>19. LastWord'
  <2> SUFFICES ASSUME mode_override' # NoMode, ~unheard'
               PROVE  sent' = mode_override
    BY DEF LastWord
  <2>1. CASE ~unheard
    <3>1. sent = mode_override /\ head.want = mode_override
      BY <1>1, <1>2, <1>10, <2>1 DEF OverrideSpreads, LastWord
    <3> QED
      BY <1>4, <3>1
  <2>2. CASE unheard
    BY <1>4, <2>2
  <2> QED
    BY <2>1, <2>2
<1>20. OverrideSpreads'
  BY <1>14, <1>15, <1>17, <1>18 DEF OverrideSpreads
<1> QED
  BY <1>2, <1>6, <1>7, <1>8, <1>13, <1>19, <1>20 DEF head

LEMMA AssembledAndRunKeeps ==
    ASSUME CycleInv, NEW p \in Procs, AssembledAndRun(p)
    PROVE  CycleInv'
PROOF
<1> DEFINE Planned(context) == "Schedule" \in context.secondary
           Job_(context) == [of |-> p, age |-> cycles[p].age,
                             want |-> Wanted(mode_override, Planned(context))]
<1>1. /\ WellFormed /\ JobWaits /\ OneAligned /\ cycles[p].at = "steps" /\ jobs \in Seq(Job)
      /\ UNCHANGED <<restored, mode_override, sent, served, unheard>>
  BY DEF CycleInv, AssembledAndRun, lives, WellFormed
<1>2. p \in UnderWay /\ cycles[p] \in Cycle /\ cycles[p].primary \in Read
  BY <1>1 DEF UnderWay, WellFormed
<1>3. PICK context \in Contexts[cycles[p].primary] :
         IF "InverterModeReading" \in context.primary
         THEN /\ cycles' = [cycles EXCEPT ![p].at = "dispatch",
                                          ![p].primary = context.primary,
                                          ![p].secondary = context.secondary]
              /\ jobs' = Append(jobs, Job_(context))
              /\ UNCHANGED <<in_flight, data>>
         ELSE /\ Freed(p)
              /\ data' \in {data, Planned(context)}
              /\ UNCHANGED jobs
  BY DEF AssembledAndRun
<1> DEFINE task == Job_(context)
           want == Wanted(mode_override, Planned(context))
<1>4. CASE "InverterModeReading" \in context.primary
  <2>1. context.primary \in Gathered /\ context.secondary \in Computed
    BY <1>2 DEF Gathered, Computed
  <2>2. /\ mode_override # NoMode => want = mode_override
        /\ want \in {mode_override, "slot", "nothing"} /\ want \in Want
    BY <1>1 DEF Wanted, Want, WellFormed
  <2>3. cycles[p].age \in 0..MaxLag
    BY <1>2 DEF Cycle
  <2>4. task \in Job /\ task.of = p /\ task.want = want
    BY <2>2, <2>3 DEF Job
  <2>5. /\ jobs' = Append(jobs, task) /\ in_flight' = in_flight
        /\ cycles' = [cycles EXCEPT ![p].at = "dispatch", ![p].primary = context.primary,
                                    ![p].secondary = context.secondary]
    BY <1>3, <1>4
  <2>6. /\ cycles'[p] \in Cycle /\ cycles'[p].at = "dispatch" /\ cycles'[p].kind = cycles[p].kind
        /\ cycles'[p].age = cycles[p].age /\ cycles' \in [Procs -> Cycle]
        /\ \A q \in Procs : q # p => cycles'[q] = cycles[q]
    BY <1>1, <1>2, <2>1, <2>5 DEF WellFormed, Cycle, Phases
  <2> HIDE DEF task, want
  <2>7. /\ jobs' \in Seq(Job) /\ DOMAIN jobs \subseteq DOMAIN jobs'
        /\ \A i \in DOMAIN jobs : jobs'[i] = jobs[i]
        /\ \E i \in DOMAIN jobs' : jobs'[i] = task
    <3>1. /\ jobs' \in Seq(Job) /\ Len(jobs) \in Nat
          /\ DOMAIN jobs = 1..Len(jobs) /\ DOMAIN jobs' = 1..(Len(jobs) + 1)
          /\ \A i \in 1..Len(jobs) : jobs'[i] = jobs[i]
          /\ jobs'[Len(jobs) + 1] = task
      BY <1>1, <2>4, <2>5, JobArrives
    <3>2. Len(jobs) + 1 \in 1..(Len(jobs) + 1) /\ 1..Len(jobs) \subseteq 1..(Len(jobs) + 1)
      BY <3>1
    <3> QED
      BY <3>1, <3>2
  <2>8. WellFormed'
    <3>1. \A q \in Procs : cycles'[q].at = "steps" => cycles'[q].primary \in Read
      BY <1>1, <2>6 DEF WellFormed
    <3> QED
      BY <1>1, <2>5, <2>6, <2>7, <3>1 DEF WellFormed
  <2>9. JobWaits'
    BY <1>1, <2>4, <2>6, <2>7 DEF JobWaits
  <2>10. UnderWay' = UnderWay
    BY <1>2, <2>6 DEF UnderWay
  <2>11. OneAligned'
    BY <1>1, <2>5, <2>6, <2>10 DEF OneAligned, UnderWay
  <2>12. task.of # "press"
    BY <2>4, CycleAssumption
  <2>13. OverrideSpreads' /\ LastWord'
    BY <1>1, <2>2, <2>4, <2>5, <2>12, CallerKeeps
  <2> QED
    BY <2>8, <2>9, <2>11, <2>13 DEF CycleInv
<1>5. CASE "InverterModeReading" \notin context.primary
  <2>1. Freed(p) /\ jobs' = jobs
    BY <1>3, <1>5
  <2>2. /\ OneAligned' /\ cycles' \in [Procs -> Cycle] /\ in_flight' \in BOOLEAN
        /\ cycles'[p].at = "idle" /\ \A q \in Procs : q # p => cycles'[q] = cycles[q]
    BY <1>1, <1>2, <2>1, FreedKeeps
  <2>3. WellFormed'
    <3>1. \A q \in Procs : cycles'[q].at = "steps" => cycles'[q].primary \in Read
      BY <1>1, <2>2 DEF WellFormed
    <3> QED
      BY <1>1, <2>1, <2>2, <3>1 DEF WellFormed
  <2>4. JobWaits'
    BY <1>1, <2>1, <2>2 DEF JobWaits
  <2>5. OverrideSpreads' /\ LastWord'
    BY <1>1, <2>1, SameJobs DEF CycleInv
  <2> QED
    BY <2>2, <2>3, <2>4, <2>5 DEF CycleInv
<1> QED
  BY <1>4, <1>5

LEMMA DispatchedKeeps ==
    ASSUME CycleInv, NEW p \in Procs, Dispatched(p)
    PROVE  CycleInv'
PROOF
<1>1. /\ WellFormed /\ JobWaits /\ OneAligned /\ cycles[p].at = "dispatch" /\ jobs \in Seq(Job)
      /\ Head(jobs).of = p /\ jobs' = Tail(jobs) /\ Freed(p)
      /\ UNCHANGED <<restored, mode_override>>
  BY DEF CycleInv, Dispatched, lives, WellFormed
<1>2. PICK ok \in BOOLEAN : Commit(Head(jobs), ok)
  BY DEF Dispatched
<1>3. p \in UnderWay /\ jobs # <<>>
  BY <1>1 DEF UnderWay, JobWaits
<1>4. /\ OverrideSpreads' /\ LastWord'
      /\ jobs' \in Seq(Job) /\ served' \in Never..MaxAge /\ unheard' \in BOOLEAN
      /\ served' = served \/ (Head(jobs).of \in Procs /\ cycles[Head(jobs).of].kind = "aligned")
      /\ \A i \in DOMAIN jobs : i # 1 => \E k \in DOMAIN jobs' : jobs'[k] = jobs[i]
  BY <1>1, <1>2, <1>3, CommitKeeps
<1>5. /\ OneAligned' /\ cycles' \in [Procs -> Cycle] /\ in_flight' \in BOOLEAN
      /\ cycles'[p].at = "idle" /\ \A q \in Procs : q # p => cycles'[q] = cycles[q]
  BY <1>1, <1>3, <1>4, FreedKeeps
<1>6. WellFormed'
  <2>1. \A q \in Procs : cycles'[q].at = "steps" => cycles'[q].primary \in Read
    BY <1>1, <1>5 DEF WellFormed
  <2>2. {in_flight', restored', unheard'} \subseteq BOOLEAN /\ mode_override' \in Modes \cup {NoMode}
    BY <1>1, <1>4, <1>5 DEF WellFormed
  <2> QED
    BY <1>4, <1>5, <2>1, <2>2 DEF WellFormed
<1>7. jobs[1].of = p
  BY <1>1, <1>3, HeadTailProperties
<1>8. JobWaits'
  <2> SUFFICES ASSUME NEW q \in Procs, cycles'[q].at = "dispatch"
               PROVE  \E k \in DOMAIN jobs' : jobs'[k].of = q
    BY DEF JobWaits
  <2>1. q # p /\ cycles[q].at = "dispatch"
    BY <1>5
  <2>2. PICK i \in DOMAIN jobs : jobs[i].of = q
    BY <1>1, <2>1 DEF JobWaits
  <2>3. i # 1
    BY <1>7, <2>1, <2>2
  <2> QED
    BY <1>4, <2>2, <2>3
<1> QED
  BY <1>4, <1>5, <1>6, <1>8 DEF CycleInv

LEMMA PressDoneKeeps ==
    ASSUME CycleInv, PressDone
    PROVE  CycleInv'
PROOF
<1>1. /\ WellFormed /\ JobWaits /\ OneAligned /\ jobs # <<>> /\ jobs \in Seq(Job)
      /\ Head(jobs).of = "press" /\ jobs' = Tail(jobs)
      /\ UNCHANGED <<restored, in_flight, mode_override, cycles>>
  BY DEF CycleInv, PressDone, lives, WellFormed
<1>2. PICK ok \in BOOLEAN : Commit(Head(jobs), ok)
  BY DEF PressDone
<1>3. /\ OverrideSpreads' /\ LastWord'
      /\ jobs' \in Seq(Job) /\ served' \in Never..MaxAge /\ unheard' \in BOOLEAN
      /\ served' = served \/ (Head(jobs).of \in Procs /\ cycles[Head(jobs).of].kind = "aligned")
      /\ \A i \in DOMAIN jobs : i # 1 => \E k \in DOMAIN jobs' : jobs'[k] = jobs[i]
  BY <1>1, <1>2, CommitKeeps
<1>4. served' = served
  BY <1>1, <1>3, CycleAssumption
<1>5. WellFormed' /\ OneAligned'
  <2>1. UNCHANGED <<cycles, in_flight, restored, mode_override>>
    BY <1>1
  <2>2. OneAligned'
    BY <1>1, <1>4, <2>1 DEF OneAligned, UnderWay
  <2> QED
    BY <1>1, <1>3, <2>1, <2>2 DEF WellFormed
<1>6. \A p \in Procs : p # "press"
  BY CycleAssumption
<1>7. jobs[1].of = "press"
  BY <1>1, HeadTailProperties
<1>8. JobWaits'
  <2> SUFFICES ASSUME NEW q \in Procs, cycles'[q].at = "dispatch"
               PROVE  \E k \in DOMAIN jobs' : jobs'[k].of = q
    BY DEF JobWaits
  <2>1. PICK i \in DOMAIN jobs : jobs[i].of = q
    BY <1>1 DEF JobWaits
  <2>2. i # 1
    BY <1>6, <1>7, <2>1
  <2> QED
    BY <1>3, <2>1, <2>2
<1> QED
  BY <1>3, <1>5, <1>8 DEF CycleInv

\* The operator's press overtakes whoever is in front of it, and there is only one.
LEMMA PressKeeps ==
    ASSUME CycleInv, NEW mode \in Modes \cup {NoMode}, Press(mode)
    PROVE  CycleInv'
PROOF
<1> DEFINE want == Wanted(mode, data)
           task == [of |-> "press", age |-> 0, want |-> want]
           n == Len(jobs)
<1>1. /\ WellFormed /\ JobWaits /\ OneAligned /\ OverrideSpreads /\ jobs \in Seq(Job)
      /\ restored /\ mode # mode_override
      /\ \A i \in DOMAIN jobs : jobs[i].of # "press"
      /\ mode_override' = mode /\ jobs' = Append(jobs, task) /\ unheard' = (mode # NoMode)
      /\ UNCHANGED <<restored, in_flight, cycles, sent, served>>
  BY DEF CycleInv, Press, lives, WellFormed
<1>2. want \in {mode, "slot", "nothing"} /\ want \in Want
  BY DEF Wanted, Want
<1>3. 0 \in 0..MaxLag
  BY CycleAssumption
<1>4. task \in Job /\ task.of = "press" /\ task.want = want
  BY <1>2, <1>3 DEF Job
<1> HIDE DEF task, want
<1>5. /\ jobs' \in Seq(Job) /\ n \in Nat
      /\ DOMAIN jobs = 1..n /\ DOMAIN jobs' = 1..(n + 1)
      /\ \A i \in 1..n : jobs'[i] = jobs[i]
      /\ jobs'[n + 1] = task
  BY <1>1, <1>4, JobArrives
<1> HIDE DEF n
<1>6. /\ n + 1 \in 1..(n + 1)
      /\ \A i \in 1..(n + 1) : (i \in 1..n /\ i < n + 1) \/ i = n + 1
      /\ \A i, j \in 1..(n + 1) : i < j => i \in 1..n
      /\ 1..n \subseteq 1..(n + 1)
  BY <1>5
<1>7. WellFormed'
  <2>1. unheard' \in BOOLEAN /\ {in_flight', restored'} \subseteq BOOLEAN
    BY <1>1 DEF WellFormed
  <2> QED
    BY <1>1, <1>5, <2>1 DEF WellFormed
<1>8. JobWaits'
  BY <1>1, <1>5, <1>6 DEF JobWaits
<1>9. OneAligned'
  BY <1>1 DEF OneAligned, UnderWay
<1>10. \A i \in 1..n : jobs[i].want \in {mode_override, "slot", "nothing"}
  BY <1>1, <1>5 DEF OverrideSpreads, Overtaken
<1>11. \A i \in 1..n : mode # NoMode => jobs[i].want # mode
  BY <1>1, <1>10, CycleAssumption
<1>12. OverrideSpreads'
  <2>1. \A i \in DOMAIN jobs' : Overtaken(i)' \/ jobs'[i].want \in {mode_override', "slot", "nothing"}
    BY <1>1, <1>2, <1>4, <1>5, <1>6 DEF Overtaken
  <2>2. ASSUME mode_override' # NoMode, NEW i \in DOMAIN jobs', NEW j \in DOMAIN jobs', i < j
        PROVE  jobs'[i].want # mode_override'
    BY <1>1, <1>5, <1>6, <1>11, <2>2
  <2>3. ~(mode_override' # NoMode /\ ~unheard') /\ restored'
    BY <1>1
  <2> QED
    BY <2>1, <2>2, <2>3 DEF OverrideSpreads
<1>13. LastWord'
  BY <1>1 DEF LastWord
<1> QED
  BY <1>7, <1>8, <1>9, <1>12, <1>13 DEF CycleInv

\* The restored override finds only commands of the schedule at the lock.
LEMMA RestoreKeeps ==
    ASSUME CycleInv, NEW mode \in Modes \cup {NoMode}, Restore(mode)
    PROVE  CycleInv'
PROOF
<1>1. /\ WellFormed /\ JobWaits /\ OneAligned /\ OverrideSpreads /\ ~restored
      /\ restored' = TRUE /\ mode_override' = mode /\ unheard' = (mode # NoMode)
      /\ UNCHANGED <<in_flight, cycles, jobs, sent, served>>
  BY DEF CycleInv, Restore
<1>2. mode_override = NoMode /\ \A i \in DOMAIN jobs : jobs[i].of # "press"
  BY <1>1 DEF OverrideSpreads
<1>3. \A i \in DOMAIN jobs : jobs[i] \in Job
  BY <1>1 DEF WellFormed
<1>4. \A i \in DOMAIN jobs : jobs[i].want \in {NoMode, "slot", "nothing"}
  BY <1>1, <1>2 DEF OverrideSpreads, Overtaken
<1>5. \A i \in DOMAIN jobs : jobs[i].want \in {"slot", "nothing"}
  BY <1>3, <1>4, CycleAssumption DEF Job, Want
<1>6. mode # NoMode => \A i \in DOMAIN jobs : jobs[i].want # mode
  BY <1>5, CycleAssumption
<1>7. WellFormed'
  <2>1. unheard' \in BOOLEAN /\ {in_flight', restored'} \subseteq BOOLEAN
    BY <1>1 DEF WellFormed
  <2> QED
    BY <1>1, <2>1 DEF WellFormed
<1>8. JobWaits' /\ OneAligned'
  BY <1>1 DEF JobWaits, OneAligned, UnderWay
<1>9. OverrideSpreads'
  <2>1. \A i \in DOMAIN jobs' : Overtaken(i)' \/ jobs'[i].want \in {mode_override', "slot", "nothing"}
    BY <1>1, <1>5
  <2>2. ~(mode_override' # NoMode /\ ~unheard') /\ restored'
    BY <1>1
  <2>3. mode_override' # NoMode => \A i \in DOMAIN jobs' : jobs'[i].want # mode_override'
    BY <1>1, <1>6
  <2> QED
    BY <2>1, <2>2, <2>3 DEF OverrideSpreads
<1>10. LastWord'
  BY <1>1 DEF LastWord
<1> QED
  BY <1>7, <1>8, <1>9, <1>10 DEF CycleInv

LEMMA NextKeeps ==
    ASSUME CycleInv, [Next]_vars
    PROVE  CycleInv'
PROOF
<1>1. CASE AlignedTick
  BY <1>1, AlignedTickKeeps
<1>2. CASE SkippedTick
  BY <1>2, SkippedTickKeeps
<1>3. CASE Request
  BY <1>3, RequestKeeps DEF Request, lives
<1>4. CASE Debounced
  BY <1>4, RequestKeeps DEF Debounced, lives
<1>5. ASSUME NEW p \in Procs, CycleStep(p)
      PROVE  CycleInv'
  BY <1>5, TranslatedKeeps, AssembledAndRunKeeps, DispatchedKeeps DEF CycleStep
<1>6. ASSUME NEW mode \in Modes \cup {NoMode}, Press(mode) \/ Restore(mode)
      PROVE  CycleInv'
  BY <1>6, PressKeeps, RestoreKeeps
<1>7. CASE PressDone
  BY <1>7, PressDoneKeeps
<1>8. CASE Unload
  BY <1>8, RequestKeeps DEF Unload
<1>9. CASE UNCHANGED vars
  BY <1>9, RequestKeeps DEF vars, lives
<1> QED
  BY <1>1, <1>2, <1>3, <1>4, <1>5, <1>6, <1>7, <1>8, <1>9 DEF Next

LEMMA InitInv ==
    ASSUME Init
    PROVE  CycleInv
PROOF
<1>1. /\ in_flight = FALSE /\ restored = FALSE /\ mode_override = NoMode
      /\ cycles = [p \in Procs |-> Idle] /\ jobs = <<>> /\ served = Never /\ unheard = FALSE
  BY DEF Init
<1>2. Idle \in Cycle /\ Idle.at = "idle"
  <2>1. 0 \in 0..MaxLag
    BY CycleAssumption
  <2>2. Idle.at = "idle"
    BY DEF Idle
  <2> QED
    BY <2>1, <2>2 DEF Idle, Cycle, Kinds
<1>3. \A p \in Procs : cycles[p].at = "idle"
  BY <1>1, <1>2
<1>4. Never \in Never..MaxAge
  BY CycleAssumption DEF MaxAge
<1>5. jobs \in Seq(Job) /\ DOMAIN jobs = {}
  BY <1>1
<1>6. WellFormed
  <2>1. {in_flight, restored, unheard} \subseteq BOOLEAN
    BY <1>1
  <2> QED
    BY <1>1, <1>2, <1>3, <1>4, <1>5, <2>1 DEF WellFormed
<1>7. JobWaits /\ OneAligned /\ OverrideSpreads /\ LastWord
  BY <1>1, <1>3, <1>5 DEF JobWaits, OneAligned, OverrideSpreads, LastWord, UnderWay
<1> QED
  BY <1>6, <1>7 DEF CycleInv

----------------------------------------------------------------------------
\* What the coordinator keeps.

\* The inductive invariant holds in every reachable state (_async_update_data,
\* _on_aligned_tick, async_select_option).
THEOREM Invariant == Spec => []CycleInv
PROOF
<1>1. Init => CycleInv
  BY InitInv
<1>2. CycleInv /\ [Next]_vars => CycleInv'
  BY NextKeeps
<1> QED
  BY <1>1, <1>2, PTL DEF Spec

\* Once the override the operator set has reached the inverter, nothing decided before it
\* was set is commanded after it, however the cycles, their failures and the presses
\* interleave at the control module's lock (async_select_option, _async_update_data).
THEOREM LastWordHolds == Spec => []LastWord
PROOF
<1>1. CycleInv => LastWord
  BY DEF CycleInv
<1> QED
  BY <1>1, Invariant, PTL

\* A cycle's own step ends it at the dispatch, or without a mode reading.
LEMMA StepDispatches ==
    ASSUME CycleInv, NEW p \in Procs, CycleStep(p)
    PROVE  EveryCycleDispatches
PROOF
<1>1. WellFormed /\ cycles \in [Procs -> Cycle]
  BY DEF CycleInv, WellFormed
<1>2. ASSUME NEW missing \in Absent, NEW raised \in BOOLEAN, Translated(p, missing, raised)
      PROVE  EveryCycleDispatches
  <2>1. cycles' = [cycles EXCEPT ![p].at = "steps", ![p].primary = Readings \ missing]
    BY <1>2 DEF Translated
  <2>2. cycles[p] \in Cycle
    BY <1>1
  <2>3. cycles'[p].at = "steps" /\ \A q \in Procs : q # p => cycles'[q] = cycles[q]
    BY <1>1, <2>1, <2>2 DEF Cycle
  <2> QED
    BY <2>3 DEF EveryCycleDispatches
<1>3. CASE AssembledAndRun(p)
  <2>1. cycles[p].at = "steps" /\ cycles[p].primary \in Read /\ cycles[p] \in Cycle
    BY <1>1, <1>3 DEF AssembledAndRun, WellFormed
  <2>2. PICK context \in Contexts[cycles[p].primary] :
           IF "InverterModeReading" \in context.primary
           THEN cycles' = [cycles EXCEPT ![p].at = "dispatch",
                                         ![p].primary = context.primary,
                                         ![p].secondary = context.secondary]
           ELSE Freed(p)
    BY <1>3 DEF AssembledAndRun
  <2>3. cycles[p].primary \subseteq context.primary
    <3>1. \A read \in Read : \A c \in Contexts[read] : read \subseteq c.primary
      BY DEF Read, Contexts, Assembled
    <3> QED
      BY <2>1, <2>2, <3>1
  <2>4. CASE "InverterModeReading" \in context.primary
    <3>1. cycles' = [cycles EXCEPT ![p].at = "dispatch", ![p].primary = context.primary,
                                   ![p].secondary = context.secondary]
      BY <2>2, <2>4
    <3>2. cycles'[p].at = "dispatch" /\ \A q \in Procs : q # p => cycles'[q] = cycles[q]
      BY <1>1, <2>1, <3>1 DEF Cycle
    <3> QED
      BY <3>2 DEF EveryCycleDispatches
  <2>5. CASE "InverterModeReading" \notin context.primary
    <3>1. cycles' = [cycles EXCEPT ![p] = Idle]
      BY <2>2, <2>5 DEF Freed
    <3>2. \A q \in Procs : q # p => cycles'[q] = cycles[q]
      BY <1>1, <3>1
    <3> QED
      BY <2>1, <2>3, <2>5, <3>2 DEF EveryCycleDispatches
  <2> QED
    BY <2>4, <2>5
<1>4. CASE Dispatched(p)
  <2>1. cycles[p].at = "dispatch" /\ cycles' = [cycles EXCEPT ![p] = Idle]
    BY <1>4 DEF Dispatched, Freed
  <2>2. \A q \in Procs : q # p => cycles'[q] = cycles[q]
    BY <1>1, <2>1
  <2> QED
    BY <2>1, <2>2 DEF EveryCycleDispatches
<1> QED
  BY <1>2, <1>3, <1>4 DEF CycleStep

\* Nor does any other.
LEMMA NextDispatches ==
    ASSUME CycleInv, Next
    PROVE  EveryCycleDispatches
PROOF
<1>1. NoneEnds => EveryCycleDispatches
  BY DEF NoneEnds, EveryCycleDispatches, UnderWay
<1>2. UNCHANGED cycles => NoneEnds
  BY DEF NoneEnds, UnderWay
<1>3. CASE AlignedTick \/ SkippedTick
  BY <1>1, <1>3, AlignedTickKeeps, SkippedTickKeeps
<1>4. CASE Request \/ Debounced
  BY <1>1, <1>4, RequestKeeps DEF Request, Debounced, lives
<1>5. CASE \E p \in Procs : CycleStep(p)
  BY <1>5, StepDispatches
<1>6. CASE \/ \E mode \in Modes \cup {NoMode} : Press(mode) \/ Restore(mode)
           \/ PressDone \/ Unload
  BY <1>1, <1>2, <1>6 DEF Press, Restore, PressDone, Unload
<1> QED
  BY <1>3, <1>4, <1>5, <1>6 DEF Next

\* Whatever fails, a cycle that read the inverter's mode ends only through the control
\* module, and no aligned cycle commits its slot after a newer one has: the flag of the
\* tick keeps them apart however long a cycle takes (_async_update_data,
\* _on_aligned_tick).
THEOREM InOrder == Spec => DispatchesInOrder
PROOF
<1>1. CycleInv => AlignedInOrder
  BY DEF AlignedInOrder, CycleInv, OneAligned, UnderWay
<1>2. CycleInv /\ [Next]_vars => [EveryCycleDispatches /\ AlignedInOrder]_vars
  BY <1>1, NextDispatches
<1> QED
  BY <1>2, Invariant, PTL DEF Spec, DispatchesInOrder

----------------------------------------------------------------------------
\* What the graph makes of a cycle's readings.

\* The steps seed every stored primary, and what they inject are stored primaries.
LEMMA StoredAreSeeded ==
    /\ UNION {s.seeds : s \in Steps} = Stored
    /\ \A s \in Steps : s.injects \subseteq Stored
PROOF
<1>1. \A s \in SampleSteps : s.seeds \subseteq Stored /\ s.injects \subseteq Stored
  BY DEF SampleSteps, Step, Stored
<1>2. \A s \in WindowSteps : s.seeds \subseteq Stored /\ s.injects \subseteq Stored
  BY DEF WindowSteps, Step, Stored
<1>3. \A s \in StoreSteps : s.seeds \subseteq Stored /\ s.injects \subseteq Stored
  BY DEF StoreSteps, Step, Stored
<1> DEFINE Seeded == UNION {s.seeds : s \in Steps}
<1>4. \A s \in Steps : s.seeds \subseteq Seeded
  OBVIOUS
<1> HIDE DEF Seeded
<1>5. {"YesterdayPrices", "SampleHistories", "DerivedPowerHistory"} \subseteq Seeded
  <2>1. /\ Step({"YesterdayPrices"}, {}) \in Steps
        /\ Step({"SampleHistories"}, {"SampleHistories"}) \in Steps
        /\ Step({"DerivedPowerHistory"}, {"DerivedPowerHistory"}) \in Steps
    BY DEF Steps, SampleSteps
  <2> QED
    BY <1>4, <2>1 DEF Step
<1>6. {"CounterSnapshotHistory", "WeatherForecastData"} \subseteq Seeded
  <2>1. /\ Step({"CounterSnapshotHistory"}, {"CounterSnapshotHistory"}) \in Steps
        /\ Step({"WeatherForecastData"}, {"WeatherForecastData"}) \in Steps
    BY DEF Steps, WindowSteps
  <2> QED
    BY <1>4, <2>1 DEF Step
<1>7. StoredPrimaries \cup {"ConsumptionDailyBuckets", "EstimatedCapacity", "SchedulePolicy"}
         \subseteq Seeded
  <2>1. /\ Step(StoredPrimaries, {}) \in Steps
        /\ Step({"ConsumptionDailyBuckets"}, {"ConsumptionDailyBuckets"}) \in Steps
        /\ Step({"EstimatedCapacity"}, {"EstimatedCapacity"}) \in Steps
        /\ Step({"SchedulePolicy"}, {}) \in Steps
    BY DEF Steps, StoreSteps
  <2> QED
    BY <1>4, <2>1 DEF Step
<1>8. Stored \subseteq Seeded
  BY <1>5, <1>6, <1>7 DEF Stored
<1>9. \A s \in Steps : s.seeds \subseteq Stored /\ s.injects \subseteq Stored
  BY <1>1, <1>2, <1>3 DEF Steps
<1> QED
  BY <1>8, <1>9 DEF Seeded

\* A context holds the readings there were, every stored input, and what the nodes owe.
LEMMA ContextFact ==
    ASSUME NEW read \in Read, NEW context \in Contexts[read]
    PROVE  /\ read \subseteq Readings /\ context.primary = read \cup Stored
           /\ context.secondary \subseteq Produced
           /\ \E broken \in Flaky : context.secondary = Promised(context.primary, broken)
PROOF
<1>1. read \subseteq Readings
  BY DEF Read, Contexts
<1>2. PICK failing \in {{}} \cup {{s} : s \in Steps}, broken \in Flaky :
         /\ context.primary = Assembled(read, failing)
         /\ context.secondary = Run(context.primary, broken)
  BY DEF Read, Contexts
<1>3. context.primary = read \cup Stored
  <2> DEFINE seeded == UNION {s.seeds : s \in Steps}
             injected == UNION {s.injects : s \in Steps \ failing}
  <2>1. context.primary = read \cup seeded \cup injected
    BY <1>2 DEF Assembled
  <2>2. seeded = Stored /\ injected \subseteq Stored
    BY StoredAreSeeded
  <2> HIDE DEF seeded, injected
  <2> QED
    BY <2>1, <2>2
<1>4. \A n \in Nodes : Consumes[n] \cap Produced \cap context.primary = {}
  BY <1>1, <1>3, PrimariesAssumption
<1>5. Run(context.primary, broken) = Promised(context.primary, broken)
  BY <1>4, RunKeepsPromise
<1>6. Promised(context.primary, broken) \subseteq Produced
  BY DEF Promised, Produced
<1> QED
  BY <1>1, <1>2, <1>3, <1>5, <1>6

\* The other part of the invariant concerns only some of the variables.
LEMMA SameGraph ==
    ASSUME GraphInv, {loaded', subscribed', pending', data'} \subseteq BOOLEAN, sent' \in Want,
           \A q \in Procs : cycles'[q].at = "dispatch" =>
               /\ cycles[q].at = "dispatch"
               /\ cycles'[q].primary = cycles[q].primary
               /\ cycles'[q].secondary = cycles[q].secondary
    PROVE  GraphInv'
PROOF
  BY DEF GraphInv

\* What the control module commits is a mode, or the slot's.
LEMMA CommitWants ==
    ASSUME jobs \in Seq(Job), jobs # <<>>, sent \in Want, \E ok \in BOOLEAN : Commit(Head(jobs), ok)
    PROVE  sent' \in Want
PROOF
<1>1. Head(jobs) \in Job
  BY HeadTailProperties
<1>2. Head(jobs).want \in Want
  BY <1>1 DEF Job
<1> QED
  BY <1>2 DEF Commit

\* A choice between two truth values is one.
LEMMA OneOfBooleans ==
    ASSUME NEW x, NEW y \in BOOLEAN, NEW X, NEW t, x \in {y, (t \in X)}
    PROVE  x \in BOOLEAN
PROOF
<1> DEFINE z == t \in X
<1>1. z \in BOOLEAN
  OBVIOUS
<1>2. x = y \/ x = z
  OBVIOUS
<1> HIDE DEF z
<1> QED
  BY <1>1, <1>2

\* A cycle's own step leaves it with its old context, or with one of its readings.
LEMMA StepKeepsGraph ==
    ASSUME CycleInv, GraphInv, NEW p \in Procs, CycleStep(p)
    PROVE  GraphInv'
PROOF
<1>1. /\ cycles \in [Procs -> Cycle] /\ cycles[p] \in Cycle /\ jobs \in Seq(Job)
      /\ cycles[p].at = "steps" => cycles[p].primary \in Read
  BY DEF CycleInv, WellFormed
<1>2. {loaded, subscribed, pending, data} \subseteq BOOLEAN /\ sent \in Want
  BY DEF GraphInv
<1>3. ASSUME NEW missing \in Absent, NEW raised \in BOOLEAN, Translated(p, missing, raised)
      PROVE  GraphInv'
  <2>1. /\ cycles' = [cycles EXCEPT ![p].at = "steps", ![p].primary = Readings \ missing]
        /\ UNCHANGED <<loaded, subscribed, pending, data, sent>>
    BY <1>3 DEF Translated, lives
  <2>2. cycles'[p].at = "steps" /\ \A q \in Procs : q # p => cycles'[q] = cycles[q]
    BY <1>1, <2>1 DEF Cycle
  <2> QED
    BY <1>2, <2>1, <2>2, SameGraph
<1>4. ASSUME Freed(p), {loaded', subscribed', pending', data'} \subseteq BOOLEAN, sent' \in Want
      PROVE  GraphInv'
  <2>1. cycles' = [cycles EXCEPT ![p] = Idle] /\ Idle.at = "idle"
    BY <1>4 DEF Freed, Idle
  <2>2. cycles'[p].at = "idle" /\ \A q \in Procs : q # p => cycles'[q] = cycles[q]
    BY <1>1, <2>1
  <2> QED
    BY <1>4, <2>2, SameGraph
<1>5. CASE AssembledAndRun(p)
  <2>1. /\ cycles[p].primary \in Read
        /\ UNCHANGED <<loaded, subscribed, pending, sent>>
    BY <1>1, <1>5 DEF AssembledAndRun, lives
  <2>2. PICK context \in Contexts[cycles[p].primary] :
           IF "InverterModeReading" \in context.primary
           THEN /\ cycles' = [cycles EXCEPT ![p].at = "dispatch",
                                            ![p].primary = context.primary,
                                            ![p].secondary = context.secondary]
                /\ UNCHANGED data
           ELSE Freed(p) /\ data' \in {data, "Schedule" \in context.secondary}
    BY <1>5 DEF AssembledAndRun
  <2>3. CASE "InverterModeReading" \in context.primary
    <3>1. /\ cycles' = [cycles EXCEPT ![p].at = "dispatch", ![p].primary = context.primary,
                                      ![p].secondary = context.secondary]
          /\ UNCHANGED data
      BY <2>2, <2>3
    <3>2. /\ cycles'[p].primary = context.primary /\ cycles'[p].secondary = context.secondary
          /\ \A q \in Procs : q # p => cycles'[q] = cycles[q]
      BY <1>1, <3>1 DEF Cycle
    <3>3. \A q \in Procs : cycles'[q].at = "dispatch" =>
             \E read \in Read : \E c \in Contexts[read] :
                 cycles'[q].primary = c.primary /\ cycles'[q].secondary = c.secondary
      BY <2>1, <3>2 DEF GraphInv
    <3>4. UNCHANGED <<loaded, subscribed, pending, data, sent>>
      BY <2>1, <3>1
    <3>5. Read' = Read /\ Contexts' = Contexts
      BY DEF Read, Contexts
    <3> QED
      BY <1>2, <3>3, <3>4, <3>5 DEF GraphInv
  <2>4. CASE "InverterModeReading" \notin context.primary
    <3>1. Freed(p) /\ data' \in BOOLEAN
      BY <1>2, <2>2, <2>4, OneOfBooleans
    <3> QED
      BY <1>2, <1>4, <2>1, <3>1
  <2> QED
    BY <2>3, <2>4
<1>6. CASE Dispatched(p)
  <2>1. /\ Freed(p) /\ UNCHANGED <<loaded, subscribed, pending>>
        /\ \E ok \in BOOLEAN : Commit(Head(jobs), ok)
        /\ data' \in {data, "Schedule" \in cycles[p].secondary}
    BY <1>6 DEF Dispatched, Published, lives
  <2>2. jobs # <<>>
    BY <1>6 DEF CycleInv, JobWaits, Dispatched
  <2>3. sent' \in Want
    BY <1>1, <1>2, <2>1, <2>2, CommitWants
  <2>4. data' \in BOOLEAN
    BY <1>2, <2>1, OneOfBooleans
  <2> QED
    BY <1>2, <1>4, <2>1, <2>3, <2>4
<1> QED
  BY <1>3, <1>5, <1>6 DEF CycleStep

LEMMA NextKeepsGraph ==
    ASSUME CycleInv, GraphInv, [Next]_vars
    PROVE  GraphInv'
PROOF
<1>1. /\ cycles \in [Procs -> Cycle] /\ jobs \in Seq(Job)
      /\ {loaded, subscribed, pending, data} \subseteq BOOLEAN /\ sent \in Want
  BY DEF CycleInv, WellFormed, GraphInv
<1>2. ASSUME UNCHANGED cycles
      PROVE  \A q \in Procs : cycles'[q] = cycles[q]
  BY <1>2
<1>3. ASSUME NEW kind \in Kinds, Free # {}, NEW q \in Procs, Started(kind)[q].at = "dispatch"
      PROVE  Started(kind)[q] = cycles[q]
  BY <1>3, StartedFact DEF CycleInv
<1>4. ASSUME NEW base \in [Procs -> Cycle], Elapse(base),
             \A q \in Procs : base[q].at = "dispatch" => base[q] = cycles[q]
      PROVE  GraphInv'
  <2>1. /\ cycles' = [q \in Procs |-> IF base[q].at = "idle" \/ q \notin UnderWay THEN base[q]
                                      ELSE [base[q] EXCEPT !.age = @ + 1]]
        /\ UNCHANGED <<loaded, subscribed, pending, data, sent>>
    BY <1>4 DEF Elapse, lives
  <2>2. \A q \in Procs : /\ cycles'[q].at = base[q].at
                         /\ cycles'[q].primary = base[q].primary
                         /\ cycles'[q].secondary = base[q].secondary
    BY <1>4, <2>1 DEF Cycle
  <2> QED
    BY <1>1, <1>4, <2>1, <2>2, SameGraph
<1>5. CASE AlignedTick
  <2>1. "aligned" \in Kinds /\ Free # {} /\ Elapse(Started("aligned"))
    BY <1>5 DEF AlignedTick, Kinds
  <2>2. Started("aligned") \in [Procs -> Cycle]
    BY <2>1, StartedFact DEF CycleInv
  <2> QED
    BY <1>3, <1>4, <2>1, <2>2
<1>6. CASE SkippedTick
  BY <1>1, <1>4, <1>6 DEF SkippedTick
<1>7. CASE Request \/ Debounced
  <2>1. /\ {loaded', subscribed', pending', data'} \subseteq BOOLEAN /\ sent' \in Want
        /\ cycles' = cycles \/ (cycles' = Started("requested") /\ Free # {})
    BY <1>1, <1>7 DEF Request, Debounced, lives
  <2>2. "requested" \in Kinds
    BY DEF Kinds
  <2>3. \A q \in Procs : cycles'[q].at = "dispatch" => cycles'[q] = cycles[q]
    BY <1>3, <2>1, <2>2
  <2> QED
    BY <2>1, <2>3, SameGraph
<1>8. ASSUME NEW mode \in Modes \cup {NoMode}, Press(mode) \/ Restore(mode)
      PROVE  GraphInv'
  <2>1. /\ {loaded', subscribed', pending', data'} \subseteq BOOLEAN /\ sent' \in Want
        /\ UNCHANGED cycles
    BY <1>1, <1>8 DEF Press, Restore, lives
  <2> QED
    BY <1>2, <2>1, SameGraph
<1>9. CASE PressDone
  <2>1. /\ UNCHANGED <<loaded, subscribed, pending, data, cycles>> /\ jobs # <<>>
        /\ \E ok \in BOOLEAN : Commit(Head(jobs), ok)
    BY <1>9 DEF PressDone, lives
  <2>2. sent' \in Want
    BY <1>1, <2>1, CommitWants
  <2> QED
    BY <1>1, <1>2, <2>1, <2>2, SameGraph
<1>10. CASE Unload \/ UNCHANGED vars
  <2>1. /\ {loaded', subscribed', pending', data'} \subseteq BOOLEAN /\ sent' \in Want
        /\ UNCHANGED cycles
    BY <1>1, <1>10 DEF Unload, vars, lives
  <2> QED
    BY <1>2, <2>1, SameGraph
<1> QED
  BY <1>5, <1>6, <1>7, <1>8, <1>9, <1>10, StepKeepsGraph DEF Next

\* What the two parts of the invariant say of a cycle's context.
LEMMA ContextHeld ==
    ASSUME CycleInv, GraphInv
    PROVE  GraphContained
PROOF
<1>1. WellFormed
  BY DEF CycleInv
<1>2. OnlyDescendantsLost
  <2> SUFFICES ASSUME NEW p \in Procs, cycles[p].at = "dispatch"
               PROVE  \E broken \in Flaky : cycles[p].secondary
                          = Promised((cycles[p].primary \cap Readings) \cup Stored, broken)
    BY DEF OnlyDescendantsLost
  <2>1. PICK read \in Read : \E context \in Contexts[read] :
           cycles[p].primary = context.primary /\ cycles[p].secondary = context.secondary
    BY DEF GraphInv
  <2> PICK context \in Contexts[read] :
           cycles[p].primary = context.primary /\ cycles[p].secondary = context.secondary
    BY <2>1
  <2>2. /\ read \subseteq Readings /\ context.primary = read \cup Stored
        /\ \E broken \in Flaky : context.secondary = Promised(context.primary, broken)
    BY ContextFact
  <2>3. (cycles[p].primary \cap Readings) \cup Stored = context.primary
    BY <2>2
  <2> QED
    BY <2>2, <2>3
<1>3. \A x \in Gathered : x \subseteq Stored \cup Readings
  <2>1. \A x \in Read : x \subseteq Readings
    BY DEF Read, Contexts
  <2>2. \A x \in Read : \A c \in Contexts[x] : c.primary \subseteq Stored \cup Readings
    BY ContextFact
  <2> QED
    BY <2>1, <2>2 DEF Gathered
<1>4. \A x \in Computed : x \subseteq Produced
  BY ContextFact DEF Computed
<1>5. ASSUME NEW p \in Procs
      PROVE  /\ cycles[p].at \in Phases \cup {"idle"} /\ cycles[p].kind \in Kinds
             /\ cycles[p].age \in 0..MaxLag
             /\ cycles[p].primary \subseteq Stored \cup Readings
             /\ cycles[p].secondary \subseteq Produced
  <2>1. cycles[p] \in Cycle
    BY <1>1 DEF WellFormed
  <2> QED
    BY <1>3, <1>4, <2>1 DEF Cycle
<1>6. ASSUME NEW i \in DOMAIN jobs
      PROVE  jobs[i].of \in Procs \cup {"press"} /\ jobs[i].age \in 0..MaxLag /\ jobs[i].want \in Want
  <2>1. jobs[i] \in Job
    BY <1>1 DEF WellFormed
  <2> QED
    BY <2>1 DEF Job
<1>7. /\ loaded \in BOOLEAN /\ subscribed \in BOOLEAN /\ in_flight \in BOOLEAN
      /\ restored \in BOOLEAN /\ pending \in BOOLEAN /\ unheard \in BOOLEAN /\ data \in BOOLEAN
  BY <1>1 DEF WellFormed, GraphInv
<1>8. mode_override \in Modes \cup {NoMode} /\ served \in Never..MaxAge /\ sent \in Want
  BY <1>1 DEF WellFormed, GraphInv
<1>9. TypeOK
  BY <1>5, <1>6, <1>7, <1>8 DEF TypeOK
<1> QED
  BY <1>2, <1>9 DEF GraphContained

\* Whatever is missing and whatever raises, each cycle that reaches its dispatch holds
\* the outputs of all the nodes that no raising node and no absent reading lies upstream
\* of, and of no other: a failure costs no more than it must, in every graph of nodes and
\* with any number of cycles under way (_guarded steps, DagEngine.run).
THEOREM ContainedGraph == Spec => []GraphContained
PROOF
<1>1. Init => GraphInv
  <2> SUFFICES ASSUME Init PROVE GraphInv
    OBVIOUS
  <2>1. /\ {loaded, subscribed, pending, data} \subseteq BOOLEAN /\ sent = "nothing"
        /\ cycles = [p \in Procs |-> Idle] /\ Idle.at = "idle"
    BY DEF Init, Idle
  <2> QED
    BY <2>1 DEF GraphInv, Want
<1>2. CycleInv /\ GraphInv /\ [Next]_vars => GraphInv'
  BY NextKeepsGraph
<1>3. CycleInv /\ GraphInv => GraphContained
  BY ContextHeld
<1> QED
  BY <1>1, <1>2, <1>3, Invariant, PTL DEF Spec

-----------------------------------------------------------------------------
(* The planner: sums *)

\* A sum is the sum of one value less and the last one.
LEMMA SumIs ==
    ASSUME NEW n \in Nat, NEW f, \A i \in 1..n : f[i] \in Int
    PROVE  /\ SumTo(f, n) \in Int
           /\ n = 0 => SumTo(f, n) = 0
           /\ n # 0 => SumTo(f, n) = SumTo(f, n - 1) + f[n]
PROOF
<1> DEFINE term(k) == IF k \in 1..n THEN f[k] ELSE 0
           step == [p \in Nat \X Int |-> p[2] + term(p[1] + 1)]
           Body(m, s) == [i \in 0..m |-> IF i = 0 THEN 0 ELSE s[i - 1] + f[i]]
<1>1. \A k \in Nat : term(k) \in Int
  OBVIOUS
<1>2. step \in [Nat \X Int -> Int]
  BY <1>1
<1>3. PICK g \in [Nat -> Int] : Iterates(g, 0, step)
  <2>1. 0 \in Int
    OBVIOUS
  <2> HIDE DEF step
  <2> QED
    BY <1>2, <2>1, PrimitiveRecursion, Zenon
<1>4. g[0] = 0 /\ \A k \in 1..n : g[k] = g[k - 1] + f[k]
  <2>1. \A k \in Nat : g[k + 1] = step[<<k, g[k]>>]
    BY <1>3 DEF Iterates
  <2>2. \A k \in Nat : step[<<k, g[k]>>] = g[k] + term(k + 1)
    OBVIOUS
  <2>3. ASSUME NEW k \in 1..n PROVE g[k] = g[k - 1] + f[k]
    <3>1. k - 1 \in Nat /\ (k - 1) + 1 = k
      OBVIOUS
    <3>2. g[k] = g[k - 1] + term(k)
      <4> HIDE DEF term, step
      <4> QED
        BY <2>1, <2>2, <3>1
    <3> QED
      BY <3>2
  <2> QED
    BY <1>3, <2>3 DEF Iterates
<1>5. ASSUME NEW m \in 0..n PROVE SumTo(f, m) = g[m]
  <2> DEFINE r == [i \in 0..m |-> g[i]]
  <2>1. r = Body(m, r)
    <3>1. ASSUME NEW i \in 0..m, i # 0 PROVE r[i] = r[i - 1] + f[i]
      <4>1. i \in 1..n /\ i - 1 \in 0..m
        BY <3>1
      <4>2. r[i] = g[i] /\ r[i - 1] = g[i - 1]
        BY <4>1
      <4> QED
        BY <1>4, <4>1, <4>2
    <3>2. \A i \in 0..m : r[i] = IF i = 0 THEN 0 ELSE r[i - 1] + f[i]
      BY <1>4, <3>1
    <3> QED
      BY <3>2
  <2> DEFINE c == CHOOSE s : s = Body(m, s)
  <2>2. c = Body(m, c)
    <3> HIDE DEF r, Body
    <3> QED
      BY <2>1
  <2>3. \A i \in 0..m : c[i] = g[i]
    <3> HIDE DEF c
    <3>1. c[0] = 0 /\ \A i \in 1..m : c[i] = c[i - 1] + f[i]
      BY <2>2
    <3>2. \A i \in 1..m : c[i - 1] = g[i - 1] => c[i] = g[i]
      BY <1>4, <3>1
    <3>3. c[0] = g[0] /\ m \in Nat
      BY <1>4, <3>1
    <3> DEFINE T == {i \in 0..m : c[i] # g[i]}
    <3>4. \A i \in 1..m : i \in T => i - 1 \in T
      BY <3>2
    <3>5. 0 \notin T /\ T \in SUBSET (0..m)
      BY <3>3
    <3>6. T = {}
      <4> HIDE DEF T
      <4> QED
        BY <3>3, <3>4, <3>5, NoFirst
    <3> QED
      BY <3>6
  <2>4. SumTo(f, m) = c[m]
    BY DEF SumTo
  <2> QED
    BY <2>3, <2>4
<1>6. n # 0 => n - 1 \in 0..n /\ n \in 1..n
  OBVIOUS
<1> QED
  BY <1>4, <1>5, <1>6

\* Sums of the same values are the same.
LEMMA SumSame ==
    ASSUME NEW n \in Nat, NEW f, NEW g, \A i \in 1..n : f[i] \in Int /\ f[i] = g[i]
    PROVE  SumTo(f, n) = SumTo(g, n)
PROOF
<1> DEFINE a == [i \in 0..n |-> SumTo(f, i)]
           b == [i \in 0..n |-> SumTo(g, i)]
<1>1. ASSUME NEW i \in 1..n PROVE a[i - 1] = b[i - 1] => a[i] = b[i]
  <2>1. i \in Nat /\ i # 0 /\ i - 1 \in 0..n /\ i \in 0..n /\ \A k \in 1..i : f[k] \in Int /\ g[k] \in Int
    OBVIOUS
  <2>2. SumTo(f, i) = SumTo(f, i - 1) + f[i] /\ SumTo(g, i) = SumTo(g, i - 1) + g[i]
    BY <2>1, SumIs
  <2> QED
    BY <2>1, <2>2
<1>2. a[0] = b[0]
  <2>1. SumTo(f, 0) = 0 /\ SumTo(g, 0) = 0
    BY SumIs
  <2> QED
    BY <2>1
<1>3. \A i \in 0..n : a[i] = b[i]
  <2> DEFINE T == {i \in 0..n : a[i] # b[i]}
  <2>1. \A i \in 1..n : i \in T => i - 1 \in T
    <3> HIDE DEF a, b
    <3> QED
      BY <1>1
  <2>2. 0 \notin T /\ T \in SUBSET (0..n)
    BY <1>2
  <2>3. T = {}
    <3> HIDE DEF T
    <3> QED
      BY <2>1, <2>2, NoFirst
  <2> QED
    BY <2>3
<1> QED
  BY <1>3

-----------------------------------------------------------------------------
\* Counting and picking.

\* What is picked from a sequence is in it.
LEMMA PickedIs ==
    ASSUME NEW S, NEW s \in Seq(S), NEW at \in SUBSET (DOMAIN s)
    PROVE  /\ Picked(s, at) \in Seq(S)
           /\ Len(Picked(s, at)) = Cardinality(at) /\ Cardinality(at) \in 0..Len(s)
           /\ \A i \in DOMAIN Picked(s, at) : \E k \in at : Picked(s, at)[i] = s[k]
           /\ at # {} => Picked(s, at) # <<>>
PROOF
<1>1. Len(s) \in Nat /\ DOMAIN s = 1..Len(s)
  OBVIOUS
<1>2. IsFiniteSet(at) /\ Cardinality(at) <= Len(s)
  <2>1. IsFiniteSet(1..Len(s)) /\ Cardinality(1..Len(s)) = Len(s)
    <3> DEFINE n == Len(s)
    <3> HIDE DEF n
    <3>1. n \in Nat
      BY <1>1 DEF n
    <3>2. IsFiniteSet(1..n) /\ Cardinality(1..n) = IF 1 > n THEN 0 ELSE n - 1 + 1
      BY <3>1, FS_Interval
    <3> QED
      BY <3>1, <3>2 DEF n
  <2> QED
    BY <1>1, <2>1, FS_Subset
<1>3. Cardinality(at) \in Nat
  BY <1>2, FS_CardinalityType
<1> DEFINE kth(i) == CHOOSE k \in at : Cardinality({x \in at : x <= k}) = i
<1>4. ASSUME NEW i \in 1..Cardinality(at) PROVE kth(i) \in at
  <2>1. at \in SUBSET Nat
    BY <1>1
  <2>2. \E k \in at : Cardinality({x \in at : x <= k}) = i
    BY <1>2, <2>1, RankExists
  <2> QED
    BY <2>2
<1> HIDE DEF kth
<1>5. Picked(s, at) = [i \in 1..Cardinality(at) |-> s[kth(i)]]
  BY DEF Picked, kth
<1>6. \A i \in 1..Cardinality(at) : s[kth(i)] \in S
  BY <1>1, <1>4
<1>7. Picked(s, at) \in Seq(S) /\ Len(Picked(s, at)) = Cardinality(at)
  BY <1>3, <1>5, <1>6
<1>8. at # {} => Cardinality(at) # 0
  BY <1>2, FS_EmptySet
<1>9. \A i \in DOMAIN Picked(s, at) : \E k \in at : Picked(s, at)[i] = s[k]
  BY <1>4, <1>5
<1> QED
  BY <1>2, <1>3, <1>7, <1>8, <1>9

\* A finite function on whole numbers has a value of each rank, and a median.
LEMMA RankedIs ==
    ASSUME NEW f, IsFiniteSet(DOMAIN f), \A i \in DOMAIN f : f[i] \in Int,
           NEW r \in 1..Cardinality(DOMAIN f)
    PROVE  Ranked(f, r) \in Int
PROOF
<1> DEFINE D == DOMAIN f
           V == {f[i] : i \in D}
           W == {v \in V : Cardinality({i \in D : f[i] <= v}) >= r}
<1>1. V \in SUBSET Int /\ IsFiniteSet(V) /\ V # {}
  <2>1. IsFiniteSet(V)
    BY FiniteImage
  <2>2. D # {}
    BY FS_EmptySet
  <2> QED
    BY <2>1, <2>2
<1>2. Max(V) \in V /\ \A x \in V : x <= Max(V)
  <2> HIDE DEF V
  <2> QED
    BY <1>1, Largest
<1>3. {i \in D : f[i] <= Max(V)} = D
  BY <1>2
<1>4. Cardinality(D) \in Nat /\ Cardinality(D) >= r
  BY FS_CardinalityType
<1>5. Max(V) \in W
  BY <1>2, <1>3, <1>4
<1>6. W \in SUBSET Int /\ IsFiniteSet(W) /\ W # {}
  <2>1. W \in SUBSET V
    OBVIOUS
  <2>2. IsFiniteSet(W)
    BY <1>1, <2>1, FS_Subset
  <2> QED
    BY <1>1, <1>5, <2>1, <2>2
<1>7. Ranked(f, r) = Min(W)
  BY DEF Ranked, Range
<1>8. Min(W) \in W
  <2> HIDE DEF W
  <2> QED
    BY <1>6, LeastOf
<1> QED
  BY <1>6, <1>7, <1>8

\* Twice a median of whole numbers is a whole number.
LEMMA MedianIs ==
    ASSUME NEW f, IsFiniteSet(DOMAIN f), DOMAIN f # {}, \A i \in DOMAIN f : f[i] \in Int
    PROVE  MedianTwice(f) \in Int
PROOF
<1> DEFINE n == Cardinality(DOMAIN f)
<1>1. n \in Nat /\ n # 0
  BY FS_CardinalityType, FS_EmptySet
<1> HIDE DEF n
<1>2. (n + 1) \div 2 \in 1..n /\ (n + 2) \div 2 \in 1..n
  BY <1>1
<1>3. Ranked(f, (n + 1) \div 2) \in Int /\ Ranked(f, (n + 2) \div 2) \in Int
  BY <1>2, RankedIs DEF n
<1> QED
  BY <1>3 DEF MedianTwice, n

-----------------------------------------------------------------------------
\* One slot.

\* The smaller, the larger and the excess of two quantities are quantities.
LEMMA Parts ==
    ASSUME NEW a \in Int, NEW b \in Int
    PROVE  /\ Smaller(a, b) \in {a, b} /\ Smaller(a, b) <= a /\ Smaller(a, b) <= b
           /\ Larger(a, b) \in {a, b} /\ Larger(a, b) >= a /\ Larger(a, b) >= b
           /\ Over(a, b) \in Nat
BY DEF Smaller, Larger, Over

\* What is exported is a part of the surplus.
LEMMA ExportedIs ==
    ASSUME NEW surplus \in Nat, NEW cap \in Nat \cup {Uncapped}
    PROVE  /\ Exported(surplus, cap) \in Nat /\ Exported(surplus, cap) <= surplus
           /\ cap # Uncapped => Exported(surplus, cap) <= cap
BY DEF Exported, Smaller, Uncapped

\* The flows of each family of modes are quantities.
LEMMA SelfUseIs ==
    ASSUME NEW solar \in Nat, NEW load \in Nat, NEW room \in Nat, NEW power \in Nat, NEW give \in Nat,
           NEW cap \in Nat \cup {Uncapped}
    PROVE  SelfUse(solar, load, room, power, give, cap) \in Flows
PROOF
<1> DEFINE deficit == Over(load, solar)
           surplus == Over(solar, load)
           given   == Smaller(deficit, give)
           stored  == Smaller(surplus, Smaller(room, power))
           out     == Exported(surplus - stored, cap)
<1>1. deficit \in Nat /\ surplus \in Nat
  BY Parts
<1> HIDE DEF deficit, surplus
<1>2. given \in Nat /\ deficit - given \in Nat
  BY <1>1 DEF Smaller
<1>3. stored \in Nat /\ surplus - stored \in Nat
  BY <1>1 DEF Smaller
<1> HIDE DEF given, stored
<1>4. out \in Nat /\ surplus - stored - out \in Nat
  BY <1>1, <1>3 DEF Exported, Smaller, Uncapped
<1> HIDE DEF out
<1>5. SelfUse(solar, load, room, power, give, cap)
        = [grid_in |-> deficit - given, grid_out |-> out, charge |-> stored,
           discharge |-> given, curtailed |-> surplus - stored - out]
  BY DEF SelfUse, deficit, surplus, given, stored, out
<1> QED
  BY <1>2, <1>3, <1>4, <1>5 DEF Flows

LEMMA GridChargeIs ==
    ASSUME NEW solar \in Nat, NEW load \in Nat, NEW room \in Nat, NEW power \in Nat
    PROVE  GridCharge(solar, load, room, power) \in Flows
PROOF
<1> DEFINE stored  == Smaller(room, power)
           surplus == Over(solar, load)
           sunny   == Smaller(surplus, stored)
<1>1. stored \in Nat /\ surplus \in Nat /\ Over(load, solar) \in Nat
  BY DEF Smaller, Over
<1> HIDE DEF stored, surplus
<1>2. sunny \in Nat /\ surplus - sunny \in Nat /\ Over(load, solar) + stored - sunny \in Nat
  BY <1>1 DEF Smaller
<1> HIDE DEF sunny
<1>3. GridCharge(solar, load, room, power)
        = [grid_in |-> Over(load, solar) + stored - sunny, grid_out |-> 0, charge |-> stored,
           discharge |-> 0, curtailed |-> surplus - sunny]
  BY DEF GridCharge, stored, surplus, sunny
<1> QED
  BY <1>1, <1>2, <1>3 DEF Flows

LEMMA DischargeIs ==
    ASSUME NEW solar \in Nat, NEW load \in Nat, NEW give \in Nat, NEW cap \in Nat \cup {Uncapped}
    PROVE  Discharge(solar, load, give, cap) \in Flows
PROOF
<1> DEFINE deficit == Over(load, solar)
           surplus == Over(solar, load)
           sunny   == Exported(surplus, cap)
           given   == Smaller(deficit, give)
           sold    == IF cap = Uncapped THEN give - given ELSE Smaller(give - given, cap - sunny)
<1>1. deficit \in Nat /\ surplus \in Nat
  BY Parts
<1> HIDE DEF deficit, surplus
<1>2. sunny \in Nat /\ surplus - sunny \in Nat /\ (cap # Uncapped => cap - sunny \in Nat)
  BY <1>1 DEF Exported, Smaller, Uncapped
<1>3. given \in Nat /\ deficit - given \in Nat /\ give - given \in Nat
  BY <1>1 DEF Smaller
<1> HIDE DEF sunny, given
<1>4. sold \in Nat
  BY <1>2, <1>3 DEF Smaller
<1> HIDE DEF sold
<1>5. Discharge(solar, load, give, cap)
        = [grid_in |-> deficit - given, grid_out |-> sunny + sold, charge |-> 0,
           discharge |-> given + sold, curtailed |-> surplus - sunny]
  BY DEF Discharge, deficit, surplus, sunny, given, sold
<1> QED
  BY <1>2, <1>3, <1>4, <1>5 DEF Flows

LEMMA FeedInIs ==
    ASSUME NEW solar \in Nat, NEW load \in Nat, NEW room \in Nat, NEW power \in Nat, NEW give \in Nat,
           NEW cap \in Nat \cup {Uncapped}
    PROVE  FeedIn(solar, load, room, power, give, cap) \in Flows
PROOF
<1> DEFINE deficit == Over(load, solar)
           surplus == Over(solar, load)
           given   == Smaller(deficit, give)
           out     == Exported(surplus, cap)
           stored  == Smaller(surplus - out, Smaller(room, power))
<1>1. deficit \in Nat /\ surplus \in Nat
  BY Parts
<1> HIDE DEF deficit, surplus
<1>2. given \in Nat /\ deficit - given \in Nat
  BY <1>1 DEF Smaller
<1>3. out \in Nat /\ surplus - out \in Nat
  BY <1>1 DEF Exported, Smaller, Uncapped
<1> HIDE DEF given, out
<1>4. stored \in Nat /\ surplus - out - stored \in Nat
  BY <1>1, <1>3 DEF Smaller
<1> HIDE DEF stored
<1>5. FeedIn(solar, load, room, power, give, cap)
        = [grid_in |-> deficit - given, grid_out |-> out, charge |-> stored,
           discharge |-> given, curtailed |-> surplus - out - stored]
  BY DEF FeedIn, deficit, surplus, given, out, stored
<1> QED
  BY <1>2, <1>3, <1>4, <1>5 DEF Flows

\* What a slot does with the battery, the house and the grid adds up, and leaves the
\* charge within the maximum and not below the lesser of the minimum and what there was.
LEMMA SlotIs ==
    ASSUME NEW site \in Site, site.min <= site.max, NEW mode, NEW at \in Nat, NEW solar \in Nat,
           NEW load \in Nat, NEW buy \in Int, NEW sell \in Int, NEW wear \in Nat,
           NEW o, o = SimulateSlot(site, mode, at, solar, load, buy, sell, wear)
    PROVE  /\ o.flows \in Flows /\ o.reward \in Int /\ Throughput(o.flows) \in Nat
           /\ o.soc_out \in Nat /\ o.soc_out <= site.max
           /\ o.soc_out >= site.min \/ o.soc_out >= at
PROOF
<1> DEFINE room  == Over(site.max, at)
           give  == Deliverable(site, at)
           flows == FlowsOf(site, mode, at, solar, load)
<1>1. /\ site.min \in Nat /\ site.max \in Nat /\ site.charge \in Nat /\ site.discharge \in Nat
      /\ site.export \in Nat \cup {Uncapped} /\ site.to_grid \in Nat \cup {Uncapped}
  BY DEF Site
<1>2. Loss \in Nat \ {0}
  BY LossAssumption
<1>3. room \in Nat
  BY <1>1 DEF Over
<1>4. give \in Nat
  <2>1. Over(at, site.min) \in Nat
    BY <1>1 DEF Over
  <2>2. Over(at, site.min) \div Loss \in Nat
    BY <1>2, <2>1, Divided
  <2> QED
    BY <1>1, <2>2 DEF Deliverable, Smaller
<1>5. ForGrid(site, at) \in Nat
  BY <1>1, <1>4 DEF ForGrid, Smaller, Uncapped
<1> HIDE DEF room, give
<1>6. flows \in Flows
  <2>1. 0 \in Nat \cup {Uncapped} /\ 0 \in Nat
    OBVIOUS
  <2>2. mode = "StandBy" => flows \in Flows
    <3>1. SelfUse(solar, load, room, site.charge, 0, 0) \in Flows
      BY <1>1, <1>3, <2>1, SelfUseIs
    <3> QED
      BY <3>1 DEF FlowsOf, room
  <2>3. mode = "SelfUse" => flows \in Flows
    <3>1. SelfUse(solar, load, room, site.charge, give, site.export) \in Flows
      BY <1>1, <1>3, <1>4, SelfUseIs
    <3> QED
      BY <3>1 DEF FlowsOf, room, give
  <2>4. mode = "NoExport" => flows \in Flows
    <3>1. SelfUse(solar, load, room, site.charge, give, 0) \in Flows
      BY <1>1, <1>3, <1>4, <2>1, SelfUseIs
    <3> QED
      BY <3>1 DEF FlowsOf, room, give
  <2>5. mode = "GridCharge" => flows \in Flows
    <3>1. GridCharge(solar, load, room, site.charge) \in Flows
      BY <1>1, <1>3, GridChargeIs
    <3> QED
      BY <3>1 DEF FlowsOf, room
  <2>6. mode = "Discharge" => flows \in Flows
    <3>1. Discharge(solar, load, ForGrid(site, at), site.export) \in Flows
      BY <1>1, <1>5, DischargeIs
    <3> QED
      BY <3>1 DEF FlowsOf
  <2>7. mode = "FeedIn" => flows \in Flows
    <3>1. FeedIn(solar, load, room, site.charge, give, site.export) \in Flows
      BY <1>1, <1>3, <1>4, FeedInIs
    <3> QED
      BY <3>1 DEF FlowsOf, room, give
  <2>8. mode \notin Mode => flows \in Flows
    <3>1. Idling(solar, load) \in Flows
      <4>1. Over(load, solar) \in Nat /\ Over(solar, load) \in Nat
        BY Parts
      <4> QED
        BY <4>1 DEF Idling, Flows
    <3> QED
      BY <3>1 DEF FlowsOf, Mode
  <2> HIDE DEF flows
  <2> QED
    BY <2>2, <2>3, <2>4, <2>5, <2>6, <2>7, <2>8 DEF Mode
<1> HIDE DEF flows
<1>7. /\ flows.charge \in Nat /\ flows.discharge \in Nat /\ flows.grid_in \in Nat /\ flows.grid_out \in Nat
  BY <1>6 DEF Flows
<1>8. Throughput(flows) \in Nat /\ NewSoc(at, flows) \in Int
  <2>1. Loss * flows.discharge \in Nat
    BY <1>2, <1>7
  <2> QED
    BY <1>7, <2>1 DEF Throughput, NewSoc
<1>9. Reward(flows, buy, sell, wear) \in Int
  <2>1. flows.grid_out * sell \in Int /\ flows.grid_in * buy \in Int /\ Throughput(flows) * wear \in Int
    BY <1>7, <1>8
  <2> QED
    BY <2>1 DEF Reward
<1>10. /\ SocOut(site, at, flows) \in Nat /\ SocOut(site, at, flows) <= site.max
       /\ SocOut(site, at, flows) >= site.min \/ SocOut(site, at, flows) >= at
  BY <1>1, <1>8 DEF SocOut, Clamp, Smaller
<1>11. o.flows = flows /\ o.reward = Reward(flows, buy, sell, wear) /\ o.soc_out = SocOut(site, at, flows)
  BY DEF SimulateSlot, flows
<1> QED
  BY <1>6, <1>8, <1>9, <1>10, <1>11

-----------------------------------------------------------------------------
\* What the planner is given.

\* Sums of quantities are quantities.
LEMMA SumNat ==
    ASSUME NEW n \in Nat, NEW f, \A i \in 1..n : f[i] \in Nat
    PROVE  SumTo(f, n) \in Nat
PROOF
<1> DEFINE T == {i \in Nat : i <= n /\ SumTo(f, i) \notin Nat}
<1> SUFFICES ASSUME T # {} PROVE FALSE
  OBVIOUS
<1>1. PICK x \in T : \A y \in T : x <= y
  <2>1. T \in SUBSET Nat
    OBVIOUS
  <2> HIDE DEF T
  <2> QED
    BY <2>1, LeastNat
<1>2. x \in Nat /\ x <= n /\ SumTo(f, x) \notin Nat
  OBVIOUS
<1>3. \A i \in 1..x : f[i] \in Int
  BY <1>2
<1>4. x # 0 /\ SumTo(f, x) = SumTo(f, x - 1) + f[x]
  <2>1. x = 0 => SumTo(f, x) \in Nat
    BY <1>2, <1>3, SumIs
  <2> QED
    BY <1>2, <1>3, <2>1, SumIs
<1>5. x - 1 \in Nat /\ x - 1 <= n /\ x - 1 \notin T
  BY <1>1, <1>2, <1>4
<1>6. SumTo(f, x - 1) \in Nat /\ f[x] \in Nat
  BY <1>2, <1>4, <1>5
<1> QED
  BY <1>2, <1>4, <1>6

\* An hour has an hour of the day and a day.
LEMMA HourOfDay ==
    ASSUME NEW h \in Nat
    PROVE  h % Hours \in 0..Hours - 1 /\ h \div Hours \in Nat
PROOF
<1>1. Hours \in Nat \ {0}
  BY InputAssumption
<1> QED
  BY <1>1

\* A forecast: the energy of each hour of two days, and the totals of some days.
Forecast(gen) ==
    /\ gen.hour \in [0..2 * Hours - 1 -> Nat]
    /\ \A d \in DOMAIN gen.totals : gen.totals[d] \in Nat

\* The sun of any hour, and the total of its day, are whole numbers.
LEMMA SunIs ==
    ASSUME NEW gen, Forecast(gen), NEW h \in Nat
    PROVE  SunAt(gen, h) \in Int /\ DayTotal(gen, h \div Hours) \in Nat
PROOF
<1> DEFINE day == ShapeDay(gen)
           part == [i \in 1..Hours |-> gen.hour[day * Hours + i - 1]]
           whole == SumTo(part, Hours)
           share == gen.hour[day * Hours + (h % Hours)]
           total == DayTotal(gen, h \div Hours)
<1>1. Hours \in Nat \ {0} /\ day * Hours \in {0, Hours}
  <2>1. day = 0 \/ day = 1
    BY DEF ShapeDay
  <2> QED
    BY <2>1, InputAssumption
<1>2. total \in Nat
  BY DEF DayTotal, Forecast
<1> HIDE DEF day
<1>3. \A i \in 1..Hours : part[i] \in Nat
  <2> SUFFICES ASSUME NEW i \in 1..Hours PROVE part[i] \in Nat
    OBVIOUS
  <2>1. day * Hours + i - 1 \in 0..2 * Hours - 1
    BY <1>1
  <2> QED
    BY <2>1 DEF Forecast
<1>4. share \in Nat
  <2> DEFINE at == h % Hours
  <2>2. at \in 0..Hours - 1
    BY HourOfDay
  <2> HIDE DEF at
  <2>3. day * Hours + at \in 0..2 * Hours - 1
    BY <1>1, <2>2
  <2>1. day * Hours + (h % Hours) \in 0..2 * Hours - 1
    BY <2>3 DEF at
  <2> QED
    BY <2>1 DEF Forecast
<1> HIDE DEF part
<1>5. whole \in Nat
  BY <1>1, <1>3, SumNat
<1> HIDE DEF whole, share, total
<1>6. whole # 0 => (share * total) \div whole \in Int
  <2>1. share * total \in Int
    BY <1>2, <1>4
  <2> QED
    BY <1>5, <2>1, Divided
<1>7. SunAt(gen, h) = IF whole = 0 THEN 0 ELSE (share * total) \div whole
  BY DEF SunAt, day, part, whole, share, total
<1> QED
  BY <1>2, <1>6, <1>7 DEF total

\* The load of any hour is known.
LEMMA LoadIs ==
    ASSUME NEW load \in [0..Hours - 1 -> Nat], NEW h \in Nat
    PROVE  LoadAt(load, h) \in Nat
BY HourOfDay DEF LoadAt

\* The reserve for the hours after the horizon is a quantity.
LEMMA LoadReserveIs ==
    ASSUME NEW gen, Forecast(gen), NEW load \in [0..Hours - 1 -> Nat], NEW after \in Nat,
           NEW days \in Nat, NEW extra \in Nat
    PROVE  LoadReserve(gen, load, after, days, extra) \in Nat
PROOF
<1> DEFINE uncovered(h) == IF DayTotal(gen, h \div Hours) > 0
                           THEN Over(LoadAt(load, h), SunAt(gen, h)) ELSE 0
           n == days * Hours
           part == [i \in 1..n |-> uncovered(after + i - 1)]
<1>1. n \in Nat
  BY InputAssumption
<1> HIDE DEF n
<1>2. \A h \in Nat : uncovered(h) \in Nat
  <2> SUFFICES ASSUME NEW h \in Nat PROVE uncovered(h) \in Nat
    OBVIOUS
  <2>1. LoadAt(load, h) \in Nat /\ SunAt(gen, h) \in Int
    BY LoadIs, SunIs
  <2> QED
    BY <2>1, Parts
<1> HIDE DEF uncovered
<1>3. \A i \in 1..n : part[i] \in Nat
  <2> SUFFICES ASSUME NEW i \in 1..n PROVE part[i] \in Nat
    OBVIOUS
  <2>1. after + i - 1 \in Nat
    BY <1>1
  <2> QED
    BY <1>2, <2>1
<1> HIDE DEF part
<1>4. SumTo(part, n) \in Nat
  BY <1>1, <1>3, SumNat
<1>5. LoadReserve(gen, load, after, days, extra) = Loss * (SumTo(part, n) + extra)
  BY DEF LoadReserve, part, n, uncovered
<1> QED
  BY <1>4, <1>5, LossAssumption

\* A clamped value lies within its bounds.
LEMMA ClampIs ==
    ASSUME NEW x \in Int, NEW lo \in Int, NEW hi \in Int
    PROVE  /\ Clamp(x, lo, hi) \in Int
           /\ lo <= hi => Clamp(x, lo, hi) \in lo..hi
BY DEF Clamp

\* The walk under the sun alone ends with a charge, or does not begin.
LEMMA SunOnlyPeakIs ==
    ASSUME NEW gen, Forecast(gen), NEW load \in [0..Hours - 1 -> Nat], NEW site \in Site,
           NEW at \in Nat, NEW days \in Nat
    PROVE  SunOnlyPeak(gen, load, site, at, Now, days) \in Int
PROOF
<1> DEFINE stop == {i \in 0..days * Hours - 1 : DayTotal(gen, (Now + i) \div Hours) = 0}
           n == IF stop = {} THEN days * Hours ELSE Min(stop)
           net(i) == SunAt(gen, Now + i) - LoadAt(load, Now + i)
           stored(i) == IF net(i) >= 0 THEN net(i) \div Leg ELSE net(i) * Leg
           Body(s) == [i \in 0..n |-> IF i = 0 THEN Clamp(at, site.min, site.max)
                                      ELSE Clamp(s[i - 1] + stored(i - 1), site.min, site.max)]
           after == CHOOSE s : s = Body(s)
<1>1. site.min \in Int /\ site.max \in Int
  BY DEF Site
<1>2. n \in Nat
  <2>1. days * Hours \in Nat
    BY InputAssumption
  <2>2. stop \in SUBSET Int /\ stop \in SUBSET Nat /\ IsFiniteSet(stop)
    <3>1. stop \in SUBSET (0..days * Hours - 1)
      OBVIOUS
    <3>2. IsFiniteSet(0..days * Hours - 1)
      BY <2>1, FS_Interval
    <3> HIDE DEF stop
    <3>3. IsFiniteSet(stop)
      BY <3>1, <3>2, FS_Subset
    <3>4. stop \in SUBSET Nat
      BY <3>1
    <3> QED
      BY <3>3, <3>4
  <2>3. stop # {} => Min(stop) \in stop
    <3> HIDE DEF stop
    <3> QED
      BY <2>2, LeastOf
  <2> QED
    BY <2>1, <2>2, <2>3
<1> HIDE DEF stop, n
<1>3. \A i \in Nat : stored(i) \in Int
  <2> SUFFICES ASSUME NEW i \in Nat PROVE stored(i) \in Int
    OBVIOUS
  <2>1. Now + i \in Nat
    BY PlannerAssumption
  <2>2. net(i) \in Int
    <3>1. SunAt(gen, Now + i) \in Int
      BY <2>1, SunIs
    <3>2. LoadAt(load, Now + i) \in Nat
      BY <2>1, LoadIs
    <3> QED
      BY <3>1, <3>2
  <2>3. Leg \in Nat \ {0}
    BY InputAssumption, LossAssumption
  <2> HIDE DEF net
  <2>4. net(i) \div Leg \in Int /\ net(i) * Leg \in Int
    BY <2>2, <2>3, Divided
  <2> QED
    BY <2>4
<1> HIDE DEF stored
<1> DEFINE step == [p \in Nat \X Int |-> Clamp(p[2] + stored(p[1]), site.min, site.max)]
           base == Clamp(at, site.min, site.max)
<1>4. step \in [Nat \X Int -> Int] /\ base \in Int
  <2>1. base \in Int
    BY <1>1 DEF Clamp
  <2>2. ASSUME NEW p \in Nat \X Int
        PROVE  Clamp(p[2] + stored(p[1]), site.min, site.max) \in Int
    <3>1. p[2] + stored(p[1]) \in Int
      BY <1>3
    <3> QED
      BY <1>1, <3>1, ClampIs
  <2> QED
    BY <2>1, <2>2
<1>5. PICK g \in [Nat -> Int] : Iterates(g, base, step)
  <2> HIDE DEF step, base
  <2> QED
    BY <1>4, PrimitiveRecursion
<1>6. g[0] = base /\ \A k \in 1..n : g[k] = Clamp(g[k - 1] + stored(k - 1), site.min, site.max)
  <2>1. \A k \in Nat : g[k + 1] = step[<<k, g[k]>>]
    BY <1>5 DEF Iterates
  <2>2. \A k \in Nat : step[<<k, g[k]>>] = Clamp(g[k] + stored(k), site.min, site.max)
    OBVIOUS
  <2>3. ASSUME NEW k \in 1..n
        PROVE  g[k] = Clamp(g[k - 1] + stored(k - 1), site.min, site.max)
    <3>1. k - 1 \in Nat /\ (k - 1) + 1 = k
      BY <1>2
    <3> HIDE DEF step
    <3> QED
      BY <2>1, <2>2, <3>1
  <2> QED
    BY <1>5, <2>3 DEF Iterates
<1>7. after = Body(after)
  <2> DEFINE r == [i \in 0..n |-> g[i]]
  <2>1. \A i \in 0..n : i # 0 => i \in 1..n /\ i - 1 \in 0..n
    BY <1>2
  <2>2. \A i \in 0..n : i # 0 => r[i] = Clamp(r[i - 1] + stored(i - 1), site.min, site.max)
    BY <1>6, <2>1
  <2>3. r[0] = base
    BY <1>2, <1>6
  <2>4. r = Body(r)
    BY <2>2, <2>3
  <2> HIDE DEF r, Body
  <2> QED
    BY <2>4
<1>8. \A i \in 0..n : after[i] \in Int
  <2> HIDE DEF after
  <2>1. after[0] = base /\ \A i \in 1..n : after[i] = Clamp(after[i - 1] + stored(i - 1), site.min, site.max)
    <3> DEFINE c == after
    <3>1. c = Body(c)
      BY <1>7
    <3>2. \A i \in 0..n : c[i] = IF i = 0 THEN base ELSE Clamp(c[i - 1] + stored(i - 1), site.min, site.max)
      <4> HIDE DEF c, stored
      <4> DEFINE V(i) == IF i = 0 THEN base ELSE Clamp(c[i - 1] + stored(i - 1), site.min, site.max)
      <4>1. Body(c) = [i \in 0..n |-> V(i)]
        OBVIOUS
      <4>2. \A i \in 0..n : Body(c)[i] = V(i)
        <5> HIDE DEF V, Body
        <5> QED
          BY <4>1, Zenon
      <4> HIDE DEF Body, base
      <4> QED
        BY <3>1, <4>2, Zenon
    <3>3. 0 \in 0..n /\ \A i \in 1..n : i \in 0..n /\ i # 0
      BY <1>2
    <3> HIDE DEF base, Body, stored, c
    <3>4. c[0] = base /\ \A i \in 1..n : c[i] = Clamp(c[i - 1] + stored(i - 1), site.min, site.max)
      BY <3>2, <3>3
    <3> QED
      BY <3>4 DEF c
  <2> HIDE DEF base, Body
  <2>2. \A i \in 1..n : after[i - 1] = g[i - 1] => after[i] = g[i]
    <3> SUFFICES ASSUME NEW i \in 1..n, after[i - 1] = g[i - 1] PROVE after[i] = g[i]
      OBVIOUS
    <3>1. after[i] = Clamp(after[i - 1] + stored(i - 1), site.min, site.max)
      BY <2>1
    <3>2. g[i] = Clamp(g[i - 1] + stored(i - 1), site.min, site.max)
      BY <1>6
    <3> HIDE DEF stored
    <3> QED
      BY <3>1, <3>2
  <2>3. after[0] = g[0]
    BY <1>6, <2>1
  <2>4. \A i \in 0..n : after[i] = g[i]
    <3> DEFINE T == {i \in 0..n : after[i] # g[i]}
    <3>1. \A i \in 1..n : i \in T => i - 1 \in T
      BY <1>2, <2>2
    <3>2. 0 \notin T /\ T \in SUBSET (0..n)
      BY <2>3
    <3>3. T = {}
      <4> HIDE DEF T
      <4> QED
        BY <1>2, <3>1, <3>2, NoFirst
    <3> QED
      BY <3>3
  <2> QED
    BY <1>2, <2>4
<1> DEFINE peaks == {after[i] : i \in 0..n}
<1>9. SunOnlyPeak(gen, load, site, at, Now, days) = IF n = 0 THEN Uncapped ELSE Max(peaks)
  BY DEF SunOnlyPeak, n, stop, stored
<1> HIDE DEF after
<1>10. peaks \in SUBSET Int /\ peaks # {} /\ IsFiniteSet(peaks)
  <2>1. IsFiniteSet(0..n)
    BY <1>2, FS_Interval
  <2>2. IsFiniteSet(peaks)
    BY <2>1, FiniteImage
  <2> QED
    BY <1>2, <1>8, <2>2
<1>11. Max(peaks) \in Int
  <2> HIDE DEF peaks
  <2> QED
    BY <1>10, Largest
<1> QED
  BY <1>9, <1>11 DEF Uncapped

-----------------------------------------------------------------------------
\* What charge is worth at the end.

Priced == [hour : 0..2 * Hours - 1, priced : BOOLEAN, forecast : BOOLEAN, buy : Int, sell : Int]

\* The flat value of charge is a price, whatever the sell prices are.
LEMMA FlatIs ==
    ASSUME NEW series \in Seq(Priced), NEW score \in Int
    PROVE  FlatValue(series, score) \in Int
PROOF
<1> DEFINE f == Sells(series)
           m == MedianTwice(f)
<1>1. DOMAIN series = 1..Len(series) /\ Len(series) \in Nat /\ \A k \in DOMAIN series : series[k] \in Priced
  OBVIOUS
<1>2. DOMAIN f \in SUBSET (DOMAIN series) /\ \A i \in DOMAIN f : f[i] \in Int
  BY <1>1 DEF Sells, Priced
<1>3. IsFiniteSet(DOMAIN f)
  <2>1. IsFiniteSet(1..Len(series))
    BY <1>1, FS_Interval
  <2> HIDE DEF f
  <2> QED
    BY <1>1, <1>2, <2>1, FS_Subset
<1> HIDE DEF f
<1>4. DOMAIN f # {} => m \in Int
  BY <1>2, <1>3, MedianIs
<1> HIDE DEF m
<1> DEFINE worth == (((m * (10000 + Tilt * (100 - score))) \div (2 * Loss * 10000)) * Discount) \div 100
<1>5. m \in Int => worth \in Int
  <2> SUFFICES ASSUME m \in Int PROVE worth \in Int
    OBVIOUS
  <2> DEFINE top == m * (10000 + Tilt * (100 - score))
             part == top \div (2 * Loss * 10000)
  <2>1. Tilt \in Nat /\ Discount \in Nat /\ Loss \in Nat \ {0}
    BY InputAssumption, LossAssumption
  <2>2. Tilt * (100 - score) \in Int
    BY <2>1
  <2>3. top \in Int
    BY <2>2
  <2> HIDE DEF top
  <2>4. part \in Int
    <3> DEFINE d == 2 * Loss * 10000
    <3>1. d \in Nat \ {0}
      BY <2>1
    <3> HIDE DEF d
    <3>2. top \div d \in Int
      BY <2>3, <3>1, Divided
    <3> QED
      BY <3>2 DEF d
  <2> HIDE DEF part
  <2>5. part * Discount \in Int
    BY <2>1, <2>4
  <2>6. (part * Discount) \div 100 \in Int
    BY <2>5
  <2> QED
    BY <2>6 DEF part, top
<1> HIDE DEF worth
<1>6. FlatValue(series, score) = IF DOMAIN f = {} THEN 0 ELSE worth
  BY DEF FlatValue, worth, m, f
<1>7. CASE DOMAIN f = {}
  BY <1>6, <1>7
<1>8. CASE DOMAIN f # {}
  <2>1. worth \in Int
    BY <1>4, <1>5, <1>8
  <2> QED
    BY <1>6, <1>8, <2>1
<1> QED
  BY <1>7, <1>8

\* So is what the reserve is worth,
LEMMA ReserveValueIs ==
    ASSUME NEW series \in Seq(Priced), series # <<>>, NEW may, NEW flat \in Int
    PROVE  ReserveValue(series, may, flat) \in Int /\ ReserveValue(series, may, flat) >= flat
PROOF
<1> DEFINE f == Buys(series)
           m == MedianTwice(f)
           buys == {s.buy : s \in ToSet(series)}
<1>1. /\ DOMAIN series = 1..Len(series) /\ Len(series) \in Nat /\ Len(series) # 0
      /\ \A k \in DOMAIN series : series[k] \in Priced
  OBVIOUS
<1>2. DOMAIN f = 1..Len(series) /\ \A i \in DOMAIN f : f[i] \in Int
  BY <1>1 DEF Buys, Priced
<1>3. IsFiniteSet(1..Len(series)) /\ 1..Len(series) # {}
  <2>1. IsFiniteSet(1..Len(series))
    BY <1>1, FS_Interval
  <2> QED
    BY <1>1, <2>1
<1>4. buys \in SUBSET Int /\ buys # {} /\ IsFiniteSet(buys)
  <2>1. buys = {f[k] : k \in 1..Len(series)}
    BY <1>1 DEF ToSet, Buys
  <2> HIDE DEF f, buys
  <2>2. IsFiniteSet({f[k] : k \in 1..Len(series)})
    BY <1>3, FiniteImage
  <2> QED
    BY <1>2, <1>3, <2>1, <2>2
<1> HIDE DEF f
<1>5. m \in Int
  BY <1>2, <1>3, MedianIs
<1> HIDE DEF m
<1>6. Min(buys) \in Int
  <2> HIDE DEF buys
  <2> QED
    BY <1>4, LeastOf
<1>7. Loss \in Nat \ {0} /\ Wear \in Nat
  BY InputAssumption, LossAssumption
<1>8. m \div (2 * Loss) \in Int
  <2>1. 2 * Loss \in Nat \ {0}
    BY <1>7
  <2> QED
    BY <1>5, <2>1, Divided
<1> DEFINE saved == m \div (2 * Loss)
           refill == Min(buys) + Wear
<1>9. saved \in Int /\ refill \in Int
  BY <1>6, <1>7, <1>8
<1> HIDE DEF saved, refill
<1>10. ReserveValue(series, may, flat) = Larger(IF may THEN Smaller(saved, refill) ELSE saved, flat)
  BY DEF ReserveValue, saved, refill, m, f, buys
<1> QED
  BY <1>9, <1>10 DEF Larger, Smaller

Tiers == [kwh : Int, price : Int]

\* A tier that holds anything is worth no less than the charge that no tier covers.
Covers(t, flat) == t.kwh >= 0 /\ (t.kwh # 0 => t.price >= flat)

\* The two tiers make three stretches, each worth no more than the one below it.
Stretches(reserve, precharge, flat, near, far, a, b) ==
    /\ near <= far /\ a >= b
    /\ Covers(reserve, flat) /\ Covers(precharge, flat) => near >= 0 /\ (far # 0 => b >= flat)
    /\ \A energy \in Int : TerminalWorth(energy, reserve, precharge, flat)
          = a * Smaller(energy, near) + b * Over(Smaller(energy, far), near) + flat * Over(energy, far)

LEMMA StretchesAre ==
    ASSUME NEW reserve \in Tiers, NEW precharge \in Tiers, NEW flat \in Int
    PROVE  \E near \in Int, far \in Int, a \in Int, b \in Int :
              Stretches(reserve, precharge, flat, near, far, a, b)
PROOF
<1> DEFINE near == Smaller(reserve.kwh, precharge.kwh)
           far  == Larger(reserve.kwh, precharge.kwh)
           covering(edge) == {t.price : t \in {x \in {reserve, precharge} : x.kwh >= edge}}
           price(edge) == Max(covering(edge))
           a == price(near)
           b == price(far)
<1>1. reserve.kwh \in Int /\ precharge.kwh \in Int /\ reserve.price \in Int /\ precharge.price \in Int
  BY DEF Tiers
<1>2. /\ near \in Int /\ far \in Int /\ near <= far
      /\ near \in {reserve.kwh, precharge.kwh} /\ far \in {reserve.kwh, precharge.kwh}
  BY <1>1 DEF Smaller, Larger
<1> HIDE DEF near, far
<1>3. ASSUME NEW edge \in {reserve.kwh, precharge.kwh}
      PROVE  price(edge) \in covering(edge) /\ \A x \in covering(edge) : x <= price(edge)
  <2>1. covering(edge) \in SUBSET {reserve.price, precharge.price} /\ covering(edge) # {}
    BY <1>1
  <2>2. IsFiniteSet({reserve.price, precharge.price})
    <3>1. IsFiniteSet({reserve.price})
      BY FS_Singleton
    <3>2. IsFiniteSet({reserve.price} \cup {precharge.price})
      BY <3>1, FS_AddElement
    <3>3. {reserve.price} \cup {precharge.price} = {reserve.price, precharge.price}
      OBVIOUS
    <3> QED
      BY <3>2, <3>3
  <2>3. IsFiniteSet(covering(edge)) /\ covering(edge) \in SUBSET Int /\ covering(edge) # {}
    <3> HIDE DEF covering
    <3> QED
      BY <1>1, <2>1, <2>2, FS_Subset
  <2> HIDE DEF covering
  <2> QED
    BY <2>3, Largest
<1>4. covering(near) \in SUBSET Int /\ covering(far) \in SUBSET covering(near)
  BY <1>1, <1>2
<1>5. /\ a \in covering(near) /\ \A x \in covering(near) : x <= a
      /\ b \in covering(far)
  <2> HIDE DEF covering, price
  <2> QED
    BY <1>2, <1>3
<1>6. a \in Int /\ b \in Int /\ a >= b
  <2> HIDE DEF covering, a, b
  <2> QED
    BY <1>4, <1>5
<1>7. ASSUME Covers(reserve, flat), Covers(precharge, flat)
      PROVE  near >= 0 /\ (far # 0 => b >= flat)
  <2>1. near >= 0
    BY <1>1, <1>2, <1>7 DEF Covers
  <2>2. PICK t \in {reserve, precharge} : t.kwh >= far /\ t.price = b
    <3> HIDE DEF price, b
    <3> QED
      BY <1>5
  <2>3. ASSUME far # 0 PROVE b >= flat
    <3>1. t.kwh \in Int /\ t.kwh >= 0 /\ far >= 0
      BY <1>1, <1>2, <1>7 DEF Covers
    <3>2. t.kwh # 0
      BY <1>2, <2>2, <2>3, <3>1
    <3> HIDE DEF b
    <3> QED
      BY <1>7, <2>2, <3>2 DEF Covers
  <2> QED
    BY <2>1, <2>3
<1>8. \A energy \in Int : TerminalWorth(energy, reserve, precharge, flat)
         = a * Smaller(energy, near) + b * Over(Smaller(energy, far), near) + flat * Over(energy, far)
  BY Zenon DEF TerminalWorth, a, b, price, covering, near, far
<1> HIDE DEF a, b, covering
<1>9. Stretches(reserve, precharge, flat, near, far, a, b)
  BY <1>2, <1>6, <1>7, <1>8, Zenon DEF Stretches
<1> QED
  BY <1>2, <1>6, <1>9

\* and what any charge is worth at the end.
LEMMA WorthIs ==
    ASSUME NEW energy \in Int, NEW reserve \in Tiers, NEW precharge \in Tiers, NEW flat \in Int
    PROVE  TerminalWorth(energy, reserve, precharge, flat) \in Int
PROOF
<1>1. PICK near \in Int, far \in Int, a \in Int, b \in Int :
         Stretches(reserve, precharge, flat, near, far, a, b)
  BY StretchesAre
<1> DEFINE x == Smaller(energy, near)
           y == Over(Smaller(energy, far), near)
           z == Over(energy, far)
<1>2. x \in Int /\ y \in Int /\ z \in Int
  BY DEF Smaller, Over
<1>3. TerminalWorth(energy, reserve, precharge, flat) = a * x + b * y + flat * z
  BY <1>1, Zenon DEF Stretches
<1> HIDE DEF x, y, z
<1>4. a * x \in Int /\ b * y \in Int /\ flat * z \in Int
  BY <1>2
<1> QED
  BY <1>3, <1>4

\* The next kWh is never worth more than the one below it.
LEMMA WorthConcave ==
    ASSUME NEW e \in Nat, e >= 1, NEW reserve \in Tiers, NEW precharge \in Tiers, NEW flat \in Int,
           Covers(reserve, flat), Covers(precharge, flat)
    PROVE  TerminalWorth(e + 1, reserve, precharge, flat) - TerminalWorth(e, reserve, precharge, flat)
              <= TerminalWorth(e, reserve, precharge, flat) - TerminalWorth(e - 1, reserve, precharge, flat)
PROOF
<1> DEFINE W(k) == TerminalWorth(k, reserve, precharge, flat)
<1>0. PICK near \in Int, far \in Int, a \in Int, b \in Int :
         Stretches(reserve, precharge, flat, near, far, a, b)
  BY StretchesAre
<1>1. /\ near <= far /\ a >= b /\ near >= 0 /\ (far # 0 => b >= flat)
      /\ \A k \in Int : W(k) = a * Smaller(k, near) + b * Over(Smaller(k, far), near) + flat * Over(k, far)
  BY <1>0, Zenon DEF Stretches
<1> HIDE DEF W
<1> DEFINE up(k) == IF k < near THEN a ELSE IF k < far THEN b ELSE flat
<1>2. ASSUME NEW k \in Nat PROVE W(k) \in Int /\ W(k + 1) = W(k) + up(k)
  <2>1. /\ W(k) = a * Smaller(k, near) + b * Over(Smaller(k, far), near) + flat * Over(k, far)
        /\ W(k + 1) = a * Smaller(k + 1, near) + b * Over(Smaller(k + 1, far), near) + flat * Over(k + 1, far)
    BY <1>1
  <2>2. CASE k < near
    <3>1. /\ Smaller(k, near) = k /\ Smaller(k + 1, near) = k + 1
          /\ Over(Smaller(k, far), near) = 0 /\ Over(Smaller(k + 1, far), near) = 0
          /\ Over(k, far) = 0 /\ Over(k + 1, far) = 0
      BY <1>1, <2>2 DEF Smaller, Over
    <3>2. W(k) = a * k /\ W(k + 1) = a * (k + 1)
      BY <2>1, <3>1
    <3>3. a * k \in Int /\ a * (k + 1) = a * k + a
      OBVIOUS
    <3> QED
      BY <2>2, <3>2, <3>3
  <2>3. CASE k >= near /\ k < far
    <3> DEFINE y == k - near
               c == a * near
    <3>1. /\ Smaller(k, near) = near /\ Smaller(k + 1, near) = near
          /\ Over(Smaller(k, far), near) = y /\ Over(Smaller(k + 1, far), near) = y + 1
          /\ Over(k, far) = 0 /\ Over(k + 1, far) = 0 /\ y \in Int /\ c \in Int
      BY <1>1, <2>3 DEF Smaller, Over
    <3> HIDE DEF y, c
    <3>2. W(k) = c + b * y /\ W(k + 1) = c + b * (y + 1)
      BY <2>1, <3>1 DEF c
    <3>3. b * y \in Int /\ b * (y + 1) = b * y + b
      BY <3>1
    <3> QED
      BY <2>3, <3>1, <3>2, <3>3
  <2>4. CASE k >= far
    <3> DEFINE z == k - far
               c == a * near + b * (far - near)
    <3>1. /\ Smaller(k, near) = near /\ Smaller(k + 1, near) = near
          /\ Over(Smaller(k, far), near) = far - near /\ Over(Smaller(k + 1, far), near) = far - near
          /\ Over(k, far) = z /\ Over(k + 1, far) = z + 1 /\ z \in Int
      BY <1>1, <2>4 DEF Smaller, Over
    <3>2. c \in Int
      <4>1. a * near \in Int /\ b * (far - near) \in Int
        OBVIOUS
      <4> QED
        BY <4>1
    <3> HIDE DEF z, c
    <3>3. W(k) = c + flat * z /\ W(k + 1) = c + flat * (z + 1)
      BY <2>1, <3>1 DEF c
    <3>4. flat * z \in Int /\ flat * (z + 1) = flat * z + flat
      BY <3>1
    <3>5. up(k) = flat
      BY <1>1, <2>4
    <3> HIDE DEF up
    <3> QED
      BY <3>2, <3>3, <3>4, <3>5
  <2> QED
    BY <1>1, <2>2, <2>3, <2>4
<1>3. e - 1 \in Nat /\ (e - 1) + 1 = e
  OBVIOUS
<1>4. W(e) = W(e - 1) + up(e - 1) /\ W(e + 1) = W(e) + up(e) /\ W(e - 1) \in Int
  BY <1>2, <1>3
<1>5. up(e) <= up(e - 1) /\ up(e) \in Int /\ up(e - 1) \in Int
  BY <1>1
<1> HIDE DEF up
<1>6. W(e + 1) - W(e) <= W(e) - W(e - 1)
  BY <1>4, <1>5
<1> QED
  BY <1>6 DEF W

-----------------------------------------------------------------------------
\* What a call derives from its arguments.

\* Below this no plan may take the charge.
Lowest(c) == Min({c.soc, c.site.max, c.site.min + c.policy.reserve})

JobTyped(c, j) ==
    /\ j.slots \in Seq(Priced) /\ Len(j.slots) <= Len(c.series)
    /\ j.actions \in SUBSET Mode /\ "SelfUse" \in j.actions
    /\ j.site \in Site /\ j.site.max = c.site.max
    /\ j.site.min <= c.site.max /\ j.site.min >= Lowest(c)
    /\ j.step \in Nat
    /\ j.bar \in Int /\ j.floor \in Int /\ j.peak \in Int /\ j.flat \in Int /\ j.target \in Nat
    /\ j.sun \in [DOMAIN j.slots -> Nat] /\ j.load \in [DOMAIN j.slots -> Nat]
    /\ j.held \in BOOLEAN

ValuationTyped(v) ==
    /\ v.reserve \in Tiers /\ v.precharge \in Tiers /\ v.flat \in Int
    /\ Covers(v.reserve, v.flat) /\ Covers(v.precharge, v.flat)

\* What every request brings.
LEMMA CallIs ==
    ASSUME NEW c \in Requests
    PROVE  /\ c.series \in Seq(Priced)
           /\ c.site \in Site /\ c.site.min <= c.site.max
           /\ c.site.min \in Nat /\ c.site.max \in Nat
           /\ Forecast(c.gen) /\ c.load \in [0..Hours - 1 -> Nat]
           /\ c.policy \in Policy /\ c.soc \in Nat
           /\ c.score \in Int /\ c.sell_average \in Int /\ c.buy_average \in Int
PROOF
<1>1. /\ c.series \in Seq(Priced)
      /\ c.site \in Site /\ c.site.min <= c.site.max
      /\ Forecast(c.gen) /\ c.load \in [0..Hours - 1 -> Nat]
      /\ c.policy \in Policy /\ c.soc \in Nat
      /\ {c.score, c.sell_average, c.buy_average} \subseteq Int
  BY RequestsAssumption, Zenon DEF Forecast, Priced
<1>2. c.site.min \in Nat /\ c.site.max \in Nat
  BY <1>1 DEF Site
<1> QED
  BY <1>1, <1>2

\* The lowest charge lies below all three it is the least of.
LEMMA LowestIs ==
    ASSUME NEW c \in Requests
    PROVE  /\ Lowest(c) \in Nat
           /\ Lowest(c) <= c.soc /\ Lowest(c) <= c.site.max
           /\ Lowest(c) <= c.site.min + c.policy.reserve
PROOF
<1> DEFINE a == c.soc
           b == c.site.max
           d == c.site.min + c.policy.reserve
<1>1. a \in Nat /\ b \in Nat /\ d \in Nat
  BY CallIs DEF Policy
<1> HIDE DEF a, b, d
<1>2. Lowest(c) = Min({a, b, d})
  BY DEF Lowest, a, b, d
<1>3. \E x \in {a, b, d} : \A y \in {a, b, d} : x <= y
  BY <1>1
<1>4. Min({a, b, d}) \in {a, b, d} /\ \A y \in {a, b, d} : Min({a, b, d}) <= y
  BY <1>3, Zenon DEF Min
<1> QED
  BY <1>1, <1>2, <1>4 DEF a, b, d

\* The job that is derived from a request, and the valuation of its end.
LEMMA JobIs ==
    ASSUME NEW c \in Requests, NEW j, j = JobOf(c)
    PROVE  /\ JobTyped(c, j)
           /\ j.slots # <<>> => ValuationTyped(Valuation(c, j))
PROOF
<1> DEFINE p == c.policy
           priced == Plannable(c.series)
           at == {k \in DOMAIN priced : priced[k].hour >= Now}
           slots == Picked(priced, at)
           floor == FloorSoc(c.site, c.soc, p.reserve)
           gated == p.gate /\ c.sell_average # NoPrice /\ p.discharge
           held == p.feed_in_floor /\ c.sell_average # NoPrice /\ p.feed_in
           peak == SunOnlyPeak(c.gen, c.load, c.site, c.soc, Now, p.precharge_days)
           target == Smaller(p.target, c.site.max)
           step == (c.site.max - floor) \div (Buckets - 1)
           sun == [i \in DOMAIN slots |-> c.gen.hour[slots[i].hour]]
           load == [i \in DOMAIN slots |-> LoadAt(c.load, slots[i].hour)]
           bar == IF gated THEN Larger(CycleCost, c.sell_average) ELSE CycleCost
           least == IF held THEN FeedInFloor(c.sell_average) ELSE NoPrice
           site == [c.site EXCEPT !.min = floor]
<1>1. /\ j.slots = slots /\ j.actions = Actions(p) /\ j.site = site
      /\ j.step = step /\ j.held = held /\ j.bar = bar /\ j.floor = least
      /\ j.flat = FlatValue(priced, c.score) /\ j.sun = sun /\ j.load = load
      /\ j.target = target /\ j.peak = peak
  BY Zenon DEF JobOf
<1>2. priced \in Seq(Priced) /\ Len(priced) <= Len(c.series)
  <2> DEFINE on == {k \in DOMAIN c.series : c.series[k].priced \/ c.series[k].forecast}
  <2>1. c.series \in Seq(Priced) /\ on \in SUBSET (DOMAIN c.series)
    BY CallIs
  <2>2. priced = Picked(c.series, on)
    BY DEF Plannable
  <2> HIDE DEF on, priced
  <2> QED
    BY <2>1, <2>2, PickedIs
<1> HIDE DEF priced
<1>3. /\ slots \in Seq(Priced) /\ Len(slots) <= Len(priced)
  <2>1. at \in SUBSET (DOMAIN priced)
    OBVIOUS
  <2> HIDE DEF at
  <2> QED
    BY <1>2, <2>1, PickedIs
<1> HIDE DEF slots, at
<1>4. \A i \in DOMAIN slots : slots[i].hour \in 0..2 * Hours - 1
  <2>1. \A i \in DOMAIN slots : slots[i] \in Priced
    BY <1>3
  <2> QED
    BY <2>1 DEF Priced
<1>5. sun \in [DOMAIN slots -> Nat] /\ load \in [DOMAIN slots -> Nat]
  <2>1. \A i \in DOMAIN slots : c.gen.hour[slots[i].hour] \in Nat
    BY <1>4, CallIs DEF Forecast
  <2>2. \A i \in DOMAIN slots : LoadAt(c.load, slots[i].hour) \in Nat
    <3> SUFFICES ASSUME NEW i \in DOMAIN slots PROVE LoadAt(c.load, slots[i].hour) \in Nat
      OBVIOUS
    <3>1. slots[i].hour \in Nat
      BY <1>4, InputAssumption
    <3>2. c.load \in [0..Hours - 1 -> Nat]
      BY CallIs
    <3> QED
      BY <3>1, <3>2, LoadIs
  <2> QED
    BY <2>1, <2>2
<1> HIDE DEF sun, load
<1>6. /\ p.reserve \in Nat /\ p.target \in Nat /\ p.precharge_days \in Nat /\ p.reserve_days \in Nat
      /\ p.extra \in Nat
  BY CallIs DEF Policy
<1>7. floor \in Nat /\ floor <= c.site.max /\ floor >= Lowest(c)
  BY <1>6, CallIs, LowestIs DEF FloorSoc, Smaller, Larger
<1>8. site \in Site /\ site.max = c.site.max /\ site.min = floor
  <2> HIDE DEF floor
  <2> QED
    BY <1>7, CallIs DEF Site
<1> HIDE DEF site
<1>9. step \in Nat
  <2> DEFINE span == c.site.max - floor
             parts == Buckets - 1
  <2>1. span \in Nat /\ parts \in Nat \ {0}
    BY <1>7, CallIs, PlannerAssumption
  <2> HIDE DEF span, parts
  <2>2. span \div parts \in Nat
    BY <2>1, Divided
  <2> QED
    BY <2>2 DEF span, parts
<1> HIDE DEF step, floor
<1>10. bar \in Int /\ least \in Int
  <2>1. Loss \in Nat \ {0} /\ Wear \in Nat /\ c.sell_average \in Int
    BY CallIs, InputAssumption, LossAssumption
  <2>2. CycleCost \in Int
    BY <2>1 DEF CycleCost
  <2>3. FeedInFloor(c.sell_average) \in Int
    <3>1. c.sell_average \div Loss \in Int
      BY <2>1, Divided
    <3> QED
      BY <2>1, <3>1 DEF FeedInFloor
  <2> QED
    BY <2>1, <2>2, <2>3 DEF Larger, NoPrice
<1> HIDE DEF bar, least
<1>11. peak \in Int
  BY <1>6, CallIs, SunOnlyPeakIs
<1> HIDE DEF peak
<1>12. target \in Nat
  BY <1>6, CallIs DEF Smaller
<1> HIDE DEF target
<1>13. FlatValue(priced, c.score) \in Int
  BY <1>2, CallIs, FlatIs
<1>14. Actions(p) \in SUBSET Mode /\ "SelfUse" \in Actions(p)
  BY DEF Actions, Mode
<1>15. held \in BOOLEAN
  OBVIOUS
<1> HIDE DEF held, p
<1>16. Len(slots) <= Len(c.series)
  <2>1. Len(slots) \in Nat /\ Len(priced) \in Nat /\ Len(c.series) \in Nat
    BY <1>2, <1>3, CallIs
  <2> QED
    BY <1>2, <1>3, <2>1
<1>17. JobTyped(c, j)
  BY <1>1, <1>3, <1>5, <1>7, <1>8, <1>9, <1>10, <1>11, <1>12, <1>13, <1>14, <1>15, <1>16
  DEF JobTyped
<1>18. ASSUME j.slots # <<>> PROVE ValuationTyped(Valuation(c, j))
  <2> DEFINE v == Valuation(c, j)
             after == j.slots[Len(j.slots)].hour + 1
             kwh == IF c.policy.load_reserve /\ j.slots # <<>>
                    THEN LoadReserve(c.gen, c.load, after, c.policy.reserve_days, c.policy.extra) ELSE 0
             price == ReserveValue(priced, c.policy.grid_charge, j.flat)
  <2>1. slots # <<>> /\ Len(slots) \in DOMAIN slots
    BY <1>1, <1>3, <1>18
  <2>2. after \in Nat
    BY <1>1, <1>4, <2>1, InputAssumption
  <2> HIDE DEF after
  <2>3. kwh \in Nat
    <3>1. /\ Forecast(c.gen) /\ c.load \in [0..Hours - 1 -> Nat]
          /\ c.policy.reserve_days \in Nat /\ c.policy.extra \in Nat
      BY <1>6, CallIs DEF p
    <3>2. LoadReserve(c.gen, c.load, after, c.policy.reserve_days, c.policy.extra) \in Nat
      BY <2>2, <3>1, LoadReserveIs
    <3> QED
      BY <3>2
  <2> HIDE DEF kwh
  <2>4. priced # <<>>
    <3>1. Len(slots) # 0 /\ Len(slots) \in Nat
      BY <1>3, <2>1
    <3> QED
      BY <1>2, <1>3, <3>1
  <2>5. price \in Int /\ price >= j.flat
    BY <1>1, <1>2, <1>13, <2>4, ReserveValueIs
  <2> HIDE DEF price
  <2>6. v = [reserve |-> [kwh |-> kwh, price |-> price], precharge |-> [kwh |-> 0, price |-> 0],
             flat |-> j.flat]
    BY DEF Valuation, kwh, price, after, priced
  <2> HIDE DEF v
  <2>7. ValuationTyped(v)
    BY <1>1, <1>13, <2>3, <2>5, <2>6 DEF ValuationTyped, Tiers, Covers
  <2> QED
    BY <2>7 DEF v
<1> QED
  BY <1>17, <1>18

-----------------------------------------------------------------------------
\* The invariant.

\* The call is one of the requests, and the job is what it comes to.
Derived ==
    /\ call \in Requests
    /\ stage # "called" => JobTyped(call, job)
    /\ stage = "called" => plan = <<>> /\ profit = 0

\* A policy that is being made or followed: each layer has a value and a choice for every
\* bucket and every mode before, and no choice is barred in its slot.
Allowed(m, i) == m \in job.actions /\ ~Barred(m, job.slots[i])

PolicyMade ==
    stage \in {"solve", "roll"} =>
        /\ job.slots # <<>> /\ job.step # 0
        /\ left \in 0..Len(job.slots)
        /\ ValuationTyped(terminal) /\ terminal.flat = job.flat
        /\ value \in [0..Buckets - 1 -> [Prevs -> Int]]
        /\ choice \in Seq([0..Buckets - 1 -> [Prevs -> Mode]])
        /\ Len(choice) = Len(job.slots) - left
        /\ \A k \in 1..Len(choice), b \in 0..Buckets - 1, m \in Prevs : Allowed(choice[k][b][m], left + k)

RollStarted == stage = "roll" => left = 0 /\ prev \in Prevs

\* The charge a plan has reached is within its limits and is the one its last row ends with.
Walked ==
    stage \in {"roll", "idle"} =>
        /\ Len(plan) <= Len(job.slots)
        /\ soc >= Lowest(call) /\ soc <= call.site.max
        /\ plan # <<>> => soc = plan[Len(plan)].soc_after

PlanInv == PlanTypeOK /\ Derived /\ PolicyMade /\ RollStarted /\ Walked /\ ReserveHeld /\ ExportPays

-----------------------------------------------------------------------------
\* One bucket of one slot.

\* What every step after the first knows of the call, and those that work with a policy.
Prepared == call \in Requests /\ JobTyped(call, job)
Working  == Prepared /\ job.slots # <<>> /\ job.step # 0

LEMMA WorkingIs ==
    ASSUME Working
    PROVE  /\ job.step \in Nat \ {0} /\ Buckets \in Nat \ {0, 1}
           /\ job.site \in Site /\ job.site.min <= job.site.max
           /\ job.site.min \in Nat /\ job.site.max \in Nat
           /\ Len(job.slots) \in Nat \ {0} /\ DOMAIN job.slots = 1..Len(job.slots)
           /\ Wear \in Nat
           /\ call.policy.penalty \in Nat /\ call.policy.boost \in Nat
PROOF
<1>1. job.site \in Site /\ job.site.min <= job.site.max /\ job.step \in Nat /\ job.slots \in Seq(Priced)
      /\ job.slots # <<>> /\ job.step # 0
  BY DEF Working, Prepared, JobTyped
<1>2. job.site.min \in Nat /\ job.site.max \in Nat
  BY <1>1 DEF Site
<1>3. call.policy.penalty \in Nat /\ call.policy.boost \in Nat
  BY CallIs DEF Working, Prepared, Policy
<1> QED
  BY <1>1, <1>2, <1>3, PlannerAssumption, InputAssumption

\* Between two buckets the value is a whole number in units of the step.
LEMMA InterpolatedIs ==
    ASSUME Working, NEW layer \in [0..Buckets - 1 -> Int], NEW at \in Int
    PROVE  Interpolated(layer, at) \in Int
PROOF
<1> DEFINE top == (Buckets - 1) * job.step
           raw == Clamp(at - job.site.min, 0, top)
           lo  == raw \div job.step
           hi  == Smaller(lo + 1, Buckets - 1)
           part == raw % job.step
<1>0. job.step \in Nat \ {0} /\ Buckets \in Nat \ {0, 1} /\ job.site.min \in Nat
  BY WorkingIs
<1>1. top \in Nat
  BY <1>0
<1>2. raw \in 0..top
  <2> HIDE DEF top
  <2> DEFINE x == at - job.site.min
  <2>1. x \in Int
    BY <1>0
  <2> HIDE DEF x
  <2>2. 0 \in Int /\ top \in Int /\ 0 <= top
    BY <1>1
  <2>3. Clamp(x, 0, top) \in 0..top
    BY <2>1, <2>2, ClampIs
  <2> QED
    BY <2>3 DEF x
<1>3. lo \in 0..Buckets - 1
  <2> HIDE DEF raw
  <2>1. Buckets \in Nat \ {0} /\ raw \in 0..(Buckets - 1) * job.step
    BY <1>0, <1>2
  <2> QED
    BY <1>0, <2>1, QuotientIs
<1>4. part \in Int
  <2>1. raw \in Int
    BY <1>1, <1>2
  <2> HIDE DEF raw
  <2>2. raw % job.step \in 0..job.step - 1
    BY <1>0, <2>1, Divided
  <2> QED
    BY <1>0, <2>2
<1> HIDE DEF lo, part, raw, top
<1>5. hi \in 0..Buckets - 1
  BY <1>0, <1>3 DEF Smaller
<1> HIDE DEF hi
<1>6. layer[lo] \in Int /\ layer[hi] \in Int
  BY <1>3, <1>5
<1>7. (job.step - part) * layer[lo] \in Int /\ part * layer[hi] \in Int
  <2>1. job.step - part \in Int
    BY <1>0, <1>4
  <2> QED
    BY <1>4, <1>6, <2>1
<1>8. Interpolated(layer, at) = (job.step - part) * layer[lo] + part * layer[hi]
  BY DEF Interpolated, lo, hi, part, raw, top
<1> QED
  BY <1>7, <1>8

\* Every charge has a bucket.
LEMMA IndexIs ==
    ASSUME Working, NEW at \in Int
    PROVE  ToIndex(at) \in 0..Buckets - 1
PROOF
<1> DEFINE raw  == at - job.site.min
           low  == raw \div job.step
           rest == 2 * (raw % job.step)
           near == IF rest > job.step \/ (rest = job.step /\ low % 2 = 1) THEN low + 1 ELSE low
<1>0. job.step \in Nat \ {0} /\ Buckets \in Nat \ {0, 1} /\ job.site.min \in Nat
  BY WorkingIs
<1>1. raw \in Int
  BY <1>0
<1> HIDE DEF raw
<1>2. low \in Int
  BY <1>0, <1>1, Divided
<1> HIDE DEF low, rest
<1>3. near \in Int
  BY <1>2
<1> HIDE DEF near
<1>4. Clamp(near, 0, Buckets - 1) \in 0..Buckets - 1
  <2>1. 0 \in Int /\ Buckets - 1 \in Int /\ 0 <= Buckets - 1
    BY <1>0
  <2> QED
    BY <1>3, <2>1, ClampIs
<1> QED
  BY <1>4 DEF ToIndex, near, rest, low, raw

\* What a slot comes to, for any mode, charge and sun.
LEMMA SimulatedIs ==
    ASSUME Prepared, NEW i \in 1..Len(job.slots), NEW m, NEW at \in Nat, NEW sun \in Nat,
           NEW o, o = Simulate(i, m, at, sun)
    PROVE  /\ o.flows \in Flows /\ o.reward \in Int /\ Throughput(o.flows) \in Nat
           /\ o.soc_out \in Nat /\ o.soc_out <= job.site.max
           /\ o.soc_out >= job.site.min \/ o.soc_out >= at
PROOF
<1>1. /\ job.slots[i].buy \in Int /\ job.slots[i].sell \in Int /\ job.slots[i].hour \in Nat
      /\ job.load[i] \in Nat
  <2>1. job.slots \in Seq(Priced) /\ job.load \in [DOMAIN job.slots -> Nat]
    BY DEF Prepared, JobTyped
  <2>2. i \in DOMAIN job.slots /\ job.slots[i] \in Priced
    BY <2>1
  <2>3. job.load[i] \in Nat
    BY <2>1, <2>2
  <2>4. /\ job.slots[i].buy \in Int /\ job.slots[i].sell \in Int
        /\ job.slots[i].hour \in 0..2 * Hours - 1
    BY <2>2 DEF Priced
  <2> QED
    BY <2>3, <2>4, InputAssumption
<1>2. o = SimulateSlot(job.site, m, at, sun, job.load[i], job.slots[i].buy, job.slots[i].sell, Wear)
  BY DEF Simulate
<1>3. job.site \in Site /\ job.site.min <= job.site.max /\ Wear \in Nat
  BY InputAssumption DEF Prepared, JobTyped
<1> QED
  BY <1>1, <1>2, <1>3, SlotIs

\* The sun a slot is planned with and the one it is rolled with.
LEMMA SunsAre ==
    ASSUME Prepared, NEW i \in 1..Len(job.slots)
    PROVE  job.sun[i] \in Nat /\ PlanSun(i) \in Nat
PROOF
<1>1. job.sun[i] \in Nat
  BY DEF Prepared, JobTyped
<1> DEFINE top == job.sun[i] * (100 + call.policy.boost)
<1>2. top \in Nat
  <2> DEFINE a == job.sun[i]
             b == 100 + call.policy.boost
  <2>1. a \in Nat
    BY <1>1
  <2>2. b \in Nat
    BY CallIs DEF Prepared, Policy
  <2> HIDE DEF a, b
  <2>3. a * b \in Nat
    BY <2>1, <2>2
  <2> QED
    BY <2>3 DEF a, b
<1> HIDE DEF top
<1>3. top \div 100 \in Nat
  BY <1>2
<1> QED
  BY <1>1, <1>3 DEF PlanSun, top

-----------------------------------------------------------------------------
\* The best of what a bucket is offered.

\* A policy being made, before it fills slot i.
Filling(i) ==
    /\ Working /\ i \in 1..Len(job.slots)
    /\ scale \in Nat /\ value \in [0..Buckets - 1 -> [Prevs -> Int]]

\* A bucket is offered something in every slot, SelfUse at least, and nothing that is barred.
LEMMA OffersAre ==
    ASSUME NEW i, Filling(i), NEW b \in 0..Buckets - 1
    PROVE  /\ Offers(i, b) # {} /\ IsFiniteSet(Offers(i, b))
           /\ \A o \in Offers(i, b) :
                 /\ o.mode \in Mode /\ Allowed(o.mode, i)
                 /\ o.rank \in Nat /\ o.total \in Int /\ Throughput(o.flows) \in Nat
PROOF
<1> DEFINE open == {k \in DOMAIN Dispatchable : Dispatchable[k] \in job.actions /\ ~Barred(Dispatchable[k], job.slots[i])}
           o(k) == Simulate(i, Dispatchable[k], ToSoc(b), PlanSun(i))
           next(k) == Interpolated([x \in 0..Buckets - 1 |-> value[x][Dispatchable[k]]], o(k).soc_out)
           total(k) == scale * job.step * o(k).reward + next(k)
           offer == [k \in open |-> [rank |-> k, mode |-> Dispatchable[k], flows |-> o(k).flows, total |-> total(k)]]
<1>1. Working /\ i \in 1..Len(job.slots) /\ scale \in Nat /\ value \in [0..Buckets - 1 -> [Prevs -> Int]]
  BY DEF Filling
<1>2. /\ DOMAIN Dispatchable = 1..6 /\ Dispatchable[1] = "SelfUse"
      /\ \A k \in 1..6 : Dispatchable[k] \in Mode
  BY DEF Dispatchable, Mode
<1>3. ToSoc(b) \in Nat
  <2>1. job.step \in Nat /\ job.site.min \in Nat /\ b \in Nat
    BY <1>1, WorkingIs
  <2>2. b * job.step \in Nat
    BY <2>1
  <2> QED
    BY <2>1, <2>2 DEF ToSoc
<1>4. PlanSun(i) \in Nat
  BY <1>1, SunsAre DEF Working
<1>5. ASSUME NEW k \in open
      PROVE  /\ Dispatchable[k] \in Mode /\ Allowed(Dispatchable[k], i) /\ k \in Nat
             /\ Throughput(o(k).flows) \in Nat /\ total(k) \in Int
  <2>1. k \in 1..6 /\ Dispatchable[k] \in Mode /\ Allowed(Dispatchable[k], i)
    BY <1>2 DEF Allowed
  <2> HIDE DEF open
  <2> DEFINE m == Dispatchable[k]
             r == Simulate(i, m, ToSoc(b), PlanSun(i))
             layer == [x \in 0..Buckets - 1 |-> value[x][m]]
  <2>2. r.reward \in Int /\ Throughput(r.flows) \in Nat /\ r.soc_out \in Nat
    <3> HIDE DEF r, m
    <3>1. r = Simulate(i, m, ToSoc(b), PlanSun(i))
      BY DEF r
    <3> QED
      BY <1>1, <1>3, <1>4, <3>1, SimulatedIs DEF Working
  <2>3. layer \in [0..Buckets - 1 -> Int]
    <3>1. m \in Prevs
      BY <2>1 DEF Allowed, Prevs
    <3> QED
      BY <1>1, <3>1
  <2>4. next(k) \in Int
    <3> HIDE DEF r, layer
    <3> DEFINE x == r.soc_out
    <3>2. x \in Int
      BY <2>2
    <3> HIDE DEF x
    <3>3. Interpolated(layer, x) \in Int
      BY <1>1, <2>3, <3>2, InterpolatedIs
    <3>1. Interpolated(layer, r.soc_out) \in Int
      BY <3>3 DEF x
    <3> QED
      BY <3>1 DEF layer, r
  <2>5. total(k) \in Int
    <3> DEFINE p == scale * job.step
               q == r.reward
    <3>1. p \in Int
      BY <1>1, WorkingIs
    <3>2. q \in Int
      BY <2>2
    <3> HIDE DEF p, q
    <3>3. p * q \in Int
      BY <3>1, <3>2
    <3>4. total(k) = p * q + next(k)
      BY DEF p, q
    <3> HIDE DEF next, total
    <3> QED
      BY <2>4, <3>3, <3>4
  <2> HIDE DEF total
  <2> QED
    BY <2>1, <2>2, <2>5
<1>6. 1 \in open
  <2>1. "SelfUse" \in job.actions
    BY <1>1 DEF Working, Prepared, JobTyped
  <2>2. ~Barred("SelfUse", job.slots[i])
    BY DEF Barred
  <2> QED
    BY <1>2, <2>1, <2>2
<1>7. open \subseteq 1..6
  BY <1>2
<1>8. Offers(i, b) = {offer[k] : k \in open}
  BY Zenon DEF Offers
<1> HIDE DEF open, o, total
<1>9. IsFiniteSet({offer[k] : k \in open})
  <2>1. IsFiniteSet(1..6)
    <3>1. 1 \in Int /\ 6 \in Int
      OBVIOUS
    <3> QED
      BY <3>1, FS_Interval
  <2>2. IsFiniteSet(open)
    BY <1>7, <2>1, FS_Subset
  <2> HIDE DEF offer
  <2> QED
    BY <2>2, FiniteImage
<1>10. ASSUME NEW k \in open
       PROVE  /\ offer[k].mode \in Mode /\ Allowed(offer[k].mode, i)
              /\ offer[k].rank \in Nat /\ offer[k].total \in Int /\ Throughput(offer[k].flows) \in Nat
  <2>1. /\ offer[k].mode = Dispatchable[k] /\ offer[k].rank = k /\ offer[k].total = total(k)
        /\ offer[k].flows = o(k).flows
    OBVIOUS
  <2> HIDE DEF offer
  <2> QED
    BY <1>5, <2>1
<1> HIDE DEF offer
<1> QED
  BY <1>6, <1>8, <1>9, <1>10

\* Among the offers there is a best one, which the choice between them picks.
LEMMA BestIs ==
    ASSUME NEW i, Filling(i), NEW b \in 0..Buckets - 1, NEW before
    PROVE  /\ Best(Offers(i, b), before) \in Offers(i, b)
           /\ Total(Best(Offers(i, b), before), before) \in Int
PROOF
<1> DEFINE O == Offers(i, b)
           total == [o \in O |-> Total(o, before)]
           T == {total[o] : o \in O}
           R == {o.rank : o \in {x \in O : total[x] = Max(T)}}
<1>1. /\ O # {} /\ IsFiniteSet(O)
      /\ \A o \in O : o.rank \in Nat /\ o.total \in Int /\ Throughput(o.flows) \in Nat
  BY OffersAre
<1> HIDE DEF O
<1>2. ASSUME NEW o \in O PROVE Total(o, before) \in Int
  <2> DEFINE p == scale * job.step
             q == Penalty(before, o.mode, o.flows)
  <2>1. p \in Int
    BY WorkingIs DEF Filling
  <2>2. q \in Int
    <3> DEFINE c == call.policy.penalty
               t == Throughput(o.flows)
    <3>1. c \in Nat /\ t \in Nat
      BY <1>1, WorkingIs DEF Filling
    <3> HIDE DEF c, t
    <3>2. c * t \in Nat
      BY <3>1
    <3> QED
      BY <3>2 DEF Penalty, c, t
  <2> HIDE DEF p, q
  <2>3. p * q \in Int
    BY <2>1, <2>2
  <2>4. Total(o, before) = o.total - p * q
    BY DEF Total, p, q
  <2> QED
    BY <1>1, <2>3, <2>4
<1>3. T \in SUBSET Int /\ T # {}
  BY <1>1, <1>2
<1>4. IsFiniteSet(T)
  <2> HIDE DEF total
  <2> QED
    BY <1>1, FiniteImage
<1>5. Max(T) \in T /\ \A t \in T : t <= Max(T)
  <2> HIDE DEF T
  <2> QED
    BY <1>3, <1>4, Largest
<1>6. R \in SUBSET Nat /\ R # {}
  <2>1. PICK o \in O : total[o] = Max(T)
    BY <1>5
  <2> QED
    BY <1>1, <2>1
<1>7. PICK r \in R : \A y \in R : r <= y
  <2> HIDE DEF R
  <2> QED
    BY <1>6, LeastNat
<1>8. PICK o \in O : total[o] = Max(T) /\ o.rank = r
  BY <1>7
<1>9. ASSUME NEW x \in O
      PROVE  Total(x, before) <= Total(o, before) /\ (x.rank < o.rank => Total(x, before) < Total(o, before))
  <2>1. total[x] \in T /\ total[x] = Total(x, before) /\ total[o] = Total(o, before)
    OBVIOUS
  <2>2. total[x] = Max(T) => x.rank \in R
    OBVIOUS
  <2>3. x.rank \in Nat /\ o.rank \in Nat /\ Total(x, before) \in Int /\ Total(o, before) \in Int
    BY <1>1, <1>2
  <2> HIDE DEF T, R, total
  <2> QED
    BY <1>5, <1>7, <1>8, <2>1, <2>2, <2>3
<1>10. Best(O, before) \in O
  <2> HIDE DEF T, R, total
  <2> QED
    BY <1>9, Zenon DEF Best
<1> QED
  BY <1>2, <1>10 DEF O

-----------------------------------------------------------------------------
\* The policy: its start from the terminal layer, and one slot more of it.

\* A policy that starts has a layer of values and no choice yet.
LEMMA SolveIs ==
    ASSUME Working', NEW v, ValuationTyped(v), v.flat = job'.flat, Solve(v)
    PROVE  /\ PolicyMade' /\ stage' = "solve" /\ scale' \in Nat
           /\ left' \in 0..Len(call'.series)
PROOF
<1> DEFINE n == Len(job'.slots)
<1>1. /\ job'.step \in Nat /\ job'.slots \in Seq(Priced) /\ Len(job'.slots) <= Len(call'.series)
      /\ job'.slots # <<>> /\ job'.step # 0
  BY DEF Working, Prepared, JobTyped
<1>2. n \in Nat
  BY <1>1
<1>3. Len(call'.series) \in Nat
  <2>1. call'.series \in Seq(Priced)
    BY CallIs DEF Working, Prepared
  <2> QED
    BY <2>1
<1>4. /\ stage' = "solve" /\ left' = n /\ terminal' = v /\ scale' = 1 /\ choice' = <<>>
      /\ value' = [b \in 0..Buckets - 1 |->
                     [m \in job'.actions \cup {NoPrevious} |->
                         TerminalWorth(b * job'.step, v.reserve, v.precharge, v.flat)]]
  BY DEF Solve
<1>5. ASSUME NEW b \in 0..Buckets - 1
      PROVE  TerminalWorth(b * job'.step, v.reserve, v.precharge, v.flat) \in Int
  <2> DEFINE a == b * job'.step
             r == v.reserve
             p == v.precharge
             f == v.flat
  <2>1. a \in Int
    <3>1. b \in Nat
      BY PlannerAssumption
    <3> QED
      BY <1>1, <3>1
  <2>2. r \in Tiers /\ p \in Tiers /\ f \in Int
    BY DEF ValuationTyped
  <2> HIDE DEF a, r, p, f
  <2>3. TerminalWorth(a, r, p, f) \in Int
    BY <2>1, <2>2, WorthIs
  <2> QED
    BY <2>3 DEF a, r, p, f
<1>6. value' \in [0..Buckets - 1 -> [Prevs' -> Int]]
  BY <1>4, <1>5, Zenon DEF Prevs
<1>7. choice' \in Seq([0..Buckets - 1 -> [Prevs' -> Mode]]) /\ Len(choice') = 0
  BY <1>4
<1>8. Len(choice') = Len(job'.slots) - left' /\ left' \in 0..Len(job'.slots)
  BY <1>2, <1>4, <1>7
<1>9. \A k \in 1..Len(choice') : FALSE
  BY <1>7
<1>10. PolicyMade'
  BY <1>1, <1>4, <1>6, <1>7, <1>8, <1>9 DEF PolicyMade
<1> QED
  BY <1>1, <1>2, <1>3, <1>4, <1>10

\* One slot more: its choices are taken from what each bucket is offered.
LEMMA SolvesSlot ==
    ASSUME Prepared, PolicyMade, scale \in Nat, SolveSlot
    PROVE  /\ PolicyMade' /\ scale' \in Nat /\ left' \in 0..left
PROOF
<1> DEFINE offers == [b \in 0..Buckets - 1 |-> Offers(left, b)]
           best == [b \in 0..Buckets - 1 |-> [m \in Prevs |-> Best(offers[b], m).mode]]
           S == [0..Buckets - 1 -> [Prevs -> Mode]]
<1>1. /\ stage = "solve" /\ left > 0 /\ left' = left - 1 /\ scale' = scale * job.step
      /\ value' = [b \in 0..Buckets - 1 |-> [m \in Prevs |-> Total(Best(offers[b], m), m)]]
      /\ choice' = <<best>> \o choice
      /\ call' = call /\ job' = job /\ stage' = stage /\ terminal' = terminal /\ floored' = floored
  BY DEF SolveSlot
<1>2. Working /\ left \in 1..Len(job.slots) /\ Filling(left)
  <2>1. /\ job.slots # <<>> /\ job.step # 0 /\ left \in 0..Len(job.slots)
        /\ value \in [0..Buckets - 1 -> [Prevs -> Int]]
    BY <1>1 DEF PolicyMade
  <2>2. Working
    BY <2>1 DEF Working
  <2>3. left \in 1..Len(job.slots)
    BY <1>1, <2>1
  <2> QED
    BY <2>1, <2>2, <2>3 DEF Filling
<1>3. ASSUME NEW b \in 0..Buckets - 1, NEW m \in Prevs
      PROVE  /\ Best(offers[b], m).mode \in Mode /\ Allowed(Best(offers[b], m).mode, left)
             /\ Total(Best(offers[b], m), m) \in Int
  <2>1. offers[b] = Offers(left, b)
    OBVIOUS
  <2>2. Best(Offers(left, b), m) \in Offers(left, b) /\ Total(Best(Offers(left, b), m), m) \in Int
    BY <1>2, BestIs
  <2>3. \A o \in Offers(left, b) : o.mode \in Mode /\ Allowed(o.mode, left)
    BY <1>2, OffersAre
  <2> HIDE DEF offers
  <2> QED
    BY <2>1, <2>2, <2>3
<1> HIDE DEF offers
<1>4. Prevs' = Prevs
  BY <1>1 DEF Prevs
<1>5. value' \in [0..Buckets - 1 -> [Prevs' -> Int]]
  BY <1>1, <1>3, <1>4, Zenon
<1>6. best \in S /\ \A b \in 0..Buckets - 1, m \in Prevs : Allowed(best[b][m], left)
  BY <1>3
<1> HIDE DEF best
<1>7. choice \in Seq(S) /\ Len(choice) = Len(job.slots) - left
      /\ \A k \in 1..Len(choice), b \in 0..Buckets - 1, m \in Prevs : Allowed(choice[k][b][m], left + k)
  BY <1>1 DEF PolicyMade
<1>8. /\ choice' \in Seq(S) /\ Len(choice') = Len(choice) + 1
      /\ choice'[1] = best /\ \A k \in 1..Len(choice) : choice'[k + 1] = choice[k]
  <2> HIDE DEF S
  <2>1. <<best>> \in Seq(S) /\ Len(<<best>>) = 1 /\ <<best>>[1] = best
    BY <1>6
  <2> DEFINE one == <<best>>
  <2> HIDE DEF one
  <2>2. one \in Seq(S) /\ Len(one) = 1 /\ one[1] = best
    BY <2>1 DEF one
  <2>3. /\ one \o choice \in Seq(S) /\ Len(one \o choice) = Len(one) + Len(choice)
        /\ \A i \in 1..(Len(one) + Len(choice)) :
              (one \o choice)[i] = IF i <= Len(one) THEN one[i] ELSE choice[i - Len(one)]
    BY <1>7, <2>2, ConcatProperties
  <2>4. choice' = one \o choice
    BY <1>1 DEF one
  <2>5. Len(choice) \in Nat
    BY <1>7
  <2>6. choice'[1] = best
    BY <2>2, <2>3, <2>4, <2>5
  <2>7. ASSUME NEW k \in 1..Len(choice) PROVE choice'[k + 1] = choice[k]
    <3>1. k + 1 \in 1..(Len(one) + Len(choice)) /\ ~(k + 1 <= Len(one)) /\ k + 1 - Len(one) = k
      BY <2>2, <2>5
    <3> QED
      BY <2>3, <2>4, <3>1
  <2> QED
    BY <2>2, <2>3, <2>4, <2>5, <2>6, <2>7
<1>9. Len(job.slots) \in Nat /\ job.step \in Nat
  BY <1>2, WorkingIs
<1>10. left' \in 0..Len(job.slots) /\ Len(choice') = Len(job.slots) - left' /\ left' \in 0..left
  <2>1. left \in Nat /\ left' = left - 1 /\ left > 0 /\ left <= Len(job.slots)
    BY <1>1, <1>2, <1>9
  <2>2. Len(choice') = Len(job.slots) - left + 1
    BY <1>7, <1>8
  <2> QED
    BY <1>9, <2>1, <2>2
<1>11. ASSUME NEW k \in 1..Len(choice'), NEW b \in 0..Buckets - 1, NEW m \in Prevs
       PROVE  Allowed(choice'[k][b][m], left' + k)
  <2>1. CASE k = 1
    BY <1>1, <1>2, <1>6, <1>8, <2>1
  <2>2. CASE k # 1
    <3>1. k - 1 \in 1..Len(choice) /\ k - 1 + 1 = k /\ left' + k = left + (k - 1)
      <4>1. Len(choice) \in Nat /\ k \in 1..Len(choice) + 1 /\ left \in Nat
        BY <1>2, <1>7, <1>8
      <4> QED
        BY <1>1, <2>2, <4>1
    <3>2. choice'[k] = choice[k - 1]
      BY <1>8, <3>1
    <3> QED
      BY <1>7, <3>1, <3>2
  <2> QED
    BY <2>1, <2>2
<1>12. PolicyMade'
  <2>1. /\ job'.slots # <<>> /\ job'.step # 0 /\ left' \in 0..Len(job'.slots)
        /\ ValuationTyped(terminal') /\ terminal'.flat = job'.flat
    BY <1>1, <1>10 DEF PolicyMade
  <2>2. choice' \in Seq([0..Buckets - 1 -> [Prevs' -> Mode]]) /\ Len(choice') = Len(job'.slots) - left'
    BY <1>1, <1>4, <1>8, <1>10
  <2>3. \A k \in 1..Len(choice'), b \in 0..Buckets - 1, m \in Prevs' : Allowed(choice[k][b][m], left + k)'
    <3> SUFFICES ASSUME NEW k \in 1..Len(choice'), NEW b \in 0..Buckets - 1, NEW m \in Prevs
                 PROVE  Allowed(choice[k][b][m], left + k)'
      BY <1>4
    <3>1. Allowed(choice'[k][b][m], left' + k)
      BY <1>11
    <3> QED
      BY <1>1, <3>1, Zenon DEF Allowed, Barred
  <2> QED
    BY <1>5, <2>1, <2>2, <2>3, Zenon DEF PolicyMade
<1>13. scale' \in Nat
  BY <1>1, <1>9
<1> QED
  BY <1>10, <1>12, <1>13

-----------------------------------------------------------------------------
\* One row more.

\* A mode that may be written in slot i: it exports on purpose only where that pays.
Pays(m, i) ==
    /\ m \in Mode
    /\ m = "Discharge" => job.slots[i].sell >= job.bar
    /\ m = "FeedIn" /\ floored => job.slots[i].sell >= job.floor
    /\ m \in ExportModes => soc >= job.site.min

\* The mode the roll follows is one the slot allows, below the floor as well.
LEMMA RolledIs ==
    ASSUME Prepared, PolicyMade, RollStarted, stage = "roll", soc \in Nat,
           NEW i \in 1..Len(job.slots)
    PROVE  Pays(RolledMode(i), i) /\ RolledMode(i) \in job.actions
PROOF
<1> DEFINE chosen == choice[i][ToIndex(soc)][prev]
<1>1. Working /\ left = 0 /\ prev \in Prevs
  BY DEF PolicyMade, RollStarted, Working
<1>2. ToIndex(soc) \in 0..Buckets - 1
  <2>1. soc \in Int
    OBVIOUS
  <2> QED
    BY <1>1, <2>1, IndexIs
<1>3. Len(job.slots) \in Nat /\ job.site.min \in Nat
  BY <1>1, WorkingIs
<1>4. Len(choice) = Len(job.slots)
  BY <1>1, <1>3 DEF PolicyMade
<1>5. chosen \in Mode /\ Allowed(chosen, i)
  <2>1. i \in 1..Len(choice) /\ left + i = i
    BY <1>1, <1>3, <1>4
  <2>2. choice[i] \in [0..Buckets - 1 -> [Prevs -> Mode]]
    BY <2>1 DEF PolicyMade
  <2> QED
    BY <1>1, <1>2, <2>1, <2>2 DEF PolicyMade
<1> HIDE DEF chosen
<1>6. /\ job.slots[i].sell \in Int /\ job.bar \in Int /\ job.floor \in Int
      /\ job.actions \in SUBSET Mode /\ "SelfUse" \in job.actions
  <2>1. job.slots \in Seq(Priced) /\ job.bar \in Int /\ job.floor \in Int
        /\ job.actions \in SUBSET Mode /\ "SelfUse" \in job.actions
    BY DEF Prepared, JobTyped
  <2>2. job.slots[i] \in Priced
    BY <2>1
  <2>3. job.slots[i].sell \in Int
    BY <2>2 DEF Priced
  <2> QED
    BY <2>1, <2>3
<1>7. CASE soc < job.site.min /\ chosen \in ExportModes
  <2>1. RolledMode(i) \in {"NoExport", "SelfUse"} /\ RolledMode(i) \in job.actions
    BY <1>6, <1>7 DEF RolledMode, RefillMode, chosen
  <2> QED
    BY <1>6, <2>1 DEF Pays, ExportModes
<1>8. CASE ~(soc < job.site.min /\ chosen \in ExportModes)
  <2>1. RolledMode(i) = chosen
    BY <1>8 DEF RolledMode, chosen
  <2>2. chosen \in ExportModes => soc >= job.site.min
    BY <1>3, <1>8
  <2>3. /\ chosen = "Discharge" => ~(job.slots[i].sell < job.bar)
        /\ chosen = "FeedIn" /\ floored => ~(job.slots[i].sell < job.floor)
    BY <1>5 DEF Allowed, Barred
  <2> QED
    BY <1>5, <1>6, <2>1, <2>2, <2>3 DEF Pays, Allowed
<1> QED
  BY <1>7, <1>8

\* What a plan keeps when a row is added to it, in the roll as in the plan that idles.
LEMMA ExtendedIs ==
    ASSUME PlanInv, stage \in {"roll", "idle"}, Len(plan) < Len(job.slots),
           NEW i, i = Len(plan) + 1, NEW m, Pays(m, i),
           NEW o, o = Simulate(i, m, soc, job.sun[i]), NEW gain \in Int,
           plan' = Append(plan, RowOf(i, m, o, gain)), profit' = profit + gain, soc' = o.soc_out,
           call' = call, job' = job, floored' = floored
    PROVE  /\ plan' \in Seq(Row) /\ soc' \in Nat
           /\ profit' = SumTo([k \in DOMAIN plan' |-> plan'[k].profit], Len(plan'))
           /\ \A k \in 2..Len(plan') : plan'[k].soc_before = plan'[k - 1].soc_after
           /\ Walked' /\ ReserveHeld' /\ ExportPays'
PROOF
<1> DEFINE row == RowOf(i, m, o, gain)
           q == Append(plan, row)
           n == Len(plan)
<1>1. /\ Prepared /\ plan \in Seq(Row) /\ soc \in Nat
      /\ profit = SumTo([k \in DOMAIN plan |-> plan[k].profit], Len(plan))
      /\ \A k \in 2..Len(plan) : plan[k].soc_before = plan[k - 1].soc_after
      /\ Len(plan) <= Len(job.slots) /\ soc >= Lowest(call) /\ soc <= call.site.max
      /\ plan # <<>> => soc = plan[Len(plan)].soc_after
  BY DEF PlanInv, PlanTypeOK, Derived, Walked, Prepared
<1>2. /\ job.slots \in Seq(Priced) /\ job.site.min >= Lowest(call) /\ job.site.min <= call.site.max
      /\ job.site.max = call.site.max /\ job.bar \in Int /\ job.floor \in Int
      /\ job.site.min \in Nat /\ job.site.max \in Nat
  BY <1>1 DEF Prepared, JobTyped, Site
<1>3. n \in Nat /\ Len(job.slots) \in Nat /\ i \in 1..Len(job.slots)
  BY <1>1, <1>2
<1>4. job.slots[i] \in Priced
  BY <1>2, <1>3
<1>5. job.slots[i].hour \in Nat /\ job.slots[i].sell \in Int
  <2>1. job.slots[i].hour \in 0..2 * Hours - 1 /\ job.slots[i].sell \in Int
    BY <1>4 DEF Priced
  <2> QED
    BY <2>1, InputAssumption
<1>6. /\ o.flows \in Flows /\ o.soc_out \in Nat /\ o.soc_out <= job.site.max
      /\ o.soc_out >= job.site.min \/ o.soc_out >= soc
  <2> DEFINE s == job.sun[i]
             at == soc
  <2>1. s \in Nat /\ at \in Nat
    BY <1>1, <1>3, SunsAre
  <2>2. o = Simulate(i, m, at, s)
    OBVIOUS
  <2> HIDE DEF s, at
  <2>3. /\ o.flows \in Flows /\ o.soc_out \in Nat /\ o.soc_out <= job.site.max
        /\ o.soc_out >= job.site.min \/ o.soc_out >= at
    BY <1>1, <1>3, <2>1, <2>2, SimulatedIs
  <2> QED
    BY <2>3 DEF at
<1>7. Lowest(call) \in Nat
  BY <1>1, LowestIs DEF Prepared
<1>8. o.soc_out >= Lowest(call) /\ o.soc_out <= call.site.max
  BY <1>1, <1>2, <1>6, <1>7
<1>9. /\ row.hour = job.slots[i].hour /\ row.mode = m /\ row.sell = job.slots[i].sell
      /\ row.soc_before = soc /\ row.soc_after = o.soc_out /\ row.profit = gain
      /\ row \in Row
  <2>1. row = [hour |-> job.slots[i].hour, mode |-> m, sell |-> job.slots[i].sell,
               soc_before |-> soc, soc_after |-> o.soc_out, flows |-> o.flows, profit |-> gain]
    BY DEF RowOf
  <2>2. m \in Mode
    BY DEF Pays
  <2> HIDE DEF row
  <2> QED
    BY <1>1, <1>5, <1>6, <2>1, <2>2 DEF Row
<1>10. plan' = q
  OBVIOUS
<1> HIDE DEF row
<1>11. /\ q \in Seq(Row) /\ Len(q) = n + 1 /\ \A k \in 1..n : q[k] = plan[k]
       /\ q[n + 1] = row
  BY <1>1, <1>9
<1> HIDE DEF q
<1>12. profit' = SumTo([k \in DOMAIN q |-> q[k].profit], Len(q))
  <2> DEFINE f == [k \in DOMAIN plan |-> plan[k].profit]
             g == [k \in DOMAIN q |-> q[k].profit]
  <2>1. \A k \in 1..n : f[k] \in Int /\ f[k] = g[k]
    <3> SUFFICES ASSUME NEW k \in 1..n PROVE f[k] \in Int /\ f[k] = g[k]
      OBVIOUS
    <3>1. k \in DOMAIN plan /\ k \in DOMAIN q /\ plan[k] \in Row /\ q[k] = plan[k]
      BY <1>1, <1>3, <1>11
    <3> QED
      BY <3>1 DEF Row
  <2>2. g[n + 1] = gain
    <3>1. n + 1 \in DOMAIN q
      BY <1>3, <1>11
    <3> QED
      BY <1>9, <1>11, <3>1
  <2>3. profit = SumTo(f, n)
    BY <1>1
  <2> HIDE DEF f, g
  <2>4. SumTo(f, n) = SumTo(g, n)
    BY <1>3, <2>1, SumSame
  <2>5. \A k \in 1..n + 1 : g[k] \in Int
    BY <1>3, <2>1, <2>2
  <2>6. SumTo(g, n + 1) = SumTo(g, n) + g[n + 1]
    <3> DEFINE N == n + 1
    <3>1. N \in Nat /\ N # 0 /\ N - 1 = n /\ \A k \in 1..N : g[k] \in Int
      BY <1>3, <2>5
    <3> HIDE DEF N
    <3>2. SumTo(g, N) = SumTo(g, N - 1) + g[N]
      BY <3>1, SumIs
    <3> QED
      BY <3>1, <3>2 DEF N
  <2>7. profit' = SumTo(g, n + 1)
    BY <2>2, <2>3, <2>4, <2>6
  <2>8. profit' = SumTo(g, Len(q))
    BY <1>11, <2>7
  <2> QED
    BY <2>8 DEF g
<1>13. \A k \in 2..Len(q) : q[k].soc_before = q[k - 1].soc_after
  <2> SUFFICES ASSUME NEW k \in 2..Len(q) PROVE q[k].soc_before = q[k - 1].soc_after
    OBVIOUS
  <2>1. CASE k = n + 1
    <3>1. n \in 1..n /\ plan # <<>> /\ k - 1 = n
      BY <1>1, <1>3, <2>1
    <3>2. q[n] = plan[n] /\ soc = plan[n].soc_after
      BY <1>1, <1>11, <3>1
    <3> QED
      BY <1>9, <1>11, <2>1, <3>1, <3>2
  <2>2. CASE k # n + 1
    <3>1. k \in 2..n /\ k \in 1..n /\ k - 1 \in 1..n
      BY <1>3, <1>11, <2>2
    <3>2. q[k] = plan[k] /\ q[k - 1] = plan[k - 1]
      BY <1>11, <3>1
    <3> QED
      BY <1>1, <3>1, <3>2
  <2> QED
    BY <2>1, <2>2
<1>14. Walked'
  <2>1. Len(plan') <= Len(job'.slots)
    BY <1>3, <1>10, <1>11
  <2>2. soc' >= Lowest(call)' /\ soc' <= call'.site.max
    BY <1>8 DEF Lowest
  <2>3. soc' = plan'[Len(plan')].soc_after
    BY <1>9, <1>10, <1>11
  <2> QED
    BY <2>1, <2>2, <2>3 DEF Walked
<1>15. ReserveHeld'
  <2> SUFFICES ASSUME NEW k \in 1..n + 1
               PROVE  q[k].soc_after >= Lowest(call) /\ q[k].soc_after <= call.site.max
    <3>1. Min({call'.soc, call'.site.max, call'.site.min + call'.policy.reserve}) = Lowest(call)
      BY Zenon DEF Lowest
    <3>2. DOMAIN plan' = 1..n + 1
      BY <1>10, <1>11
    <3> QED
      BY <1>10, <3>1, <3>2 DEF ReserveHeld
  <2>1. CASE k = n + 1
    BY <1>8, <1>9, <1>11, <2>1
  <2>2. CASE k # n + 1
    <3>1. k \in 1..n /\ k \in DOMAIN plan
      BY <1>1, <1>3, <2>2
    <3> QED
      BY <1>11, <3>1 DEF PlanInv, ReserveHeld, Lowest
  <2> QED
    BY <2>1, <2>2
<1>16. ExportPays'
  <2> SUFFICES ASSUME NEW k \in 1..n + 1
               PROVE  /\ q[k].mode = "Discharge" => q[k].sell >= job.bar
                      /\ q[k].mode = "FeedIn" /\ floored => q[k].sell >= job.floor
                      /\ q[k].mode \in ExportModes => q[k].soc_before >= job.site.min
    BY <1>10, <1>11 DEF ExportPays
  <2>1. CASE k = n + 1
    BY <1>9, <1>11, <2>1 DEF Pays
  <2>2. CASE k # n + 1
    <3>1. k \in 1..n /\ k \in DOMAIN plan
      BY <1>1, <1>3, <2>2
    <3> QED
      BY <1>11, <3>1 DEF PlanInv, ExportPays
  <2> QED
    BY <2>1, <2>2
<1> QED
  BY <1>6, <1>10, <1>11, <1>12, <1>13, <1>14, <1>15, <1>16

-----------------------------------------------------------------------------
\* Each step keeps the invariant.

\* What was derived stays while the call and the job do,
LEMMA DerivedSame ==
    ASSUME Derived, UNCHANGED <<call, job>>, stage # "called"
    PROVE  stage' # "called" => Derived'
PROOF
<1>1. JobTyped(call, job)'
  BY DEF Derived, JobTyped, Lowest
<1> QED
  BY <1>1 DEF Derived

\* and so does the policy while nothing of it is touched.
LEMMA PolicySame ==
    ASSUME PolicyMade, UNCHANGED <<call, job, left, value, choice, terminal, floored>>,
           stage' \in {"solve", "roll"} => stage \in {"solve", "roll"}
    PROVE  PolicyMade'
PROOF
<1>2. Prevs' = Prevs
  BY DEF Prevs
<1>3. CASE stage' \in {"solve", "roll"}
  <2>1. \A k \in 1..Len(choice), b \in 0..Buckets - 1, m \in Prevs : Allowed(choice[k][b][m], left + k)
    BY <1>3 DEF PolicyMade
  <2>2. \A k \in 1..Len(choice'), b \in 0..Buckets - 1, m \in Prevs' : Allowed(choice[k][b][m], left + k)'
    <3> SUFFICES ASSUME NEW k \in 1..Len(choice), NEW b \in 0..Buckets - 1, NEW m \in Prevs
                 PROVE  Allowed(choice[k][b][m], left + k)'
      BY <1>2
    <3>1. Allowed(choice[k][b][m], left + k)
      BY <2>1
    <3> QED
      BY <3>1, Zenon DEF Allowed, Barred
  <2>3. /\ job'.slots # <<>> /\ job'.step # 0 /\ left' \in 0..Len(job'.slots)
        /\ ValuationTyped(terminal') /\ terminal'.flat = job'.flat
        /\ value' \in [0..Buckets - 1 -> [Prevs' -> Int]]
        /\ choice' \in Seq([0..Buckets - 1 -> [Prevs' -> Mode]])
        /\ Len(choice') = Len(job'.slots) - left'
    BY <1>2, <1>3 DEF PolicyMade
  <2> QED
    BY <2>2, <2>3, Zenon DEF PolicyMade
<1>4. CASE stage' \notin {"solve", "roll"}
  BY <1>4 DEF PolicyMade
<1> QED
  BY <1>3, <1>4

LEMMA PrepareKeeps ==
    ASSUME PlanInv, Prepare
    PROVE  PlanInv'
PROOF
<1>1. /\ stage = "called" /\ job' = JobOf(call) /\ floored' = job'.held /\ call' = call
      /\ round' = round /\ prev' = prev /\ plan' = plan /\ profit' = profit
      /\ shortfall' = shortfall /\ baseline' = baseline
  BY DEF Prepare
<1>2. call \in Requests /\ plan = <<>> /\ PlanTypeOK
  BY <1>1 DEF PlanInv, Derived
<1>3. JobTyped(call, job') /\ (job'.slots # <<>> => ValuationTyped(Valuation(call, job')))
  <2> DEFINE j == job'
  <2>1. j = JobOf(call)
    BY <1>1
  <2> HIDE DEF j
  <2>2. JobTyped(call, j) /\ (j.slots # <<>> => ValuationTyped(Valuation(call, j)))
    BY <1>2, <2>1, JobIs
  <2> QED
    BY <2>2 DEF j
<1>4. JobTyped(call, job)'
  BY <1>1, <1>3 DEF JobTyped, Lowest
<1>5. Derived' \/ stage' = "called"
  BY <1>1, <1>2, <1>4 DEF Derived
<1>6. job'.held \in BOOLEAN /\ job'.site.min \in Nat /\ job'.slots \in Seq(Priced)
      /\ job'.site.min >= Lowest(call) /\ job'.site.min <= call.site.max
  BY <1>3 DEF JobTyped, Site
<1>7. ReserveHeld' /\ ExportPays'
  BY <1>1, <1>2 DEF ReserveHeld, ExportPays
<1>8. /\ stage' \in {"idle", "solve", "done"} /\ left' \in 0..Len(call'.series)
      /\ scale' \in Nat /\ soc' \in Nat /\ PolicyMade' /\ Walked'
  <2>1. CASE stage' = "done" /\ UNCHANGED <<left, value, choice, scale, terminal, soc>>
    BY <1>1, <1>2, <2>1 DEF PlanTypeOK, PolicyMade, Walked
  <2>2. CASE /\ stage' = "idle" /\ soc' = job'.site.min
             /\ UNCHANGED <<left, value, choice, scale, terminal>>
    <3>1. Lowest(call)' = Lowest(call)
      BY <1>1, Zenon DEF Lowest
    <3>2. Len(plan') <= Len(job'.slots) /\ plan' = <<>>
      BY <1>1, <1>2, <1>6
    <3>3. Walked'
      BY <1>1, <1>6, <2>2, <3>1, <3>2 DEF Walked
    <3> QED
      BY <1>1, <1>2, <1>6, <2>2, <3>3 DEF PlanTypeOK, PolicyMade
  <2>3. CASE /\ ~NothingToPlan(job') /\ ~NoEnvelope(job')
             /\ Solve(Valuation(call, job')) /\ UNCHANGED soc
    <3>1. Working'
      BY <1>1, <1>2, <1>4, <2>3 DEF Working, Prepared, NothingToPlan, NoEnvelope
    <3>2. ValuationTyped(Valuation(call, job')) /\ Valuation(call, job').flat = job'.flat
      BY <1>3, <2>3 DEF NothingToPlan, Valuation
    <3> DEFINE v == Valuation(call, job')
    <3> HIDE DEF v
    <3>3. ValuationTyped(v) /\ v.flat = job'.flat /\ Solve(v)
      BY <2>3, <3>2 DEF v
    <3>4. PolicyMade' /\ stage' = "solve" /\ scale' \in Nat /\ left' \in 0..Len(call'.series)
      BY <3>1, <3>3, SolveIs
    <3> QED
      BY <1>2, <2>3, <3>4 DEF Walked, PlanTypeOK
  <2> QED
    BY <2>1, <2>2, <2>3, Zenon DEF Prepare
<1>9. PlanTypeOK'
  BY <1>1, <1>2, <1>6, <1>8 DEF PlanTypeOK
<1>10. Derived' /\ RollStarted'
  BY <1>5, <1>8, <1>1, <1>2, <1>4 DEF Derived, RollStarted
<1> QED
  BY <1>7, <1>8, <1>9, <1>10 DEF PlanInv

LEMMA IdleSlotKeeps ==
    ASSUME PlanInv, IdleSlot
    PROVE  PlanInv'
PROOF
<1> DEFINE i == Len(plan) + 1
           o == Simulate(i, "StandBy", soc, job.sun[i])
<1>1. /\ stage = "idle" /\ Len(plan) < Len(job.slots)
      /\ plan' = Append(plan, RowOf(i, "StandBy", o, o.reward))
      /\ profit' = profit + o.reward /\ soc' = o.soc_out
      /\ UNCHANGED <<call, job, stage, round, left, value, choice, scale, terminal, floored,
                     prev, shortfall, baseline>>
  BY DEF IdleSlot
<1>2. /\ Prepared /\ plan \in Seq(Row) /\ soc \in Nat /\ job.slots \in Seq(Priced)
  BY <1>1 DEF PlanInv, PlanTypeOK, Derived, Prepared, JobTyped
<1>3. i \in 1..Len(job.slots)
  BY <1>1, <1>2
<1>4. Pays("StandBy", i)
  BY DEF Pays, Mode, ExportModes
<1>5. o.reward \in Int
  <2> DEFINE s == job.sun[i]
             at == soc
  <2>1. s \in Nat /\ at \in Nat
    BY <1>2, <1>3, SunsAre
  <2>2. o = Simulate(i, "StandBy", at, s)
    OBVIOUS
  <2> HIDE DEF s, at, o, i
  <2> QED
    BY <1>2, <1>3, <2>1, <2>2, SimulatedIs
<1>6. /\ plan' \in Seq(Row) /\ soc' \in Nat
      /\ profit' = SumTo([k \in DOMAIN plan' |-> plan'[k].profit], Len(plan'))
      /\ \A k \in 2..Len(plan') : plan'[k].soc_before = plan'[k - 1].soc_after
      /\ Walked' /\ ReserveHeld' /\ ExportPays'
  <2> DEFINE m == "StandBy"
             gain == o.reward
  <2>1. o = Simulate(i, m, soc, job.sun[i]) /\ i = Len(plan) + 1 /\ gain \in Int /\ Pays(m, i)
    BY <1>4, <1>5
  <2>2. plan' = Append(plan, RowOf(i, m, o, gain)) /\ profit' = profit + gain /\ soc' = o.soc_out
        /\ call' = call /\ job' = job /\ floored' = floored /\ stage \in {"roll", "idle"}
        /\ Len(plan) < Len(job.slots)
    BY <1>1
  <2> HIDE DEF i, o, m, gain
  <2> QED
    BY <2>1, <2>2, ExtendedIs
<1>7. PlanTypeOK'
  BY <1>1, <1>6 DEF PlanInv, PlanTypeOK
<1>8. Derived' /\ PolicyMade' /\ RollStarted'
  <2>1. PolicyMade'
    BY <1>1, PolicySame DEF PlanInv
  <2>2. Derived'
    BY <1>1, DerivedSame DEF PlanInv
  <2> QED
    BY <1>1, <2>1, <2>2 DEF RollStarted
<1> QED
  BY <1>6, <1>7, <1>8 DEF PlanInv

LEMMA SolveSlotKeeps ==
    ASSUME PlanInv, SolveSlot
    PROVE  PlanInv'
PROOF
<1>1. /\ stage = "solve"
      /\ UNCHANGED <<call, job, stage, round, terminal, floored, soc, prev, plan, profit, shortfall, baseline>>
  BY DEF SolveSlot
<1>2. Prepared /\ PolicyMade /\ scale \in Nat /\ left \in 0..Len(call.series)
  BY <1>1 DEF PlanInv, PlanTypeOK, Derived, Prepared
<1>3. PolicyMade' /\ scale' \in Nat /\ left' \in 0..left
  BY <1>2, SolvesSlot
<1>4. left' \in 0..Len(call'.series)
  <2>1. Len(call.series) \in Nat
    <3>1. call.series \in Seq(Priced)
      BY <1>2, CallIs DEF Prepared
    <3> QED
      BY <3>1
  <2> QED
    BY <1>1, <1>2, <1>3, <2>1
<1>5. PlanTypeOK'
  BY <1>1, <1>3, <1>4 DEF PlanInv, PlanTypeOK
<1>6. Derived' /\ RollStarted' /\ Walked'
  BY <1>1 DEF PlanInv, Derived, JobTyped, Lowest, RollStarted, Walked
<1>7. ReserveHeld' /\ ExportPays'
  BY <1>1 DEF PlanInv, ReserveHeld, ExportPays
<1> QED
  BY <1>3, <1>5, <1>6, <1>7 DEF PlanInv

LEMMA StartRollKeeps ==
    ASSUME PlanInv, StartRoll
    PROVE  PlanInv'
PROOF
<1>1. /\ stage = "solve" /\ left = 0 /\ stage' = "roll"
      /\ soc' = Smaller(call.site.max, call.soc)
      /\ prev' = IF call.mode \in job.actions THEN call.mode ELSE NoPrevious
      /\ plan' = <<>> /\ profit' = 0
      /\ UNCHANGED <<call, job, round, left, value, choice, scale, terminal, floored, shortfall, baseline>>
  BY DEF StartRoll
<1>2. Prepared /\ PolicyMade /\ PlanTypeOK
  BY <1>1 DEF PlanInv, Derived, Prepared
<1>3. /\ job.actions \in SUBSET Mode /\ job.slots \in Seq(Priced)
      /\ call.soc \in Nat /\ call.site.max \in Nat
      /\ Lowest(call) \in Nat /\ Lowest(call) <= call.soc /\ Lowest(call) <= call.site.max
  BY <1>2, CallIs, LowestIs DEF Prepared, JobTyped
<1>4. soc' \in Nat /\ soc' >= Lowest(call) /\ soc' <= call.site.max
  BY <1>1, <1>3 DEF Smaller
<1>5. prev' \in Prevs /\ prev' \in Mode \cup {NoPrevious}
  BY <1>1, <1>3 DEF Prevs
<1>6. PolicyMade' /\ RollStarted' /\ Derived'
  <2>1. PolicyMade'
    BY <1>1, <1>2, PolicySame
  <2>2. Derived'
    BY <1>1, DerivedSame DEF PlanInv
  <2>3. RollStarted'
    BY <1>1, <1>5 DEF RollStarted, Prevs
  <2> QED
    BY <2>1, <2>2, <2>3
<1>7. profit' = SumTo([k \in DOMAIN plan' |-> plan'[k].profit], Len(plan'))
  <2> DEFINE f == [k \in DOMAIN plan' |-> plan'[k].profit]
  <2> HIDE DEF f
  <2>1. SumTo(f, 0) = 0
    BY SumIs
  <2>2. Len(plan') = 0
    BY <1>1
  <2> QED
    BY <1>1, <2>1, <2>2 DEF f
<1>8. PlanTypeOK'
  BY <1>1, <1>2, <1>4, <1>5, <1>7 DEF PlanTypeOK
<1>9. Walked' /\ ReserveHeld' /\ ExportPays'
  <2>1. Lowest(call)' = Lowest(call)
    BY <1>1, Zenon DEF Lowest
  <2>2. Len(plan') <= Len(job'.slots)
    BY <1>1, <1>3
  <2> QED
    BY <1>1, <1>4, <2>1, <2>2 DEF Walked, ReserveHeld, ExportPays
<1> QED
  BY <1>6, <1>8, <1>9 DEF PlanInv

LEMMA RollSlotKeeps ==
    ASSUME PlanInv, RollSlot
    PROVE  PlanInv'
PROOF
<1> DEFINE i == Len(plan) + 1
           m == RolledMode(i)
           o == Simulate(i, m, soc, job.sun[i])
           gain == o.reward - Penalty(prev, m, o.flows)
<1>1. /\ stage = "roll" /\ Len(plan) < Len(job.slots)
      /\ plan' = Append(plan, RowOf(i, m, o, gain))
      /\ profit' = profit + gain /\ soc' = o.soc_out /\ prev' = m
      /\ UNCHANGED <<call, job, stage, round, left, value, choice, scale, terminal, floored, shortfall, baseline>>
  BY DEF RollSlot
<1>2. /\ Prepared /\ PolicyMade /\ RollStarted
      /\ plan \in Seq(Row) /\ soc \in Nat /\ job.slots \in Seq(Priced)
  BY <1>1 DEF PlanInv, PlanTypeOK, Derived, Prepared, JobTyped
<1>3. i \in 1..Len(job.slots)
  BY <1>1, <1>2
<1>4. Pays(m, i) /\ m \in job.actions
  <2> HIDE DEF i
  <2> QED
    BY <1>1, <1>2, <1>3, RolledIs
<1>5. gain \in Int
  <2> DEFINE s == job.sun[i]
             at == soc
             c == call.policy.penalty
             t == Throughput(o.flows)
  <2>1. s \in Nat /\ at \in Nat
    BY <1>2, <1>3, SunsAre
  <2>2. o = Simulate(i, m, at, s)
    OBVIOUS
  <2> HIDE DEF s, at, o, m, i
  <2>3. o.reward \in Int /\ t \in Nat
    BY <1>2, <1>3, <2>1, <2>2, SimulatedIs
  <2>4. c \in Nat
    BY <1>2, CallIs DEF Prepared, Policy
  <2> HIDE DEF c, t
  <2>5. c * t \in Nat
    BY <2>3, <2>4
  <2>6. Penalty(prev, m, o.flows) \in Nat
    BY <2>5 DEF Penalty, c, t
  <2> QED
    BY <2>3, <2>6
<1>6. /\ plan' \in Seq(Row) /\ soc' \in Nat
      /\ profit' = SumTo([k \in DOMAIN plan' |-> plan'[k].profit], Len(plan'))
      /\ \A k \in 2..Len(plan') : plan'[k].soc_before = plan'[k - 1].soc_after
      /\ Walked' /\ ReserveHeld' /\ ExportPays'
  <2>1. o = Simulate(i, m, soc, job.sun[i]) /\ i = Len(plan) + 1
    OBVIOUS
  <2>2. plan' = Append(plan, RowOf(i, m, o, gain)) /\ profit' = profit + gain /\ soc' = o.soc_out
        /\ call' = call /\ job' = job /\ floored' = floored /\ stage \in {"roll", "idle"}
        /\ Len(plan) < Len(job.slots)
    BY <1>1
  <2> HIDE DEF i, o, m, gain
  <2> QED
    BY <1>4, <1>5, <2>1, <2>2, ExtendedIs
<1>7. prev' \in Prevs /\ prev' \in Mode \cup {NoPrevious}
  BY <1>1, <1>4 DEF Prevs, Pays
<1> HIDE DEF i, m, o, gain
<1>8. PlanTypeOK'
  BY <1>1, <1>6, <1>7 DEF PlanInv, PlanTypeOK
<1>9. Derived' /\ PolicyMade' /\ RollStarted'
  <2>1. PolicyMade'
    BY <1>1, <1>2, PolicySame
  <2>2. Derived'
    BY <1>1, DerivedSame DEF PlanInv
  <2>3. RollStarted'
    BY <1>1, <1>2, <1>7 DEF RollStarted, Prevs
  <2> QED
    BY <2>1, <2>2, <2>3
<1> QED
  BY <1>6, <1>8, <1>9 DEF PlanInv

\* A round that begins again keeps the plan it had, until it starts to roll.
LEMMA AgainKeeps ==
    ASSUME PlanInv, Rolled, NEW v, ValuationTyped(v), v.flat = job.flat, Solve(v),
           UNCHANGED <<call, job, soc, prev, plan, profit>>,
           floored' \in {floored, FALSE}, round' \in {"first", "plain", "precharge"},
           shortfall' \in Nat, baseline' \in Nat \cup {-1}
    PROVE  PlanInv'
PROOF
<1>1. Prepared /\ PolicyMade /\ PlanTypeOK /\ stage = "roll"
  BY DEF PlanInv, Derived, Prepared, Rolled
<1>2. job.slots # <<>> /\ job.step # 0
  BY <1>1 DEF PolicyMade
<1>3. Working'
  BY <1>1, <1>2 DEF Working, Prepared, JobTyped, Lowest
<1>4. PolicyMade' /\ stage' = "solve" /\ scale' \in Nat /\ left' \in 0..Len(call'.series)
  <2>1. v.flat = job'.flat
    OBVIOUS
  <2> QED
    BY <1>3, <2>1, SolveIs
<1>5. PlanTypeOK'
  BY <1>1, <1>4 DEF PlanTypeOK
<1>6. Derived' /\ RollStarted' /\ Walked'
  BY <1>3, <1>4 DEF Working, Prepared, Derived, RollStarted, Walked
<1>7. ReserveHeld' /\ ExportPays'
  <2>1. call' = call /\ job' = job /\ plan' = plan /\ (floored' = floored \/ floored' = FALSE)
    OBVIOUS
  <2>2. ReserveHeld'
    BY <2>1 DEF PlanInv, ReserveHeld
  <2>3. ExportPays'
    BY <2>1 DEF PlanInv, ExportPays
  <2> QED
    BY <2>2, <2>3
<1> QED
  BY <1>4, <1>5, <1>6, <1>7 DEF PlanInv

LEMMA DropFloorKeeps ==
    ASSUME PlanInv, DropFloor
    PROVE  PlanInv'
PROOF
<1>1. /\ Rolled /\ floored' = FALSE /\ round' = "plain" /\ Solve(terminal)
      /\ UNCHANGED <<call, job, soc, prev, plan, profit, shortfall, baseline>>
  BY DEF DropFloor
<1>2. ValuationTyped(terminal) /\ terminal.flat = job.flat /\ shortfall \in Nat /\ baseline \in Nat \cup {-1}
  BY <1>1 DEF PlanInv, PlanTypeOK, PolicyMade, Rolled
<1> QED
  BY <1>1, <1>2, AgainKeeps

\* The peak of a rolled plan is a charge.
LEMMA PeakIs ==
    ASSUME PlanInv, Rolled
    PROVE  Peak \in Int
PROOF
<1>1. Prepared /\ plan \in Seq(Row) /\ job.slots # <<>> /\ job.slots \in Seq(Priced)
      /\ Len(plan) = Len(job.slots)
  BY DEF PlanInv, PlanTypeOK, PolicyMade, Derived, Rolled, Prepared, JobTyped
<1>2. /\ Len(plan) \in Nat \ {0} /\ DOMAIN plan = 1..Len(plan)
      /\ \A k \in DOMAIN plan : plan[k].soc_after \in Nat
  <2>1. \A k \in DOMAIN plan : plan[k] \in Row
    BY <1>1
  <2> QED
    BY <1>1, <2>1 DEF Row
<1> DEFINE after == [k \in DOMAIN plan |-> plan[k].soc_after]
           S == {after[k] : k \in DOMAIN plan}
<1>3. S \in SUBSET Int /\ S # {}
  BY <1>2
<1>4. IsFiniteSet(S)
  <2>1. 1 \in Int /\ Len(plan) \in Int
    BY <1>2
  <2>2. IsFiniteSet(DOMAIN plan)
    BY <1>2, <2>1, FS_Interval
  <2> HIDE DEF after
  <2> QED
    BY <2>2, FiniteImage
<1>5. PlanPeak \in Int
  <2>1. PlanPeak = Max(S)
    <3>1. {plan[k].soc_after : k \in DOMAIN plan} = S
      OBVIOUS
    <3> QED
      BY <3>1 DEF PlanPeak
  <2> HIDE DEF S
  <2> QED
    BY <1>3, <1>4, <2>1, Largest
<1>6. job.peak \in Int /\ call.soc \in Int
  BY <1>1, CallIs DEF Prepared, JobTyped
<1> DEFINE a == job.peak
           b == call.soc
           c == PlanPeak
<1>7. a \in Int /\ b \in Int /\ c \in Int
  BY <1>5, <1>6
<1>8. Peak = Max({a, b, c})
  BY DEF Peak
<1> HIDE DEF a, b, c
<1>9. IsFiniteSet({a, b, c})
  <2>1. IsFiniteSet({a})
    BY FS_Singleton
  <2>2. IsFiniteSet({a} \cup {b})
    BY <2>1, FS_AddElement
  <2>3. IsFiniteSet(({a} \cup {b}) \cup {c})
    BY <2>2, FS_AddElement
  <2>4. {a, b, c} = ({a} \cup {b}) \cup {c}
    OBVIOUS
  <2> QED
    BY <2>3, <2>4
<1> DEFINE T == {a, b, c}
<1>10. T \in SUBSET Int /\ T # {} /\ IsFiniteSet(T)
  BY <1>7, <1>9
<1>11. Peak = Max(T)
  BY <1>8
<1> HIDE DEF T
<1> QED
  BY <1>10, <1>11, Largest

LEMMA PrechargeKeeps ==
    ASSUME PlanInv, Precharge
    PROVE  PlanInv'
PROOF
<1>1. /\ Rolled /\ Precharges /\ round' = "precharge" /\ shortfall' = job.target - Peak
      /\ baseline' = soc /\ Solve(Tiered(terminal))
      /\ UNCHANGED <<call, job, floored, soc, prev, plan, profit>>
  BY DEF Precharge, Settled
<1>2. /\ Prepared /\ ValuationTyped(terminal) /\ terminal.flat = job.flat /\ soc \in Nat
  BY <1>1 DEF PlanInv, PlanTypeOK, PolicyMade, Derived, Rolled, Prepared
<1>3. Peak \in Int
  BY <1>1, PeakIs
<1>4. job.target \in Nat /\ job.flat \in Int /\ call.buy_average \in Int /\ job.site.min \in Nat
  BY <1>2, CallIs DEF Prepared, JobTyped, Site
<1>5. shortfall' \in Nat
  BY <1>1, <1>3, <1>4 DEF Precharges
<1>6. PrechargeTier \in Tiers /\ Covers(PrechargeTier, job.flat)
  <2>1. Wear \in Nat /\ Peak < job.target
    BY <1>1, InputAssumption DEF Precharges
  <2>2. PrechargeTier.kwh \in Nat
    BY <1>2, <1>3, <1>4, <2>1 DEF PrechargeTier, Over
  <2>3. PrechargeTier.price \in Int /\ PrechargeTier.price >= job.flat
    BY <1>4, <2>1 DEF PrechargeTier, PrechargeValue, Larger
  <2> QED
    BY <2>2, <2>3 DEF PrechargeTier, Tiers, Covers
<1> DEFINE v == Tiered(terminal)
<1>7. ValuationTyped(v) /\ v.flat = job.flat
  <2>1. v.reserve = terminal.reserve /\ v.flat = terminal.flat /\ v.precharge = PrechargeTier
    <3>1. terminal.flat \in Int
      BY <1>2 DEF ValuationTyped
    <3> QED
      BY DEF Tiered
  <2> HIDE DEF v
  <2> QED
    BY <1>2, <1>6, <2>1 DEF ValuationTyped
<1> HIDE DEF v
<1>8. Solve(v) /\ floored' \in {floored, FALSE} /\ round' \in {"first", "plain", "precharge"}
      /\ baseline' \in Nat \cup {-1}
  BY <1>1, <1>2 DEF v
<1> QED
  BY <1>1, <1>5, <1>7, <1>8, AgainKeeps

LEMMA RestKeeps ==
    ASSUME PlanInv, Finish \/ UNCHANGED planVars
    PROVE  PlanInv'
PROOF
<1>1. /\ UNCHANGED <<call, job, round, left, value, choice, scale, terminal, floored,
                     soc, prev, plan, profit, shortfall, baseline>>
      /\ stage' = "done" \/ stage' = stage
      /\ stage' = "done" => stage \in {"roll", "idle", "done"}
  BY DEF Finish, Settled, Rolled, Idled, planVars
<1>2. PlanTypeOK'
  BY <1>1 DEF PlanInv, PlanTypeOK
<1>3. Derived' /\ PolicyMade' /\ RollStarted' /\ Walked'
  <2>1. PolicyMade'
    BY <1>1, PolicySame DEF PlanInv
  <2>2. Derived'
    <3>1. CASE stage = "called"
      BY <1>1, <3>1 DEF PlanInv, Derived
    <3>2. CASE stage # "called"
      BY <1>1, <3>2, DerivedSame DEF PlanInv
    <3> QED
      BY <3>1, <3>2
  <2>3. RollStarted'
    BY <1>1 DEF PlanInv, RollStarted, Prevs
  <2>4. Walked'
    BY <1>1 DEF PlanInv, Walked, Lowest
  <2> QED
    BY <2>1, <2>2, <2>3, <2>4
<1>4. ReserveHeld' /\ ExportPays'
  BY <1>1 DEF PlanInv, ReserveHeld, ExportPays
<1> QED
  BY <1>2, <1>3, <1>4 DEF PlanInv

-----------------------------------------------------------------------------
\* The theorems.

\* The invariant holds of every call the planner is given: whatever it has made of it so
\* far, the policy follows what the job allows and the plan what the policy chose
\* (optimize_schedule, _run_dp, _forward_roll).
THEOREM PlanInvariant == PlanSpec => []PlanInv
PROOF
<1>1. PlanInit => PlanInv
  <2> SUFFICES ASSUME PlanInit PROVE PlanInv
    OBVIOUS
  <2>1. call.series \in Seq(Priced)
    BY CallIs DEF PlanInit
  <2>2. 0 \in 0..Len(call.series)
    BY <2>1
  <2>3. profit = SumTo([k \in DOMAIN plan |-> plan[k].profit], Len(plan))
    <3> DEFINE f == [k \in DOMAIN plan |-> plan[k].profit]
    <3> HIDE DEF f
    <3>1. SumTo(f, 0) = 0
      BY SumIs
    <3>2. Len(plan) = 0 /\ profit = 0
      BY DEF PlanInit
    <3> QED
      BY <3>1, <3>2 DEF f
  <2>4. PlanTypeOK
    <3>1. /\ stage = "called" /\ round = "first" /\ left = 0 /\ floored = FALSE
          /\ prev = NoPrevious /\ soc = 0 /\ shortfall = 0 /\ scale = 1 /\ baseline = -1 /\ plan = <<>>
      BY DEF PlanInit
    <3>2. plan \in Seq(Row) /\ {soc, shortfall, scale} \subseteq Nat
      BY <3>1
    <3>3. \A k \in 2..Len(plan) : plan[k].soc_before = plan[k - 1].soc_after
      BY <3>1
    <3> QED
      BY <2>2, <2>3, <3>1, <3>2, <3>3 DEF PlanTypeOK
  <2>5. Derived /\ PolicyMade /\ RollStarted /\ Walked /\ ReserveHeld /\ ExportPays
    BY DEF PlanInit, Derived, PolicyMade, RollStarted, Walked, ReserveHeld, ExportPays
  <2> QED
    BY <2>4, <2>5 DEF PlanInv
<1>2. PlanInv /\ [PlanNext]_planVars => PlanInv'
  <2> SUFFICES ASSUME PlanInv, [PlanNext]_planVars PROVE PlanInv'
    OBVIOUS
  <2>1. CASE Prepare
    BY <2>1, PrepareKeeps
  <2>2. CASE IdleSlot
    BY <2>2, IdleSlotKeeps
  <2>3. CASE SolveSlot
    BY <2>3, SolveSlotKeeps
  <2>4. CASE StartRoll
    BY <2>4, StartRollKeeps
  <2>5. CASE RollSlot
    BY <2>5, RollSlotKeeps
  <2>6. CASE DropFloor
    BY <2>6, DropFloorKeeps
  <2>7. CASE Precharge
    BY <2>7, PrechargeKeeps
  <2>8. CASE Finish \/ UNCHANGED planVars
    BY <2>8, RestKeeps
  <2> QED
    BY <2>1, <2>2, <2>3, <2>4, <2>5, <2>6, <2>7, <2>8 DEF PlanNext
<1> QED
  BY <1>1, <1>2, PTL DEF PlanSpec

\* No plan spends the reserve, and every plan is a chain of slots that adds up: the charge
\* stays at or above the minimum and the reserve on it, or what was measured where that is
\* less, for any prices, sun, load, policy and number of buckets (simulate_slot, _forward_roll).
THEOREM ReserveKept == PlanSpec => []PlanHolds
PROOF
<1>1. PlanInv => PlanHolds
  BY DEF PlanInv, PlanHolds
<1> QED
  BY <1>1, PlanInvariant, PTL

\* No plan of any call sends energy to the grid on purpose where it does not pay, nor from a
\* battery below the floor (_run_dp's bars, _forward_roll's refill).
THEOREM PaysToExport == PlanSpec => []ExportPays
PROOF
<1>1. PlanInv => ExportPays
  BY DEF PlanInv
<1> QED
  BY <1>1, PlanInvariant, PTL

\* Charge is worth less the more of it there is: whatever the two tiers of the valuation,
\* the next kWh left at the end of a plan is never worth more than the one below it
\* (_terminal_value's docstring: "the covering set only shrinks with height").
THEOREM WorthFalls == PlanSpec => []TerminalConcave
PROOF
<1>1. PlanInv => TerminalConcave
  <2> SUFFICES ASSUME PlanInv, stage = "roll", NEW k \in 2..call.site.max - job.site.min
               PROVE  Worth(job.site.min + k, terminal) - Worth(job.site.min + k - 1, terminal)
                        <= Worth(job.site.min + (k - 1), terminal) - Worth(job.site.min + (k - 1) - 1, terminal)
    BY DEF TerminalConcave
  <2> DEFINE e == k - 1
             low == job.site.min
             W(x) == TerminalWorth(x, terminal.reserve, terminal.precharge, terminal.flat)
  <2>1. ValuationTyped(terminal) /\ low \in Nat
    BY DEF PlanInv, PolicyMade, Derived, JobTyped, Site
  <2>2. k \in Nat /\ e \in Nat /\ e >= 1 /\ e + 1 = k
    OBVIOUS
  <2>3. /\ Over(low + k, low) = e + 1 /\ Over(low + k - 1, low) = e
        /\ Over(low + (k - 1), low) = e /\ Over(low + (k - 1) - 1, low) = e - 1
    BY <2>1, <2>2 DEF Over
  <2> DEFINE r == terminal.reserve
             p == terminal.precharge
             f == terminal.flat
  <2>4. r \in Tiers /\ p \in Tiers /\ f \in Int /\ Covers(r, f) /\ Covers(p, f)
    BY <2>1 DEF ValuationTyped
  <2> HIDE DEF e, r, p, f
  <2>5. TerminalWorth(e + 1, r, p, f) - TerminalWorth(e, r, p, f)
           <= TerminalWorth(e, r, p, f) - TerminalWorth(e - 1, r, p, f)
    BY <2>2, <2>4, WorthConcave
  <2> HIDE DEF low
  <2>6. /\ Worth(low + k, terminal) = TerminalWorth(e + 1, r, p, f)
        /\ Worth(low + k - 1, terminal) = TerminalWorth(e, r, p, f)
        /\ Worth(low + (k - 1), terminal) = TerminalWorth(e, r, p, f)
        /\ Worth(low + (k - 1) - 1, terminal) = TerminalWorth(e - 1, r, p, f)
    BY <2>3, Zenon DEF Worth, r, p, f, low
  <2> QED
    BY <2>5, <2>6 DEF low
<1> QED
  BY <1>1, PlanInvariant, PTL

================================================================================
