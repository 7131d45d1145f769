------------------------------ MODULE CommonLemmas ------------------------------
(***************************************************************************)
(* What the proofs of several modules rest on.  A lock's queue as a sequence: *)
(* its head holds the lock, the rest wait; a job's writes as a sequence: its   *)
(* head is the next one.  Induction, stated over sets: a set of naturals has a *)
(* least member, so a property has no first exception; and a function that is  *)
(* defined by recursion exists.  Flattening keeps every element.  Division, and *)
(* the members of a finite set by rank.                                      *)
(***************************************************************************)
EXTENDS Integers, SequencesExt, SequenceTheorems, FiniteSetTheorems, WellFoundedInduction,
        TLAPS

\* Releasing the lock removes the head of the queue and shifts the waiters up.
LEMMA RemoveHead ==
    ASSUME NEW S, NEW s \in Seq(S), s # <<>>
    PROVE  /\ RemoveAt(s, 1) \in Seq(S)
           /\ Len(RemoveAt(s, 1)) = Len(s) - 1
           /\ \A k \in 1..(Len(s) - 1) : RemoveAt(s, 1)[k] = s[k + 1]
PROOF
<1>1. SubSeq(s, 1, 0) = <<>>
  BY SubSeqEmpty
<1>2. Tail(s) = SubSeq(s, 2, Len(s))
  BY TailIsSubSeq
<1>3. /\ Tail(s) \in Seq(S)
      /\ Len(Tail(s)) = Len(s) - 1
      /\ \A k \in 1..Len(Tail(s)) : Tail(s)[k] = s[k + 1]
  BY HeadTailProperties
<1>4. RemoveAt(s, 1) = Tail(s)
  BY <1>1, <1>2, <1>3 DEF RemoveAt
<1> QED
  BY <1>3, <1>4

\* Asking for the lock adds a waiter at the end and moves nobody.
LEMMA AppendTail ==
    ASSUME NEW S, NEW s \in Seq(S), NEW e \in S
    PROVE  /\ Append(s, e) \in Seq(S)
           /\ Len(Append(s, e)) = Len(s) + 1
           /\ DOMAIN Append(s, e) = DOMAIN s \cup {Len(s) + 1}
           /\ \A k \in DOMAIN s : k # Len(s) + 1 /\ Append(s, e)[k] = s[k]
           /\ Append(s, e)[Len(s) + 1] = e
PROOF
  OBVIOUS

\* A sequence with one more element in front.
LEMMA ConsIs ==
    ASSUME NEW S, NEW e \in S, NEW s \in Seq(S), NEW t \in Seq(S),
           Len(t) = Len(s) + 1, t[1] = e, \A k \in 1..Len(s) : t[k + 1] = s[k]
    PROVE  <<e>> \o s = t /\ Head(t) = e /\ Tail(t) = s
PROOF
<1>1. <<e>> \in Seq(S) /\ Len(<<e>>) = 1
  OBVIOUS
<1>2. /\ <<e>> \o s \in Seq(S) /\ Len(<<e>> \o s) = Len(s) + 1
      /\ \A k \in 1..(Len(s) + 1) : (<<e>> \o s)[k] = IF k <= 1 THEN <<e>>[k] ELSE s[k - 1]
  BY <1>1, ConcatProperties
<1>3. \A k \in 1..Len(t) : (<<e>> \o s)[k] = t[k]
  <2>1. TAKE k \in 1..Len(t)
  <2>2. CASE k = 1
    BY <1>2, <2>2
  <2>3. CASE k # 1
    <3>1. k - 1 \in 1..Len(s) /\ t[(k - 1) + 1] = s[k - 1]
      BY <2>3
    <3> QED
      BY <1>2, <2>3, <3>1
  <2> QED
    BY <2>2, <2>3
<1>4. <<e>> \o s = t
  BY <1>2, <1>3, SeqEqual
<1>5. t # <<>>
  OBVIOUS
<1>6. /\ Head(t) = t[1] /\ Tail(t) \in Seq(S) /\ Len(Tail(t)) = Len(t) - 1
      /\ \A k \in 1..Len(Tail(t)) : Tail(t)[k] = t[k + 1]
  BY <1>5, HeadTailProperties
<1>7. Tail(t) = s
  BY <1>6, SeqEqual
<1> QED
  BY <1>4, <1>6, <1>7

-----------------------------------------------------------------------------
\* Induction.

\* A set of natural numbers has a least member.
LEMMA LeastNat ==
    ASSUME NEW T \in SUBSET Nat, T # {}
    PROVE  \E x \in T : \A y \in T : x <= y
PROOF
<1> DEFINE R == OpToRel(<, Nat)
<1>1. PICK x \in T : \A y \in T : ~(<<y, x>> \in R)
  <2>1. IsWellFoundedOn(R, Nat)
    BY NatLessThanWellFounded, Zenon
  <2> HIDE DEF R
  <2> QED
    BY <2>1, WFMin
<1>2. \A y \in T : ~(y < x)
  BY <1>1, Zenon DEF OpToRel
<1> QED
  BY <1>2

\* f follows the recursion: each value is a step from the one before it.
Iterates(f, base, step) == f[0] = base /\ \A n \in Nat : f[n + 1] = step[<<n, f[n]>>]

\* A recursion over the natural numbers defines a function.
LEMMA PrimitiveRecursion ==
    ASSUME NEW S, NEW base \in S, NEW step \in [Nat \X S -> S]
    PROVE  \E f \in [Nat -> S] : Iterates(f, base, step)
PROOF
<1> DEFINE Upto(n) == {g \in [0..n -> S] :
               g[0] = base /\ \A i \in 0..n : i # n => g[i + 1] = step[<<i, g[i]>>]}
<1>1. ASSUME NEW n \in Nat, NEW m \in Nat, NEW g \in Upto(n), NEW h \in Upto(m),
             NEW k \in 0..n, k \in 0..m
      PROVE  g[k] = h[k]
  <2> DEFINE T == {i \in Nat : i \in 0..n /\ i \in 0..m /\ g[i] # h[i]}
  <2> SUFFICES ASSUME T # {} PROVE FALSE
    BY <1>1
  <2>1. PICK i \in T : \A j \in T : i <= j
    BY LeastNat
  <2>2. i # 0
    OBVIOUS
  <2>3. /\ i - 1 \in Nat /\ i - 1 \in 0..n /\ i - 1 # n /\ i - 1 \in 0..m /\ i - 1 # m
        /\ (i - 1) + 1 = i /\ ~(i <= i - 1)
    BY <2>2
  <2>4. g[i - 1] = h[i - 1]
    BY <2>1, <2>3
  <2>5. g[i] = step[<<i - 1, g[i - 1]>>] /\ h[i] = step[<<i - 1, h[i - 1]>>]
    <3>1. g[(i - 1) + 1] = step[<<i - 1, g[i - 1]>>] /\ h[(i - 1) + 1] = step[<<i - 1, h[i - 1]>>]
      BY <2>3
    <3> QED
      BY <2>3, <3>1
  <2> QED
    BY <2>4, <2>5
<1>2. \A n \in Nat : Upto(n) # {}
  <2> DEFINE T == {n \in Nat : Upto(n) = {}}
  <2> SUFFICES ASSUME T # {} PROVE FALSE
    OBVIOUS
  <2>1. PICK n \in T : \A m \in T : n <= m
    BY LeastNat
  <2>2. n # 0
    <3>1. [i \in 0..0 |-> base] \in Upto(0)
      OBVIOUS
    <3> QED
      BY <3>1
  <2>3. n - 1 \in Nat /\ n - 1 \notin T
    <3>1. n \in Nat
      OBVIOUS
    <3>2. n - 1 \in Nat /\ ~(n <= n - 1)
      BY <2>2, <3>1
    <3> HIDE DEF T
    <3> QED
      BY <2>1, <3>2
  <2>4. PICK g \in Upto(n - 1) : TRUE
    BY <2>3
  <2> DEFINE h == [i \in 0..n |-> IF i = n THEN step[<<n - 1, g[n - 1]>>] ELSE g[i]]
  <2>5. \A i \in 0..n : i # n => i \in 0..(n - 1) /\ g[i] \in S
    BY <2>3, <2>4
  <2>6. n - 1 \in 0..(n - 1) /\ g[n - 1] \in S /\ 0 \in 0..n /\ 0 # n
    BY <2>2, <2>3, <2>4
  <2>7. step[<<n - 1, g[n - 1]>>] \in S
    BY <2>3, <2>6
  <2>8. h \in [0..n -> S]
    BY <2>5, <2>7
  <2>9. h[0] = base
    BY <2>4, <2>6
  <2>10. ASSUME NEW i \in 0..n, i # n
         PROVE  h[i + 1] = step[<<i, h[i]>>]
    <3>1. h[i] = g[i] /\ i \in 0..(n - 1) /\ i + 1 \in 0..n
      BY <2>5, <2>10
    <3>2. CASE i + 1 = n
      <4>1. i = n - 1
        BY <3>2
      <4> QED
        BY <3>1, <3>2, <4>1
    <3>3. CASE i + 1 # n
      <4>1. i # n - 1
        BY <3>3
      <4> QED
        BY <2>4, <3>1, <3>3, <4>1
    <3> QED
      BY <3>2, <3>3
  <2>11. h \in Upto(n)
    BY <2>8, <2>9, <2>10
  <2> QED
    BY <2>1, <2>11
<1> HIDE DEF Upto
<1> DEFINE f == [n \in Nat |-> (CHOOSE g \in Upto(n) : TRUE)[n]]
<1>3. ASSUME NEW n \in Nat, NEW g \in Upto(n), NEW k \in 0..n
      PROVE  f[k] = g[k]
  <2>1. k \in Nat /\ k \in 0..k
    BY <1>3
  <2>2. (CHOOSE h \in Upto(k) : TRUE) \in Upto(k)
    BY <1>2, <2>1
  <2>3. f[k] = (CHOOSE h \in Upto(k) : TRUE)[k]
    BY <2>1
  <2> QED
    BY <1>1, <2>1, <2>2, <2>3
<1>4. \A n \in Nat : f[n] \in S
  <2> TAKE n \in Nat
  <2>1. PICK g \in Upto(n) : TRUE
    BY <1>2
  <2>2. n \in 0..n /\ g \in [0..n -> S]
    BY <2>1 DEF Upto
  <2>3. f[n] = g[n]
    BY <1>3, <2>1, <2>2
  <2> QED
    BY <2>2, <2>3
<1>5. f[0] = base
  <2>1. PICK g \in Upto(0) : TRUE
    BY <1>2
  <2>2. 0 \in 0..0 /\ g[0] = base
    BY <2>1 DEF Upto
  <2>3. f[0] = g[0]
    BY <1>3, <2>1, <2>2
  <2> QED
    BY <2>2, <2>3
<1>6. ASSUME NEW n \in Nat
      PROVE  f[n + 1] = step[<<n, f[n]>>]
  <2>1. PICK g \in Upto(n + 1) : TRUE
    BY <1>2
  <2>2. n \in 0..(n + 1) /\ n + 1 \in 0..(n + 1) /\ n # n + 1 /\ n + 1 \in Nat
    OBVIOUS
  <2>3. g[n + 1] = step[<<n, g[n]>>]
    BY <2>1, <2>2 DEF Upto
  <2>4. f[n] = g[n] /\ f[n + 1] = g[n + 1]
    BY <1>3, <2>1, <2>2
  <2> QED
    BY <2>3, <2>4
<1>7. f \in [Nat -> S]
  BY <1>4
<1>8. Iterates(f, base, step)
  BY <1>5, <1>6 DEF Iterates
<1> QED
  BY <1>7, <1>8

\* f follows the recursion: a member's value depends on those of the members before it.
Follows(f, N, before, step) == \A n \in N : f[n] = step[<<n, {f[p] : p \in before[n]}>>]

\* A recursion along a well-founded order of a set defines a function.
LEMMA OrderedRecursion ==
    ASSUME NEW N, NEW before \in [N -> SUBSET N],
           \A S \in SUBSET N : S # {} => \E n \in S : before[n] \cap S = {},
           NEW V, NEW step \in [N \X SUBSET V -> V]
    PROVE  \E f \in [N -> V] : Follows(f, N, before, step)
PROOF
<1> DEFINE Closed(A) == \A a \in A : before[a] \subseteq A
           Solved(A) == {g \in [A -> V] : \A a \in A : g[a] = step[<<a, {g[p] : p \in before[a]}>>]}
<1>1. ASSUME NEW A \in SUBSET N, NEW B \in SUBSET N, Closed(A), Closed(B),
             NEW g \in Solved(A), NEW h \in Solved(B), NEW a \in A \cap B
      PROVE  g[a] = h[a]
  <2> DEFINE D == {d \in A \cap B : g[d] # h[d]}
  <2> SUFFICES ASSUME D # {} PROVE FALSE
    OBVIOUS
  <2>1. PICK d \in D : before[d] \cap D = {}
    OBVIOUS
  <2>2. before[d] \subseteq A \cap B
    BY <1>1
  <2>3. \A p \in before[d] : g[p] = h[p]
    BY <2>1, <2>2
  <2>4. {g[p] : p \in before[d]} = {h[p] : p \in before[d]}
    BY <2>3
  <2>5. g[d] = step[<<d, {g[p] : p \in before[d]}>>] /\ h[d] = step[<<d, {h[p] : p \in before[d]}>>]
    OBVIOUS
  <2> QED
    BY <2>4, <2>5
<1> DEFINE Part(A) == A \in SUBSET N /\ Closed(A) /\ Solved(A) # {}
           U == {n \in N : \E A \in SUBSET N : n \in A /\ Part(A)}
           G == [n \in U |-> LET A == CHOOSE A \in SUBSET N : n \in A /\ Part(A)
                             IN  (CHOOSE g \in Solved(A) : TRUE)[n]]
<1>2. ASSUME NEW A \in SUBSET N, Closed(A), NEW g \in Solved(A), NEW n \in A
      PROVE  n \in U /\ G[n] = g[n]
  <2> DEFINE B == CHOOSE B \in SUBSET N : n \in B /\ Part(B)
             h == CHOOSE h \in Solved(B) : TRUE
  <2>1. Part(A)
    BY <1>2
  <2>2. B \in SUBSET N /\ n \in B /\ Part(B)
    <3>1. \E X \in SUBSET N : n \in X /\ Part(X)
      BY <2>1
    <3> HIDE DEF Part
    <3> QED
      BY <3>1
  <2>3. h \in Solved(B)
    BY <2>2
  <2>4. n \in U
    BY <2>1
  <2>5. G[n] = h[n]
    BY <2>4
  <2> HIDE DEF B, h, G, U, Solved
  <2>6. Closed(B)
    BY <2>2
  <2> HIDE DEF Closed
  <2>7. h[n] = g[n]
    BY <1>1, <1>2, <2>2, <2>3, <2>6
  <2> QED
    BY <2>4, <2>5, <2>7
<1>3. \A n \in U : \E A \in SUBSET N : n \in A /\ Closed(A) /\ Solved(A) # {}
  OBVIOUS
<1>4. U \subseteq N /\ G = [n \in U |-> G[n]]
  <2>1. U \subseteq N
    OBVIOUS
  <2> HIDE DEF U, Part, Solved
  <2>2. G = [n \in U |-> G[n]]
    OBVIOUS
  <2> QED
    BY <2>1, <2>2
<1> HIDE DEF G, U
<1>5. ASSUME NEW n \in U
      PROVE  before[n] \subseteq U /\ G[n] \in V /\ G[n] = step[<<n, {G[p] : p \in before[n]}>>]
  <2>1. PICK A \in SUBSET N : n \in A /\ Closed(A) /\ Solved(A) # {}
    BY <1>3
  <2>2. PICK g \in Solved(A) : TRUE
    BY <2>1
  <2>3. \A a \in A : a \in U /\ G[a] = g[a]
    BY <1>2, <2>1, <2>2
  <2>4. before[n] \subseteq A
    BY <2>1
  <2>5. {G[p] : p \in before[n]} = {g[p] : p \in before[n]}
    BY <2>3, <2>4
  <2>6. g[n] \in V /\ g[n] = step[<<n, {g[p] : p \in before[n]}>>]
    BY <2>1, <2>2
  <2> QED
    BY <2>1, <2>3, <2>4, <2>5, <2>6
<1>6. Closed(U)
  BY <1>5
<1>7. G \in [U -> V]
  BY <1>4, <1>5
<1>8. U = N
  <2> SUFFICES ASSUME N \ U # {} PROVE FALSE
    BY <1>4
  <2>1. PICK n \in N \ U : before[n] \cap (N \ U) = {}
    OBVIOUS
  <2>2. before[n] \subseteq U /\ n \notin U
    BY <2>1
  <2> DEFINE A == U \cup {n}
             past == {G[p] : p \in before[n]}
             h == [a \in A |-> IF a \in U THEN G[a] ELSE step[<<n, past>>]]
  <2>3. A \in SUBSET N /\ Closed(A) /\ n \in A
    BY <1>4, <1>6, <2>2
  <2>4. past \in SUBSET V
    <3>1. \A p \in before[n] : G[p] \in V
      BY <1>5, <2>2
    <3> QED
      BY <3>1
  <2>5. step[<<n, past>>] \in V
    BY <2>4
  <2>6. h \in [A -> V]
    BY <1>5, <2>5
  <2>7. \A a \in U : h[a] = G[a]
    OBVIOUS
  <2>8. h[n] = step[<<n, past>>]
    BY <2>2
  <2> HIDE DEF h
  <2>9. ASSUME NEW a \in A
        PROVE  h[a] = step[<<a, {h[p] : p \in before[a]}>>]
    <3>1. before[a] \subseteq U
      BY <1>5, <2>2
    <3>2. {h[p] : p \in before[a]} = {G[p] : p \in before[a]}
      BY <2>7, <3>1
    <3>3. CASE a \in U
      BY <1>5, <2>7, <3>2, <3>3
    <3>4. CASE a = n
      BY <2>8, <3>2, <3>4
    <3> QED
      BY <3>3, <3>4
  <2>10. h \in Solved(A)
    BY <2>6, <2>9
  <2> HIDE DEF A, Closed, Solved
  <2>11. n \in U
    BY <1>2, <2>3, <2>10
  <2> QED
    BY <2>2, <2>11
<1>9. Follows(G, N, before, step)
  BY <1>5, <1>8 DEF Follows
<1> QED
  BY <1>7, <1>8, <1>9

\* The image of a finite set is finite.
LEMMA FiniteImage ==
    ASSUME NEW D, IsFiniteSet(D), NEW f
    PROVE  IsFiniteSet({f[d] : d \in D})
PROOF
<1> DEFINE T == {f[d] : d \in D}
           g == [d \in D |-> f[d]]
<1>1. g \in Surjection(D, T)
  BY DEF Surjection
<1> HIDE DEF g, T
<1>2. IsFiniteSet(T)
  BY <1>1, FS_Surjection
<1> QED
  BY <1>2 DEF T

\* A finite set of integers has a largest member.
LEMMA Largest ==
    ASSUME NEW S \in SUBSET Int, IsFiniteSet(S), S # {}
    PROVE  Max(S) \in S /\ \A x \in S : x <= Max(S)
PROOF
<1> DEFINE Bad(X) == X # {} /\ ~ \E m \in X : \A x \in X : x <= m
           T == {n \in Nat : \E X \in SUBSET Int : IsFiniteSet(X) /\ Cardinality(X) = n /\ Bad(X)}
<1>1. T = {}
  <2> SUFFICES ASSUME T # {} PROVE FALSE
    OBVIOUS
  <2>1. PICK n \in T : \A m \in T : n <= m
    BY LeastNat
  <2>2. PICK X \in SUBSET Int : IsFiniteSet(X) /\ Cardinality(X) = n /\ Bad(X)
    OBVIOUS
  <2>3. PICK e \in X : TRUE
    BY <2>2
  <2> DEFINE Y == X \ {e}
  <2>4. IsFiniteSet(Y) /\ Cardinality(Y) = n - 1 /\ n \in Nat /\ Y \in SUBSET Int
    BY <2>2, <2>3, FS_RemoveElement
  <2>5. Cardinality(Y) \in Nat /\ ~(n <= n - 1)
    BY <2>4, FS_CardinalityType
  <2>6. n - 1 \notin T
    <3> HIDE DEF T
    <3> QED
      BY <2>1, <2>5
  <2>7. ~Bad(Y)
    BY <2>4, <2>5, <2>6
  <2>8. CASE Y = {}
    BY <2>2, <2>3, <2>8
  <2>9. CASE Y # {}
    <3>1. PICK m \in Y : \A x \in Y : x <= m
      BY <2>7, <2>9
    <3>2. e \in Int /\ m \in Int /\ \A x \in X : x \in Int /\ (x = e \/ x <= m)
      BY <2>2, <2>3, <2>4, <3>1
    <3>3. CASE e <= m
      BY <2>2, <3>1, <3>2, <3>3
    <3>4. CASE ~(e <= m)
      <4>1. \A x \in X : x <= e
        BY <3>2, <3>4
      <4> QED
        BY <2>2, <2>3, <4>1
    <3> QED
      BY <3>3, <3>4
  <2> QED
    BY <2>8, <2>9
<1>2. Cardinality(S) \in Nat
  BY FS_CardinalityType
<1>3. ~Bad(S)
  BY <1>1, <1>2
<1>4. \E m \in S : \A x \in S : m >= x
  BY <1>3
<1> QED
  BY <1>4 DEF Max

\* What becomes of the two parts of a joined sequence.
Joins(s, t, u) ==
    /\ \A k \in 1..Len(s) : k \in 1..Len(u) /\ u[k] = s[k]
    /\ \A k \in 1..Len(t) : Len(s) + k \in 1..Len(u) /\ u[Len(s) + k] = t[k]

\* Joining two sequences loses no element of either.
LEMMA JoinHas ==
    ASSUME NEW S, NEW s \in Seq(S), NEW t \in Seq(S)
    PROVE  s \o t \in Seq(S) /\ Joins(s, t, s \o t)
PROOF
<1>1. /\ s \o t \in Seq(S) /\ Len(s \o t) = Len(s) + Len(t)
      /\ \A i \in 1..(Len(s) + Len(t)) : (s \o t)[i] = IF i <= Len(s) THEN s[i] ELSE t[i - Len(s)]
  BY ConcatProperties
<1>2. Len(s) \in Nat /\ Len(t) \in Nat
  OBVIOUS
<1>3. ASSUME NEW k \in 1..Len(s)
      PROVE  k \in 1..Len(s \o t) /\ (s \o t)[k] = s[k]
  BY <1>1, <1>2, <1>3
<1>4. ASSUME NEW k \in 1..Len(t)
      PROVE  Len(s) + k \in 1..Len(s \o t) /\ (s \o t)[Len(s) + k] = t[k]
  <2>1. /\ Len(s) + k \in 1..(Len(s) + Len(t)) /\ ~(Len(s) + k <= Len(s))
        /\ (Len(s) + k) - Len(s) = k
    BY <1>2, <1>4
  <2> QED
    BY <1>1, <2>1
<1> QED
  BY <1>1, <1>3, <1>4 DEF Joins

-----------------------------------------------------------------------------
\* Flattening a sequence of sequences loses no element.
LEMMA Flattened ==
    ASSUME NEW S, NEW seqs \in Seq(Seq(S)), Len(seqs) # 0
    PROVE  /\ FlattenSeq(seqs) \in Seq(S)
           /\ \A i \in 1..Len(seqs) : \A k \in 1..Len(seqs[i]) :
                 \E j \in 1..Len(FlattenSeq(seqs)) : FlattenSeq(seqs)[j] = seqs[i][k]
PROOF
<1> DEFINE n == Len(seqs)
           step == [x \in Nat \X Seq(S) |-> IF x[1] = 0 THEN seqs[1]
                                            ELSE IF x[1] < n THEN x[2] \o seqs[x[1] + 1] ELSE x[2]]
           Flattens(f) == f = [i \in 1..n |-> IF i = 1 THEN seqs[i] ELSE f[i - 1] \o seqs[i]]
           flat == CHOOSE f : Flattens(f)
<1>1. n \in Nat /\ n >= 1 /\ \A i \in 1..n : seqs[i] \in Seq(S)
  OBVIOUS
<1>2. step \in [Nat \X Seq(S) -> Seq(S)]
  <2>1. ASSUME NEW i \in Nat, NEW s \in Seq(S)
        PROVE  (IF i = 0 THEN seqs[1] ELSE IF i < n THEN s \o seqs[i + 1] ELSE s) \in Seq(S)
    <3>1. CASE i = 0
      BY <1>1, <3>1
    <3>2. CASE i # 0 /\ i < n
      <4>1. i + 1 \in 1..n
        BY <1>1, <3>2
      <4>2. seqs[i + 1] \in Seq(S)
        BY <1>1, <4>1
      <4>3. s \o seqs[i + 1] \in Seq(S)
        BY <4>2, ConcatProperties
      <4> QED
        BY <3>2, <4>3
    <3>3. CASE i # 0 /\ ~(i < n)
      BY <3>3
    <3> QED
      BY <3>1, <3>2, <3>3
  <2> QED
    BY <2>1
<1>3. <<>> \in Seq(S)
  OBVIOUS
<1> HIDE DEF n, step
<1>4. PICK f \in [Nat -> Seq(S)] : Iterates(f, <<>>, step)
  BY <1>2, <1>3, PrimitiveRecursion
<1>5. ASSUME NEW i \in 1..n
      PROVE  f[i] = IF i = 1 THEN seqs[i] ELSE f[i - 1] \o seqs[i]
  <2>1. i - 1 \in Nat /\ (i - 1) + 1 = i
    BY <1>1
  <2>2. f[i] = step[<<i - 1, f[i - 1]>>]
    <3>1. f[(i - 1) + 1] = step[<<i - 1, f[i - 1]>>]
      BY <1>4, <2>1 DEF Iterates
    <3> QED
      BY <2>1, <3>1
  <2>3. f[i - 1] \in Seq(S)
    BY <1>4, <2>1
  <2>4. f[i] = IF i - 1 = 0 THEN seqs[1]
               ELSE IF i - 1 < n THEN f[i - 1] \o seqs[(i - 1) + 1] ELSE f[i - 1]
    BY <2>1, <2>2, <2>3 DEF step
  <2> QED
    BY <1>1, <2>1, <2>4
<1>6. Flattens([i \in 1..n |-> f[i]])
  <2> DEFINE g == [i \in 1..n |-> f[i]]
  <2>1. ASSUME NEW i \in 1..n
        PROVE  f[i] = IF i = 1 THEN seqs[i] ELSE g[i - 1] \o seqs[i]
    <3>1. i # 1 => i - 1 \in 1..n
      BY <1>1
    <3> QED
      BY <1>5, <3>1
  <2> QED
    BY <2>1
<1> HIDE DEF Flattens
<1>7. Flattens(flat)
  BY <1>6
<1> HIDE DEF flat
<1>8. \A i \in 1..n : flat[i] = IF i = 1 THEN seqs[i] ELSE flat[i - 1] \o seqs[i]
  BY <1>7 DEF Flattens
<1>9. FlattenSeq(seqs) = flat[n]
  BY DEF FlattenSeq, flat, Flattens, n
<1> DEFINE Whole(i) == /\ flat[i] \in Seq(S)
                       /\ \A h \in 1..i : \A k \in 1..Len(seqs[h]) :
                              \E j \in 1..Len(flat[i]) : flat[i][j] = seqs[h][k]
           T == {i \in Nat : i \in 1..n /\ ~Whole(i)}
<1>10. T = {}
  <2> SUFFICES ASSUME T # {} PROVE FALSE
    OBVIOUS
  <2>1. PICK i \in T : \A j \in T : i <= j
    BY LeastNat
  <2>2. i \in 1..n /\ ~Whole(i)
    OBVIOUS
  <2>3. i # 1
    <3>1. CASE i = 1
      <4>1. flat[1] = seqs[1] /\ seqs[1] \in Seq(S)
        BY <1>1, <1>8
      <4>2. \A h \in 1..1 : h = 1
        OBVIOUS
      <4> QED
        BY <2>2, <3>1, <4>1, <4>2
    <3> QED
      BY <3>1
  <2>4. i - 1 \in 1..n /\ ~(i <= i - 1) /\ i - 1 \in Nat
    BY <1>1, <2>2, <2>3
  <2>5. Whole(i - 1)
    <3>1. i - 1 \notin T
      BY <2>1, <2>4
    <3> QED
      BY <2>4, <3>1
  <2>6. flat[i] = flat[i - 1] \o seqs[i] /\ seqs[i] \in Seq(S) /\ flat[i - 1] \in Seq(S)
    BY <1>1, <1>8, <2>2, <2>3, <2>5
  <2>7. /\ flat[i] \in Seq(S)
        /\ \A k \in 1..Len(flat[i - 1]) :
               k \in 1..Len(flat[i]) /\ flat[i][k] = flat[i - 1][k]
        /\ \A k \in 1..Len(seqs[i]) :
               Len(flat[i - 1]) + k \in 1..Len(flat[i]) /\ flat[i][Len(flat[i - 1]) + k] = seqs[i][k]
    <3> DEFINE s == flat[i - 1]
               t == seqs[i]
    <3>1. s \in Seq(S) /\ t \in Seq(S)
      BY <2>6
    <3>2. flat[i] = s \o t
      BY <2>6
    <3>3. s \o t \in Seq(S) /\ Joins(s, t, s \o t)
      <4> HIDE DEF s, t
      <4> QED
        BY <3>1, JoinHas
    <3> QED
      BY <3>2, <3>3 DEF Joins
  <2>8. ASSUME NEW h \in 1..i, NEW k \in 1..Len(seqs[h])
        PROVE  \E j \in 1..Len(flat[i]) : flat[i][j] = seqs[h][k]
    <3>1. CASE h = i
      BY <2>7, <2>8, <3>1
    <3>2. CASE h # i
      <4>1. h \in 1..(i - 1)
        BY <2>4, <3>2
      <4>2. PICK j \in 1..Len(flat[i - 1]) : flat[i - 1][j] = seqs[h][k]
        BY <2>5, <4>1
      <4>3. j \in 1..Len(flat[i]) /\ flat[i][j] = flat[i - 1][j]
        BY <2>7
      <4> QED
        BY <4>2, <4>3
    <3> QED
      BY <3>1, <3>2
  <2> QED
    BY <2>2, <2>7, <2>8
<1>11. Whole(n)
  <2>1. n \in Nat /\ n \in 1..n
    BY <1>1
  <2>2. n \notin T
    BY <1>10
  <2> QED
    BY <2>1, <2>2
<1> HIDE DEF flat
<1>12. /\ flat[n] \in Seq(S)
       /\ \A h \in 1..n : \A k \in 1..Len(seqs[h]) :
             \E j \in 1..Len(flat[n]) : flat[n][j] = seqs[h][k]
  BY <1>11
<1> DEFINE whole == FlattenSeq(seqs)
<1>13. whole = flat[n]
  BY <1>9
<1> HIDE DEF whole
<1>14. /\ whole \in Seq(S)
       /\ \A h \in 1..n : \A k \in 1..Len(seqs[h]) :
             \E j \in 1..Len(whole) : whole[j] = seqs[h][k]
  BY <1>12, <1>13
<1> QED
  BY <1>14 DEF whole, n

-----------------------------------------------------------------------------
\* Division, exceptions, ranks.

\* Division by a positive number rounds down.
LEMMA Divided ==
    ASSUME NEW a \in Int, NEW d \in Nat \ {0}
    PROVE  /\ a \div d \in Int /\ a % d \in 0..d - 1
           /\ a >= 0 => /\ a \div d \in Nat
                        /\ d * (a \div d) <= a /\ a < d * (a \div d) + d
PROOF
<1>1. a \div d \in Int
  OBVIOUS
<1>2. a % d \in 0..d - 1
  OBVIOUS
<1>3. ASSUME a >= 0 PROVE a \div d \in Nat
  BY <1>3
<1>5. ASSUME a >= 0 PROVE d * (a \div d) <= a /\ a < d * (a \div d) + d
  <2>1. a \in Nat
    BY <1>5
  <2> QED
    BY <2>1
<1> QED
  BY <1>1, <1>2, <1>3, <1>5

\* A number is what division makes of it and the rest.
LEMMA Remainder ==
    ASSUME NEW a \in Nat, NEW d \in Nat \ {0}
    PROVE  a = d * (a \div d) + (a % d)
OBVIOUS

\* Exceptions that each have one before them, the first number being none: there are none.
LEMMA NoFirst ==
    ASSUME NEW n \in Nat, NEW T \in SUBSET (0..n), 0 \notin T,
           \A i \in 1..n : i \in T => i - 1 \in T
    PROVE  T = {}
PROOF
<1> SUFFICES ASSUME T # {} PROVE FALSE
  OBVIOUS
<1>1. PICK x \in T : \A y \in T : x <= y
  BY LeastNat
<1>2. x \in 1..n
  OBVIOUS
<1> QED
  BY <1>1, <1>2

\* A finite set of integers has a smallest member.
LEMMA LeastOf ==
    ASSUME NEW S \in SUBSET Int, IsFiniteSet(S), S # {}
    PROVE  Min(S) \in S /\ \A x \in S : Min(S) <= x
PROOF
<1> DEFINE f == [x \in Int |-> 0 - x]
           T == {f[x] : x \in S}
<1>1. T \in SUBSET Int /\ T # {} /\ IsFiniteSet(T)
  <2>1. IsFiniteSet(T)
    <3> HIDE DEF f
    <3> QED
      BY FiniteImage
  <2>2. \A x \in S : x \in Int /\ f[x] = 0 - x
    OBVIOUS
  <2>3. T \in SUBSET Int
    <3> HIDE DEF f
    <3> QED
      BY <2>2
  <2> QED
    BY <2>1, <2>3
<1>2. Max(T) \in T /\ \A x \in T : x <= Max(T)
  <2> HIDE DEF T
  <2> QED
    BY <1>1, Largest
<1>3. PICK m \in S : Max(T) = 0 - m
  BY <1>2
<1>4. \A x \in S : m <= x
  <2> SUFFICES ASSUME NEW x \in S PROVE m <= x
    OBVIOUS
  <2>1. 0 - x \in T /\ x \in Int /\ m \in Int
    OBVIOUS
  <2>2. 0 - x <= Max(T)
    <3> HIDE DEF T
    <3> QED
      BY <1>2, <2>1
  <2> HIDE DEF T
  <2> QED
    BY <1>3, <2>1, <2>2
<1>5. \A y \in S : (\A x \in S : y <= x) => y = m
  BY <1>4
<1> QED
  BY <1>4, <1>5 DEF Min

\* In a finite set of numbers there is for each rank the member of that rank.
LEMMA RankExists ==
    ASSUME NEW at \in SUBSET Nat, IsFiniteSet(at), NEW i \in 1..Cardinality(at)
    PROVE  \E k \in at : Cardinality({x \in at : x <= k}) = i
PROOF
<1> DEFINE UpTo(P, k) == {x \in P : x <= k}
           Bad(P, n) == /\ IsFiniteSet(P) /\ Cardinality(P) = n
                        /\ \E j \in 1..n : \A k \in P : Cardinality(UpTo(P, k)) # j
           T == {n \in Nat : \E P \in SUBSET Nat : Bad(P, n)}
<1>1. ASSUME T # {} PROVE FALSE
  <2>1. PICK n \in T : \A y \in T : n <= y
    <3>1. T \in SUBSET Nat /\ T # {}
      BY <1>1
    <3> HIDE DEF T
    <3> QED
      BY <3>1, LeastNat
  <2>2. PICK P \in SUBSET Nat : Bad(P, n)
    BY <2>1
  <2>3. PICK j \in 1..n : \A k \in P : Cardinality(UpTo(P, k)) # j
    BY <2>2
  <2>4. n \in Nat /\ n # 0 /\ IsFiniteSet(P) /\ Cardinality(P) = n
    BY <2>1, <2>2, <2>3
  <2>5. P # {} /\ P \in SUBSET Int
    BY <2>4, FS_EmptySet
  <2> DEFINE m == Max(P)
  <2>6. m \in P /\ \A x \in P : x <= m
    BY <2>4, <2>5, Largest
  <2> HIDE DEF m
  <2>7. UpTo(P, m) = P
    BY <2>6
  <2>8. j \in 1..n - 1
    BY <2>3, <2>4, <2>6, <2>7
  <2> DEFINE Q == P \ {m}
  <2>9. IsFiniteSet(Q) /\ Cardinality(Q) = n - 1 /\ Q \in SUBSET Nat
    BY <2>4, <2>6, FS_RemoveElement
  <2>10. ASSUME NEW k \in Q PROVE UpTo(Q, k) = UpTo(P, k)
    <3>1. k < m /\ k \in Nat /\ m \in Nat
      BY <2>6
    <3> QED
      BY <3>1
  <2>11. \A k \in Q : Cardinality(UpTo(Q, k)) # j
    BY <2>3, <2>10
  <2>12. Bad(Q, n - 1) /\ n - 1 \in Nat
    <3> HIDE DEF UpTo, Q
    <3> QED
      BY <2>4, <2>8, <2>9, <2>11
  <2>13. n - 1 \in T
    <3> HIDE DEF Bad, Q
    <3> QED
      BY <2>9, <2>12
  <2> QED
    BY <2>1, <2>4, <2>13
<1>2. Cardinality(at) \in Nat
  BY FS_CardinalityType
<1>3. ~Bad(at, Cardinality(at))
  <2> HIDE DEF Bad
  <2> QED
    BY <1>1, <1>2
<1> QED
  BY <1>3

\* A number of whole steps up to the top has a quotient of steps.
LEMMA QuotientIs ==
    ASSUME NEW n \in Nat \ {0}, NEW d \in Nat \ {0}, NEW raw \in 0..(n - 1) * d
    PROVE  raw \div d \in 0..n - 1
PROOF
<1> DEFINE q == raw \div d
<1>1. (n - 1) * d \in Int
  OBVIOUS
<1>2. raw \in Nat /\ raw <= (n - 1) * d
  BY <1>1
<1>3. q \in Nat /\ d * q <= raw
  BY <1>2, Divided
<1> HIDE DEF q
<1>4. q <= n - 1
  <2> SUFFICES ASSUME q >= n PROVE FALSE
    BY <1>3
  <2>1. d * q >= d * n
    BY <1>3
  <2>2. d * n = (n - 1) * d + d
    OBVIOUS
  <2> QED
    BY <1>1, <1>2, <1>3, <2>1, <2>2
<1> QED
  BY <1>3, <1>4 DEF q

================================================================================
