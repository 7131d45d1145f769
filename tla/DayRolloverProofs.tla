--------------------------- MODULE DayRolloverProofs ---------------------------
(***************************************************************************)
(* Every day settles once, for any length of the day, any number of faults   *)
(* and any order of cycles, crashes and restarts.                            *)
(*                                                                           *)
(* The argument: a day is recorded before the samples it ended with are       *)
(* trimmed, because a restart finalises the days the samples cover and every  *)
(* cycle finalises yesterday; the snapshot that makes a day exact is kept for *)
(* as long as the day can be baked, and a side's snapshots of one time are    *)
(* one; the shape is absent or the bag of the recorded days, and a series     *)
(* that shows today's prices has a priced slot of today to record.           *)
(***************************************************************************)
EXTENDS DayRollover, CommonLemmas

\* The snapshots of one side at one time are one.
OneSnapshot == \A x, y \in snaps : x.side = y.side /\ x.at = y.at => x = y

OneSensor == \A x, y \in sensor : x = y

\* Both sides have a snapshot in the day's last quarter slot.
Closes(ss, d) == \A side \in Sides : \E s \in ss : s.side = side /\ s.at = DayStart(d) + WindowTick

\* As long as a day can be baked, what made it exact is in the store.
ExactCloses == exact \subseteq Int /\ \A d \in exact : d >= today - 1 => Closes(snaps, d)

MidnightOK ==
    /\ midnight \in [Days -> SUBSET Nat]
    /\ \A d \in Days : \A t \in midnight[d] : DayOf(t) = d

Consumed(d) == \E r \in consumption : r.day = d

ConsumedOnce ==
    /\ \A r, s \in consumption : r.day = s.day => r = s
    /\ \A r \in consumption : midnight[r.day] \subseteq r.samples

\* Until a day is recorded, the samples it ended with stay in the store.
SamplesKept == \A d \in 0..today - 1 : Consumed(d) \/ midnight[d] \subseteq seen

Settled(d) == Consumed(d) \/ midnight[d] = {}

\* A day is recorded before its samples are trimmed.
SettledInTime ==
    /\ up => \A d \in 0..today - 2 : Settled(d)
    /\ up /\ cycled => \A d \in 0..today - 1 : Settled(d)
    /\ calm > 0 /\ today > 0 => Settled(today - 1)

IsCurve(h) ==
    h = [records |-> h.records, vintages |-> h.vintages, predictions |-> h.predictions,
         errors |-> h.errors, shape |-> h.shape]

CurveOK == IsCurve(curve) /\ LearnsEachDayOnce

IInv ==
    /\ TypeOK
    /\ OneSensor /\ OneSnapshot /\ ExactCloses
    /\ BakedOnce
    /\ MidnightOK /\ ConsumedOnce /\ SamplesKept /\ SettledInTime
    /\ CurveOK

-----------------------------------------------------------------------------
\* A day begins at its start and is over a day later.
LEMMA DayBounds ==
    ASSUME NEW t \in Nat
    PROVE  /\ DayOf(t) \in Nat
           /\ DayStart(DayOf(t)) \in Nat
           /\ DayStart(DayOf(t)) <= t
           /\ t < DayStart(DayOf(t)) + Ticks
           /\ t % Ticks = t - DayStart(DayOf(t))
PROOF
<1>1. Ticks \in Nat \ {0}
  BY GridAssumption
<1>2. t \div Ticks \in Nat
  BY <1>1
<1>3. t % Ticks \in 0..(Ticks - 1)
  BY <1>1
<1>4. t = Ticks * (t \div Ticks) + (t % Ticks)
  BY <1>1
<1> QED
  BY <1>1, <1>2, <1>3, <1>4 DEF DayOf, DayStart

LEMMA DayIs ==
    ASSUME NEW t \in Nat, NEW d \in Int, DayStart(d) <= t, t < DayStart(d) + Ticks
    PROVE  DayOf(t) = d
PROOF
<1>1. Ticks \in Nat \ {0}
  BY GridAssumption
<1>2. d * Ticks <= t /\ t < d * Ticks + Ticks
  BY DEF DayStart
<1>3. (t \div Ticks) * Ticks <= t /\ t < (t \div Ticks) * Ticks + Ticks /\ t \div Ticks \in Int
  BY DayBounds DEF DayOf, DayStart
<1> QED
  BY <1>1, <1>2, <1>3 DEF DayOf

LEMMA DayStartType ==
    ASSUME NEW d \in Int
    PROVE  DayStart(d) \in Int /\ DayStart(d + 1) = DayStart(d) + Ticks /\ DayStart(d - 1) = DayStart(d) - Ticks
PROOF
<1>1. Ticks \in Nat \ {0}
  BY GridAssumption
<1> QED
  BY <1>1 DEF DayStart

LEMMA DayStartOrder ==
    ASSUME NEW d \in Int, NEW e \in Int, d <= e
    PROVE  DayStart(d) <= DayStart(e)
PROOF
<1>1. Ticks \in Nat \ {0}
  BY GridAssumption
<1> QED
  BY <1>1 DEF DayStart

\* Time and days run together.
LEMMA DayOrder ==
    ASSUME NEW s \in Nat, NEW t \in Nat, s <= t
    PROVE  DayOf(s) <= DayOf(t)
PROOF
<1>1. Ticks \in Nat \ {0}
  BY GridAssumption
<1>2. SUFFICES ASSUME DayOf(t) + 1 <= DayOf(s) PROVE FALSE
  BY DayBounds
<1>3. DayStart(DayOf(t) + 1) <= DayStart(DayOf(s))
  BY <1>2, DayBounds, DayStartOrder
<1> QED
  BY <1>1, <1>3, DayBounds, DayStartType

\* The next quarter slot is of this day or of the next.
LEMMA NextDay ==
    ASSUME NEW t \in Nat
    PROVE  DayOf(t + 1) \in {DayOf(t), DayOf(t) + 1}
PROOF
<1>1. Ticks \in Nat \ {0}
  BY GridAssumption
<1>2. CASE t + 1 < DayStart(DayOf(t)) + Ticks
  BY <1>2, DayBounds, DayIs
<1>3. CASE t + 1 = DayStart(DayOf(t)) + Ticks
  <2>1. DayStart(DayOf(t) + 1) = t + 1 /\ DayOf(t) + 1 \in Int /\ t + 1 \in Nat
    BY <1>3, DayBounds, DayStartType
  <2>2. DayOf(t + 1) = DayOf(t) + 1
    <3> DEFINE next == DayOf(t) + 1
               instant == t + 1
    <3>1. next \in Int /\ instant \in Nat /\ DayStart(next) <= instant /\ instant < DayStart(next) + Ticks
      BY <1>1, <2>1
    <3> HIDE DEF next, instant
    <3>2. DayOf(instant) = next
      BY <3>1, DayIs
    <3> QED
      BY <3>2 DEF next, instant
  <2> QED
    BY <2>2
<1>4. DayStart(DayOf(t)) \in Nat /\ t < DayStart(DayOf(t)) + Ticks
  BY DayBounds
<1>5. t + 1 < DayStart(DayOf(t)) + Ticks \/ t + 1 = DayStart(DayOf(t)) + Ticks
  BY <1>1, <1>4
<1> QED
  BY <1>2, <1>3, <1>5

\* The last quarter slot of a day.
LEMMA LastSlot ==
    ASSUME NEW t \in Nat, t % Ticks = WindowTick
    PROVE  t = DayStart(DayOf(t)) + WindowTick
PROOF
<1>1. Ticks \in Nat \ {0} /\ WindowTick = Ticks - 1
  BY GridAssumption, DayAssumption
<1> QED
  BY <1>1, DayBounds

LEMMA LastIs ==
    ASSUME NEW t \in Nat, NEW d \in Int, t = DayStart(d) + WindowTick
    PROVE  DayOf(t) = d
PROOF
<1>1. Ticks \in Nat \ {0} /\ WindowTick = Ticks - 1
  BY GridAssumption, DayAssumption
<1>2. DayStart(d) \in Int
  BY DayStartType
<1>3. DayStart(d) <= t /\ t < DayStart(d) + Ticks
  BY <1>1, <1>2
<1> QED
  BY <1>3, DayIs

\* Two days of samples, and of snapshots, hold what is left of yesterday.
LEMMA KeptTwoDays ==
    ASSUME NEW t \in Nat, NEW s \in Nat, DayOf(s) >= DayOf(t) - 1
    PROVE  s >= t - 2 * Ticks
PROOF
<1>1. Ticks \in Nat \ {0}
  BY GridAssumption
<1>2. DayStart(DayOf(t) - 1) <= DayStart(DayOf(s))
  BY DayBounds, DayStartOrder
<1> QED
  BY <1>1, <1>2, DayBounds, DayStartType

-----------------------------------------------------------------------------
(* The snapshots and the bake-in *)

\* The day's totals as the resolver finds them are at most one, and there is one
\* where the day's last snapshot was taken.
LEMMA ResolveOne ==
    ASSUME NEW side, NEW d \in Int, NEW found, \A x, y \in found : x = y,
           NEW ss \in SUBSET Snapshot,
           \A x, y \in ss : x.side = y.side /\ x.at = y.at => x = y
    PROVE  /\ \A x, y \in Resolve(side, d, found, ss) : x = y
           /\ side \in Sides /\ Closes(ss, d) => Resolve(side, d, found, ss) # {}
PROOF
<1> DEFINE Latest == {x \in ss : /\ x.side = side
                                 /\ DayOf(x.at) = d
                                 /\ \A y \in ss : y.side = side /\ DayOf(y.at) = d => y.at <= x.at}
<1>1. \A x \in ss : x.at \in Nat
  BY DEF Snapshot
<1>2. \A x, y \in Latest : x = y
  <2> SUFFICES ASSUME NEW x \in Latest, NEW y \in Latest PROVE x = y
    OBVIOUS
  <2>1. x.at <= y.at /\ y.at <= x.at /\ x.at \in Nat /\ y.at \in Nat
    BY <1>1
  <2> QED
    BY <2>1
<1>3. ASSUME side \in Sides, Closes(ss, d) PROVE Latest # {}
  <2>1. PICK s \in ss : s.side = side /\ s.at = DayStart(d) + WindowTick
    BY <1>3 DEF Closes
  <2>2. Ticks \in Nat \ {0} /\ WindowTick = Ticks - 1 /\ d \in Int
    BY GridAssumption, DayAssumption
  <2>3. DayOf(s.at) = d
    BY <1>1, <2>1, <2>2, LastIs
  <2>4. ASSUME NEW y \in ss, DayOf(y.at) = d PROVE y.at <= s.at
    <3>1. y.at \in Nat /\ y.at < DayStart(d) + Ticks
      BY <1>1, <2>4, DayBounds
    <3>2. DayStart(d) \in Int
      BY <2>2, DayStartType
    <3> QED
      BY <2>1, <2>2, <3>1, <3>2
  <2>5. s \in Latest
    BY <2>1, <2>3, <2>4
  <2> QED
    BY <2>5
<1> HIDE DEF Latest
<1>4. CASE side \in Dedicated /\ found # {}
  BY <1>4 DEF Resolve
<1>5. CASE ~(side \in Dedicated /\ found # {})
  <2>1. Resolve(side, d, found, ss) = {[source |-> "snapshot", total |-> s.total] : s \in Latest}
    BY <1>5 DEF Resolve, Latest
  <2>2. ASSUME NEW x \in Resolve(side, d, found, ss), NEW y \in Resolve(side, d, found, ss)
        PROVE  x = y
    <3>1. PICK u \in Latest : x = [source |-> "snapshot", total |-> u.total]
      BY <2>1
    <3>2. PICK v \in Latest : y = [source |-> "snapshot", total |-> v.total]
      BY <2>1
    <3> QED
      BY <1>2, <3>1, <3>2
  <2>3. ASSUME NEW u \in Latest PROVE Resolve(side, d, found, ss) # {}
    <3>1. [source |-> "snapshot", total |-> u.total] \in Resolve(side, d, found, ss)
      BY <2>1
    <3> QED
      BY <3>1
  <2> QED
    BY <1>3, <2>2, <2>3
<1> QED
  BY <1>4, <1>5

\* What capturing leaves: one snapshot of a side and time, and what a day that can
\* still be baked was closed by.
LEMMA CaptureKeeps ==
    ASSUME NEW ss \in SUBSET Snapshot,
           \A x, y \in ss : x.side = y.side /\ x.at = y.at => x = y,
           NEW t \in Nat, NEW readings \in SUBSET Snapshot,
           \A x, y \in readings : x.side = y.side => x = y,
           \A x \in readings : x.at = t
    PROVE  /\ Capture(ss, t, readings) \subseteq Snapshot
           /\ \A x, y \in Capture(ss, t, readings) : x.side = y.side /\ x.at = y.at => x = y
           /\ \A d \in Int : d >= DayOf(t) - 1 /\ Closes(ss, d) => Closes(Capture(ss, t, readings), d)
           /\ t % Ticks = WindowTick => readings \subseteq Capture(ss, t, readings)
PROOF
<1> DEFINE kept == {s \in ss : s.at >= t - 2 * Ticks}
           new == Capture(ss, t, readings)
<1>1. new = IF t % Ticks = WindowTick
            THEN {s \in kept : s.at # t \/ \A r \in readings : r.side # s.side} \cup readings
            ELSE kept
  BY DEF Capture
<1>2. new \subseteq kept \cup readings /\ kept \subseteq ss
  BY <1>1
<1>3. \A x, y \in new : x.side = y.side /\ x.at = y.at => x = y
  <2>1. CASE t % Ticks = WindowTick
    <3> SUFFICES ASSUME NEW x \in new, NEW y \in new, x.side = y.side, x.at = y.at PROVE x = y
      OBVIOUS
    <3>1. CASE x \in readings /\ y \in readings
      BY <3>1
    <3>2. CASE x \notin readings /\ y \notin readings
      BY <1>2, <3>2
    <3>3. \A r \in readings : r.at = t
      OBVIOUS
    <3>4. CASE x \in readings /\ y \notin readings
      BY <1>1, <2>1, <3>3, <3>4
    <3>5. CASE x \notin readings /\ y \in readings
      BY <1>1, <2>1, <3>3, <3>5
    <3> QED
      BY <3>1, <3>2, <3>4, <3>5
  <2>2. CASE t % Ticks # WindowTick
    BY <1>1, <2>2
  <2> QED
    BY <2>1, <2>2
<1>4. ASSUME NEW d \in Int, d >= DayOf(t) - 1, Closes(ss, d), NEW side \in Sides
      PROVE  \E s \in new : s.side = side /\ s.at = DayStart(d) + WindowTick
  <2>1. PICK s \in ss : s.side = side /\ s.at = DayStart(d) + WindowTick
    BY <1>4 DEF Closes
  <2>2. Ticks \in Nat \ {0} /\ WindowTick = Ticks - 1
    BY GridAssumption, DayAssumption
  <2>3. s.at \in Nat
    BY DEF Snapshot
  <2>4. DayOf(s.at) = d
    BY <2>1, <2>3, LastIs
  <2>5. s \in kept
    BY <1>4, <2>3, <2>4, KeptTwoDays
  <2>6. CASE t % Ticks = WindowTick /\ s.at = t /\ \E r \in readings : r.side = side
    <3>1. PICK r \in readings : r.side = side
      BY <2>6
    <3>2. r \in new /\ r.at = s.at
      BY <1>1, <2>6
    <3> QED
      BY <2>1, <3>1, <3>2
  <2>7. CASE ~(t % Ticks = WindowTick /\ s.at = t /\ \E r \in readings : r.side = side)
    <3>1. s \in new
      BY <1>1, <2>1, <2>5, <2>7
    <3> QED
      BY <2>1, <3>1
  <2> QED
    BY <2>6, <2>7
<1>5. \A d \in Int : d >= DayOf(t) - 1 /\ Closes(ss, d) => Closes(new, d)
  BY <1>4 DEF Closes
<1>6. new \subseteq Snapshot
  BY <1>2
<1>7. t % Ticks = WindowTick => readings \subseteq new
  BY <1>1
<1> QED
  BY <1>3, <1>5, <1>6, <1>7

\* What a cycle bakes is one record of a side, of yesterday, and a failed one only
\* where nothing closes yesterday.
LEMMA BakesYesterday ==
    ASSUME NEW records, NEW series, NEW samples, NEW t \in Nat,
           NEW found, \A x, y \in found : x = y,
           NEW ss \in SUBSET Snapshot,
           \A x, y \in ss : x.side = y.side /\ x.at = y.at => x = y
    PROVE  /\ records \subseteq TryBake(records, series, samples, ss, found, t)
           /\ \A r \in TryBake(records, series, samples, ss, found, t) \ records :
                 /\ r.day = DayOf(t) - 1 /\ r.side \in Sides
                 /\ ~Has(records, r.day, r.side)
                 /\ \A q \in TryBake(records, series, samples, ss, found, t) \ records :
                        q.side = r.side => q = r
                 /\ r.source = "failed" => ~Closes(ss, r.day)
PROOF
<1> DEFINE day == DayOf(t)
           d == DayOf(t) - 1
           Slots(side) == Raw(side, series, samples, DayStart(d), DayStart(day))
           Found(side) == Resolve(side, d, found, ss)
           New(side) == Baked(records, side, d, t % Ticks, Slots(side), Found(side))
<1>0. d \in Int
  BY DayBounds
<1>1. TryBake(records, series, samples, ss, found, t) = records \cup UNION {New(side) : side \in Sides}
  BY DEF TryBake
<1>2. \A side \in Sides : /\ \A x, y \in Found(side) : x = y
                          /\ Closes(ss, d) => Found(side) # {}
  BY <1>0, ResolveOne
<1>3. \A side \in Sides : \A x \in Found(side) : x.source # "failed"
  BY DEF Resolve
<1> HIDE DEF Slots, Found
<1>4. ASSUME NEW side \in Sides, NEW r \in New(side)
      PROVE  /\ r.day = d /\ r.side = side
             /\ ~Has(records, d, side)
             /\ \A q \in New(side) : q = r
             /\ r.source = "failed" => ~Closes(ss, d)
  <2>1. ~Has(records, d, side)
    BY <1>4 DEF Baked
  <2>2. CASE Found(side) = {}
    <3>1. \A q \in New(side) : q = Record(d, side, "failed", Slots(side))
      BY <2>2 DEF Baked
    <3> QED
      BY <1>2, <1>4, <2>1, <2>2, <3>1 DEF Record
  <2>3. CASE Found(side) # {}
    <3>1. \A q \in New(side) : \E x \in Found(side) : q = Record(d, side, x.source, Bake(Slots(side), x.total))
      BY <2>3 DEF Baked
    <3>2. PICK x \in Found(side) : r = Record(d, side, x.source, Bake(Slots(side), x.total))
      BY <1>4, <3>1
    <3>3. \A q \in New(side) : q = r
      BY <1>2, <3>1, <3>2
    <3>4. r.day = d /\ r.side = side /\ r.source = x.source
      BY <3>2 DEF Record
    <3> QED
      BY <1>3, <2>1, <3>3, <3>4
  <2> QED
    BY <2>2, <2>3
<1> HIDE DEF New
<1>5. ASSUME NEW r \in TryBake(records, series, samples, ss, found, t) \ records
      PROVE  r.side \in Sides /\ r \in New(r.side)
  <2>1. PICK side \in Sides : r \in New(side)
    BY <1>1, <1>5
  <2> QED
    BY <1>4, <2>1
<1> QED
  BY <1>1, <1>4, <1>5

-----------------------------------------------------------------------------
(* The consumption and the price curve *)

\* Finalising records each day that has samples once, with all of them.
LEMMA FinalisesOnce ==
    ASSUME NEW records, NEW samples, NEW days,
           \A r, s \in records : r.day = s.day => r = s
    PROVE  /\ records \subseteq Finalised(records, samples, days)
           /\ \A r, s \in Finalised(records, samples, days) : r.day = s.day => r = s
           /\ \A r \in Finalised(records, samples, days) \ records :
                 /\ r.day \in days /\ r.samples = OfDay(samples, r.day) /\ r.samples # {}
                 /\ \A s \in records : s.day # r.day
           /\ \A d \in days : OfDay(samples, d) # {} =>
                 \E r \in Finalised(records, samples, days) : r.day = d
PROOF
<1> DEFINE fresh == {x \in days : /\ \A r \in records : r.day # x
                                  /\ OfDay(samples, x) # {}}
           new == {[day |-> d, samples |-> OfDay(samples, d)] : d \in fresh}
<1>1. Finalised(records, samples, days) = records \cup new
  BY DEF Finalised
<1>2. \A r \in new : r.day \in fresh /\ r = [day |-> r.day, samples |-> OfDay(samples, r.day)]
  OBVIOUS
<1>3. \A d \in fresh : \E r \in new : r.day = d
  <2> SUFFICES ASSUME NEW d \in fresh PROVE \E r \in new : r.day = d
    OBVIOUS
  <2>1. [day |-> d, samples |-> OfDay(samples, d)] \in new
    OBVIOUS
  <2> QED
    BY <2>1
<1> HIDE DEF new
<1>4. \A r, s \in records \cup new : r.day = s.day => r = s
  <2> SUFFICES ASSUME NEW r \in records \cup new, NEW s \in records \cup new, r.day = s.day
               PROVE  r = s
    OBVIOUS
  <2>1. CASE r \in new /\ s \in new
    BY <1>2, <2>1
  <2>2. CASE r \in records /\ s \in records
    BY <2>2
  <2>3. CASE r \in new /\ s \in records
    BY <1>2, <2>3
  <2>4. CASE r \in records /\ s \in new
    BY <1>2, <2>4
  <2> QED
    BY <2>1, <2>2, <2>3, <2>4
<1>5. ASSUME NEW r \in (records \cup new) \ records
      PROVE  /\ r.day \in days /\ r.samples = OfDay(samples, r.day) /\ r.samples # {}
             /\ \A s \in records : s.day # r.day
  BY <1>2
<1>6. ASSUME NEW d \in days, OfDay(samples, d) # {}
      PROVE  \E r \in records \cup new : r.day = d
  BY <1>3, <1>6
<1> QED
  BY <1>1, <1>4, <1>5, <1>6

\* Learning the days of two sets of records that share none is learning them all.
LEMMA LearnsJoined ==
    ASSUME NEW R, NEW A, \A r \in R : \A a \in A : r.day # a.day
    PROVE  Learned(R) (+) Learned(A) = Learned(R \cup A)
PROOF
<1> DEFINE X == {r.day : r \in R}
           Y == {r.day : r \in A}
<1>1. {r.day : r \in R \cup A} = X \cup Y
  OBVIOUS
<1>2. X \cap Y = {}
  OBVIOUS
<1> HIDE DEF X, Y
<1>3. SetToBag(X) (+) SetToBag(Y) = SetToBag(X \cup Y)
  BY <1>2 DEF SetToBag, (+)
<1> QED
  BY <1>1, <1>3 DEF Learned, X, Y

\* A series that has today's prices prices today.
LEMMA TodayPriced ==
    ASSUME NEW yesterday, NEW feed, NEW day \in Nat, day \in feed
    PROVE  day \in PricedDays(Series(yesterday, feed, day))
PROOF
<1> DEFINE Slot(t, p) == [start |-> t, len |-> 1, priced |-> p]
           At(t) == LET n == Copies(yesterday, feed, DayOf(t))
                    IN  IF n = 0 THEN <<Slot(t, FALSE)>> ELSE [i \in 1..n |-> Slot(t, TRUE)]
           seqs == [i \in 1..(3 * Ticks) \div 1 |-> At(DayStart(day - 1) + (i - 1) * 1)]
           all == [start : Int, len : {1}, priced : BOOLEAN]
<1>1. Ticks \in Nat \ {0} /\ DayStart(day) \in Int /\ DayStart(day - 1) = DayStart(day) - Ticks
  BY GridAssumption, DayStartType
<1>2. Series(yesterday, feed, day) = FlattenSeq(seqs)
  BY DEF Series, Resolution
<1>3. \A t \in Int : At(t) \in Seq(all)
  <2> SUFFICES ASSUME NEW t \in Int PROVE At(t) \in Seq(all)
    OBVIOUS
  <2>1. Copies(yesterday, feed, DayOf(t)) \in {0, 1, 2}
    BY DEF Copies
  <2>2. Slot(t, TRUE) \in all /\ Slot(t, FALSE) \in all
    OBVIOUS
  <2>3. CASE Copies(yesterday, feed, DayOf(t)) = 0
    <3>1. <<Slot(t, FALSE)>> \in Seq(all)
      BY <2>2
    <3> QED
      BY <2>3, <3>1
  <2>4. CASE Copies(yesterday, feed, DayOf(t)) # 0
    <3> DEFINE slot == Slot(t, TRUE)
    <3>0. slot \in all
      BY <2>2
    <3>1. \A n \in Nat : [i \in 1..n |-> slot] \in Seq(all)
      <4> HIDE DEF slot, all
      <4> QED
        BY <3>0
    <3> QED
      BY <2>1, <2>4, <3>1
  <2> QED
    BY <2>3, <2>4
<1>4. (3 * Ticks) \div 1 = 3 * Ticks /\ 3 * Ticks \in Nat /\ Ticks + 1 \in 1..3 * Ticks
  BY <1>1
<1> DEFINE m == 3 * Ticks
<1>5. seqs \in Seq(Seq(all)) /\ Len(seqs) = m
  <2>1. \A i \in 1..m : DayStart(day - 1) + (i - 1) * 1 \in Int
    BY <1>1, <1>4
  <2> HIDE DEF At
  <2>2. seqs = [i \in 1..m |-> At(DayStart(day - 1) + (i - 1) * 1)]
    BY <1>4
  <2> HIDE DEF m
  <2>3. m \in Nat
    BY <1>4 DEF m
  <2>4. \A i \in 1..m : At(DayStart(day - 1) + (i - 1) * 1) \in Seq(all)
    BY <1>3, <2>1
  <2> HIDE DEF all
  <2>5. seqs \in [1..m -> Seq(all)]
    BY <2>2, <2>4
  <2> HIDE DEF seqs
  <2> QED
    BY <2>3, <2>5
<1>6. seqs[Ticks + 1] = At(DayStart(day))
  <2>1. DayStart(day - 1) + ((Ticks + 1) - 1) * 1 = DayStart(day)
    BY <1>1
  <2> HIDE DEF At
  <2> QED
    BY <1>4, <2>1
<1>7. DayStart(day) \in Nat /\ DayOf(DayStart(day)) = day
  <2>1. DayStart(day) \in Nat
    BY <1>1 DEF DayStart
  <2> QED
    BY <1>1, <2>1, DayIs
<1>8. 1 \in 1..Len(At(DayStart(day))) /\ At(DayStart(day))[1] = Slot(DayStart(day), TRUE)
  <2>1. Copies(yesterday, feed, day) \in {1, 2}
    BY DEF Copies
  <2> QED
    BY <1>7, <2>1
<1> HIDE DEF At, seqs
<1>9. PICK j \in 1..Len(FlattenSeq(seqs)) : FlattenSeq(seqs)[j] = Slot(DayStart(day), TRUE)
  <2>0. Len(seqs) # 0
    BY <1>1, <1>4, <1>5
  <2>1. \A i \in 1..Len(seqs) : \A k \in 1..Len(seqs[i]) :
           \E j \in 1..Len(FlattenSeq(seqs)) : FlattenSeq(seqs)[j] = seqs[i][k]
    <3> HIDE DEF all
    <3> QED
      BY <1>5, <2>0, Flattened
  <2>2. Ticks + 1 \in 1..Len(seqs) /\ 1 \in 1..Len(seqs[Ticks + 1])
        /\ seqs[Ticks + 1][1] = Slot(DayStart(day), TRUE)
    BY <1>4, <1>5, <1>6, <1>8
  <2> QED
    BY <2>1, <2>2
<1>10. FlattenSeq(seqs) \in Seq(all)
  BY <1>1, <1>5, Flattened
<1> DEFINE series == FlattenSeq(seqs)
<1> HIDE DEF series
<1>11. j \in DOMAIN series /\ series[j].priced /\ DayOf(series[j].start) = day
  BY <1>7, <1>9, <1>10 DEF series
<1> QED
  BY <1>2, <1>11 DEF PricedDays, series

\* A history whose shape is absent or the bag of its recorded days.
Honest(h) == /\ IsCurve(h) /\ h.shape \in {NoShape, Learned(h.records)}
             /\ h.predictions \cup h.errors \subseteq Prediction

\* The updates before the settling leave the records, and the shape or none.
LEMMA CaptureHonest ==
    ASSUME NEW h, Honest(h), NEW series, NEW forecast, NEW t \in Nat
    PROVE  LET day == DayOf(t)
               n == BankErrors(CapturePrediction(CaptureVintage(h, forecast, day),
                                                 Forecasts(h, series, t)),
                               series, day)
           IN  /\ Honest(n) /\ n.records = h.records
               /\ n.vintages \subseteq h.vintages \cup {day + 1}
PROOF
<1> DEFINE day == DayOf(t)
           f == Forecasts(h, series, t)
           v == CaptureVintage(h, forecast, day)
           p == CapturePrediction(v, f)
           n == BankErrors(p, series, day)
<1>1. f \subseteq Prediction
  <2>1. [day |-> day + 1, issued |-> t] \in Prediction
    BY DayBounds DEF Prediction
  <2> QED
    BY <2>1 DEF Forecasts
<1>2. /\ Honest(v) /\ v.records = h.records
      /\ v.vintages \subseteq h.vintages \cup {day + 1}
  <2>1. CASE v = h
    BY <2>1
  <2>2. CASE v # h
    <3>1. v = [NoCurve EXCEPT !.records = h.records, !.vintages = h.vintages \cup {day + 1}]
      BY <2>2 DEF CaptureVintage
    <3>2. v = [records |-> h.records, vintages |-> h.vintages \cup {day + 1},
               predictions |-> {}, errors |-> {}, shape |-> NoShape]
      BY <3>1 DEF NoCurve
    <3> HIDE DEF v
    <3> QED
      BY <3>2 DEF Honest, IsCurve
  <2> QED
    BY <2>1, <2>2
<1> HIDE DEF v, f
<1>3. /\ Honest(p) /\ p.records = v.records /\ p.vintages = v.vintages
  <2> DEFINE more == v.predictions \cup {x \in f : x.day \notin Predicted(v)}
  <2>1. p = [v EXCEPT !.predictions = more]
    BY DEF CapturePrediction
  <2>2. more \subseteq Prediction
    BY <1>1, <1>2 DEF Honest
  <2> HIDE DEF more, p
  <2>3. p = [records |-> v.records, vintages |-> v.vintages, predictions |-> more,
             errors |-> v.errors, shape |-> v.shape]
    BY <1>2, <2>1 DEF Honest, IsCurve
  <2> QED
    BY <1>2, <2>2, <2>3 DEF Honest, IsCurve
<1> HIDE DEF p
<1>4. /\ Honest(n) /\ n.records = p.records /\ n.vintages = p.vintages
  <2> DEFINE kept == {e \in p.errors : e.day >= day - ErrorDays}
             banked  == {x \in p.predictions : /\ x.day >= day - ErrorDays
                                            /\ x.day \in PricedDays(series)
                                            /\ \A e \in p.errors : e.day # x.day}
             more == kept \cup banked
  <2>1. n = [p EXCEPT !.errors = more]
    BY DEF BankErrors
  <2>2. more \subseteq Prediction
    BY <1>3 DEF Honest
  <2> HIDE DEF more, n
  <2>3. n = [records |-> p.records, vintages |-> p.vintages, predictions |-> p.predictions,
             errors |-> more, shape |-> p.shape]
    BY <1>3, <2>1 DEF Honest, IsCurve
  <2> QED
    BY <1>3, <2>2, <2>3 DEF Honest, IsCurve
<1> QED
  BY <1>2, <1>3, <1>4 DEF n, p, v, f

\* Settling records a day that is priced, and learns exactly what it records.
LEMMA SettleHonest ==
    ASSUME NEW h, Honest(h), NEW series, NEW day
    PROVE  LET n == SettleDays(h, series, day)
           IN  /\ Honest(n) /\ Recorded(h) \subseteq Recorded(n)
               /\ n.vintages \subseteq h.vintages
               /\ day \in PricedDays(series) => day \in Recorded(n)
PROOF
<1> DEFINE fresh == {d \in {day - 1, day} : d \in PricedDays(series)} \ Recorded(h)
           added == {[day |-> d, predicted |-> {p \in h.predictions : p.day = d}] : d \in fresh}
           vs == {d \in h.vintages : d > day}
           ps == {p \in h.predictions : p.day >= day}
           n == SettleDays(h, series, day)
<1>1. \A a \in added : a.day \in fresh
  OBVIOUS
<1>2. \A d \in fresh : \E a \in added : a.day = d
  <2> SUFFICES ASSUME NEW d \in fresh PROVE \E a \in added : a.day = d
    OBVIOUS
  <2>1. [day |-> d, predicted |-> {p \in h.predictions : p.day = d}] \in added
    OBVIOUS
  <2> QED
    BY <2>1
<1>3. CASE n = h
  <2>1. ASSUME day \in PricedDays(series) PROVE day \in Recorded(h)
    <3>1. CASE added = {}
      BY <1>2, <2>1, <3>1
    <3>2. CASE added # {}
      <4>1. n.records = h.records \cup added
        BY <2>1, <3>2 DEF SettleDays
      <4>2. PICK a \in added : TRUE
        BY <3>2
      <4>3. a.day \in Recorded(h)
        BY <1>3, <4>1, <4>2 DEF Recorded
      <4> QED
        BY <1>1, <4>2, <4>3
    <3> QED
      BY <3>1, <3>2
  <2> QED
    BY <1>3, <2>1
<1>4. CASE n # h
  <2>1. n = [records |-> h.records \cup added, vintages |-> vs, predictions |-> ps, errors |-> {},
             shape |-> Learn(h, h.records \cup added, added)]
    BY <1>4 DEF SettleDays
  <2>2. \A r \in h.records : \A a \in added : r.day # a.day
    BY <1>1 DEF Recorded
  <2>3. vs \subseteq h.vintages /\ ps \subseteq h.predictions
    OBVIOUS
  <2> HIDE DEF added, vs, ps, n
  <2>4. Learn(h, h.records \cup added, added) = Learned(h.records \cup added)
    <3>1. CASE h.shape = NoShape
      BY <3>1 DEF Learn
    <3>2. CASE h.shape # NoShape
      <4>1. h.shape = Learned(h.records)
        BY <3>2 DEF Honest
      <4>2. Learned(h.records) (+) Learned(added) = Learned(h.records \cup added)
        BY <2>2, LearnsJoined
      <4> QED
        BY <3>2, <4>1, <4>2 DEF Learn
    <3> QED
      BY <3>1, <3>2
  <2>5. Honest(n)
    BY <2>1, <2>3, <2>4 DEF Honest, IsCurve
  <2>6. n.records = h.records \cup added /\ n.vintages = vs
    BY <2>1
  <2>7. Recorded(h) \subseteq Recorded(n) /\ fresh \subseteq Recorded(n)
    BY <1>2, <2>6 DEF Recorded
  <2>8. ASSUME day \in PricedDays(series) PROVE day \in Recorded(n)
    BY <2>7, <2>8
  <2> QED
    BY <2>3, <2>5, <2>6, <2>7, <2>8 DEF n
<1> QED
  BY <1>3, <1>4

\* A saved history has learned its recorded days, and today's if it is priced.
LEMMA SaveHonest ==
    ASSUME NEW h, Honest(h), NEW series, NEW forecast, NEW t \in Nat
    PROVE  LET n == SaveCurve(h, series, forecast, t)
           IN  /\ Honest(n) /\ Recorded(h) \subseteq Recorded(n)
               /\ n.vintages \subseteq h.vintages \cup {DayOf(t) + 1}
               /\ DayOf(t) \in PricedDays(series) => DayOf(t) \in Recorded(n)
PROOF
<1> DEFINE day == DayOf(t)
           m == BankErrors(CapturePrediction(CaptureVintage(h, forecast, day),
                                             Forecasts(h, series, t)),
                           series, day)
<1>1. /\ Honest(m) /\ m.records = h.records
      /\ m.vintages \subseteq h.vintages \cup {day + 1}
  BY CaptureHonest
<1> HIDE DEF m
<1>2. /\ Honest(SettleDays(m, series, day)) /\ Recorded(m) \subseteq Recorded(SettleDays(m, series, day))
      /\ SettleDays(m, series, day).vintages \subseteq m.vintages
      /\ day \in PricedDays(series) => day \in Recorded(SettleDays(m, series, day))
  BY <1>1, SettleHonest
<1>3. Recorded(m) = Recorded(h)
  BY <1>1 DEF Recorded
<1>4. SaveCurve(h, series, forecast, t) = SettleDays(m, series, day)
  BY DEF SaveCurve, m
<1> QED
  BY <1>1, <1>2, <1>3, <1>4

-----------------------------------------------------------------------------
(* One cycle *)

LEMMA RotateType ==
    ASSUME NEW dates, -1 \in dates, NEW b \in Buckets(dates), NEW day \in dates, NEW feed
    PROVE  Rotate(b, day, feed) \in Buckets(dates)
PROOF
<1>1. /\ b.yesterday_date \in dates /\ b.today_date \in dates
      /\ b.yesterday \in SUBSET dates /\ b.today \in SUBSET dates
  BY DEF Buckets
<1>2. feed \cap {day} \in SUBSET dates
  OBVIOUS
<1> QED
  BY <1>1, <1>2 DEF Rotate, Buckets

LEMMA BillType ==
    ASSUME NEW costs, NEW observed, NEW series, NEW t \in Nat, DOMAIN costs \subseteq 0..DayOf(t) - 1
    PROVE  DOMAIN Bill(costs, observed, series, t).ledger \subseteq 0..DayOf(t) - 1
PROOF
<1> DEFINE again == Repriced(costs, observed, series, DayOf(t))
<1>1. DOMAIN again \subseteq 0..DayOf(t) - 1
  BY DEF Repriced
<1> HIDE DEF again
<1>2. DOMAIN Pruned(again, DayOf(t)) \subseteq DOMAIN again
  BY DEF Pruned, Restrict
<1>3. Bill(costs, observed, series, t).ledger = Pruned(again, DayOf(t))
  BY DEF Bill, again
<1> QED
  BY <1>1, <1>2, <1>3

LEMMA NowType ==
    ASSUME TypeOK
    PROVE  /\ now \in Nat /\ today \in Nat /\ now % Ticks \in Nat
           /\ today \in Days /\ today + 1 \in Days /\ Days \subseteq Nat
           /\ 0..today \subseteq Days
PROOF
<1>1. now \in Nat /\ LastTick \in Nat /\ now <= LastTick
  BY BoundsAssumption DEF TypeOK
<1>2. today \in Nat /\ DayOf(LastTick) \in Nat /\ today <= DayOf(LastTick)
  BY <1>1, DayBounds, DayOrder DEF today
<1>3. now % Ticks \in Nat
  <2>1. now % Ticks = now - DayStart(DayOf(now)) /\ DayStart(DayOf(now)) \in Nat
        /\ DayStart(DayOf(now)) <= now
    BY <1>1, DayBounds
  <2> QED
    BY <1>1, <2>1
<1> QED
  BY <1>1, <1>2, <1>3 DEF Days

LEMMA ReadingsType ==
    ASSUME TypeOK
    PROVE  /\ Readings \subseteq Snapshot
           /\ \A x, y \in Readings : x.side = y.side => x = y
           /\ \A x \in Readings : x.at = now
           /\ meter => \A side \in Sides : \E x \in Readings : x.side = side
PROOF
<1> DEFINE amount(s) == IF reset THEN 0 ELSE Rate(s, today) * ((now % Ticks) + 1)
           all == {[side |-> s, at |-> now, total |-> amount(s)] : s \in Sides}
<1>1. now \in Nat /\ today \in Nat /\ now % Ticks \in Nat
  BY NowType
<1>2. \A s \in Sides : amount(s) \in Nat
  <2>1. Unit \in Nat
    BY DayAssumption
  <2>2. \A s \in Sides : Rate(s, today) \in Nat
    <3> DEFINE odd(s) == (IF s = Import THEN today ELSE today + 1) % 2
    <3>1. \A s \in Sides : odd(s) \in {0, 1}
      BY <1>1
    <3>2. \A s \in Sides : Rate(s, today) = Unit * (1 + odd(s))
      BY DEF Rate
    <3> HIDE DEF odd
    <3> QED
      BY <2>1, <3>1, <3>2
  <2> QED
    BY <1>1, <2>2
<1> HIDE DEF amount
<1>3. all \subseteq Snapshot /\ \A x \in all : x.at = now
  BY <1>1, <1>2 DEF Snapshot
<1>4. \A x, y \in all : x.side = y.side => x = y
  OBVIOUS
<1>5. \A side \in Sides : \E x \in all : x.side = side
  <2> SUFFICES ASSUME NEW side \in Sides PROVE \E x \in all : x.side = side
    OBVIOUS
  <2>1. [side |-> side, at |-> now, total |-> amount(side)] \in all
    OBVIOUS
  <2> QED
    BY <2>1
<1>6. Readings = IF ~meter THEN {} ELSE all
  BY DEF Readings, amount
<1> HIDE DEF all
<1> QED
  BY <1>3, <1>4, <1>5, <1>6

\* What a cycle makes of the stores
LEMMA AfterBuckets ==
    ASSUME IInv
    PROVE  After.buckets \in Buckets(Days \cup {-1})
PROOF
<1>1. today \in Days \cup {-1} /\ buckets \in Buckets(Days \cup {-1})
  BY NowType DEF IInv, TypeOK
<1>2. After.buckets = Rotate(buckets, today, Shown)
  BY DEF After
<1> HIDE DEF today
<1> QED
  BY <1>1, <1>2, RotateType

LEMMA AfterSnaps ==
    ASSUME IInv
    PROVE  /\ After.snaps \subseteq Snapshot
           /\ \A x, y \in After.snaps : x.side = y.side /\ x.at = y.at => x = y
           /\ \A d \in exact : d >= today - 1 => Closes(After.snaps, d)
           /\ now % Ticks = WindowTick /\ meter => Closes(After.snaps, today)
PROOF
<1>1. After.snaps = Capture(snaps, now, Readings)
  BY DEF After
<1>2. now \in Nat /\ today = DayOf(now) /\ snaps \in SUBSET Snapshot
  BY NowType DEF IInv, TypeOK, today
<1>3. /\ Readings \in SUBSET Snapshot
      /\ \A x, y \in Readings : x.side = y.side => x = y
      /\ \A x \in Readings : x.at = now
      /\ meter => \A side \in Sides : \E x \in Readings : x.side = side
  BY ReadingsType DEF IInv
<1> DEFINE R == Readings
           C == Capture(snaps, now, R)
<1> HIDE DEF R
<1>4. /\ C \subseteq Snapshot
      /\ \A x, y \in C : x.side = y.side /\ x.at = y.at => x = y
      /\ \A d \in Int : d >= DayOf(now) - 1 /\ Closes(snaps, d) => Closes(C, d)
      /\ now % Ticks = WindowTick => R \subseteq C
  <2>1. /\ R \in SUBSET Snapshot
        /\ \A x, y \in R : x.side = y.side => x = y
        /\ \A x \in R : x.at = now
    BY <1>3 DEF R
  <2>2. \A x, y \in snaps : x.side = y.side /\ x.at = y.at => x = y
    BY DEF IInv, OneSnapshot
  <2> QED
    BY <1>2, <2>1, <2>2, CaptureKeeps
<1> HIDE DEF C
<1>5. \A d \in exact : d >= today - 1 => Closes(C, d)
  <2>1. exact \subseteq Int /\ \A d \in exact : d >= today - 1 => Closes(snaps, d)
    BY DEF IInv, ExactCloses
  <2> QED
    BY <1>2, <1>4, <2>1
<1>6. ASSUME now % Ticks = WindowTick, meter PROVE Closes(C, today)
  <2>1. now = DayStart(today) + WindowTick
    BY <1>2, <1>6, LastSlot
  <2>2. ASSUME NEW side \in Sides PROVE \E s \in C : s.side = side /\ s.at = DayStart(today) + WindowTick
    <3>1. PICK x \in R : x.side = side /\ x.at = now
      BY <1>3, <1>6 DEF R
    <3>2. x \in C
      BY <1>4, <1>6
    <3> QED
      BY <2>1, <3>1, <3>2
  <2> QED
    BY <2>2 DEF Closes
<1>7. After.snaps = C
  BY <1>1 DEF C, R
<1> QED
  BY <1>4, <1>5, <1>6, <1>7

LEMMA AfterSeen ==
    ASSUME IInv
    PROVE  /\ After.seen \subseteq 0..now
           /\ \A t \in seen : DayOf(t) >= today - 1 => t \in After.seen
PROOF
<1>1. now \in Nat /\ today = DayOf(now) /\ seen \subseteq 0..now
  BY NowType DEF IInv, TypeOK, today
<1>2. After.seen = IF meter THEN {t \in seen : t >= now - 2 * Ticks} \cup {now} ELSE seen
  BY DEF After, Sampled
<1>3. \A t \in seen : DayOf(t) >= today - 1 => t >= now - 2 * Ticks
  BY <1>1, KeptTwoDays
<1> QED
  BY <1>1, <1>2, <1>3

LEMMA AfterBaked ==
    ASSUME IInv
    PROVE  /\ \A r \in After.baked : r.day \in -1..today - 1 /\ r.side \in Sides
           /\ \A r, s \in After.baked : r.day = s.day /\ r.side = s.side => r = s
           /\ \A r \in After.baked : r.source = "failed" => r.day \notin exact
PROOF
<1> DEFINE C == Capture(snaps, now, Readings)
           G == Grid
           S == Sampled
           N == TryBake(baked, G, S, C, sensor, now)
<1>1. After.baked = N /\ After.snaps = C
  BY DEF After
<1>2. now \in Nat /\ today = DayOf(now) /\ today \in Nat
  BY NowType DEF IInv, today
<1>3. /\ C \in SUBSET Snapshot
      /\ \A x, y \in C : x.side = y.side /\ x.at = y.at => x = y
      /\ \A d \in exact : d >= today - 1 => Closes(C, d)
  BY <1>1, AfterSnaps
<1>4. \A x, y \in sensor : x = y
  BY DEF IInv, OneSensor
<1> HIDE DEF C, G, S
<1>5. /\ baked \subseteq N
      /\ \A r \in N \ baked :
            /\ r.day = DayOf(now) - 1 /\ r.side \in Sides
            /\ ~Has(baked, r.day, r.side)
            /\ \A q \in N \ baked : q.side = r.side => q = r
            /\ r.source = "failed" => ~Closes(C, r.day)
  BY <1>2, <1>3, <1>4, BakesYesterday
<1> HIDE DEF N
<1>6. /\ \A r \in baked : r.day \in -1..today - 1 /\ r.side \in Sides
      /\ \A r, s \in baked : r.day = s.day /\ r.side = s.side => r = s
      /\ \A r \in baked : r.source = "failed" => r.day \notin exact
  BY DEF IInv, TypeOK, BakedOnce
<1>7. \A r \in N : r.day \in -1..today - 1 /\ r.side \in Sides
  BY <1>2, <1>5, <1>6
<1>8. ASSUME NEW r \in N, NEW s \in N, r.day = s.day, r.side = s.side PROVE r = s
  <2>1. CASE r \in baked /\ s \in baked
    BY <1>6, <1>8, <2>1
  <2>2. CASE r \notin baked /\ s \notin baked
    BY <1>5, <1>8, <2>2
  <2>3. CASE r \in baked /\ s \notin baked
    BY <1>5, <1>8, <2>3 DEF Has
  <2>4. CASE r \notin baked /\ s \in baked
    BY <1>5, <1>8, <2>4 DEF Has
  <2> QED
    BY <2>1, <2>2, <2>3, <2>4
<1>9. ASSUME NEW r \in N, r.source = "failed", r.day \in exact PROVE FALSE
  <2>1. r \notin baked
    BY <1>6, <1>9
  <2>2. r.day = today - 1 /\ ~Closes(C, r.day)
    BY <1>2, <1>5, <1>9, <2>1
  <2> QED
    BY <1>2, <1>3, <1>9, <2>2
<1> QED
  BY <1>1, <1>7, <1>8, <1>9

LEMMA AfterLedger ==
    ASSUME IInv
    PROVE  DOMAIN After.ledger \subseteq 0..today - 1
PROOF
<1> DEFINE O == ObservedGrid(baked, Grid, Sampled, now)
           G == Grid
<1>1. After.ledger = Bill(ledger, O, G, now).ledger
  BY DEF After
<1>2. now \in Nat /\ today = DayOf(now) /\ DOMAIN ledger \subseteq 0..DayOf(now) - 1
  BY NowType DEF IInv, TypeOK, today
<1> HIDE DEF O, G
<1> QED
  BY <1>1, <1>2, BillType

LEMMA AfterConsumption ==
    ASSUME IInv
    PROVE  /\ consumption \subseteq After.consumption
           /\ \A r \in After.consumption : r.day \in 0..today - 1 /\ r.samples \subseteq 0..now
           /\ \A r, s \in After.consumption : r.day = s.day => r = s
           /\ \A r \in After.consumption : midnight[r.day] \subseteq r.samples
           /\ today > 0 => \/ midnight[today - 1] = {}
                           \/ \E r \in After.consumption : r.day = today - 1
PROOF
<1> DEFINE S == After.seen
           D == {today - 1}
           N == Finalised(consumption, S, D)
<1>1. After.consumption = N
  BY DEF After
<1>2. now \in Nat /\ today = DayOf(now) /\ today \in Nat /\ 0..today \subseteq Days
  BY NowType DEF IInv, today
<1>3. S \subseteq 0..now /\ \A t \in seen : DayOf(t) >= today - 1 => t \in S
  BY AfterSeen
<1> HIDE DEF S
<1>4. /\ \A r, s \in consumption : r.day = s.day => r = s
      /\ \A r \in consumption : midnight[r.day] \subseteq r.samples
      /\ \A r \in consumption : r.day \in 0..today - 1 /\ r.samples \subseteq 0..now
  BY DEF IInv, TypeOK, ConsumedOnce
<1>5. /\ consumption \subseteq N
      /\ \A r, s \in N : r.day = s.day => r = s
      /\ \A r \in N \ consumption :
            /\ r.day \in D /\ r.samples = OfDay(S, r.day) /\ r.samples # {}
            /\ \A s \in consumption : s.day # r.day
      /\ \A d \in D : OfDay(S, d) # {} => \E r \in N : r.day = d
  <2> HIDE DEF D
  <2> QED
    BY <1>4, FinalisesOnce
<1> HIDE DEF N
<1>6. ASSUME today > 0, ~Consumed(today - 1)
      PROVE  midnight[today - 1] \subseteq OfDay(S, today - 1)
  <2>1. midnight[today - 1] \subseteq seen
    BY <1>2, <1>6 DEF IInv, SamplesKept
  <2>2. \A t \in midnight[today - 1] : DayOf(t) = today - 1
    BY <1>2, <1>6 DEF IInv, MidnightOK
  <2> QED
    BY <1>2, <1>3, <2>1, <2>2 DEF OfDay
<1>7. ASSUME NEW r \in N \ consumption
      PROVE  /\ r.day \in 0..today - 1 /\ r.samples \subseteq 0..now
             /\ midnight[r.day] \subseteq r.samples
  <2>1. r.day = today - 1 /\ r.samples = OfDay(S, today - 1) /\ r.samples # {} /\ ~Consumed(today - 1)
    BY <1>5 DEF Consumed
  <2>2. PICK t \in S : DayOf(t) = today - 1
    BY <2>1 DEF OfDay
  <2>3. t \in Nat /\ DayOf(t) \in Nat
    BY <1>2, <1>3, DayBounds
  <2>4. today > 0
    BY <1>2, <2>2, <2>3
  <2>5. r.samples \subseteq 0..now
    BY <1>3, <2>1 DEF OfDay
  <2> QED
    BY <1>2, <1>6, <2>1, <2>4, <2>5
<1>8. ASSUME today > 0, midnight[today - 1] # {}
      PROVE  \E r \in N : r.day = today - 1
  <2>1. CASE Consumed(today - 1)
    BY <1>5, <2>1 DEF Consumed
  <2>2. CASE ~Consumed(today - 1)
    BY <1>5, <1>6, <1>8, <2>2
  <2> QED
    BY <2>1, <2>2
<1> QED
  BY <1>1, <1>4, <1>5, <1>7, <1>8

LEMMA AfterCurve ==
    ASSUME IInv
    PROVE  /\ Honest(After.curve)
           /\ After.curve.vintages \subseteq Days
           /\ Recorded(curve) \subseteq Recorded(After.curve)
           /\ today \in Shown => today \in Recorded(After.curve)
PROOF
<1> DEFINE G == Grid
           Y == YesterdayPrices(buckets, today)
<1>1. After.curve = SaveCurve(curve, G, outlook, now)
  BY DEF After
<1>2. now \in Nat /\ today = DayOf(now) /\ today \in Nat /\ today + 1 \in Days
  BY NowType DEF IInv, today
<1>3. Honest(curve) /\ curve.vintages \subseteq Days
  BY DEF IInv, TypeOK, CurveOK, LearnsEachDayOnce, Honest
<1>4. ASSUME today \in Shown PROVE today \in PricedDays(G)
  <2>1. G = Series(Y, Shown, today)
    BY DEF Grid
  <2> HIDE DEF Y, G
  <2> QED
    BY <1>2, <1>4, <2>1, TodayPriced
<1> HIDE DEF G
<1>5. LET n == SaveCurve(curve, G, outlook, now)
      IN  /\ Honest(n) /\ Recorded(curve) \subseteq Recorded(n)
          /\ n.vintages \subseteq curve.vintages \cup {DayOf(now) + 1}
          /\ DayOf(now) \in PricedDays(G) => DayOf(now) \in Recorded(n)
  BY <1>2, <1>3, SaveHonest
<1> QED
  BY <1>1, <1>2, <1>3, <1>4, <1>5

-----------------------------------------------------------------------------
(* The steps *)

LEMMA InitIInv == Init => IInv
PROOF
<1> SUFFICES ASSUME Init PROVE IInv
  OBVIOUS
<1>1. now = 0 /\ today = 0
  <2>1. Ticks \in Nat \ {0}
    BY GridAssumption
  <2>2. DayStart(0) = 0
    BY <2>1 DEF DayStart
  <2>3. DayOf(0) = 0
    BY <2>1, <2>2, DayIs
  <2> QED
    BY <2>3 DEF Init, today
<1>2. LastTick \in Nat /\ MaxFaults \in Nat /\ DayOf(LastTick) \in Nat
  BY BoundsAssumption, DayBounds
<1>3. -1 \in Days \cup {-1} /\ 0 \in Days
  BY <1>2 DEF Days
<1>4. buckets \in Buckets(Days \cup {-1})
  BY <1>3 DEF Init, Buckets
<1>5. {up, cycled, feed_up, meter, reset, outlook} \subseteq BOOLEAN
  BY DEF Init
<1>6. TypeOK
  BY <1>1, <1>2, <1>4, <1>5 DEF Init, TypeOK, NoCurve
<1>7. OneSensor /\ OneSnapshot /\ ExactCloses /\ BakedOnce
  BY DEF Init, OneSensor, OneSnapshot, ExactCloses, BakedOnce
<1>8. MidnightOK /\ ConsumedOnce
  BY DEF Init, MidnightOK, ConsumedOnce
<1>9. SamplesKept /\ SettledInTime
  BY <1>1 DEF Init, SamplesKept, SettledInTime
<1>10. CurveOK
  BY DEF Init, CurveOK, LearnsEachDayOnce, IsCurve, NoCurve, Recorded
<1> QED
  BY <1>6, <1>7, <1>8, <1>9, <1>10 DEF IInv

\* The clock and the settled days are as they were, after what leaves time alone.
LEMMA SameTime ==
    ASSUME now' = now
    PROVE  today' = today
PROOF
  BY DEF today

LEMMA SavesKeeps ==
    ASSUME IInv, up, Saves(After)
    PROVE  IInv'
PROOF
<1> DEFINE A == After
<1>1. /\ buckets' = A.buckets /\ snaps' = A.snaps /\ seen' = A.seen /\ baked' = A.baked
      /\ ledger' = A.ledger /\ consumption' = A.consumption /\ curve' = A.curve
      /\ cycled' = TRUE
      /\ exact' = (IF now % Ticks = WindowTick /\ meter THEN Add(exact, today, ~reset) ELSE exact) \ Misled
      /\ fed' = Add(fed, today, today \in Shown)
      /\ UNCHANGED <<now, up, feed_up, feed_day, meter, sensor, reset, outlook, faults>>
      /\ UNCHANGED <<midnight, due>>
  BY DEF Saves
<1>2. today' = today
  BY <1>1, SameTime
<1>3. A.buckets \in Buckets(Days \cup {-1})
  BY AfterBuckets
<1>4. /\ A.snaps \subseteq Snapshot
      /\ \A x, y \in A.snaps : x.side = y.side /\ x.at = y.at => x = y
      /\ \A d \in exact : d >= today - 1 => Closes(A.snaps, d)
      /\ now % Ticks = WindowTick /\ meter => Closes(A.snaps, today)
  BY AfterSnaps
<1>5. A.seen \subseteq 0..now /\ \A t \in seen : DayOf(t) >= today - 1 => t \in A.seen
  BY AfterSeen
<1>6. /\ \A r \in A.baked : r.day \in -1..today - 1 /\ r.side \in Sides
      /\ \A r, s \in A.baked : r.day = s.day /\ r.side = s.side => r = s
      /\ \A r \in A.baked : r.source = "failed" => r.day \notin exact
  BY AfterBaked
<1>7. DOMAIN A.ledger \subseteq 0..today - 1
  BY AfterLedger
<1>8. /\ consumption \subseteq A.consumption
      /\ \A r \in A.consumption : r.day \in 0..today - 1 /\ r.samples \subseteq 0..now
      /\ \A r, s \in A.consumption : r.day = s.day => r = s
      /\ \A r \in A.consumption : midnight[r.day] \subseteq r.samples
      /\ today > 0 => \/ midnight[today - 1] = {}
                      \/ \E r \in A.consumption : r.day = today - 1
  BY AfterConsumption
<1>9. /\ Honest(A.curve) /\ A.curve.vintages \subseteq Days
      /\ Recorded(curve) \subseteq Recorded(A.curve)
      /\ today \in Shown => today \in Recorded(A.curve)
  BY AfterCurve
<1> HIDE DEF A
<1>10. /\ exact' \subseteq exact \cup {today}
       /\ today \in exact' => today \in exact \/ (now % Ticks = WindowTick /\ meter)
  BY <1>1 DEF Add
<1>11. today \in Nat /\ exact \subseteq Int
  BY NowType DEF IInv, ExactCloses
<1>12. {up', cycled', feed_up', meter', reset', outlook'} \subseteq BOOLEAN
  BY <1>1 DEF IInv, TypeOK
<1>13. TypeOK'
  <2>1. /\ now \in 0..LastTick /\ feed_day \in {today - 1, today} /\ sensor \subseteq -1..today - 1
        /\ faults \in 0..MaxFaults
    BY DEF IInv, TypeOK
  <2>2. curve'.vintages \subseteq Days /\ curve'.predictions \cup curve'.errors \subseteq Prediction
    BY <1>1, <1>9 DEF Honest
  <2> QED
    BY <1>1, <1>2, <1>3, <1>4, <1>5, <1>6, <1>7, <1>8, <1>12, <2>1, <2>2 DEF TypeOK
<1>14. OneSensor' /\ OneSnapshot'
  BY <1>1, <1>4 DEF IInv, OneSensor, OneSnapshot
<1>15. ExactCloses'
  <2>1. \A d \in exact' : d >= today - 1 => Closes(A.snaps, d)
    BY <1>4, <1>10
  <2>2. exact' \subseteq Int
    BY <1>10, <1>11
  <2>3. \A d \in exact' : d >= today' - 1 => Closes(snaps', d)
    BY <1>1, <1>2, <2>1
  <2> QED
    BY <2>2, <2>3 DEF ExactCloses, Closes
<1>16. BakedOnce'
  <2>1. ASSUME NEW r \in A.baked, r.source = "failed" PROVE r.day \notin exact'
    <3>1. r.day \notin exact /\ r.day # today
      BY <1>6, <1>11, <2>1
    <3> QED
      BY <1>10, <3>1
  <2> QED
    BY <1>1, <1>6, <2>1 DEF BakedOnce
<1>17. MidnightOK' /\ ConsumedOnce'
  BY <1>1, <1>8 DEF IInv, MidnightOK, ConsumedOnce
<1>18. \A d \in 0..today - 1 : Settled(d)'
  <2> SUFFICES ASSUME NEW d \in 0..today - 1 PROVE Settled(d)'
    OBVIOUS
  <2>1. CASE d = today - 1
    BY <1>1, <1>8, <1>11, <2>1 DEF Settled, Consumed
  <2>2. CASE d # today - 1
    <3>1. d \in 0..today - 2
      BY <1>11, <2>2
    <3>2. Settled(d)
      BY <3>1 DEF IInv, SettledInTime
    <3> QED
      BY <1>1, <1>8, <3>2 DEF Settled, Consumed
  <2> QED
    BY <2>1, <2>2
<1>19. SettledInTime'
  <2>1. \A d \in 0..today - 2 : d \in 0..today - 1
    BY <1>11
  <2>2. today > 0 => today - 1 \in 0..today - 1
    BY <1>11
  <2> QED
    BY <1>2, <1>18, <2>1, <2>2 DEF SettledInTime
<1>20. SamplesKept'
  BY <1>1, <1>2, <1>18 DEF SamplesKept, Settled, Consumed
<1>21. CurveOK'
  <2>1. fed' \subseteq Recorded(A.curve)
    BY <1>1, <1>9 DEF Add, IInv, CurveOK, LearnsEachDayOnce
  <2> QED
    BY <1>1, <1>9, <2>1 DEF CurveOK, LearnsEachDayOnce, Honest
<1> QED
  BY <1>13, <1>14, <1>15, <1>16, <1>17, <1>19, <1>20, <1>21 DEF IInv

LEMMA CrashesKeeps ==
    ASSUME IInv, up, Crashes(After)
    PROVE  IInv'
PROOF
<1> DEFINE A == After
<1>1. /\ buckets' \in {buckets, A.buckets} /\ snaps' \in {snaps, A.snaps} /\ seen' \in {seen, A.seen}
      /\ baked' \in {baked, A.baked} /\ ledger' \in {ledger, A.ledger}
      /\ consumption' \in {consumption, A.consumption} /\ curve' \in {curve, A.curve}
      /\ up' = FALSE /\ calm' = 0
      /\ exact' = exact \ ({today} \cup Misled)
      /\ fed' = fed \ {today}
      /\ faults < MaxFaults /\ faults' = faults + 1
      /\ UNCHANGED <<now, cycled, feed_up, feed_day, meter, sensor, reset, outlook, midnight>>
  BY DEF Crashes
<1>2. today' = today
  BY <1>1, SameTime
<1>3. A.buckets \in Buckets(Days \cup {-1})
  BY AfterBuckets
<1>4. /\ A.snaps \subseteq Snapshot
      /\ \A x, y \in A.snaps : x.side = y.side /\ x.at = y.at => x = y
      /\ \A d \in exact : d >= today - 1 => Closes(A.snaps, d)
  BY AfterSnaps
<1>5. A.seen \subseteq 0..now /\ \A t \in seen : DayOf(t) >= today - 1 => t \in A.seen
  BY AfterSeen
<1>6. /\ \A r \in A.baked : r.day \in -1..today - 1 /\ r.side \in Sides
      /\ \A r, s \in A.baked : r.day = s.day /\ r.side = s.side => r = s
      /\ \A r \in A.baked : r.source = "failed" => r.day \notin exact
  BY AfterBaked
<1>7. DOMAIN A.ledger \subseteq 0..today - 1
  BY AfterLedger
<1>8. /\ consumption \subseteq A.consumption
      /\ \A r \in A.consumption : r.day \in 0..today - 1 /\ r.samples \subseteq 0..now
      /\ \A r, s \in A.consumption : r.day = s.day => r = s
      /\ \A r \in A.consumption : midnight[r.day] \subseteq r.samples
  BY AfterConsumption
<1>9. /\ Honest(A.curve) /\ A.curve.vintages \subseteq Days
      /\ Recorded(curve) \subseteq Recorded(A.curve)
  BY AfterCurve
<1> HIDE DEF A
<1>10. TypeOK
  BY DEF IInv
<1>11. today \in Nat /\ exact' \subseteq exact /\ exact \subseteq Int
  BY <1>1, NowType DEF IInv, ExactCloses
<1>12. {up', cycled', feed_up', meter', reset', outlook'} \subseteq BOOLEAN
  BY <1>1, <1>10 DEF TypeOK
<1>13. consumption \subseteq consumption'
  BY <1>1, <1>8
<1>14. Honest(curve')
  BY <1>1, <1>9 DEF IInv, TypeOK, CurveOK, LearnsEachDayOnce, Honest
<1>15. TypeOK'
  <2>1. faults' \in 0..MaxFaults
    BY <1>1, <1>10, BoundsAssumption DEF TypeOK
  <2>2. buckets' \in Buckets(Days \cup {-1}) /\ snaps' \subseteq Snapshot /\ seen' \subseteq 0..now
    BY <1>1, <1>3, <1>4, <1>5, <1>10 DEF TypeOK
  <2>3. \A r \in baked' : r.day \in -1..today - 1 /\ r.side \in Sides
    BY <1>1, <1>6, <1>10 DEF TypeOK
  <2>4. DOMAIN ledger' \subseteq 0..today - 1
    BY <1>1, <1>7, <1>10 DEF TypeOK
  <2>5. \A r \in consumption' : r.day \in 0..today - 1 /\ r.samples \subseteq 0..now
    BY <1>1, <1>8, <1>10 DEF TypeOK
  <2>6. curve'.vintages \subseteq Days /\ curve'.predictions \cup curve'.errors \subseteq Prediction
    BY <1>1, <1>9, <1>10, <1>14 DEF TypeOK, Honest
  <2>7. /\ now' \in 0..LastTick /\ feed_day' \in {today - 1, today} /\ sensor' \subseteq -1..today - 1
    BY <1>1, <1>10 DEF TypeOK
  <2> QED
    BY <1>1, <1>2, <1>12, <2>1, <2>2, <2>3, <2>4, <2>5, <2>6, <2>7 DEF TypeOK
<1>16. OneSensor' /\ OneSnapshot'
  <2>1. \A x, y \in snaps' : x.side = y.side /\ x.at = y.at => x = y
    BY <1>1, <1>4 DEF IInv, OneSnapshot
  <2> QED
    BY <1>1, <2>1 DEF IInv, OneSensor, OneSnapshot
<1>17. ExactCloses'
  <2>1. \A d \in exact : d >= today - 1 => Closes(snaps, d)
    BY DEF IInv, ExactCloses
  <2>2. \A d \in exact' : d >= today' - 1 => Closes(snaps', d)
    BY <1>1, <1>2, <1>4, <1>11, <2>1
  <2>3. exact' \subseteq Int
    BY <1>11
  <2> QED
    BY <2>2, <2>3 DEF ExactCloses, Closes
<1>18. BakedOnce'
  <2>1. \A r, s \in baked' : r.day = s.day /\ r.side = s.side => r = s
    BY <1>1, <1>6 DEF IInv, BakedOnce
  <2>2. \A r \in baked' : r.source = "failed" => r.day \notin exact
    BY <1>1, <1>6 DEF IInv, BakedOnce
  <2> QED
    BY <1>11, <2>1, <2>2 DEF BakedOnce
<1>19. MidnightOK' /\ ConsumedOnce'
  <2>1. \A r, s \in consumption' : r.day = s.day => r = s
    BY <1>1, <1>8 DEF IInv, ConsumedOnce
  <2>2. \A r \in consumption' : midnight[r.day] \subseteq r.samples
    BY <1>1, <1>8 DEF IInv, ConsumedOnce
  <2> QED
    BY <1>1, <2>1, <2>2 DEF IInv, MidnightOK, ConsumedOnce
<1>20. SettledInTime'
  BY <1>1 DEF SettledInTime
<1>21. SamplesKept'
  <2> SUFFICES ASSUME NEW d \in 0..today - 1 PROVE Consumed(d)' \/ midnight[d] \subseteq seen'
    BY <1>1, <1>2 DEF SamplesKept
  <2>1. CASE d = today - 1
    <3>1. Consumed(d) \/ midnight[d] \subseteq seen
      BY DEF IInv, SamplesKept
    <3>2. \A t \in midnight[d] : DayOf(t) = d
      <4>1. d \in Days
        BY <1>10, <1>11, NowType
      <4> QED
        BY <4>1 DEF IInv, MidnightOK
    <3>3. midnight[d] \subseteq seen => midnight[d] \subseteq A.seen
      BY <1>5, <1>11, <2>1, <3>2
    <3> QED
      BY <1>1, <1>13, <3>1, <3>3 DEF Consumed
  <2>2. CASE d # today - 1
    <3>1. d \in 0..today - 2
      BY <1>11, <2>2
    <3>2. Settled(d)
      BY <3>1 DEF IInv, SettledInTime
    <3> QED
      BY <1>13, <3>2 DEF Settled, Consumed
  <2> QED
    BY <2>1, <2>2
<1>22. CurveOK'
  <2>1. fed' \subseteq Recorded(curve')
    <3>1. fed \subseteq Recorded(curve)
      BY DEF IInv, CurveOK, LearnsEachDayOnce
    <3>2. Recorded(curve) \subseteq Recorded(curve')
      BY <1>1, <1>9
    <3> QED
      BY <1>1, <3>1, <3>2
  <2> QED
    BY <1>14, <2>1 DEF CurveOK, LearnsEachDayOnce, Honest, Recorded
<1> QED
  BY <1>15, <1>16, <1>17, <1>18, <1>19, <1>20, <1>21, <1>22 DEF IInv

\* While the day and the stores stay, what is said of the stores stays.
LEMMA StoresStay ==
    ASSUME IInv, today' = today, UNCHANGED <<buckets, snaps, seen, baked, ledger, consumption, curve>>,
           UNCHANGED <<exact, fed, midnight>>
    PROVE  /\ (OneSnapshot /\ ExactCloses /\ BakedOnce /\ MidnightOK /\ ConsumedOnce)'
           /\ (SamplesKept /\ CurveOK)'
PROOF
<1>1. (OneSnapshot /\ ExactCloses /\ BakedOnce)'
  BY DEF IInv, OneSnapshot, ExactCloses, Closes, BakedOnce
<1>2. (MidnightOK /\ ConsumedOnce /\ SamplesKept)'
  BY DEF IInv, MidnightOK, ConsumedOnce, SamplesKept, Consumed
<1>3. CurveOK'
  BY DEF IInv, CurveOK, LearnsEachDayOnce, IsCurve, Recorded
<1> QED
  BY <1>1, <1>2, <1>3

LEMMA StopKeeps ==
    ASSUME IInv, Stop
    PROVE  IInv'
PROOF
<1>1. /\ faults < MaxFaults /\ up' = FALSE /\ faults' = faults + 1
      /\ UNCHANGED <<now, cycled, feed_up, feed_day, meter, sensor, reset, outlook>>
      /\ UNCHANGED <<buckets, snaps, seen, baked, ledger, consumption, curve>>
      /\ UNCHANGED <<exact, fed, midnight>>
      /\ calm' = calm
  BY DEF Stop, stores, ghosts
<1>2. today' = today
  BY <1>1, SameTime
<1>3. TypeOK'
  <2>1. {up', cycled', feed_up', meter', reset', outlook'} \subseteq BOOLEAN
    BY <1>1 DEF IInv, TypeOK
  <2>2. faults' \in 0..MaxFaults
    BY <1>1, BoundsAssumption DEF IInv, TypeOK
  <2> QED
    BY <1>1, <1>2, <2>1, <2>2 DEF IInv, TypeOK
<1>4. OneSensor'
  BY <1>1 DEF IInv, OneSensor
<1>5. SettledInTime'
  BY <1>1, <1>2 DEF IInv, SettledInTime, Settled, Consumed
<1> QED
  BY <1>1, <1>2, <1>3, <1>4, <1>5, StoresStay DEF IInv

LEMMA WorldChangesKeeps ==
    ASSUME IInv, WorldChanges
    PROVE  IInv'
PROOF
<1>1. /\ UNCHANGED <<now, up, cycled, calm>>
      /\ UNCHANGED <<buckets, snaps, seen, baked, ledger, consumption, curve>>
      /\ UNCHANGED <<exact, fed, midnight>>
  BY DEF WorldChanges, stores, ghosts
<1>2. today' = today
  BY <1>1, SameTime
<1>3. today \in Nat /\ MaxFaults \in Nat
  BY NowType, BoundsAssumption DEF IInv
<1>4. TypeOK
  BY DEF IInv
<1>5. /\ faults' \in 0..MaxFaults
      /\ feed_day' \in {today - 1, today}
      /\ sensor' \subseteq -1..today - 1
      /\ {feed_up', meter', reset', outlook'} \subseteq BOOLEAN
      /\ \A x, y \in sensor' : x = y
  <2>1. /\ faults \in 0..MaxFaults /\ feed_day \in {today - 1, today} /\ sensor \subseteq -1..today - 1
        /\ {feed_up, meter, reset, outlook} \subseteq BOOLEAN /\ \A x, y \in sensor : x = y
    BY <1>4 DEF TypeOK, IInv, OneSensor
  <2>2. CASE FeedTurns
    BY <1>3, <2>1, <2>2 DEF FeedTurns, Turn
  <2>3. CASE MeterTurns
    BY <1>3, <2>1, <2>3 DEF MeterTurns, Turn
  <2>4. CASE OutlookTurns
    BY <1>3, <2>1, <2>4 DEF OutlookTurns, Turn
  <2>5. CASE CountersReset
    BY <1>3, <2>1, <2>5 DEF CountersReset, Turn
  <2>6. CASE FeedRolls
    BY <1>3, <2>1, <2>6 DEF FeedRolls
  <2>7. CASE SensorTurns
    <3>1. sensor' = {} \/ sensor' = {today - 1}
      BY <2>7 DEF SensorTurns
    <3>2. UNCHANGED faults \/ (faults < MaxFaults /\ faults' = faults + 1)
      BY <2>7 DEF SensorTurns
    <3>3. UNCHANGED <<feed_up, feed_day, meter, reset, outlook>>
      BY <2>7 DEF SensorTurns
    <3> QED
      BY <1>3, <2>1, <3>1, <3>2, <3>3
  <2> QED
    BY <2>2, <2>3, <2>4, <2>5, <2>6, <2>7 DEF WorldChanges
<1>6. TypeOK'
  BY <1>1, <1>2, <1>4, <1>5 DEF TypeOK
<1>7. OneSensor'
  BY <1>5 DEF OneSensor
<1>8. SettledInTime'
  BY <1>1, <1>2 DEF IInv, SettledInTime, Settled, Consumed
<1> QED
  BY <1>1, <1>2, <1>6, <1>7, <1>8, StoresStay DEF IInv

LEMMA StartKeeps ==
    ASSUME IInv, Start
    PROVE  IInv'
PROOF
<1> DEFINE D == {DayOf(t) : t \in seen} \ {today}
           N == Finalised(consumption, seen, D)
<1>1. /\ up' = TRUE /\ consumption' = N
      /\ UNCHANGED <<now, cycled, feed_up, feed_day, meter, sensor, reset, outlook, faults>>
      /\ UNCHANGED <<buckets, snaps, seen, baked, ledger, curve>>
      /\ UNCHANGED <<calm, exact, fed, midnight>>
  BY DEF Start, ghosts
<1>2. today' = today
  BY <1>1, SameTime
<1>3. now \in Nat /\ today = DayOf(now) /\ today \in Nat /\ 0..today \subseteq Days
  BY NowType DEF IInv, today
<1>4. TypeOK
  BY DEF IInv
<1>5. D \subseteq 0..today - 1
  <2>1. \A t \in seen : t \in Nat /\ t <= now
    BY <1>3, <1>4 DEF TypeOK
  <2>2. \A t \in seen : DayOf(t) \in Nat /\ DayOf(t) <= today
    BY <1>3, <2>1, DayBounds, DayOrder
  <2> QED
    BY <1>3, <2>2
<1>6. /\ \A r, s \in consumption : r.day = s.day => r = s
      /\ \A r \in consumption : midnight[r.day] \subseteq r.samples
      /\ \A r \in consumption : r.day \in 0..today - 1 /\ r.samples \subseteq 0..now
  BY <1>4 DEF IInv, TypeOK, ConsumedOnce
<1>7. /\ consumption \subseteq N
      /\ \A r, s \in N : r.day = s.day => r = s
      /\ \A r \in N \ consumption :
            /\ r.day \in D /\ r.samples = OfDay(seen, r.day) /\ r.samples # {}
            /\ \A s \in consumption : s.day # r.day
      /\ \A d \in D : OfDay(seen, d) # {} => \E r \in N : r.day = d
  <2> HIDE DEF D
  <2> QED
    BY <1>6, FinalisesOnce
<1> HIDE DEF N
<1>8. ASSUME NEW d \in 0..today - 1, ~Consumed(d)
      PROVE  midnight[d] \subseteq OfDay(seen, d)
  <2>1. midnight[d] \subseteq seen
    BY <1>8 DEF IInv, SamplesKept
  <2>2. d \in Days
    BY <1>3
  <2>3. \A t \in midnight[d] : DayOf(t) = d
    BY <2>2 DEF IInv, MidnightOK
  <2> QED
    BY <2>1, <2>3 DEF OfDay
<1>9. \A r \in N : /\ r.day \in 0..today - 1 /\ r.samples \subseteq 0..now
                   /\ midnight[r.day] \subseteq r.samples
  <2> SUFFICES ASSUME NEW r \in N, r \notin consumption
               PROVE  /\ r.day \in 0..today - 1 /\ r.samples \subseteq 0..now
                      /\ midnight[r.day] \subseteq r.samples
    BY <1>6
  <2>1. r.day \in 0..today - 1 /\ ~Consumed(r.day) /\ r.samples = OfDay(seen, r.day)
    BY <1>5, <1>7 DEF Consumed
  <2>2. r.samples \subseteq 0..now
    BY <1>4, <2>1 DEF OfDay, TypeOK
  <2> QED
    BY <1>8, <2>1, <2>2
<1>10. \A d \in 0..today - 1 : Settled(d)'
  <2> SUFFICES ASSUME NEW d \in 0..today - 1, midnight[d] # {} PROVE \E r \in N : r.day = d
    BY <1>1 DEF Settled, Consumed
  <2>1. CASE Consumed(d)
    BY <1>7, <2>1 DEF Consumed
  <2>2. CASE ~Consumed(d)
    <3>1. PICK t \in seen : DayOf(t) = d
      BY <1>8, <2>2 DEF OfDay
    <3>2. d \in D
      BY <1>3, <3>1
    <3>3. OfDay(seen, d) # {}
      BY <3>1 DEF OfDay
    <3> QED
      BY <1>7, <3>2, <3>3
  <2> QED
    BY <2>1, <2>2
<1> HIDE DEF D
<1>11. TypeOK'
  <2>1. {up', cycled', feed_up', meter', reset', outlook'} \subseteq BOOLEAN
    BY <1>1, <1>4 DEF TypeOK
  <2> QED
    BY <1>1, <1>2, <1>4, <1>9, <2>1 DEF TypeOK
<1>12. (OneSensor /\ OneSnapshot /\ ExactCloses /\ BakedOnce)'
  BY <1>1, <1>2 DEF IInv, OneSensor, OneSnapshot, ExactCloses, Closes, BakedOnce
<1>13. (MidnightOK /\ ConsumedOnce)'
  BY <1>1, <1>7, <1>9 DEF IInv, MidnightOK, ConsumedOnce
<1>14. SettledInTime'
  <2>1. \A d \in 0..today - 2 : d \in 0..today - 1
    BY <1>3
  <2>2. today > 0 => today - 1 \in 0..today - 1
    BY <1>3
  <2> QED
    BY <1>2, <1>10, <2>1, <2>2 DEF SettledInTime
<1>15. SamplesKept'
  BY <1>1, <1>2, <1>10 DEF SamplesKept, Settled, Consumed
<1>16. CurveOK'
  BY <1>1 DEF IInv, CurveOK, LearnsEachDayOnce, IsCurve, Recorded
<1> QED
  BY <1>11, <1>12, <1>13, <1>14, <1>15, <1>16 DEF IInv

\* The day ends: what was sampled of it is what its consumption must hold.
LEMMA RollsKeeps ==
    ASSUME IInv, Pass, today' # today
    PROVE  IInv'
PROOF
<1>1. /\ up => cycled
      /\ now < LastTick /\ now' = now + 1 /\ cycled' = FALSE
      /\ UNCHANGED <<up, feed_up, meter, outlook, exact, fed>>
      /\ UNCHANGED <<buckets, snaps, seen, baked, ledger, consumption, curve>>
      /\ Rolls
  BY DEF Pass, stores
<1>2. /\ reset' = FALSE /\ calm' = 0
      /\ midnight' = [midnight EXCEPT ![today] = OfDay(seen, today)]
  BY <1>1 DEF Rolls
<1>3. now \in Nat /\ today = DayOf(now) /\ today \in Nat /\ today \in Days /\ 0..today \subseteq Days
  BY NowType DEF IInv, today
<1>4. today' = today + 1
  BY <1>1, <1>3, NextDay DEF today
<1>5. TypeOK
  BY DEF IInv
<1>6. PICK late \in SUBSET {"feed", "sensor"} :
        /\ faults' = faults + Cardinality(late) /\ faults' <= MaxFaults
        /\ feed_day' = IF "feed" \in late THEN today ELSE today'
        /\ sensor' = {x + 1 : x \in IF "sensor" \in late THEN {} ELSE sensor}
                       \cup {x \in sensor : "sensor" \in late}
  BY <1>1 DEF Rolls
<1>7. faults' \in 0..MaxFaults
  <2>1. IsFiniteSet({"feed"} \cup {"sensor"})
    BY FS_Singleton, FS_AddElement
  <2>2. {"feed"} \cup {"sensor"} = {"feed", "sensor"}
    OBVIOUS
  <2>3. Cardinality(late) \in Nat
    BY <2>1, <2>2, FS_Subset, FS_CardinalityType
  <2> QED
    BY <1>5, <1>6, <2>3, BoundsAssumption DEF TypeOK
<1>8. sensor' \subseteq -1..today /\ \A x, y \in sensor' : x = y
  <2>1. sensor \subseteq -1..today - 1 /\ \A x, y \in sensor : x = y
    BY <1>5 DEF TypeOK, IInv, OneSensor
  <2>2. CASE "sensor" \in late
    <3>1. sensor' = sensor
      BY <1>6, <2>2
    <3> QED
      BY <1>3, <2>1, <3>1
  <2>3. CASE "sensor" \notin late
    <3>1. sensor' = {x + 1 : x \in sensor}
      BY <1>6, <2>3
    <3> QED
      BY <1>3, <2>1, <3>1
  <2> QED
    BY <2>2, <2>3
<1>9. \A r \in consumption : r.day \in 0..today - 1 /\ r.samples \subseteq 0..now
  BY <1>5 DEF TypeOK
<1>10. TypeOK'
  <2>1. {up', cycled', feed_up', meter', reset', outlook'} \subseteq BOOLEAN
    BY <1>1, <1>2, <1>5 DEF TypeOK
  <2>2. now' \in 0..LastTick
    BY <1>1, <1>3, BoundsAssumption
  <2>3. feed_day' \in {today' - 1, today'}
    BY <1>3, <1>4, <1>6
  <2>4. seen' \subseteq 0..now'
    BY <1>1, <1>3, <1>5 DEF TypeOK
  <2>5. \A r \in baked' : r.day \in -1..today' - 1 /\ r.side \in Sides
    BY <1>1, <1>3, <1>4, <1>5 DEF TypeOK
  <2>6. DOMAIN ledger' \subseteq 0..today' - 1
    BY <1>1, <1>3, <1>4, <1>5 DEF TypeOK
  <2>7. \A r \in consumption' : r.day \in 0..today' - 1 /\ r.samples \subseteq 0..now'
    BY <1>1, <1>3, <1>4, <1>9
  <2>8. sensor' \subseteq -1..today' - 1
    BY <1>3, <1>4, <1>8
  <2> QED
    BY <1>1, <1>5, <1>7, <2>1, <2>2, <2>3, <2>4, <2>5, <2>6, <2>7, <2>8 DEF TypeOK
<1>11. (OneSensor /\ OneSnapshot /\ BakedOnce /\ CurveOK)'
  BY <1>1, <1>8 DEF IInv, OneSensor, OneSnapshot, BakedOnce, CurveOK, LearnsEachDayOnce, IsCurve, Recorded
<1>12. ExactCloses'
  <2>1. exact \subseteq Int /\ \A d \in exact : d >= today - 1 => Closes(snaps, d)
    BY DEF IInv, ExactCloses
  <2>2. \A d \in exact' : d >= today' - 1 => Closes(snaps', d)
    BY <1>1, <1>3, <1>4, <2>1
  <2> QED
    BY <1>1, <2>1, <2>2 DEF ExactCloses, Closes
<1>13. /\ midnight \in [Days -> SUBSET Nat]
       /\ \A d \in Days : \A t \in midnight[d] : DayOf(t) = d
  BY DEF IInv, MidnightOK
<1>14. \A d \in Days : midnight'[d] = IF d = today THEN OfDay(seen, today) ELSE midnight[d]
  BY <1>2, <1>13
<1>15. MidnightOK'
  <2>1. OfDay(seen, today) \in SUBSET Nat
    <3>1. seen \subseteq Nat
      BY <1>3, <1>5 DEF TypeOK
    <3> QED
      BY <3>1 DEF OfDay
  <2>2. midnight' \in [Days -> SUBSET Nat]
    BY <1>2, <1>13, <2>1
  <2>3. \A d \in Days : \A t \in midnight'[d] : DayOf(t) = d
    BY <1>13, <1>14 DEF OfDay
  <2> QED
    BY <2>2, <2>3 DEF MidnightOK
<1>16. \A d \in 0..today - 1 : d \in Days /\ d # today /\ midnight'[d] = midnight[d]
  BY <1>3, <1>14
<1>17. ConsumedOnce'
  BY <1>1, <1>9, <1>16 DEF IInv, ConsumedOnce
<1>18. SamplesKept'
  <2> SUFFICES ASSUME NEW d \in 0..today PROVE Consumed(d) \/ midnight'[d] \subseteq seen
    BY <1>1, <1>3, <1>4 DEF SamplesKept, Consumed
  <2>1. CASE d = today
    BY <1>3, <1>14, <2>1 DEF OfDay
  <2>2. CASE d # today
    <3>1. d \in 0..today - 1
      BY <1>3, <2>2
    <3> QED
      BY <1>16, <3>1 DEF IInv, SamplesKept
  <2> QED
    BY <2>1, <2>2
<1>19. SettledInTime'
  <2>1. \A d \in 0..today' - 2 : d \in 0..today - 1
    BY <1>3, <1>4
  <2>2. up' => \A d \in 0..today - 1 : Settled(d)
    BY <1>1 DEF IInv, SettledInTime
  <2>3. up' => \A d \in 0..today' - 2 : Settled(d)'
    BY <1>1, <1>16, <2>1, <2>2 DEF Settled, Consumed
  <2> QED
    BY <1>1, <1>2, <2>3 DEF SettledInTime
<1> QED
  BY <1>10, <1>11, <1>12, <1>15, <1>17, <1>18, <1>19 DEF IInv

LEMMA PassKeeps ==
    ASSUME IInv, Pass
    PROVE  IInv'
PROOF
<1>1. CASE today' # today
  BY <1>1, RollsKeeps
<1>2. CASE today' = today
  <2>1. /\ now < LastTick /\ now' = now + 1 /\ cycled' = FALSE
        /\ UNCHANGED <<up, feed_up, meter, outlook, exact, fed>>
        /\ UNCHANGED <<buckets, snaps, seen, baked, ledger, consumption, curve>>
        /\ UNCHANGED <<feed_day, sensor, reset, faults, midnight, calm>>
    BY <1>2 DEF Pass, stores
  <2>2. now \in Nat /\ TypeOK
    BY NowType DEF IInv
  <2>3. TypeOK'
    <3>1. {up', cycled', feed_up', meter', reset', outlook'} \subseteq BOOLEAN
      BY <2>1, <2>2 DEF TypeOK
    <3>2. now' \in 0..LastTick
      BY <2>1, <2>2, BoundsAssumption
    <3>3. seen' \subseteq 0..now'
      BY <2>1, <2>2 DEF TypeOK
    <3>4. \A r \in consumption' : r.day \in 0..today - 1 /\ r.samples \subseteq 0..now'
      BY <2>1, <2>2 DEF TypeOK
    <3> QED
      BY <1>2, <2>1, <2>2, <3>1, <3>2, <3>3, <3>4 DEF TypeOK
  <2>4. OneSensor'
    BY <2>1 DEF IInv, OneSensor
  <2>5. SettledInTime'
    BY <1>2, <2>1 DEF IInv, SettledInTime, Settled, Consumed
  <2> QED
    BY <1>2, <2>1, <2>3, <2>4, <2>5, StoresStay DEF IInv
<1> QED
  BY <1>1, <1>2

LEMMA StutterKeeps ==
    ASSUME IInv, UNCHANGED vars
    PROVE  IInv'
PROOF
<1>1. /\ UNCHANGED <<now, up, cycled, feed_up, feed_day, meter, sensor, reset, outlook, faults>>
      /\ UNCHANGED <<buckets, snaps, seen, baked, ledger, consumption, curve>>
      /\ UNCHANGED <<calm, exact, fed, midnight>>
  BY DEF vars, world, stores, ghosts
<1>2. today' = today
  BY <1>1, SameTime
<1>3. TypeOK'
  BY <1>1, <1>2 DEF IInv, TypeOK
<1>4. OneSensor' /\ SettledInTime'
  BY <1>1, <1>2 DEF IInv, OneSensor, SettledInTime, Settled, Consumed
<1> QED
  BY <1>1, <1>2, <1>3, <1>4, StoresStay DEF IInv

\* The invariant holds in every state: whatever order cycles, crashes, restarts and
\* the world's faults come in, at midnight or away from it.
THEOREM Invariance == Spec => []IInv
PROOF
<1>1. ASSUME IInv, [Next]_vars PROVE IInv'
  <2>1. CASE Cycle
    <3>1. up /\ (Saves(After) \/ Crashes(After))
      BY <2>1 DEF Cycle
    <3> QED
      BY <1>1, <3>1, SavesKeeps, CrashesKeeps
  <2>2. CASE Stop
    BY <1>1, <2>2, StopKeeps
  <2>3. CASE Start
    BY <1>1, <2>3, StartKeeps
  <2>4. CASE WorldChanges
    BY <1>1, <2>4, WorldChangesKeeps
  <2>5. CASE Pass
    BY <1>1, <2>5, PassKeeps
  <2>6. CASE UNCHANGED vars
    BY <1>1, <2>6, StutterKeeps
  <2> QED
    BY <1>1, <2>1, <2>2, <2>3, <2>4, <2>5, <2>6 DEF Next
<1> QED
  BY <1>1, InitIInv, PTL DEF Spec

\* What a day leaves in the stores it leaves there once, complete and for good: its
\* bake-in, its consumption and what the price curve learns of it (try_bake_yesterday,
\* try_finalise_dates, settle_days).
THEOREM DaysSettleOnceAlways == Spec => []DaysSettleOnce
PROOF
<1>1. IInv => DaysSettleOnce
  <2> SUFFICES ASSUME IInv PROVE DaysSettleOnce
    OBVIOUS
  <2>1. ConsumptionWhole
    <3>1. ASSUME calm > 0 /\ today > 0 /\ midnight[today - 1] # {}
          PROVE  \E r \in consumption : r.day = today - 1
      BY <3>1 DEF IInv, SettledInTime, Settled, Consumed
    <3> QED
      BY <3>1 DEF IInv, ConsumedOnce, ConsumptionWhole
  <2> QED
    BY <2>1 DEF IInv, CurveOK, DaysSettleOnce
<1> QED
  BY <1>1, Invariance, PTL

================================================================================
