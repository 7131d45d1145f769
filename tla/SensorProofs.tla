------------------------------ MODULE SensorProofs ------------------------------
(***************************************************************************)
(* What holds of the parts that watch other integrations' sensors, whatever    *)
(* the readings and however late they come: the export guard trips and clears *)
(* in time and only then, the watchdogs of several installs on one price      *)
(* sensor report every outage and measure their reloads by it, and the        *)
(* streams rebuilt from the recorder tell what the sensors said.              *)
(***************************************************************************)
EXTENDS ExportGuard, PriceFeedWatchdog, RecorderResample, CommonLemmas, TLAPS

USE GuardModesAssumption, GuardReadingsAssumption, GuardTimingAssumption, NoEpisodeAssumption

-----------------------------------------------------------------------------
(* Lemmas *)

\* A rate no larger than the peak keeps the energy within peak times duration.
LEMMA WithinPeak ==
    ASSUME NEW energy \in Nat, NEW peak \in Nat, NEW seen \in Nat, NEW rate \in Nat,
           NEW gap \in Nat, NEW top \in Nat,
           energy <= peak * seen, rate <= peak, peak <= top
    PROVE  energy + rate * gap <= top * (seen + gap)
<1>1. rate * gap <= top * gap
    OBVIOUS
<1>2. peak * seen <= top * seen
    OBVIOUS
<1>3. top * (seen + gap) = top * seen + top * gap
    OBVIOUS
<1>4. rate * gap \in Nat /\ top * gap \in Nat /\ top * seen \in Nat /\ peak * seen \in Nat
    OBVIOUS
<1>. QED
    BY <1>1, <1>2, <1>3, <1>4

\* A sample counts an excess exactly when the readings show one.
LEMMA CountsShown ==
    ASSUME NEW g, NEW p
    PROVE  Counted(g, p) # {} <=> Shown(g, p)
BY DEF Counted, Excess, Shown

\* An excess that counts is a number no smaller than the threshold.
LEMMA Counts ==
    ASSUME NEW g \in SUBSET Exports, NEW p \in SUBSET Yields, NEW x \in Active(g, p)
    PROVE  x \in Nat /\ x >= Threshold
BY DEF Active, Counted, Excess

\* The gain is the previous excess over a short gap, or nothing.
LEMMA Gains ==
    ASSUME TypeOK, Accounted
    PROVE  /\ Gain \in Nat
           /\ \/ Gain = 0
              \/ /\ last_excess \in Nat
                 /\ now - last_update \in 1..MaxGap
                 /\ Gain = last_excess * (now - last_update)
BY DEF TypeOK, Accounted, Gain, Unset

\* The episode after an active sample
LEMMA SeenFields ==
    ASSUME TypeOK, Accounted, episode # None, NEW x \in Nat
    PROVE  /\ Seen(x) \in Episode
           /\ Seen(x).onset = episode.onset
           /\ Seen(x).last_seen = now
           /\ Seen(x).energy = episode.energy + Gain
           /\ Seen(x).peak \in Nat
           /\ Seen(x).peak >= x /\ Seen(x).peak >= episode.peak
           /\ Seen(x).tripped_at = episode.tripped_at
           /\ Seen(x).cleared_at = episode.cleared_at
<1>1. episode \in Episode /\ now \in Nat
    BY DEF TypeOK
<1>2. episode.energy + Gain \in Nat
    BY <1>1, Gains DEF Episode
<1>3. /\ Larger(episode.peak, x) \in Nat
      /\ Larger(episode.peak, x) >= x
      /\ Larger(episode.peak, x) >= episode.peak
    BY <1>1 DEF Episode, Larger
<1>. QED
    BY <1>1, <1>2, <1>3 DEF Episode, Time, Seen

\* The episode after a quiet sample
LEMMA QuietedFields ==
    ASSUME TypeOK, Accounted, episode # None
    PROVE  /\ Quieted \in Episode
           /\ Quieted.onset = episode.onset
           /\ Quieted.last_seen = episode.last_seen
           /\ Quieted.energy = episode.energy + Gain
           /\ Quieted.peak = episode.peak
           /\ Quieted.tripped_at = episode.tripped_at
           /\ Quieted.cleared_at = episode.cleared_at
<1>1. episode \in Episode
    BY DEF TypeOK
<1>2. episode.energy + Gain \in Nat
    BY <1>1, Gains DEF Episode
<1>. QED
    BY <1>1, <1>2 DEF Episode, Time, Quieted

\* The energy account stays within the peak over the time up to this sample.
LEMMA EnergyBound ==
    ASSUME TypeOK, Accounted, episode # None, NEW top \in Nat, top >= episode.peak
    PROVE  episode.energy + Gain <= top * (now - episode.onset)
<1>. DEFINE seen == last_update - episode.onset
            gap  == now - last_update
<1>1. /\ episode.energy \in Nat /\ episode.peak \in Nat /\ episode.onset \in Nat
      /\ seen \in Nat /\ gap \in Nat /\ now - episode.onset = seen + gap
      /\ episode.energy <= episode.peak * seen
    BY DEF TypeOK, Episode, Accounted
<1>2. \E rate \in Nat : rate <= episode.peak /\ Gain = rate * gap
    <2>1. CASE Gain = 0
        BY <1>1, <2>1
    <2>2. CASE last_excess \in Nat /\ Gain = last_excess * gap
        BY <2>2 DEF Accounted, Unset
    <2>. QED
        BY <2>1, <2>2, Gains
<1>3. PICK rate \in Nat : rate <= episode.peak /\ Gain = rate * gap
    BY <1>2
<1>4. episode.energy + rate * gap <= top * (seen + gap)
    BY <1>1, <1>3, WithinPeak
<1>. QED
    BY <1>1, <1>3, <1>4

-----------------------------------------------------------------------------
(* The invariant.  A sample is the same step whichever sensor reported it; what *)
(* distinguishes the reports is only which reading they replace.                *)

\* A report of either sensor
Report ==
    /\ grid' \in SUBSET Exports
    /\ pv' \in SUBSET Yields
    /\ Sample(grid', pv')
    /\ UNCHANGED <<now, commanded>>
    /\ Watch

\* Its sample sees the excess x, or none.
Sees(x) == x \in Active(grid', pv') /\ Excessive(x)
SeesNone == Active(grid', pv') = {} /\ Quiet

LEMMA Cases ==
    ASSUME Report
    PROVE  /\ \/ \E x : Sees(x) /\ (Opens(x) \/ Continues(x) \/ Trips(x))
              \/ SeesNone /\ (Drops \/ Waits \/ Clears)
           /\ last_update' = now
<1>1. CASE Active(grid', pv') = {}
    BY <1>1 DEF Report, Sample, SeesNone, Quiet
<1>2. CASE Active(grid', pv') # {}
    <2>1. PICK x \in Active(grid', pv') : Excessive(x)
        BY <1>2 DEF Report, Sample
    <2>. QED
        BY <2>1 DEF Report, Sample, Sees, Excessive
<1>. QED
    BY <1>1, <1>2

\* What a seen excess is, and what every sample that sees one does
LEMMA SeesFacts ==
    ASSUME Report, NEW x, Sees(x)
    PROVE  /\ x \in Nat
           /\ clear_since' = Unset
           /\ last_excess' = x /\ last_excess' # Unset
BY Counts DEF Report, Sees, Excessive, Unset

\* The answer the guard should give, after a report
LEMMA AnswerIs ==
    ASSUME Report
    PROVE  /\ Exporting' <=> Active(grid', pv') # {}
           /\ \A x : Sees(x) => Exporting' /\ Shown(grid', pv')
           /\ SeesNone => ~Exporting' /\ last_excess' = Unset
           /\ last_excess' = Unset <=> ~Exporting'
<1>1. Active(grid, pv)' = Active(grid', pv')
    BY DEF Report, Active, Counted, Excess
<1>2. Exporting' <=> Active(grid', pv') # {}
    <2>1. Exporting' <=> commanded' \in Passive /\ Shown(grid', pv')
        BY DEF Exporting, Shown
    <2>. QED
        BY <2>1, CountsShown DEF Active, Report
<1>3. \A x : Sees(x) => Exporting' /\ Shown(grid', pv')
    BY <1>2, CountsShown DEF Sees, Active
<1>4. SeesNone => ~Exporting' /\ last_excess' = Unset
    BY <1>2 DEF SeesNone, Quiet
<1>5. last_excess' = Unset <=> ~Exporting'
    BY <1>3, <1>4, Cases, SeesFacts
<1>. QED
    BY <1>2, <1>3, <1>4, <1>5

\* The first sample of an episode
LEMMA OpensFields ==
    ASSUME TypeOK, Report, NEW x, Sees(x), Opens(x)
    PROVE  /\ episode' \in Episode
           /\ episode' # None
           /\ episode'.onset = now /\ episode'.last_seen = now
           /\ episode'.peak = x /\ episode'.energy = 0
           /\ episode'.tripped_at = Unset /\ episode'.cleared_at = Unset
           /\ state' = "suspect" /\ last_trip' = last_trip
<1>1. episode' = Opened(x) /\ x \in Nat
    BY SeesFacts DEF Opens
<1>2. /\ Opened(x) \in Episode
      /\ Opened(x).onset = now /\ Opened(x).last_seen = now
      /\ Opened(x).peak = x /\ Opened(x).energy = 0
      /\ Opened(x).tripped_at = Unset /\ Opened(x).cleared_at = Unset
    BY <1>1 DEF Opened, Episode, Time, TypeOK
<1>3. state' = "suspect" /\ last_trip' = last_trip
    BY DEF Opens
<1>. QED
    BY <1>1, <1>2, <1>3

\* A later one that sees the excess
LEMMA ContinuesFields ==
    ASSUME TypeOK, Phases, Accounted, Report, NEW x, Sees(x), Continues(x) \/ Trips(x)
    PROVE  /\ episode # None
           /\ episode' \in Episode /\ episode' # None
           /\ episode'.onset = episode.onset /\ episode'.last_seen = now
           /\ episode'.peak \in Nat /\ episode'.peak >= x /\ episode'.peak >= episode.peak
           /\ episode'.energy = episode.energy + Gain
           /\ episode'.cleared_at = episode.cleared_at
           /\ last_trip' = last_trip
           /\ \/ Trips(x) /\ episode'.tripped_at = now
              \/ Continues(x) /\ episode'.tripped_at = episode.tripped_at
<1>1. x \in Nat /\ episode # None
    BY SeesFacts DEF Continues, Trips, Phases
<1>2. Seen(x) \in Episode
    BY <1>1, SeenFields
<1>3. CASE Trips(x)
    <2>. DEFINE tripped == [Seen(x) EXCEPT !.tripped_at = now, !.snapshot = TRUE]
    <2>1. episode' = tripped
        BY <1>3 DEF Trips
    <2>2. /\ tripped \in Episode
          /\ tripped.onset = Seen(x).onset /\ tripped.last_seen = Seen(x).last_seen
          /\ tripped.peak = Seen(x).peak /\ tripped.energy = Seen(x).energy
          /\ tripped.tripped_at = now /\ tripped.cleared_at = Seen(x).cleared_at
        BY <1>2 DEF Episode, Time, TypeOK
    <2>3. last_trip' = last_trip
        BY <1>3 DEF Trips
    <2>. HIDE DEF tripped
    <2>. QED
        BY <1>1, <1>3, <2>1, <2>2, <2>3, SeenFields
<1>4. CASE Continues(x)
    <2>1. episode' = Seen(x) /\ last_trip' = last_trip
        BY <1>4 DEF Continues
    <2>. QED
        BY <1>1, <1>2, <1>4, <2>1, SeenFields
<1>. QED
    BY <1>3, <1>4

\* A quiet sample that keeps the trip
LEMMA WaitsFields ==
    ASSUME TypeOK, Phases, Accounted, Waits
    PROVE  /\ episode # None
           /\ episode' \in Episode /\ episode' # None
           /\ episode'.onset = episode.onset /\ episode'.last_seen = episode.last_seen
           /\ episode'.peak = episode.peak
           /\ episode'.energy = episode.energy + Gain
           /\ episode'.tripped_at = episode.tripped_at
           /\ episode'.cleared_at = episode.cleared_at
           /\ last_trip' = last_trip
<1>1. episode # None /\ episode' = Quieted /\ last_trip' = last_trip
    BY DEF Waits, Phases
<1>. QED
    BY <1>1, QuietedFields

\* and the one that ends it
LEMMA ClearsFields ==
    ASSUME TypeOK, Phases, Accounted, Clears
    PROVE  /\ episode # None
           /\ last_trip' \in Episode /\ last_trip' # None
           /\ last_trip'.onset = episode.onset /\ last_trip'.last_seen = episode.last_seen
           /\ last_trip'.peak = episode.peak
           /\ last_trip'.energy = episode.energy + Gain
           /\ last_trip'.tripped_at = episode.tripped_at
           /\ last_trip'.cleared_at = now
<1>. DEFINE cleared == [Quieted EXCEPT !.cleared_at = now]
<1>1. episode # None /\ last_trip' = cleared
    BY DEF Clears, Phases
<1>2. Quieted \in Episode
    BY <1>1, QuietedFields
<1>3. /\ cleared \in Episode
      /\ cleared.onset = Quieted.onset /\ cleared.last_seen = Quieted.last_seen
      /\ cleared.peak = Quieted.peak /\ cleared.energy = Quieted.energy
      /\ cleared.tripped_at = Quieted.tripped_at /\ cleared.cleared_at = now
    BY <1>2 DEF Episode, Time, TypeOK
<1>. HIDE DEF cleared
<1>. QED
    BY <1>1, <1>3, QuietedFields

LEMMA ReportTypeOK ==
    ASSUME IInv, Report
    PROVE  TypeOK'
<1>. TypeOK /\ Phases /\ Accounted
    BY DEF IInv
<1>1. /\ now' \in Nat
      /\ grid' \in SUBSET Exports
      /\ pv' \in SUBSET Yields
      /\ commanded' \in Modes \cup {None}
      /\ last_update' \in Nat
    BY Cases DEF Report, TypeOK
<1>2. excess_since' \in Time /\ settled_since' \in Nat
    BY DEF Report, Watch, TypeOK, Time
<1>3. ASSUME NEW x, Sees(x), Opens(x) \/ Continues(x) \/ Trips(x)
      PROVE  TypeOK'
    <2>1. clear_since' \in Time /\ last_excess' \in {Unset} \cup Nat
        BY <1>3, SeesFacts DEF Time
    <2>2. /\ state' \in {"idle", "suspect", "tripped"}
          /\ trip_count' \in Nat
          /\ last_trip' = last_trip
        BY <1>3 DEF Opens, Continues, Trips, TypeOK
    <2>3. episode' \in Episode
        BY <1>3, OpensFields, ContinuesFields
    <2>. QED
        BY <1>1, <1>2, <2>1, <2>2, <2>3 DEF TypeOK
<1>4. ASSUME SeesNone, Drops \/ Waits \/ Clears
      PROVE  TypeOK'
    <2>1. last_excess' \in {Unset} \cup Nat
        BY <1>4, AnswerIs
    <2>2. QuietSince \in Time
        BY DEF QuietSince, TypeOK, Time
    <2>3. /\ state' \in {"idle", "suspect", "tripped"}
          /\ trip_count' \in Nat
          /\ clear_since' \in Time
        BY <1>4, <2>2 DEF Drops, Waits, Clears, TypeOK, Time
    <2>4. CASE Drops
        BY <1>1, <1>2, <2>1, <2>3, <2>4 DEF Drops, TypeOK
    <2>5. CASE Waits
        BY <1>1, <1>2, <2>1, <2>3, <2>5, WaitsFields DEF TypeOK
    <2>6. CASE Clears
        <3>1. episode' = None
            BY <2>6 DEF Clears
        <3>. QED
            BY <1>1, <1>2, <2>1, <2>3, <2>6, <3>1, ClearsFields DEF TypeOK
    <2>. QED
        BY <1>4, <2>4, <2>5, <2>6
<1>. QED
    BY <1>3, <1>4, Cases

LEMMA ReportPhases ==
    ASSUME IInv, Report
    PROVE  Phases'
<1>. TypeOK /\ Phases /\ Accounted /\ last_update' = now /\ now \in Nat
    BY Cases DEF IInv, TypeOK
<1>1. ASSUME NEW x, Sees(x), Opens(x)
      PROVE  Phases'
    BY <1>1, SeesFacts, OpensFields DEF Phases
<1>2. ASSUME NEW x, Sees(x), Continues(x)
      PROVE  Phases'
    <2>1. /\ state' = state
          /\ state = "tripped" \/ now - episode.onset < Persist
        BY <1>2 DEF Continues
    <2>2. ~Trips(x)
        BY <2>1 DEF Trips, TypeOK, Phases, Episode
    <2>3. /\ episode # None /\ episode' # None
          /\ episode'.onset = episode.onset /\ episode'.tripped_at = episode.tripped_at
        BY <1>2, <2>2, ContinuesFields
    <2>4. clear_since' = Unset /\ last_excess' # Unset
        BY <1>2, SeesFacts
    <2>. QED
        BY <2>1, <2>3, <2>4 DEF Phases
<1>3. ASSUME NEW x, Sees(x), Trips(x)
      PROVE  Phases'
    <2>1. state' = "tripped" /\ ~Continues(x)
        BY <1>3 DEF Trips, Continues, TypeOK, Phases, Episode
    <2>2. /\ episode' # None /\ episode'.tripped_at = now /\ now # Unset
        BY <1>3, <2>1, ContinuesFields DEF Unset
    <2>3. clear_since' = Unset /\ last_excess' # Unset
        BY <1>3, SeesFacts
    <2>. QED
        BY <2>1, <2>2, <2>3 DEF Phases
<1>4. ASSUME SeesNone, Drops
      PROVE  Phases'
    BY <1>4, AnswerIs DEF Drops, Phases
<1>5. ASSUME SeesNone, Waits
      PROVE  Phases'
    <2>1. /\ state = "tripped" /\ state' = state
          /\ clear_since' = QuietSince /\ now - QuietSince < ClearAfter
        BY <1>5 DEF Waits
    <2>2. QuietSince # Unset
        BY DEF QuietSince, Unset
    <2>3. last_excess' = Unset
        BY <1>5, AnswerIs
    <2>. QED
        BY <1>5, <2>1, <2>2, <2>3, WaitsFields DEF Phases
<1>6. ASSUME SeesNone, Clears
      PROVE  Phases'
    BY <1>6, AnswerIs DEF Clears, Phases
<1>. QED
    BY <1>1, <1>2, <1>3, <1>4, <1>5, <1>6, Cases

LEMMA ReportSeeing ==
    ASSUME IInv, Report
    PROVE  Seeing'
<1>. TypeOK /\ Phases /\ Seeing
    BY DEF IInv
<1>1. /\ now' = now /\ now \in Nat
      /\ excess_since' = IF ~Shown(grid', pv') THEN Unset
                         ELSE IF excess_since = Unset THEN now ELSE excess_since
      /\ Shown(grid, pv)' <=> Shown(grid', pv')
    BY DEF Report, Watch, TypeOK, Shown
<1>2. /\ excess_since' # Unset <=> Shown(grid, pv)'
      /\ excess_since' # Unset => excess_since' <= now
    BY <1>1 DEF Seeing, TypeOK, Unset
<1>3. ASSUME state' = "suspect"
      PROVE  excess_since' # Unset /\ excess_since' <= episode'.onset
    <2>1. ASSUME NEW x, Sees(x), Opens(x)
          PROVE  excess_since' # Unset /\ excess_since' <= episode'.onset
        BY <1>1, <1>2, <2>1, AnswerIs, OpensFields
    <2>2. ASSUME NEW x, Sees(x), Continues(x)
          PROVE  excess_since' # Unset /\ excess_since' <= episode'.onset
        <3>1. state = "suspect" /\ ~Trips(x)
            BY <1>3, <2>2 DEF Continues, Trips
        <3>2. episode'.onset = episode.onset
            BY <2>2, ContinuesFields DEF IInv
        <3>3. excess_since # Unset /\ excess_since <= episode.onset
            BY <3>1 DEF Seeing
        <3>4. excess_since' = excess_since
            BY <1>1, <2>2, <3>3, AnswerIs
        <3>. QED
            BY <3>2, <3>3, <3>4
    <2>3. ASSUME NEW x, Trips(x)
          PROVE  FALSE
        BY <1>3, <2>3 DEF Trips
    <2>4. ~(Drops \/ Waits \/ Clears)
        BY <1>3 DEF Drops, Waits, Clears
    <2>. QED
        BY <2>1, <2>2, <2>3, <2>4, Cases
<1>. QED
    BY <1>1, <1>2, <1>3 DEF Seeing

LEMMA ReportAccounted ==
    ASSUME IInv, Report
    PROVE  Accounted'
<1>. TypeOK /\ Phases /\ Accounted
    BY DEF IInv
<1>1. /\ last_update' = now /\ now' = now
      /\ now \in Nat /\ last_update \in Nat /\ last_update <= now
    BY Cases DEF Report, TypeOK, Accounted
<1>2. ASSUME episode # None
      PROVE  /\ episode.onset \in Nat /\ episode.last_seen \in Nat /\ episode.peak \in Nat
             /\ episode.onset <= episode.last_seen /\ episode.last_seen <= last_update
             /\ episode.cleared_at = Unset
    BY <1>2 DEF TypeOK, Episode, Accounted
<1>3. ASSUME NEW x, Sees(x), Opens(x)
      PROVE  Accounted'
    <2>1. x \in Nat /\ clear_since' = Unset /\ last_excess' = x
        BY <1>3, SeesFacts
    <2>2. x * (now - now) = 0
        BY <1>1, <2>1
    <2>. QED
        BY <1>1, <1>3, <2>1, <2>2, OpensFields DEF Accounted
<1>4. ASSUME NEW x, Sees(x), Continues(x) \/ Trips(x)
      PROVE  Accounted'
    <2>1. x \in Nat /\ clear_since' = Unset /\ last_excess' = x
        BY <1>4, SeesFacts
    <2>2. /\ episode # None /\ episode'.onset = episode.onset /\ episode'.last_seen = now
          /\ episode'.peak \in Nat /\ episode'.peak >= x /\ episode'.peak >= episode.peak
          /\ episode'.energy = episode.energy + Gain
          /\ episode'.cleared_at = episode.cleared_at
        BY <1>4, ContinuesFields
    <2>3. episode'.energy <= episode'.peak * (now - episode'.onset)
        BY <2>2, EnergyBound
    <2>. QED
        BY <1>1, <1>2, <2>1, <2>2, <2>3 DEF Accounted
<1>5. ASSUME SeesNone, Waits
      PROVE  Accounted'
    <2>1. /\ episode # None
          /\ episode'.onset = episode.onset /\ episode'.last_seen = episode.last_seen
          /\ episode'.peak = episode.peak /\ episode'.energy = episode.energy + Gain
          /\ episode'.cleared_at = episode.cleared_at
        BY <1>5, WaitsFields
    <2>2. episode'.energy <= episode'.peak * (now - episode'.onset)
        BY <1>2, <2>1, EnergyBound
    <2>3. QuietSince \in episode.last_seen..now
        BY <1>1, <1>2, <2>1 DEF QuietSince, Accounted, TypeOK, Time
    <2>4. clear_since' = QuietSince /\ last_excess' = Unset
        BY <1>5, AnswerIs DEF Waits
    <2>. QED
        BY <1>1, <1>2, <2>1, <2>2, <2>3, <2>4 DEF Accounted
<1>6. ASSUME Drops \/ Clears
      PROVE  Accounted'
    BY <1>1, <1>6 DEF Drops, Clears, Accounted
<1>. QED
    BY <1>3, <1>4, <1>5, <1>6, Cases

\* A longer factor gives a larger product.
LEMMA Longer ==
    ASSUME NEW peak \in Nat, NEW short \in Nat, NEW long \in Nat, short <= long
    PROVE  peak * short <= peak * long /\ peak * short \in Nat /\ peak * long \in Nat
OBVIOUS

\* The gap after the last excess adds no more than the peak over MaxGap.
LEMMA LastGap ==
    ASSUME TypeOK, Accounted, EpisodesPlausible, episode # None
    PROVE  episode.energy + Gain <= episode.peak * (episode.last_seen - episode.onset + MaxGap)
<1>. DEFINE gap   == now - last_update
            seen  == episode.last_seen - episode.onset
<1>1. /\ episode.energy \in Nat /\ episode.peak \in Nat
      /\ seen \in Nat /\ seen + MaxGap \in Nat
    BY DEF TypeOK, Episode, Accounted
<1>2. CASE Gain = 0
    BY <1>1, <1>2 DEF EpisodesPlausible, Plausible
<1>3. CASE last_excess \in Nat /\ gap \in 1..MaxGap /\ Gain = last_excess * gap
    <2>1. /\ episode.last_seen = last_update /\ last_excess <= episode.peak
          /\ episode.energy <= episode.peak * seen
          /\ gap \in Nat /\ seen + gap \in Nat /\ seen + gap <= seen + MaxGap
        BY <1>1, <1>3 DEF Accounted, Unset
    <2>2. episode.energy + last_excess * gap <= episode.peak * (seen + gap)
        BY <1>1, <1>3, <2>1, WithinPeak
    <2>3. episode.peak * (seen + gap) <= episode.peak * (seen + MaxGap)
        BY <1>1, <2>1, Longer
    <2>4. /\ episode.energy + last_excess * gap \in Nat
          /\ episode.peak * (seen + gap) \in Nat /\ episode.peak * (seen + MaxGap) \in Nat
        BY <1>1, <1>3, <2>1, Longer
    <2>. QED
        BY <1>3, <2>2, <2>3, <2>4
<1>. QED
    BY <1>2, <1>3, Gains

LEMMA ReportPlausible ==
    ASSUME IInv, Report
    PROVE  EpisodesPlausible'
<1>. TypeOK /\ Phases /\ Accounted /\ EpisodesPlausible
    BY DEF IInv
<1>1. now \in Nat /\ last_update \in Nat /\ last_update <= now
    BY DEF TypeOK, Accounted
<1>2. ASSUME episode # None
      PROVE  /\ episode.onset \in Nat /\ episode.last_seen \in Nat
             /\ episode.peak \in Nat /\ episode.energy \in Nat
             /\ episode.tripped_at \in Time
             /\ episode.onset <= episode.last_seen /\ episode.last_seen <= last_update
             /\ episode.cleared_at = Unset
    BY <1>2 DEF TypeOK, Episode, Accounted
<1>3. ASSUME last_trip' = last_trip
      PROVE  last_trip' # None => Plausible(last_trip') /\ last_trip'.tripped_at # Unset
    BY <1>3 DEF EpisodesPlausible
<1>4. ASSUME NEW x, Sees(x), Opens(x)
      PROVE  EpisodesPlausible'
    <2>1. x \in Nat
        BY <1>4, SeesFacts
    <2>2. 0 <= x * (now - now + MaxGap)
        BY <1>1, <2>1
    <2>3. Plausible(episode')
        BY <1>4, <2>2, OpensFields DEF Plausible
    <2>. QED
        BY <1>3, <1>4, <2>3, OpensFields DEF EpisodesPlausible, Plausible
<1>5. ASSUME NEW x, Sees(x), Continues(x) \/ Trips(x)
      PROVE  EpisodesPlausible'
    <2>1. /\ episode # None /\ episode'.onset = episode.onset /\ episode'.last_seen = now
          /\ episode'.peak \in Nat /\ episode'.peak >= episode.peak
          /\ episode'.energy = episode.energy + Gain
          /\ episode'.cleared_at = Unset
          /\ last_trip' = last_trip
          /\ \/ Trips(x) /\ episode'.tripped_at = now
             \/ episode'.tripped_at = episode.tripped_at
        BY <1>2, <1>5, ContinuesFields
    <2>2. /\ now - episode.onset \in Nat /\ now - episode.onset + MaxGap \in Nat
          /\ now - episode.onset <= now - episode.onset + MaxGap
        BY <1>1, <1>2, <2>1
    <2>3. episode'.energy <= episode'.peak * (now - episode.onset)
        BY <2>1, EnergyBound
    <2>4. episode'.peak * (now - episode.onset) <= episode'.peak * (now - episode.onset + MaxGap)
        BY <2>1, <2>2, Longer
    <2>5. /\ episode'.energy \in Nat
          /\ episode'.peak * (now - episode.onset) \in Nat
          /\ episode'.peak * (now - episode.onset + MaxGap) \in Nat
        BY <1>2, <2>1, <2>2, Gains, Longer
    <2>6. episode'.energy <= episode'.peak * (episode'.last_seen - episode'.onset + MaxGap)
        BY <2>1, <2>3, <2>4, <2>5
    <2>7. ASSUME episode'.tripped_at # Unset
          PROVE  episode'.tripped_at - episode'.onset
                     \in Persist..(episode'.last_seen - episode'.onset)
        <3>1. CASE Trips(x) /\ episode'.tripped_at = now
            <4>1. now - episode.onset >= Persist
                BY <3>1 DEF Trips
            <4>. QED
                BY <1>1, <1>2, <2>1, <3>1, <4>1
        <3>2. CASE episode'.tripped_at = episode.tripped_at
            <4>1. episode.tripped_at # Unset /\ episode.tripped_at \in Nat
                BY <1>2, <2>1, <2>7, <3>2 DEF Time
            <4>2. episode.tripped_at - episode.onset \in Persist..(episode.last_seen - episode.onset)
                BY <2>1, <4>1 DEF EpisodesPlausible, Plausible
            <4>. QED
                BY <1>1, <1>2, <2>1, <3>2, <4>1, <4>2
        <3>. QED
            BY <2>1, <3>1, <3>2
    <2>8. Plausible(episode')
        BY <2>1, <2>6, <2>7 DEF Plausible
    <2>. QED
        BY <1>3, <2>1, <2>8 DEF EpisodesPlausible, Plausible
<1>6. ASSUME Waits
      PROVE  EpisodesPlausible'
    <2>1. Plausible(episode')
        BY <1>2, <1>6, LastGap, WaitsFields DEF EpisodesPlausible, Plausible
    <2>. QED
        BY <1>3, <1>6, <2>1, WaitsFields DEF EpisodesPlausible, Plausible
<1>7. ASSUME Drops
      PROVE  EpisodesPlausible'
    BY <1>3, <1>7 DEF Drops, EpisodesPlausible, Plausible
<1>8. ASSUME Clears
      PROVE  EpisodesPlausible'
    <2>1. episode' = None /\ state = "tripped" /\ now - QuietSince >= ClearAfter
        BY <1>8 DEF Clears
    <2>2. episode # None /\ episode.tripped_at # Unset
        BY <2>1 DEF Phases
    <2>3. QuietSince \in Nat /\ episode.last_seen <= QuietSince
        BY <1>1, <1>2, <2>2 DEF QuietSince, Accounted, TypeOK, Time
    <2>4. now - episode.last_seen >= ClearAfter
        BY <1>1, <1>2, <2>1, <2>2, <2>3
    <2>5. Plausible(last_trip')
        BY <1>8, <2>2, <2>4, LastGap, ClearsFields DEF EpisodesPlausible, Plausible
    <2>. QED
        BY <1>8, <2>1, <2>2, <2>5, ClearsFields DEF EpisodesPlausible, Plausible
<1>. QED
    BY <1>4, <1>5, <1>6, <1>7, <1>8, Cases

LEMMA ReportTimely ==
    ASSUME IInv, Report
    PROVE  Timely'
<1>. TypeOK /\ Phases /\ Accounted /\ Timely
    BY DEF IInv
<1>1. /\ now' = now /\ now \in Nat /\ last_update' = now
      /\ last_update \in Nat /\ last_update <= now /\ settled_since \in Nat
    BY Cases DEF Report, TypeOK, Accounted
<1>2. last_excess' = Unset <=> ~Exporting'
    BY AnswerIs
<1>3. settled_since' = IF (Exporting' <=> Exporting) /\ ~Blind' THEN settled_since ELSE now
    BY <1>1 DEF Report, Watch
<1>4. settled_since' <= now /\ settled_since' \in Nat
    BY <1>1, <1>3 DEF Timely
<1>5. IF Blind' THEN settled_since' = now' ELSE now' - last_update' <= Cadence
    BY <1>1, <1>3
<1>6. settled_since' = now => now <= settled_since' + Cadence
    BY <1>1
\* If the answer is unchanged and no sample had seen it, it is at most one
\* report old.
<1>7. (Exporting <=> last_excess = Unset) => now <= settled_since' + Cadence
    <2>1. CASE settled_since' # now
        <3>1. settled_since' = settled_since
            BY <1>3, <2>1
        <3>2. ~Blind
            BY <1>1, <2>1, <3>1 DEF Timely
        <3>. QED
            BY <1>1, <3>1, <3>2 DEF Timely
    <2>. QED
        BY <1>6, <2>1
<1>8. ASSUME Exporting', state' = "suspect"
      PROVE  episode'.onset <= settled_since' + Cadence
    <2>1. ASSUME NEW x, Sees(x), Opens(x)
          PROVE  episode'.onset <= settled_since' + Cadence
        <3>1. episode'.onset = now
            BY <2>1, OpensFields
        <3>2. last_excess = Unset
            BY <2>1 DEF Opens, Phases
        <3>3. settled_since' # now => Exporting
            BY <1>3, <1>8
        <3>. QED
            BY <1>6, <1>7, <3>1, <3>2, <3>3
    <2>2. ASSUME NEW x, Sees(x), Continues(x)
          PROVE  episode'.onset <= settled_since' + Cadence
        <3>1. episode'.onset = episode.onset /\ episode # None
            BY <2>2, ContinuesFields
        <3>2. episode.onset \in Nat /\ episode.onset <= last_update
            BY <3>1 DEF TypeOK, Episode, Accounted
        <3>3. state = "suspect"
            BY <1>8, <2>2 DEF Continues
        <3>4. CASE settled_since' = now
            BY <1>1, <3>1, <3>2, <3>4
        <3>5. CASE settled_since' # now
            BY <1>3, <1>8, <3>1, <3>3, <3>5 DEF Timely
        <3>. QED
            BY <3>4, <3>5
    <2>3. \A x : ~Trips(x)
        BY <1>8 DEF Trips
    <2>4. ~(Drops \/ Waits \/ Clears)
        BY <1>8 DEF Drops, Waits, Clears
    <2>. QED
        BY <2>1, <2>2, <2>3, <2>4, Cases
<1>9. ASSUME ~Exporting', state' = "tripped"
      PROVE  clear_since' <= settled_since' + Cadence
    <2>1. Waits
        BY <1>9, Cases, AnswerIs DEF Drops, Clears
    <2>2. clear_since' = QuietSince /\ state = "tripped"
        BY <2>1 DEF Waits
    <2>3. settled_since' # now => ~Exporting /\ settled_since' = settled_since
        BY <1>3, <1>9
    <2>4. CASE clear_since = Unset
        <3>1. last_excess # Unset /\ clear_since' = now
            BY <2>2, <2>4 DEF Phases, QuietSince
        <3>. QED
            BY <1>6, <1>7, <2>3, <3>1
    <2>5. CASE clear_since # Unset
        <3>1. last_excess = Unset /\ episode # None /\ clear_since \in Nat
            BY <2>2, <2>5 DEF Phases, TypeOK, Time
        <3>2. clear_since' = clear_since /\ episode.last_seen \in Nat
            BY <2>2, <2>5, <3>1 DEF QuietSince, TypeOK, Episode
        <3>3. clear_since <= last_update
            BY <1>1, <2>5, <3>1, <3>2 DEF Accounted
        <3>4. CASE settled_since' = now
            BY <1>1, <3>1, <3>2, <3>3, <3>4
        <3>5. CASE settled_since' # now
            BY <2>2, <2>3, <3>1, <3>2, <3>5 DEF Timely
        <3>. QED
            BY <3>4, <3>5
    <2>. QED
        BY <2>4, <2>5
<1>. QED
    BY <1>1, <1>2, <1>4, <1>5, <1>8, <1>9 DEF Timely

\* A report keeps the invariant.
LEMMA ReportKeeps ==
    ASSUME IInv, Report
    PROVE  IInv'
BY ReportTypeOK, ReportPhases, ReportSeeing, ReportAccounted, ReportTimely,
   ReportPlausible DEF IInv

LEMMA CommandKeeps ==
    ASSUME IInv, Command
    PROVE  IInv'
<1>. TypeOK /\ Phases /\ Seeing /\ Accounted /\ Timely /\ EpisodesPlausible
    BY DEF IInv
<1>1. UNCHANGED <<now, grid, pv, guard>> /\ Watch /\ commanded' \in Modes
    BY DEF Command
<1>2. /\ settled_since' = IF (Exporting' <=> Exporting) /\ ~Blind' THEN settled_since ELSE now
      /\ Blind' <=> Blind
    BY <1>1 DEF Watch, Blind
<1>3. excess_since' = IF ~Shown(grid, pv) THEN Unset
                     ELSE IF excess_since = Unset THEN now ELSE excess_since
    BY <1>1 DEF Watch, Shown
<1>4. excess_since' = excess_since
    BY <1>3 DEF Seeing
<1>5. TypeOK'
    BY <1>1, <1>2, <1>4 DEF TypeOK, guard
<1>6. Phases' /\ Accounted' /\ EpisodesPlausible'
    BY <1>1 DEF guard, Phases, Accounted, EpisodesPlausible, Plausible
<1>7. Seeing'
    BY <1>1, <1>4 DEF guard, Seeing, Shown
<1>8. Timely'
    <2>1. /\ now \in Nat /\ last_update \in Nat /\ settled_since \in Nat
          /\ last_update <= now /\ settled_since <= now
        BY DEF TypeOK, Accounted, Timely
    <2>2. ASSUME state = "suspect"
          PROVE  episode.onset \in Nat /\ episode.onset <= now
        <3>1. episode # None
            BY <2>2 DEF Phases
        <3>. QED
            BY <2>1, <3>1 DEF TypeOK, Episode, Accounted
    <2>3. ASSUME state = "tripped", last_excess = Unset
          PROVE  /\ clear_since \in Nat /\ clear_since <= now
        <3>1. episode # None /\ clear_since # Unset
            BY <2>3 DEF Phases
        <3>. QED
            BY <2>1, <3>1 DEF TypeOK, Episode, Accounted
    <2>. QED
        BY <1>1, <1>2, <2>1, <2>2, <2>3 DEF guard, Timely
<1>. QED
    BY <1>5, <1>6, <1>7, <1>8 DEF IInv

LEMMA PassKeeps ==
    ASSUME IInv, Pass
    PROVE  IInv'
<1>. TypeOK /\ Phases /\ Seeing /\ Accounted /\ Timely /\ EpisodesPlausible
    BY DEF IInv
<1>1. /\ UNCHANGED <<grid, pv, commanded, guard>>
      /\ now' = now + 1 /\ now \in Nat
      /\ Blind \/ now - last_update < Cadence
    BY DEF Pass, TypeOK
<1>2. (Exporting' <=> Exporting) /\ (Blind' <=> Blind)
    BY <1>1 DEF Exporting, Shown, Blind
<1>3. settled_since' = IF Blind THEN now + 1 ELSE settled_since
    BY <1>1, <1>2 DEF Pass, Watch
<1>4. excess_since' = excess_since
    <2>1. excess_since' = IF ~Shown(grid, pv) THEN Unset
                         ELSE IF excess_since = Unset THEN now ELSE excess_since
        BY <1>1 DEF Pass, Watch, Shown
    <2>. QED
        BY <2>1 DEF Seeing
<1>5. TypeOK'
    BY <1>1, <1>3, <1>4 DEF TypeOK, guard
<1>6. Phases' /\ EpisodesPlausible'
    BY <1>1 DEF guard, Phases, EpisodesPlausible, Plausible
<1>7. Seeing'
    <2>1. excess_since # Unset => excess_since \in Nat
        BY DEF TypeOK, Time
    <2>. QED
        BY <1>1, <1>4, <2>1 DEF guard, Seeing, Shown
<1>8. Accounted'
    BY <1>1 DEF guard, Accounted, TypeOK
<1>9. Timely'
    <2>1. last_update \in Nat /\ settled_since \in Nat /\ last_update <= now
        BY DEF TypeOK, Accounted
    <2>2. UNCHANGED <<state, episode, clear_since, last_update, last_excess>>
        BY <1>1 DEF guard
    <2>3. CASE Blind
        <3>1. settled_since = now
            BY <2>3 DEF Timely
        <3>2. ~Exporting
            BY <2>3 DEF Blind, Exporting, Shown
        <3>3. state = "tripped" /\ last_excess = Unset
                 => clear_since \in Nat /\ clear_since <= settled_since + Cadence
            BY <3>2 DEF Timely, Phases, TypeOK, Time
        <3>. QED
            BY <1>1, <1>2, <1>3, <2>1, <2>2, <2>3, <3>1, <3>2, <3>3 DEF Timely
    <2>4. CASE ~Blind
        BY <1>1, <1>2, <1>3, <2>1, <2>2, <2>4 DEF Timely
    <2>. QED
        BY <2>3, <2>4
<1>. QED
    BY <1>5, <1>6, <1>7, <1>8, <1>9 DEF IInv

LEMMA InitHolds ==
    ASSUME Init
    PROVE  IInv
<1>1. grid \in SUBSET Exports /\ pv \in SUBSET Yields
    BY DEF Init, Readings
<1>2. TypeOK
    BY <1>1 DEF Init, TypeOK, Time
<1>3. ~Exporting
    BY DEF Init, Exporting
<1>4. Phases /\ Accounted /\ EpisodesPlausible
    BY DEF Init, Phases, Accounted, EpisodesPlausible
<1>5. Seeing
    BY DEF Init, Seeing, Unset
<1>6. Timely
    BY <1>3 DEF Init, Timely
<1>. QED
    BY <1>2, <1>4, <1>5, <1>6 DEF IInv

\* Both sensors' reports are reports.
LEMMA Reports ==
    ASSUME TypeOK, GridReports \/ PvReports
    PROVE  Report
<1>1. CASE GridReports
    BY <1>1 DEF GridReports, Report, Readings, TypeOK
<1>2. CASE PvReports
    BY <1>2 DEF PvReports, Report, Readings, TypeOK
<1>. QED
    BY <1>1, <1>2

LEMMA NextKeeps ==
    ASSUME IInv, [Next]_vars
    PROVE  IInv'
<1>1. CASE GridReports \/ PvReports
    BY <1>1, Reports, ReportKeeps DEF IInv
<1>2. CASE Command
    BY <1>2, CommandKeeps
<1>3. CASE Pass
    BY <1>3, PassKeeps
<1>4. CASE UNCHANGED vars
    <2>1. TypeOK'
        BY <1>4 DEF IInv, vars, world, guard, history, TypeOK
    <2>2. Phases' /\ Accounted' /\ EpisodesPlausible'
        BY <1>4 DEF IInv, vars, world, guard, history, Phases, Accounted,
            EpisodesPlausible, Plausible
    <2>3. Seeing' /\ Timely'
        BY <1>4 DEF IInv, vars, world, guard, history, Seeing, Timely, Exporting, Blind,
            Shown
    <2>. QED
        BY <2>1, <2>2, <2>3 DEF IInv
<1>. QED
    BY <1>1, <1>2, <1>3, <1>4 DEF Next

-----------------------------------------------------------------------------
(* Theorems *)

\* The invariant holds in every reachable state.
THEOREM GuardInvariant == Spec => []IInv
<1>1. Init => IInv
    BY InitHolds
<1>2. IInv /\ [Next]_vars => IInv'
    BY NextKeeps
<1>. QED
    BY <1>1, <1>2, PTL DEF Spec

\* Every variable keeps its type.
THEOREM TypeCorrect == Spec => []TypeOK
<1>1. IInv => TypeOK
    BY DEF IInv
<1>. QED
    BY <1>1, GuardInvariant, PTL

\* What an episode reports fits together.
THEOREM ReportsPlausibly == Spec => []EpisodesPlausible
<1>1. IInv => EpisodesPlausible
    BY DEF IInv
<1>. QED
    BY <1>1, GuardInvariant, PTL

\* The guard answers within its window and two reports of a sensor.
THEOREM AnswersInTime == Spec => []TracksExport
<1>1. IInv => TracksExport
    <2>. SUFFICES ASSUME IInv PROVE TracksExport
        OBVIOUS
    <2>. TypeOK /\ Phases /\ Accounted /\ Timely
        BY DEF IInv
    <2>1. /\ now \in Nat /\ last_update \in Nat /\ settled_since \in Nat
          /\ state \in {"idle", "suspect", "tripped"}
        BY DEF TypeOK
    <2>2. now - settled_since >= Persist + 2 * Cadence /\ Exporting => state = "tripped"
        <3>. SUFFICES ASSUME now - settled_since >= Persist + 2 * Cadence, Exporting,
                             state # "tripped"
                      PROVE  FALSE
            OBVIOUS
        <3>1. now - last_update <= Cadence
            BY <2>1 DEF Timely
        <3>2. last_excess # Unset
            BY <2>1, <3>1 DEF Timely
        <3>3. episode # None /\ state = "suspect"
            BY <2>1, <3>2 DEF Phases
        <3>4. episode.onset \in Nat
            BY <3>3 DEF TypeOK, Episode
        <3>5. last_update - episode.onset < Persist /\ episode.onset <= settled_since + Cadence
            BY <3>3 DEF Phases, Timely
        <3>. QED
            BY <2>1, <3>1, <3>4, <3>5
    <2>3. now - settled_since >= ClearAfter + 2 * Cadence /\ ~Exporting => state = "idle"
        <3>. SUFFICES ASSUME now - settled_since >= ClearAfter + 2 * Cadence, ~Exporting,
                             state # "idle"
                      PROVE  FALSE
            OBVIOUS
        <3>1. now - last_update <= Cadence
            BY <2>1 DEF Timely
        <3>2. last_excess = Unset
            BY <2>1, <3>1 DEF Timely
        <3>3. state = "tripped" /\ clear_since # Unset /\ clear_since \in Nat
            BY <2>1, <3>2 DEF Phases, TypeOK, Time
        <3>4. last_update - clear_since < ClearAfter /\ clear_since <= settled_since + Cadence
            BY <3>2, <3>3 DEF Phases, Timely
        <3>. QED
            BY <2>1, <3>1, <3>3, <3>4
    <2>. QED
        BY <2>2, <2>3 DEF TracksExport
<1>. QED
    BY <1>1, GuardInvariant, PTL

\* A trip is never a blip of the readings.
THEOREM NoFalseTrip == Spec => TripsOnExport
<1>1. IInv /\ [Next]_vars
        => [state = "suspect" /\ state' = "tripped"
              => excess_since # Unset /\ now - excess_since >= Persist]_vars
    <2>. SUFFICES ASSUME IInv, Next, state = "suspect", state' = "tripped"
                  PROVE  excess_since # Unset /\ now - excess_since >= Persist
        OBVIOUS
    <2>. TypeOK /\ Phases /\ Seeing
        BY DEF IInv
    <2>1. now - episode.onset >= Persist
        BY DEF Next, GridReports, PvReports, Command, Pass, guard, Sample, Opens,
            Continues, Trips, Excessive, Quiet, Drops, Waits, Clears
    <2>2. /\ excess_since \in Nat /\ excess_since # Unset /\ excess_since <= episode.onset
          /\ episode.onset \in Nat /\ now \in Nat
        BY DEF Seeing, Phases, TypeOK, Time, Episode
    <2>. QED
        BY <2>1, <2>2
<1>. QED
    BY <1>1, GuardInvariant, PTL DEF Spec, TripsOnExport

\* A trip ends only once the export has been unseen for the clear time.
THEOREM NoEarlyClear == Spec => ClearsOnQuiet
<1>1. IInv /\ [Next]_vars
        => [state = "tripped" /\ state' # "tripped"
              => now - episode.last_seen >= ClearAfter]_vars
    <2>. SUFFICES ASSUME IInv, Next, state = "tripped", state' # "tripped"
                  PROVE  now - episode.last_seen >= ClearAfter
        OBVIOUS
    <2>. TypeOK /\ Phases /\ Accounted
        BY DEF IInv
    <2>1. now - QuietSince >= ClearAfter
        BY DEF Next, GridReports, PvReports, Command, Pass, guard, Sample, Opens,
            Continues, Trips, Excessive, Quiet, Drops, Waits, Clears, Phases
    <2>2. /\ episode.last_seen \in Nat /\ now \in Nat /\ last_update \in Nat
          /\ episode.last_seen <= last_update /\ last_update <= now
          /\ clear_since # Unset => clear_since \in Nat /\ episode.last_seen <= clear_since
        BY DEF Phases, Accounted, TypeOK, Time, Episode
    <2>. QED
        BY <2>1, <2>2 DEF QuietSince
<1>. QED
    BY <1>1, GuardInvariant, PTL DEF Spec, ClearsOnQuiet

USE DEF Never

Fares(i) == Paced(i) /\ Remembers(i) /\ OnTime(i) /\ Tallied(i)

-----------------------------------------------------------------------------
(* Facts the steps share *)

LEMMA Fields ==
    ASSUME WatchdogTypeOK, NEW i \in Installs
    PROVE  /\ watchdog[i] \in WatchdogState
           /\ watchdog[i].dead_since \in Never..Followed
           /\ watchdog[i].reloads \in 0..MaxReloads
           /\ watchdog[i].last_reload \in Never..Followed
           /\ watchdog[i].issue_raised \in BOOLEAN
           /\ started[i] \in 0..Followed /\ tried[i] \in Nat
           /\ clock \in 0..Followed /\ reloaded \in Never..Followed /\ reload_at \in reloaded..Followed
PROOF
<1>1. watchdog[i] \in WatchdogState
  BY DEF WatchdogTypeOK
<1>2. started[i] \in 0..Followed /\ tried[i] \in Nat
  BY DEF WatchdogTypeOK
<1> QED
  BY <1>1, <1>2 DEF WatchdogTypeOK, WatchdogState

\* One watchdog changes its state, the others keep theirs.
LEMMA OneBecomes ==
    ASSUME WatchdogTypeOK, NEW i \in Installs, NEW s \in WatchdogState, Becomes(i, s)
    PROVE  /\ watchdog' \in [Installs -> WatchdogState]
           /\ watchdog'[i] = s
           /\ \A j \in Installs : j # i => watchdog'[j] = watchdog[j]
PROOF
  BY DEF WatchdogTypeOK, Becomes

LEMMA AttemptByIs ==
    ASSUME NEW n \in Nat
    PROVE  /\ AttemptBy(n) \in Int
           /\ AttemptBy(1) = Grace + CycleLength - 1
           /\ AttemptBy(n + 1) = AttemptBy(n) + RetryAfter + CycleLength - 1
PROOF
  BY WatchdogTimingAssumption DEF AttemptBy

LEMMA Multiples ==
    ASSUME NEW a \in Nat, NEW b \in Nat, a <= b, NEW c \in Nat
    PROVE  a * c <= b * c
PROOF
<1>1. (b - a) * c \in Nat
  OBVIOUS
<1> QED
  BY <1>1

LEMMA AttemptsInOrder ==
    ASSUME NEW n \in Nat, n <= MaxReloads, n > 0
    PROVE  /\ AttemptBy(n) <= AttemptBy(MaxReloads)
           /\ n < MaxReloads => AttemptBy(n) + RetryAfter - 1 <= AttemptBy(MaxReloads)
PROOF
<1>1. RetryAfter \in Nat /\ CycleLength - 1 \in Nat /\ MaxReloads \in Nat /\ Grace \in Nat
  BY WatchdogTimingAssumption
<1>2. n * (CycleLength - 1) <= MaxReloads * (CycleLength - 1)
  BY <1>1, Multiples
<1>3. (n - 1) * RetryAfter <= (MaxReloads - 1) * RetryAfter
  BY <1>1, Multiples
<1>4. n < MaxReloads => ((n - 1) + 1) * RetryAfter <= (MaxReloads - 1) * RetryAfter
  BY <1>1, Multiples
<1>5. ((n - 1) + 1) * RetryAfter = (n - 1) * RetryAfter + RetryAfter
  BY <1>1
<1> DEFINE a == n * (CycleLength - 1)
           b == MaxReloads * (CycleLength - 1)
           c == (n - 1) * RetryAfter
           d == (MaxReloads - 1) * RetryAfter
<1>6. a \in Int /\ b \in Int /\ c \in Int /\ d \in Int
  BY <1>1
<1>7. a <= b /\ c <= d /\ (n < MaxReloads => c + RetryAfter <= d)
  BY <1>2, <1>3, <1>4, <1>5
<1>8. AttemptBy(n) = Grace + c + a /\ AttemptBy(MaxReloads) = Grace + d + b
  BY DEF AttemptBy
<1> HIDE DEF a, b, c, d
<1> QED
  BY <1>1, <1>6, <1>7, <1>8

\* A step of another install leaves an install as it was; a reload of the owner is counted.
LEMMA OthersFare ==
    ASSUME WatchdogTypeOK, NEW j \in Installs, Fares(j),
           watchdog'[j] = watchdog[j], started'[j] = started[j],
           j \in waiting' <=> j \in waiting, j \in issues => j \in issues',
           clock' = clock, owned' = owned,
           \/ reloaded' = reloaded /\ tried'[j] = tried[j]
           \/ watchdog[j].dead_since # Never => tried'[j] = tried[j] + 1
    PROVE  Fares(j)'
PROOF
<1>1. Paced(j)' /\ Remembers(j)' /\ OnTime(j)'
  BY DEF Fares, Paced, Remembers, OnTime, Latest, AttemptBy, Healthy
<1>2. Tallied(j)'
  <2>1. CASE reloaded' = reloaded /\ tried'[j] = tried[j]
    BY <2>1 DEF Fares, Tallied
  <2>2. CASE watchdog[j].dead_since # Never => tried'[j] = tried[j] + 1
    BY <2>2, Fields DEF Fares, Tallied
  <2> QED
    BY <2>1, <2>2
<1> QED
  BY <1>1, <1>2 DEF Fares

-----------------------------------------------------------------------------
(* What a watchdog does when its cycle reaches it *)

LEMMA NoticesFares ==
    ASSUME WatchdogInv, NEW i \in Installs, i \in waiting, waiting' = waiting \ {i}, Notices(i),
           UNCHANGED <<clock, owned, started>>
    PROVE  watchdog' \in [Installs -> WatchdogState] /\ Fares(i)'
PROOF
<1> DEFINE s == [watchdog[i] EXCEPT !.dead_since = started[i]]
<1>1. watchdog[i] = Healthy /\ Stamped /\ WatchdogTypeOK /\ Paced(i)
  BY DEF Notices, WatchdogInv, Remembers
<1>2. watchdog[i] \in WatchdogState /\ started[i] \in Never..Followed
  BY <1>1, Fields
<1>3. s \in WatchdogState
  BY <1>2 DEF WatchdogState
<1>4. watchdog' \in [Installs -> WatchdogState] /\ watchdog'[i] = s
  BY <1>1, <1>3, OneBecomes DEF Notices
<1>5. /\ watchdog'[i].dead_since = started[i] /\ watchdog'[i].reloads = 0
      /\ watchdog'[i].last_reload = Never /\ ~watchdog'[i].issue_raised
  BY <1>1, <1>2, <1>4 DEF Healthy, WatchdogState
<1> HIDE DEF s
<1>6. /\ i \notin waiting' /\ started'[i] = started[i] /\ clock' = clock
      /\ UNCHANGED <<issues, reloaded, tried>>
  BY DEF Notices, mended
<1>7. started[i] \in Nat /\ clock \in Nat /\ reloaded \in Int /\ reload_at \in Int /\ tried[i] \in Nat
  BY <1>1, Fields
<1>8. clock - started[i] <= Lag /\ started[i] <= clock /\ Lag \in Nat /\ Lag < CycleLength
      /\ CycleLength \in Nat /\ Grace \in Nat /\ Grace >= 1
  BY <1>1, WatchdogTimingAssumption DEF Paced
<1>9. Paced(i)'
  BY <1>6, <1>7, <1>8 DEF Paced
<1>10. Remembers(i)'
  BY <1>5, <1>6, <1>7 DEF Remembers
<1>11. OnTime(i)'
  BY <1>5, <1>6, <1>7, <1>8 DEF OnTime, Latest
<1>12. reloaded <= clock
  BY <1>1, Fields DEF Stamped
<1>13. Tallied(i)'
  BY <1>5, <1>6, <1>7, <1>8, <1>12 DEF Tallied
<1> QED
  BY <1>4, <1>9, <1>10, <1>11, <1>13 DEF Fares

LEMMA BidesFares ==
    ASSUME WatchdogInv, NEW i \in Installs, i \in waiting, waiting' = waiting \ {i}, Bides(i),
           UNCHANGED <<clock, owned, started>>
    PROVE  watchdog' \in [Installs -> WatchdogState] /\ Fares(i)'
PROOF
<1>1. WatchdogTypeOK /\ Paced(i) /\ Remembers(i) /\ OnTime(i) /\ Tallied(i)
  BY DEF WatchdogInv
<1>2. /\ i \notin waiting' /\ started'[i] = started[i] /\ clock' = clock
      /\ UNCHANGED <<issues, reloaded, tried, watchdog, owned>>
  BY DEF Bides, mended
<1>3. Lag < CycleLength /\ Lag \in Nat /\ CycleLength \in Nat /\ Grace \in Nat /\ RetryAfter \in Nat
      /\ MaxReloads \in Nat \ {0}
  BY WatchdogTimingAssumption
<1>4. Paced(i)'
  BY <1>1, <1>2, <1>3, Fields DEF Paced
<1>5. Remembers(i)'
  BY <1>1, <1>2 DEF Remembers, Healthy
<1>6. OnTime(i)'
  <2>1. ~watchdog[i].issue_raised => started[i] <= Latest(watchdog[i])
    <3>1. CASE ~Outlasted(i)
      BY <1>1, <1>3, <3>1, Fields DEF Bides, Outlasted, Remembers, Latest
    <3>2. CASE Outlasted(i) /\ ~Spent(i) /\ ~Due(i)
      BY <1>1, <1>3, <3>2, Fields DEF Bides, Spent, Due, Remembers, Latest
    <3> QED
      BY <3>1, <3>2 DEF Bides
  <2> QED
    <3>1. (AttemptBy(watchdog[i].reloads))' = AttemptBy(watchdog[i].reloads)
      BY <1>2 DEF AttemptBy
    <3>2. started[i] \in Int /\ Latest(watchdog[i]) \in Int
      BY <1>1, <1>3, Fields DEF Latest
    <3> QED
      BY <1>1, <1>2, <2>1, <3>1, <3>2 DEF OnTime
<1>7. Tallied(i)'
  <2>1. watchdog[i].last_reload <= started[i] \/ watchdog[i].reloads = 0
    BY <1>1, Fields DEF Bides, Remembers
  <2> QED
    BY <1>1, <1>2, <2>1, Fields DEF Tallied
<1> QED
  BY <1>1, <1>2, <1>4, <1>5, <1>6, <1>7 DEF Fares, WatchdogTypeOK

LEMMA GivesUpFares ==
    ASSUME WatchdogInv, NEW i \in Installs, i \in waiting, waiting' = waiting \ {i}, GivesUp(i),
           UNCHANGED <<clock, owned, started>>
    PROVE  watchdog' \in [Installs -> WatchdogState] /\ Fares(i)'
PROOF
<1> DEFINE w == watchdog[i]
           s == [w EXCEPT !.issue_raised = TRUE]
<1>1. WatchdogTypeOK /\ Paced(i) /\ Remembers(i) /\ Tallied(i)
  BY DEF WatchdogInv
<1>2. /\ i \notin waiting' /\ started'[i] = started[i] /\ clock' = clock /\ i \in issues'
      /\ UNCHANGED <<reloaded, tried, owned>>
  BY DEF GivesUp
<1>3. w \in WatchdogState /\ s \in WatchdogState
  BY <1>1, Fields DEF WatchdogState
<1>4. watchdog' \in [Installs -> WatchdogState] /\ watchdog'[i] = s
  BY <1>1, <1>3, OneBecomes DEF GivesUp
<1>5. /\ s.dead_since = w.dead_since /\ s.reloads = w.reloads /\ s.last_reload = w.last_reload
      /\ s.issue_raised /\ w.dead_since # Never
  BY <1>3 DEF GivesUp, Outlasted, WatchdogState
<1> HIDE DEF s
<1>6. Paced(i)'
  BY <1>1, <1>2, Fields, WatchdogTimingAssumption DEF Paced
<1>7. Remembers(i)'
  BY <1>1, <1>2, <1>4, <1>5 DEF Remembers
<1>8. OnTime(i)'
  BY <1>4, <1>5 DEF OnTime
<1>9. Tallied(i)'
  <2>1. w.last_reload <= started[i] \/ w.reloads = 0
    BY <1>1, <1>5, Fields DEF Remembers
  <2> QED
    BY <1>1, <1>2, <1>4, <1>5, <2>1, Fields DEF Tallied
<1> QED
  BY <1>4, <1>6, <1>7, <1>8, <1>9 DEF Fares

\* An attempt comes no later than the pace of the cycles allows, whoever reloads.
LEMMA AttemptFares ==
    ASSUME WatchdogInv, NEW i \in Installs, i \in waiting, i \notin waiting',
           Outlasted(i), ~Spent(i), Due(i), UNCHANGED <<clock, started>>,
           watchdog'[i] = Attempted(i), issues \subseteq issues'
    PROVE  /\ Attempted(i) \in WatchdogState
           /\ Paced(i)' /\ Remembers(i)' /\ OnTime(i)'
PROOF
<1> DEFINE w == watchdog[i]
           s == Attempted(i)
<1>1. WatchdogTypeOK /\ Paced(i) /\ Remembers(i) /\ OnTime(i)
  BY DEF WatchdogInv
<1>2. /\ w \in WatchdogState /\ w.dead_since \in Nat /\ w.reloads \in Nat /\ w.reloads < MaxReloads
      /\ w.last_reload \in Int /\ started[i] \in 0..Followed /\ clock \in Nat
      /\ w.issue_raised \in BOOLEAN /\ w.dead_since \in Never..Followed
  BY <1>1, Fields, WatchdogTimingAssumption DEF Outlasted, Spent
<1>3. /\ s = [dead_since |-> w.dead_since, reloads |-> w.reloads + 1, last_reload |-> started[i],
              issue_raised |-> w.issue_raised]
  BY <1>2 DEF Attempted, WatchdogState
<1>4. w.reloads + 1 \in 0..MaxReloads /\ started[i] \in Never..Followed
  BY <1>2, WatchdogTimingAssumption
<1>5. s \in WatchdogState
  BY <1>2, <1>3, <1>4 DEF WatchdogState
<1>6. /\ s.dead_since = w.dead_since /\ s.reloads = w.reloads + 1 /\ s.last_reload = started[i]
      /\ s.issue_raised = w.issue_raised
  BY <1>3
<1> HIDE DEF s
<1>7. started'[i] = started[i] /\ clock' = clock /\ watchdog'[i] = s
  BY DEF s
<1>8. Paced(i)'
  BY <1>1, <1>2, <1>7, WatchdogTimingAssumption DEF Paced
<1>9. Remembers(i)'
  BY <1>1, <1>2, <1>6, <1>7, WatchdogTimingAssumption DEF Remembers, Outlasted
<1>10. OnTime(i)'
  <2>1. CASE w.issue_raised
    BY <1>6, <1>7, <2>1 DEF OnTime
  <2>2. CASE ~w.issue_raised
    <3>1. started[i] <= w.dead_since + AttemptBy(w.reloads + 1)
      <4>1. CASE w.reloads = 0
        BY <1>1, <1>2, <2>2, <4>1, AttemptByIs, WatchdogTimingAssumption DEF OnTime, Latest
      <4>2. CASE w.reloads > 0
        <5>1. /\ w.last_reload <= w.dead_since + AttemptBy(w.reloads)
              /\ started[i] <= w.last_reload + RetryAfter - 1 + CycleLength
          BY <1>1, <1>2, <2>2, <4>2 DEF OnTime, Latest
        <5> QED
          BY <1>2, <5>1, AttemptByIs, WatchdogTimingAssumption
      <4> QED
        BY <1>2, <4>1, <4>2
    <3>3. started[i] <= Latest(s) /\ Latest(s) \in Int
      BY <1>2, <1>6, WatchdogTimingAssumption DEF Latest
    <3> QED
      BY <1>2, <1>6, <1>7, <3>1, <3>3, WatchdogTimingAssumption DEF OnTime
  <2> QED
    BY <2>1, <2>2
<1> QED
  BY <1>5, <1>8, <1>9, <1>10 DEF s

\* What is left to count is used up by the attempt that leans on it.
LEMMA LeansFares ==
    ASSUME WatchdogInv, NEW i \in Installs, i \in waiting, waiting' = waiting \ {i},
           Outlasted(i), ~Spent(i), Due(i), Leans(i), UNCHANGED <<clock, owned, started>>
    PROVE  watchdog' \in [Installs -> WatchdogState] /\ Fares(i)'
PROOF
<1> DEFINE w == watchdog[i]
<1>1. WatchdogTypeOK /\ Remembers(i) /\ Tallied(i)
  BY DEF WatchdogInv
<1>2. Becomes(i, Attempted(i)) /\ UNCHANGED <<issues, reloaded, tried, owned>>
  BY DEF Leans, mended
<1>3. watchdog'[i] = Attempted(i)
  BY <1>1, <1>2 DEF Becomes, WatchdogTypeOK
<1>4. Attempted(i) \in WatchdogState /\ Paced(i)' /\ Remembers(i)' /\ OnTime(i)'
  BY <1>2, <1>3, AttemptFares
<1>5. watchdog' \in [Installs -> WatchdogState]
  BY <1>1, <1>2, <1>4, OneBecomes
<1>6. /\ w \in WatchdogState /\ w.dead_since \in Nat /\ w.reloads \in Nat
      /\ w.last_reload \in Int /\ started[i] \in Nat /\ reloaded \in Int /\ tried[i] \in Nat
      /\ started[i] - w.dead_since >= Grace
  BY <1>1, Fields DEF Outlasted
<1>7. /\ watchdog'[i].dead_since = w.dead_since /\ watchdog'[i].reloads = w.reloads + 1
      /\ watchdog'[i].last_reload = started[i]
  BY <1>3, <1>6 DEF Attempted, WatchdogState
<1>8. reloaded > started[i] - RetryAfter
  BY <1>6, WatchdogTimingAssumption DEF Leans, Recent
<1>9. Tallied(i)'
  <2>1. owned => w.reloads + (IF reloaded > started[i] THEN 2 ELSE 1) <= 2 * tried[i]
    <3>1. CASE w.reloads = 0
      <4>1. reloaded > w.dead_since + Lag
        BY <1>6, <1>8, WatchdogTimingAssumption, WatchdogGraceAssumption
      <4>2. owned => 0 + 1 <= 2 * tried[i]
        BY <1>1, <1>6, <3>1, <4>1 DEF Tallied
      <4> QED
        BY <1>6, <3>1, <4>2
    <3>2. CASE w.reloads > 0
      <4>1. started[i] - w.last_reload >= RetryAfter
        BY <1>1, <1>6, <3>2, WatchdogTimingAssumption DEF Due, Remembers
      <4>2. reloaded > w.last_reload
        BY <1>6, <1>8, <4>1, WatchdogTimingAssumption
      <4> QED
        BY <1>1, <1>6, <3>2, <4>2 DEF Tallied
    <3> QED
      BY <1>6, <3>1, <3>2
  <2> QED
    BY <1>2, <1>6, <1>7, <2>1 DEF Tallied
<1> QED
  BY <1>4, <1>5, <1>9 DEF Fares

LEMMA ReloadsFares ==
    ASSUME WatchdogInv, NEW i \in Installs, i \in waiting, waiting' = waiting \ {i},
           Outlasted(i), ~Spent(i), Due(i), Reloads(i), UNCHANGED <<clock, owned, started>>
    PROVE  watchdog' \in [Installs -> WatchdogState] /\ Fares(i)'
PROOF
<1> DEFINE w == watchdog[i]
<1>1. WatchdogTypeOK /\ Tallied(i)
  BY DEF WatchdogInv
<1>2. Becomes(i, Attempted(i)) /\ UNCHANGED <<issues, owned>> /\ reloaded' = started[i]
  BY DEF Reloads
<1>3. watchdog'[i] = Attempted(i)
  BY <1>1, <1>2 DEF Becomes, WatchdogTypeOK
<1>4. Attempted(i) \in WatchdogState /\ Paced(i)' /\ Remembers(i)' /\ OnTime(i)'
  BY <1>2, <1>3, AttemptFares
<1>5. watchdog' \in [Installs -> WatchdogState]
  BY <1>1, <1>2, <1>4, OneBecomes
<1>6. /\ w \in WatchdogState /\ w.reloads \in Nat /\ started[i] \in Nat /\ tried[i] \in Nat
      /\ w.dead_since # Never
  BY <1>1, Fields DEF Outlasted
<1>7. tried'[i] = tried[i] + 1
  BY <1>6 DEF Reloads
<1>8. /\ watchdog'[i].reloads = w.reloads + 1 /\ watchdog'[i].last_reload = started[i]
  BY <1>3, <1>6 DEF Attempted, WatchdogState
<1>9. owned => w.reloads <= 2 * tried[i]
  BY <1>1, <1>6 DEF Tallied
<1>10. Tallied(i)'
  BY <1>2, <1>6, <1>7, <1>8, <1>9 DEF Tallied
<1> QED
  BY <1>4, <1>5, <1>10 DEF Fares

LEMMA DespairsFares ==
    ASSUME WatchdogInv, NEW i \in Installs, i \in waiting, waiting' = waiting \ {i},
           Outlasted(i), ~Spent(i), Due(i), Despairs(i), UNCHANGED <<clock, owned, started>>
    PROVE  watchdog' \in [Installs -> WatchdogState] /\ Fares(i)'
PROOF
<1> DEFINE w == watchdog[i]
           s == [Attempted(i) EXCEPT !.reloads = MaxReloads, !.issue_raised = TRUE]
<1>1. WatchdogTypeOK /\ Paced(i) /\ Remembers(i)
  BY DEF WatchdogInv
<1>2. Becomes(i, s) /\ i \in issues' /\ ~owned'
  BY DEF Despairs
<1>3. /\ w \in WatchdogState /\ w.dead_since \in Nat /\ w.dead_since <= started[i]
      /\ started[i] \in 0..Followed /\ started[i] - w.dead_since >= Grace /\ clock \in Nat
  BY <1>1, Fields DEF Outlasted, Remembers
<1>4. s \in WatchdogState
  <2>1. started[i] \in Never..Followed /\ MaxReloads \in 0..MaxReloads
    BY <1>3, WatchdogTimingAssumption
  <2> QED
    BY <1>3, <2>1 DEF Attempted, WatchdogState
<1>5. watchdog' \in [Installs -> WatchdogState] /\ watchdog'[i] = s
  BY <1>1, <1>2, <1>4, OneBecomes
<1>6. /\ s.dead_since = w.dead_since /\ s.reloads = MaxReloads /\ s.last_reload = started[i]
      /\ s.issue_raised
  BY <1>3 DEF Attempted, WatchdogState
<1> HIDE DEF s
<1>7. Paced(i)'
  BY <1>1, <1>3, WatchdogTimingAssumption DEF Paced
<1>8. Remembers(i)'
  BY <1>2, <1>3, <1>5, <1>6, WatchdogTimingAssumption DEF Remembers
<1>9. OnTime(i)' /\ Tallied(i)'
  BY <1>2, <1>5, <1>6 DEF OnTime, Tallied
<1> QED
  BY <1>5, <1>7, <1>8, <1>9 DEF Fares

LEMMA FreshFares ==
    ASSUME WatchdogTypeOK, NEW i \in Installs, watchdog'[i] = Healthy, Paced(i)'
    PROVE  Fares(i)'
PROOF
  BY DEF Fares, Remembers, OnTime, Tallied, Healthy

LEMMA TickFares ==
    ASSUME WatchdogInv, NEW i \in Installs, Ticks(i)
    PROVE  watchdog' \in [Installs -> WatchdogState] /\ Fares(i)'
PROOF
<1>1. i \in waiting /\ waiting' = waiting \ {i} /\ UNCHANGED <<clock, owned, started>>
  BY DEF Ticks
<1>2. CASE Forgets(i)
  <2>1. WatchdogTypeOK /\ Paced(i) /\ Healthy \in WatchdogState
    BY WatchdogTimingAssumption DEF WatchdogInv, Healthy, WatchdogState
  <2>2. watchdog' \in [Installs -> WatchdogState] /\ watchdog'[i] = Healthy
    BY <1>2, <2>1, OneBecomes DEF Forgets
  <2>3. Paced(i)'
    BY <1>1, <2>1, Fields, WatchdogTimingAssumption DEF Paced
  <2> QED
    BY <2>1, <2>2, <2>3, FreshFares
<1>3. CASE Notices(i) \/ Bides(i) \/ GivesUp(i)
  BY <1>1, <1>3, NoticesFares, BidesFares, GivesUpFares
<1>4. CASE Attempts(i)
  BY <1>1, <1>4, DespairsFares, LeansFares, ReloadsFares DEF Attempts
<1> QED
  BY <1>2, <1>3, <1>4 DEF Ticks

-----------------------------------------------------------------------------
(* Each step keeps the invariant *)

LEMMA TickKeepsInv ==
    ASSUME WatchdogInv, NEW i \in Installs, Ticks(i)
    PROVE  WatchdogInv'
PROOF
<1>1. WatchdogTypeOK /\ Stamped /\ i \in waiting /\ waiting' = waiting \ {i}
      /\ UNCHANGED <<clock, alive, owned, watching, started>>
  BY DEF Ticks, WatchdogInv
<1>2. watchdog' \in [Installs -> WatchdogState] /\ Fares(i)'
  BY TickFares
<1>3. ASSUME NEW j \in Installs, j # i
      PROVE  watchdog'[j] = watchdog[j]
  <2>1. CASE Bides(i)
    BY <2>1 DEF Bides
  <2>2. CASE ~Bides(i)
    <3>1. \E s : Becomes(i, s)
      BY <1>1, <2>2 DEF Ticks, Forgets, Notices, GivesUp, Attempts, Despairs, Leans, Reloads
    <3> QED
      BY <1>1, <1>3, <3>1 DEF Becomes, WatchdogTypeOK
  <2> QED
    BY <2>1, <2>2
<1>4. /\ issues' \subseteq issues \cup {i} /\ issues \ {i} \subseteq issues'
      /\ \/ UNCHANGED <<reloaded, reload_at>> /\ \A j \in Installs \ {i} : tried'[j] = tried[j]
         \/ Reloads(i)
      /\ tried' \in [Installs -> Nat]
  <2>1. CASE Forgets(i)
    BY <1>1, <2>1 DEF Forgets, WatchdogTypeOK
  <2>2. CASE Notices(i) \/ Bides(i) \/ Leans(i)
    BY <1>1, <2>2 DEF Notices, Bides, Leans, mended, WatchdogTypeOK
  <2>3. CASE GivesUp(i) \/ Despairs(i)
    BY <1>1, <2>3 DEF GivesUp, Despairs, WatchdogTypeOK
  <2>4. CASE Reloads(i)
    BY <1>1, <2>4 DEF Reloads, WatchdogTypeOK
  <2> QED
    BY <1>1, <2>1, <2>2, <2>3, <2>4 DEF Ticks, Attempts
<1>5. Stamped' /\ reloaded' \in Never..Followed /\ reload_at' \in reloaded'..Followed
  <2>1. CASE UNCHANGED <<reloaded, reload_at>>
    BY <1>1, <2>1 DEF Stamped, WatchdogTypeOK
  <2>2. CASE Reloads(i)
    <3>1. Paced(i) /\ started[i] \in 0..Followed /\ clock \in 0..Followed
      BY <1>1, Fields DEF WatchdogInv
    <3> QED
      BY <1>1, <2>2, <3>1, WatchdogTimingAssumption DEF Reloads, Stamped, Paced
  <2> QED
    BY <1>4, <2>1, <2>2
<1>6. WatchdogTypeOK'
  BY <1>1, <1>2, <1>4, <1>5 DEF WatchdogTypeOK
<1>7. ASSUME NEW j \in Installs, j # i
      PROVE  Fares(j)'
  <2>1. /\ Fares(j) /\ watchdog'[j] = watchdog[j] /\ started'[j] = started[j]
        /\ (j \in waiting' <=> j \in waiting) /\ (j \in issues => j \in issues')
    BY <1>1, <1>3, <1>4, <1>7 DEF WatchdogInv, Fares
  <2>2. \/ reloaded' = reloaded /\ tried'[j] = tried[j]
        \/ watchdog[j].dead_since # Never => tried'[j] = tried[j] + 1
    <3>1. Reloads(i) => (watchdog[j].dead_since # Never => tried'[j] = tried[j] + 1)
      BY DEF Reloads
    <3> QED
      BY <1>4, <1>7, <3>1
  <2> QED
    BY <1>1, <2>1, <2>2, OthersFare
<1> QED
  BY <1>2, <1>5, <1>6, <1>7 DEF WatchdogInv, Fares

LEMMA StartKeepsInv ==
    ASSUME WatchdogInv, NEW i \in Installs, Starts(i)
    PROVE  WatchdogInv'
PROOF
<1>1. /\ WatchdogTypeOK /\ Stamped /\ i \notin waiting /\ waiting' = waiting \cup {i}
      /\ started[i] < clock /\ started' = [started EXCEPT ![i] = clock]
      /\ UNCHANGED <<clock, alive, owned, watching, watchdog, reloaded, reload_at, issues, tried>>
  BY DEF Starts, mended, WatchdogInv
<1>2. /\ started'[i] = clock /\ started' \in [Installs -> 0..Followed]
      /\ \A j \in Installs : j # i => started'[j] = started[j]
  BY <1>1 DEF WatchdogTypeOK
<1>3. WatchdogTypeOK' /\ Stamped'
  BY <1>1, <1>2 DEF WatchdogTypeOK, Stamped
<1>4. Fares(i)'
  <2>1. Paced(i) /\ Remembers(i) /\ OnTime(i) /\ Tallied(i)
    BY DEF WatchdogInv
  <2>2. /\ started[i] \in Nat /\ clock \in Nat /\ reloaded \in Int /\ tried[i] \in Nat
        /\ watchdog[i].dead_since \in Int /\ watchdog[i].reloads \in Nat
        /\ watchdog[i].last_reload \in Int /\ reloaded <= clock
    BY <1>1, Fields DEF Stamped
  <2>3. Paced(i)'
    BY <1>1, <1>2, <2>2, WatchdogTimingAssumption DEF Paced
  <2>4. Remembers(i)'
    BY <1>1, <1>2, <2>1, <2>2 DEF Remembers, Healthy
  <2>5. OnTime(i)'
    <3>1. Latest(watchdog[i]) \in Int
      BY <2>2, WatchdogTimingAssumption DEF Latest
    <3>2. clock <= started[i] + CycleLength
      BY <1>1, <2>1, <2>2, WatchdogTimingAssumption DEF Paced
    <3> QED
      BY <1>1, <1>2, <2>1, <2>2, <3>1, <3>2, WatchdogTimingAssumption DEF OnTime
  <2>6. Tallied(i)'
    BY <1>1, <1>2, <2>1, <2>2 DEF Tallied
  <2> QED
    BY <2>3, <2>4, <2>5, <2>6 DEF Fares
<1>5. ASSUME NEW j \in Installs, j # i
      PROVE  Fares(j)'
  BY <1>1, <1>2, <1>5, OthersFare DEF WatchdogInv, Fares
<1> QED
  BY <1>3, <1>4, <1>5 DEF WatchdogInv, Fares

LEMMA ReconfigureKeepsInv ==
    ASSUME WatchdogInv, NEW i \in Installs, Reconfigures(i)
    PROVE  WatchdogInv'
PROOF
<1>1. /\ WatchdogTypeOK /\ Stamped /\ waiting' = waiting \cup {i}
      /\ watching' \subseteq Installs /\ Becomes(i, Healthy)
      /\ started' = [started EXCEPT ![i] = clock] /\ tried' = [tried EXCEPT ![i] = 0]
      /\ UNCHANGED <<clock, alive, owned, reloaded, reload_at, issues>>
  BY DEF Reconfigures, WatchdogInv, WatchdogTypeOK
<1>2. Healthy \in WatchdogState
  BY WatchdogTimingAssumption DEF Healthy, WatchdogState
<1>3. /\ watchdog' \in [Installs -> WatchdogState] /\ watchdog'[i] = Healthy
      /\ \A j \in Installs : j # i => watchdog'[j] = watchdog[j]
  BY <1>1, <1>2, OneBecomes
<1>4. /\ started'[i] = clock /\ started' \in [Installs -> 0..Followed] /\ tried' \in [Installs -> Nat]
      /\ \A j \in Installs : j # i => started'[j] = started[j] /\ tried'[j] = tried[j]
  BY <1>1 DEF WatchdogTypeOK
<1>5. WatchdogTypeOK' /\ Stamped'
  BY <1>1, <1>3, <1>4 DEF WatchdogTypeOK, Stamped
<1>6. Fares(i)'
  <2>1. Paced(i)'
    BY <1>1, <1>4, Fields, WatchdogTimingAssumption DEF Paced
  <2> QED
    BY <1>1, <1>3, <2>1, FreshFares
<1>7. ASSUME NEW j \in Installs, j # i
      PROVE  Fares(j)'
  BY <1>1, <1>3, <1>4, <1>7, OthersFare DEF WatchdogInv, Fares
<1> QED
  BY <1>5, <1>6, <1>7 DEF WatchdogInv, Fares

LEMMA RestartKeepsInv ==
    ASSUME WatchdogInv, Restarts
    PROVE  WatchdogInv'
PROOF
<1>1. Healthy \in WatchdogState /\ WatchdogTypeOK
  BY WatchdogTimingAssumption DEF Healthy, WatchdogState, WatchdogInv
<1>2. WatchdogTypeOK' /\ Stamped'
  BY <1>1, WatchdogTimingAssumption DEF Restarts, WatchdogTypeOK, Stamped
<1>3. ASSUME NEW i \in Installs
      PROVE  Fares(i)'
  <2>1. watchdog'[i] = Healthy /\ Paced(i)'
    BY <1>1, WatchdogTimingAssumption DEF Restarts, Paced, WatchdogTypeOK
  <2> QED
    BY <1>1, <2>1, FreshFares
<1> QED
  BY <1>2, <1>3 DEF WatchdogInv, Fares

LEMMA OthersKeepInv ==
    ASSUME WatchdogInv, SensorTurns \/ TimePasses \/ UNCHANGED feed
    PROVE  WatchdogInv'
PROOF
<1>1. /\ UNCHANGED <<owned, watching, started, waiting, watchdog, reloaded, reload_at, issues, tried>>
      /\ alive' \in BOOLEAN /\ WatchdogTypeOK
      /\ clock' \in clock..(clock + 1) /\ clock' \in 0..Followed
  <2>1. alive \in BOOLEAN /\ clock \in 0..Followed /\ WatchdogTypeOK /\ Followed \in Nat
    BY WatchdogTimingAssumption DEF WatchdogInv, WatchdogTypeOK
  <2>2. UNCHANGED <<owned, watching, started, waiting, watchdog, reloaded, reload_at, issues, tried>>
    BY DEF SensorTurns, TimePasses, feed, cycles, mended
  <2>3. alive' \in BOOLEAN
    BY <2>1 DEF SensorTurns, TimePasses, feed
  <2>4. clock' = clock \/ (clock' = clock + 1 /\ clock < Followed)
    BY DEF SensorTurns, TimePasses, feed
  <2> QED
    BY <2>1, <2>2, <2>3, <2>4
<1>2. WatchdogTypeOK' /\ Stamped'
  <2>1. WatchdogTypeOK'
    BY <1>1 DEF WatchdogTypeOK
  <2> QED
    BY <1>1, <2>1 DEF WatchdogInv, WatchdogTypeOK, Stamped
<1>3. ASSUME NEW i \in Installs
      PROVE  Fares(i)'
  <2>1. Paced(i) /\ Remembers(i) /\ OnTime(i) /\ Tallied(i)
    BY DEF WatchdogInv
  <2>2. Paced(i)'
    <3>1. started[i] \in Nat /\ clock \in Nat
      BY <1>1, Fields
    <3>2. CASE TimePasses
      BY <1>1, <2>1, <3>1, <3>2, WatchdogTimingAssumption DEF Paced, TimePasses
    <3>3. CASE SensorTurns \/ UNCHANGED feed
      BY <2>1, <3>3 DEF Paced, SensorTurns, feed, cycles
    <3> QED
      BY <3>2, <3>3
  <2>3. Remembers(i)' /\ OnTime(i)' /\ Tallied(i)'
    BY <1>1, <2>1 DEF Remembers, Healthy, OnTime, Latest, AttemptBy, Tallied
  <2> QED
    BY <2>2, <2>3 DEF Fares
<1> QED
  BY <1>2, <1>3 DEF WatchdogInv, Fares

-----------------------------------------------------------------------------
(* The theorems *)

LEMMA InitInv == WatchdogInit => WatchdogInv
PROOF
<1> SUFFICES ASSUME WatchdogInit PROVE WatchdogInv
  OBVIOUS
<1>1. Healthy \in WatchdogState
  BY WatchdogTimingAssumption DEF Healthy, WatchdogState
<1>2. WatchdogTypeOK /\ Stamped
  BY <1>1, WatchdogTimingAssumption DEF WatchdogInit, WatchdogTypeOK, Stamped
<1>3. ASSUME NEW i \in Installs
      PROVE  Paced(i) /\ Remembers(i) /\ OnTime(i) /\ Tallied(i)
  BY WatchdogTimingAssumption DEF WatchdogInit, Paced, Remembers, OnTime, Tallied, Healthy
<1> QED
  BY <1>2, <1>3 DEF WatchdogInv

LEMMA NextInv == WatchdogInv /\ [WatchdogNext]_feed => WatchdogInv'
PROOF
  BY TickKeepsInv, StartKeepsInv, ReconfigureKeepsInv, RestartKeepsInv, OthersKeepInv
  DEF WatchdogNext

\* The pace of the cycles, what each watchdog remembers of an outage, how late its attempts
\* can come, and how many of them leaned on a sibling's reload (decide, _reload_owner).
THEOREM WatchdogInvariant == WatchdogSpec => []WatchdogInv
PROOF
  BY InitInv, NextInv, PTL DEF WatchdogSpec

\* An outage is never waited out in silence: however the installs share the reloads and
\* however their cycles lag, each reports it within the grace, its attempts and one cycle
\* (decide, _raise_issue).
THEOREM Reported == WatchdogSpec => []OutageReported
PROOF
<1>1. WatchdogInv => OutageReported
  <2> SUFFICES ASSUME WatchdogInv, NEW i \in Installs, watchdog[i].dead_since # Never
               PROVE  ~(clock - watchdog[i].dead_since > Patience) \/ i \in issues
    BY DEF WatchdogInv, OutageReported, GivesUpInTime
  <2>1. SUFFICES ASSUME i \notin issues
                 PROVE  ~(clock - watchdog[i].dead_since > Patience)
    OBVIOUS
  <2> DEFINE w == watchdog[i]
             last == AttemptBy(MaxReloads)
  <2>2. /\ w.dead_since \in Nat /\ w.reloads \in 0..MaxReloads /\ w.last_reload \in Int
        /\ started[i] \in Nat /\ clock \in Nat
    BY <2>1, Fields DEF WatchdogInv
  <2>3. ~w.issue_raised /\ Paced(i) /\ OnTime(i)
    BY <2>1 DEF WatchdogInv, Remembers
  <2>4. last \in Int /\ 1 <= MaxReloads /\ MaxReloads \in Nat
    BY AttemptByIs, WatchdogTimingAssumption
  <2>5. Latest(w) \in Int /\ Latest(w) <= w.dead_since + last
    <3>1. CASE w.reloads = 0
      <4>1. AttemptBy(1) <= last /\ AttemptBy(1) = Grace + CycleLength - 1
        BY <2>4, AttemptsInOrder, AttemptByIs
      <4> QED
        BY <2>2, <2>4, <3>1, <4>1, WatchdogTimingAssumption DEF Latest
    <3>2. CASE w.reloads > 0
      <4> DEFINE by == AttemptBy(w.reloads)
      <4>1. by \in Int /\ by <= last /\ (w.reloads < MaxReloads => by + RetryAfter - 1 <= last)
        BY <2>2, <2>4, <3>2, AttemptByIs, AttemptsInOrder
      <4>2. w.last_reload <= w.dead_since + by
        BY <2>1, <2>3, <3>2 DEF OnTime
      <4> HIDE DEF by, last
      <4> QED
        BY <2>2, <2>4, <3>2, <4>1, <4>2, WatchdogTimingAssumption DEF Latest
    <3> QED
      BY <2>2, <3>1, <3>2
  <2>6. started[i] <= Latest(w) + IF i \in waiting THEN CycleLength ELSE 0
    BY <2>1, <2>3 DEF OnTime
  <2>7. Patience = last + CycleLength + Lag
    BY DEF Patience
  <2> HIDE DEF last
  <2> QED
    BY <2>2, <2>3, <2>4, <2>5, <2>6, <2>7, WatchdogTimingAssumption DEF Paced
<1> QED
  BY <1>1, WatchdogInvariant, PTL

\* Between them the installs do not reload the owner again while a reload settles, and none
\* gives up before it has seen half of its attempts really made (_LAST_RELOAD).
THEOREM Measured == WatchdogSpec => ReloadsMeasured
PROOF
<1>1. WatchdogInv /\ WatchdogNext => ReloadsSpaced
  <2>1. SUFFICES ASSUME WatchdogInv, NEW i \in Installs, Reloads(i), reload_at # Never
                 PROVE  clock - reload_at >= RetryAfter - Lag
    BY DEF ReloadsSpaced
  <2>2. Paced(i) /\ Stamped /\ started[i] \in Nat /\ clock \in Nat /\ reloaded \in Int
        /\ reload_at \in Int
    BY <2>1, Fields DEF WatchdogInv
  <2> QED
    BY <2>1, <2>2, WatchdogTimingAssumption DEF Reloads, Recent, Stamped, Paced
<1>2. WatchdogInv /\ WatchdogNext => GivesUpTried
  <2>1. SUFFICES ASSUME WatchdogInv, WatchdogNext, NEW j \in Installs, watchdog'[j].issue_raised,
                        ~watchdog[j].issue_raised, owned
                 PROVE  2 * tried[j] >= MaxReloads
    BY DEF GivesUpTried
  <2>2. WatchdogTypeOK /\ Remembers(j) /\ Tallied(j) /\ ~Healthy.issue_raised
        /\ watchdog[j].reloads \in Nat /\ tried[j] \in Nat /\ MaxReloads \in Nat
    BY <2>1, Fields, WatchdogTimingAssumption DEF WatchdogInv, Healthy
  <2>3. PICK i \in Installs : Ticks(i)
    <3>1. CASE \E i \in Installs : Reconfigures(i)
      BY <2>1, <2>2, <3>1 DEF Reconfigures, Becomes, WatchdogTypeOK
    <3>2. CASE Restarts
      BY <2>1, <2>2, <3>2 DEF Restarts
    <3>3. CASE SensorTurns \/ TimePasses \/ \E i \in Installs : Starts(i)
      BY <2>1, <3>3 DEF SensorTurns, TimePasses, Starts
    <3> QED
      BY <2>1, <3>1, <3>2, <3>3 DEF WatchdogNext
  <2>4. GivesUp(j)
    <3>1. CASE Forgets(i)
      BY <2>1, <2>2, <3>1 DEF Forgets, Becomes, WatchdogTypeOK
    <3>2. CASE Bides(i)
      BY <2>1, <3>2 DEF Bides
    <3>3. CASE Notices(i)
      BY <2>1, <2>2, <3>3 DEF Notices, Becomes, WatchdogTypeOK, WatchdogState
    <3>4. CASE Leans(i)
      BY <2>1, <2>2, <3>4 DEF Leans, Attempted, Becomes, WatchdogTypeOK, WatchdogState
    <3>6. CASE Reloads(i)
      BY <2>1, <2>2, <3>6 DEF Reloads, Attempted, Becomes, WatchdogTypeOK, WatchdogState
    <3>5. CASE GivesUp(i)
      BY <2>1, <2>2, <3>5 DEF GivesUp, Becomes, WatchdogTypeOK
    <3> QED
      BY <2>1, <2>3, <3>1, <3>2, <3>3, <3>4, <3>5, <3>6 DEF Ticks, Attempts, Despairs
  <2>5. watchdog[j].dead_since # Never /\ watchdog[j].reloads >= MaxReloads
    BY <2>4 DEF GivesUp, Outlasted, Spent
  <2> QED
    BY <2>1, <2>2, <2>5 DEF Tallied
<1> QED
  BY <1>1, <1>2, WatchdogInvariant, PTL DEF WatchdogSpec, ReloadsMeasured

-----------------------------------------------------------------------------
(* The recorder's resampler *)

USE ResampleTimingAssumption

\* Days divide time, and a window begins with a day.
LEMMA DayParts ==
    ASSUME NEW day \in Nat \ {0}, NEW instant \in Nat
    PROVE  /\ instant \div day \in Nat
           /\ day * (instant \div day) <= instant /\ instant < day * (instant \div day) + day
OBVIOUS

LEMMA WindowBounds ==
    ASSUME NEW instant \in Nat
    PROVE  /\ Window(instant) \in Nat /\ Window(instant) <= instant
           /\ instant < DayLength => Window(instant) = 0
<1>1. DayLength \in Nat \ {0}
  OBVIOUS
<1>2. /\ instant \div DayLength \in Nat
      /\ DayLength * (instant \div DayLength) <= instant
      /\ instant < DayLength * (instant \div DayLength) + DayLength
  BY <1>1, DayParts
<1> DEFINE q == instant \div DayLength
<1> HIDE DEF q
<1>3. q * DayLength = DayLength * q /\ DayLength * q \in Int
  BY <1>1, <1>2 DEF q
<1>4. Window(instant) = Positive(DayLength * q - DayLength)
  BY <1>3 DEF Window, q
<1>5. instant < DayLength => q = 0
  <2>1. SUFFICES ASSUME instant < DayLength, q >= 1
                 PROVE  FALSE
    BY <1>2 DEF q
  <2>2. DayLength * q >= DayLength
    BY <1>1, <1>2, <2>1 DEF q
  <2> QED
    BY <1>1, <1>2, <2>1, <2>2 DEF q
<1> QED
  BY <1>1, <1>2, <1>3, <1>4, <1>5 DEF q, Positive

\* The window never moves back.
LEMMA WindowMoves ==
    ASSUME NEW instant \in Nat, NEW later \in Nat, instant <= later
    PROVE  Window(instant) <= Window(later)
<1>1. DayLength \in Nat \ {0}
  OBVIOUS
<1> DEFINE q == instant \div DayLength
           r == later \div DayLength
<1>2. /\ q \in Nat /\ DayLength * q <= instant
      /\ r \in Nat /\ later < DayLength * r + DayLength
  BY <1>1, DayParts
<1>3. Window(instant) = Positive(q * DayLength - DayLength) /\ Window(later) = Positive(r * DayLength - DayLength)
  BY DEF Window
<1> HIDE DEF q, r
<1>4. DayLength * q < DayLength * (r + 1)
  BY <1>1, <1>2
<1>5. q < r + 1
  <2>1. SUFFICES ASSUME q >= r + 1
                 PROVE  FALSE
    BY <1>2
  <2>2. DayLength * q >= DayLength * (r + 1)
    BY <1>1, <1>2, <2>1
  <2> QED
    BY <1>1, <1>2, <1>4, <2>2
<1>6. q * DayLength <= r * DayLength
  BY <1>1, <1>2, <1>5
<1>7. q * DayLength \in Int /\ r * DayLength \in Int
  BY <1>1, <1>2
<1> QED
  BY <1>1, <1>3, <1>6, <1>7 DEF Positive

-----------------------------------------------------------------------------
(* The resampler's invariant *)

Moment == [plant : Plants, out : SUBSET Entities]

Since == Window(last_end)

\* An entity whose fetches are never further apart than the overlap.
Steady == Mapped \ lapsed

RowAt(e, t) == \E r \in buffers[e] : r.at = t

\* At t the buffer holds what the sensor said there, if it said anything.
Spoken(e, t) == StateAt(e, t) # {} => RowAt(e, t)

ResampleTyped ==
    /\ config \in Configs
    /\ past \in Seq(Moment) /\ Len(past) \in 1..Span + 1
    /\ buffers \in [Entities -> SUBSET Row]
    /\ last_end \in Undefined..Present
    /\ fetched \in [Entities -> Undefined..last_end]
    /\ lapsed \subseteq Mapped
    /\ booted \in Undefined..last_end

\* Before the first fetch there is nothing, and a fetch is never overdue.
Begun ==
    /\ last_end = Undefined  => \A e \in Entities : buffers[e] = {}
    /\ last_end # Undefined => booted # Undefined /\ Present - last_end <= Pause
    /\ \A e \in Entities : fetched[e] = Undefined \/ fetched[e] >= booted

\* A row of the buffer says what the sensor said.
RowsTrue ==
    \A e \in Entities : \A r \in buffers[e] :
        e \in Mapped /\ r.at \in Since..last_end /\ r.raw \in StateAt(e, r.at)

KeepsUp == \A e \in Steady : last_end - fetched[e] <= Overlap

\* No change within the window is missing, up to the last fetch.
Complete ==
    \A e \in Steady : \A t \in Since..fetched[e] : ChangedAt(e, t) => Spoken(e, t)

\* A fetch asks for the state at its start too, and no two that succeed start
\* further apart than an overlap and a pause.
Anchored ==
    \A e \in Steady : \A w \in Since..fetched[e] - Overlap - Pause :
        w >= booted - Overlap => \E x \in w..w + Overlap + Pause : Spoken(e, x)

\* The second one since a restart starts no later than the first one ended.
AnchoredSinceBoot ==
    \A e \in Steady :
        fetched[e] > booted /\ booted - Overlap >= Since
        => \E x \in booted - Overlap..booted : Spoken(e, x)

\* The first one starts with the window.
AnchoredAtStart ==
    \A e \in Steady : Window(booted) = Since /\ fetched[e] # Undefined => Spoken(e, Since)

\* The last one starts within it.
AnchoredLast ==
    \A e \in Steady :
        fetched[e] # Undefined /\ fetched[e] = last_end => \E x \in Since..last_end : Spoken(e, x)

ResampleInv ==
    ResampleTyped /\ Begun /\ RowsTrue /\ KeepsUp /\ Complete
    /\ Anchored /\ AnchoredSinceBoot /\ AnchoredAtStart /\ AnchoredLast


LEMMA WindowUnset == Window(Undefined) \in Nat
<1> DEFINE k == Undefined \div DayLength
<1>1. k \in Int
  BY DEF Undefined
<1> HIDE DEF k
<1>2. k * DayLength - DayLength \in Int
  BY <1>1
<1>3. Window(Undefined) = Positive(k * DayLength - DayLength)
  BY DEF Window, k
<1> QED
  BY <1>2, <1>3 DEF Positive

\* What is typed of the quantities a step reads.
LEMMA Typing ==
    ASSUME ResampleTyped
    PROVE  /\ Present \in Nat /\ Len(past) = Present + 1 /\ Present <= Span
           /\ last_end \in Int /\ last_end <= Present /\ last_end >= Undefined
           /\ last_end # Undefined => last_end \in Nat
           /\ Since \in Nat
           /\ last_end # Undefined => Since <= last_end
           /\ \A e \in Entities : fetched[e] \in Int /\ fetched[e] >= Undefined /\ fetched[e] <= last_end
           /\ booted \in Int /\ booted <= last_end /\ booted >= Undefined
<1>1. Len(past) \in Nat /\ Len(past) >= 1 /\ Len(past) <= Span + 1 /\ Present = Len(past) - 1
  BY DEF ResampleTyped, Present
<1>2. /\ Present \in Nat /\ last_end \in Int /\ last_end <= Present /\ last_end >= Undefined
      /\ last_end # Undefined => last_end \in Nat
  BY <1>1 DEF ResampleTyped, Undefined
<1>3. /\ Since \in Nat
      /\ last_end # Undefined => Since <= last_end
  BY <1>2, WindowBounds, WindowUnset DEF Since
<1>4. \A e \in Entities : fetched[e] \in Undefined..last_end
  BY DEF ResampleTyped
<1> QED
  BY <1>1, <1>2, <1>3, <1>4 DEF ResampleTyped, Undefined

\* What an entity publishes is a number.
LEMMA StateIs ==
    ASSUME ResampleTyped, NEW e \in Entities, NEW t \in 0..Present
    PROVE  /\ StateAt(e, t) \in SUBSET Int
           /\ \A v, w \in StateAt(e, t) : v = w
           /\ e \notin Mapped => StateAt(e, t) = {}
           /\ StateAt(e, t) # {} => StateAt(e, t) = {Published(config.platform, past[t + 1].plant)[e]}
<1>1. t + 1 \in 1..Len(past)
  BY Typing
<1>2. past[t + 1].plant \in Plants /\ config \in Configs
  <2>1. past[t + 1] \in Moment
    BY <1>1 DEF ResampleTyped
  <2> QED
    BY <2>1 DEF Moment, ResampleTyped
<1> DEFINE p == past[t + 1].plant
           v == Published(config.platform, p)[e]
<1>3. Signals[config][p] = Published(config.platform, p)
  BY <1>2 DEF Signals
<1>4. StateAt(e, t) = {} \/ StateAt(e, t) = {v}
  BY <1>3 DEF StateAt
<1>5. v \in Int
  <2>1. p \in Plant
    BY <1>2, ResamplePlantsAssumption
  <2> HIDE DEF p
  <2>2. /\ p.solar \in Int /\ p.backup \in Int /\ p.battery \in Int
        /\ AcPort(p) \in Int /\ GridNet(p) \in Int
    BY <2>1 DEF Plant, AcPort, GridNet
  <2> DEFINE ac == AcPort(p)
             net == GridNet(p)
  <2> HIDE DEF ac, net
  <2>3. Magnitude(p.battery) \in Int /\ Positive(net) \in Int /\ Positive(-net) \in Int
    BY <2>2 DEF Magnitude, Positive, net
  <2> QED
    BY <2>2, <2>3 DEF Published, Entities, ac, net
<1>6. e \notin Mapped => StateAt(e, t) = {}
  BY DEF StateAt
<1> QED
  BY <1>4, <1>5, <1>6

\* The rows a fetch adds, and the ones it keeps.
LEMMA MergedHas ==
    ASSUME NEW old \in SUBSET Row, NEW new \in SUBSET Row, WindowStart \in Nat
    PROVE  /\ Merged(old, new) \in SUBSET Row
           /\ \A r \in Merged(old, new) : (r \in old \/ r \in new) /\ r.at >= WindowStart
           /\ \A r \in old : r.at >= WindowStart => r \in Merged(old, new)
           /\ \A r \in new : r.at >= WindowStart => \E s \in Merged(old, new) : s.at = r.at
<1>1. \A r \in old : r.at >= WindowStart => r \in Merged(old, new)
  BY DEF Merged
<1>2. ASSUME NEW r \in new, r.at >= WindowStart
      PROVE  \E s \in Merged(old, new) : s.at = r.at
  <2>1. CASE \A x \in old : x.at # r.at
    BY <1>2, <2>1 DEF Merged
  <2>2. CASE \E x \in old : x.at = r.at
    BY <1>1, <1>2, <2>2
  <2> QED
    BY <2>1, <2>2
<1> QED
  BY <1>1, <1>2 DEF Merged

\* What the recorder answers.
LEMMA AnswerHas ==
    ASSUME ResampleTyped, NEW e \in Entities, NEW from \in 0..Present
    PROVE  /\ Answer(e, from) \in SUBSET Row
           /\ \A r \in Answer(e, from) : r.at \in from..Present /\ r.raw \in StateAt(e, r.at)
           /\ \A t \in from..Present : (t = from \/ ChangedAt(e, t)) /\ StateAt(e, t) # {}
                 => \E r \in Answer(e, from) : r.at = t
<1>1. Present \in Nat
  BY Typing
<1> DEFINE times == {x \in from..Present : x = from \/ ChangedAt(e, x)}
<1>2. \A t \in times : t \in 0..Present /\ t \in Nat
  BY <1>1
<1>3. ASSUME NEW r \in Answer(e, from)
      PROVE  r \in Row /\ r.at \in from..Present /\ r.raw \in StateAt(e, r.at)
  <2>1. PICK t \in times : r \in {[at |-> t, raw |-> v] : v \in StateAt(e, t)}
    BY <1>3 DEF Answer
  <2>2. PICK v \in StateAt(e, t) : r = [at |-> t, raw |-> v]
    BY <2>1
  <2>3. v \in Int /\ t \in Nat
    BY <1>2, StateIs
  <2> QED
    BY <2>2, <2>3 DEF Row
<1>4. ASSUME NEW t \in from..Present, t = from \/ ChangedAt(e, t), StateAt(e, t) # {}
      PROVE  \E r \in Answer(e, from) : r.at = t
  <2>1. PICK v \in StateAt(e, t) : TRUE
    BY <1>4
  <2>2. t \in times
    BY <1>4
  <2>3. [at |-> t, raw |-> v] \in Answer(e, from)
    BY <2>1, <2>2 DEF Answer
  <2> QED
    BY <2>3
<1> QED
  BY <1>3, <1>4


\* Where a fetch starts.
LEMMA StartIs ==
    ASSUME ResampleInv, last_end < Present
    PROVE  /\ FetchStart \in 0..Present /\ FetchStart >= WindowStart
           /\ WindowStart \in Nat /\ WindowStart <= Present
           /\ FetchStart # WindowStart => last_end # Undefined /\ FetchStart = last_end - Overlap
           /\ last_end # Undefined => FetchStart >= last_end - Overlap /\ Since <= WindowStart
<1>1. /\ Present \in Nat /\ last_end \in Int /\ (last_end # Undefined => last_end \in Nat)
  BY Typing DEF ResampleInv
<1>2. /\ WindowStart \in Nat /\ WindowStart <= Present
  BY <1>1, WindowBounds DEF WindowStart
<1>3. last_end # Undefined => Since <= WindowStart
  BY <1>1, WindowMoves DEF WindowStart, Since
<1> QED
  BY <1>1, <1>2, <1>3 DEF FetchStart

\* The states of the past do not change.
LEMMA StatesStay ==
    ASSUME ResampleTyped, UNCHANGED config, NEW t \in 0..Present,
           UNCHANGED past \/ \E m \in Moment : past' = Append(past, m)
    PROVE  \A e \in Entities : StateAt(e, t)' = StateAt(e, t) /\ (ChangedAt(e, t)' <=> ChangedAt(e, t))
<1>1. past \in Seq(Moment) /\ Present \in Nat /\ Len(past) = Present + 1
  BY Typing DEF ResampleTyped
<1>2. \A i \in 1..Len(past) : past'[i] = past[i]
  BY <1>1
<1>3. past'[t + 1] = past[t + 1] /\ (t # 0 => past'[t] = past[t])
  BY <1>1, <1>2
<1>4. Mapped' = Mapped /\ Signals' = Signals
  BY DEF Mapped, Signals
<1>5. ASSUME NEW e \in Entities, NEW x \in {t, t - 1}, past'[x + 1] = past[x + 1]
      PROVE  StateAt(e, x)' = StateAt(e, x)
  BY <1>4, <1>5 DEF StateAt
<1>6. t - 1 + 1 = t /\ (t # 0 => t - 1 \in Nat)
  BY <1>1
<1> QED
  BY <1>3, <1>5, <1>6 DEF ChangedAt

\* One entity through a cycle: what its buffer holds, and when it was last fetched.
LEMMA CycleOf ==
    ASSUME ResampleInv, NEW failing \in Failures, Updates(failing), NEW e \in Entities
    PROVE  /\ buffers'[e] \in SUBSET Row
           /\ \A r \in buffers'[e] :
                 e \in Mapped /\ r.at \in WindowStart..Present /\ r.raw \in StateAt(e, r.at)
           /\ \A r \in buffers[e] : r.at >= WindowStart => r \in buffers'[e]
           /\ fetched'[e] = IF e \in failing THEN fetched[e] ELSE Present
           /\ e \in Mapped \ failing =>
                 \A t \in FetchStart..Present :
                    (t = FetchStart \/ ChangedAt(e, t)) /\ StateAt(e, t) # {} => RowAt(e, t)'
<1>1. /\ buffers[e] \in SUBSET Row /\ last_end < Present
      /\ buffers'[e] = Merged(buffers[e], IF e \in Mapped \ failing THEN Answer(e, FetchStart) ELSE {})
      /\ fetched'[e] = IF e \in failing THEN fetched[e] ELSE Present
  BY DEF Updates, ResampleInv, ResampleTyped
<1>2. /\ FetchStart \in 0..Present /\ FetchStart >= WindowStart
      /\ WindowStart \in Nat /\ WindowStart <= Present
      /\ last_end # Undefined => Since <= WindowStart
  BY <1>1, StartIs
<1>3. /\ Present \in Nat /\ last_end \in Int /\ ResampleTyped
  BY Typing DEF ResampleInv
<1> DEFINE new == IF e \in Mapped \ failing THEN Answer(e, FetchStart) ELSE {}
<1>4. /\ new \in SUBSET Row
      /\ \A r \in new : e \in Mapped /\ r.at \in FetchStart..Present /\ r.raw \in StateAt(e, r.at)
      /\ e \in Mapped \ failing => \A t \in FetchStart..Present :
            (t = FetchStart \/ ChangedAt(e, t)) /\ StateAt(e, t) # {} => \E r \in new : r.at = t
  BY <1>2, <1>3, AnswerHas
<1>5. buffers'[e] = Merged(buffers[e], new)
  BY <1>1
<1> HIDE DEF new
<1>6. /\ buffers'[e] \in SUBSET Row
      /\ \A r \in buffers'[e] : (r \in buffers[e] \/ r \in new) /\ r.at >= WindowStart
      /\ \A r \in buffers[e] : r.at >= WindowStart => r \in buffers'[e]
      /\ \A r \in new : r.at >= WindowStart => \E s \in buffers'[e] : s.at = r.at
  BY <1>1, <1>2, <1>4, <1>5, MergedHas
<1>7. ASSUME NEW r \in buffers'[e]
      PROVE  e \in Mapped /\ r.at \in WindowStart..Present /\ r.raw \in StateAt(e, r.at)
  <2>1. CASE r \in new
    BY <1>2, <1>3, <1>4, <1>6, <2>1
  <2>2. CASE r \in buffers[e]
    <3>1. e \in Mapped /\ r.at \in Since..last_end /\ r.raw \in StateAt(e, r.at)
      BY <2>2 DEF ResampleInv, RowsTrue
    <3>2. Since \in Nat
      BY Typing DEF ResampleInv
    <3> QED
      BY <1>1, <1>2, <1>3, <1>6, <3>1, <3>2
  <2> QED
    BY <1>6, <2>1, <2>2
<1>8. ASSUME e \in Mapped \ failing, NEW t \in FetchStart..Present,
             t = FetchStart \/ ChangedAt(e, t), StateAt(e, t) # {}
      PROVE  RowAt(e, t)'
  <2>1. PICK r \in new : r.at = t
    BY <1>4, <1>8
  <2>2. r.at >= WindowStart
    BY <1>2, <1>3, <2>1
  <2>3. \E s \in buffers'[e] : s.at = t
    BY <1>6, <2>1, <2>2
  <2> QED
    BY <2>3 DEF RowAt
<1> QED
  BY <1>1, <1>6, <1>7, <1>8


\* What a cycle leaves of a sensor it may have fetched.
LEMMA CycleKeeps ==
    ASSUME ResampleInv, NEW failing \in Failures, Updates(failing), NEW e \in Entities
    PROVE  /\ \A x \in WindowStart..Present : Spoken(e, x) => Spoken(e, x)'
           /\ e \in Mapped \ failing =>
                 \A x \in FetchStart..Present : x = FetchStart \/ ChangedAt(e, x) => Spoken(e, x)'
           /\ \A x \in 0..Present : ChangedAt(e, x)' <=> ChangedAt(e, x)
<1>1. UNCHANGED <<config, past>> /\ ResampleTyped /\ last_end < Present
  BY DEF Updates, ResampleInv
<1>2. \A x \in 0..Present : StateAt(e, x)' = StateAt(e, x) /\ (ChangedAt(e, x)' <=> ChangedAt(e, x))
  BY <1>1, StatesStay
<1>3. /\ FetchStart \in 0..Present /\ WindowStart \in Nat /\ WindowStart <= Present /\ Present \in Nat
  BY <1>1, StartIs, Typing
<1>4. ASSUME NEW x \in WindowStart..Present, Spoken(e, x)
      PROVE  Spoken(e, x)'
  <2>1. StateAt(e, x)' = StateAt(e, x)
    BY <1>2, <1>3
  <2>2. RowAt(e, x) => RowAt(e, x)'
    BY <1>3, CycleOf DEF RowAt
  <2> QED
    BY <1>4, <2>1, <2>2 DEF Spoken
<1>5. ASSUME e \in Mapped \ failing, NEW x \in FetchStart..Present, x = FetchStart \/ ChangedAt(e, x)
      PROVE  Spoken(e, x)'
  <2>1. StateAt(e, x)' = StateAt(e, x)
    BY <1>2, <1>3
  <2>2. StateAt(e, x) # {} => RowAt(e, x)'
    BY <1>5, CycleOf
  <2> QED
    BY <2>1, <2>2 DEF Spoken
<1> QED
  BY <1>2, <1>4, <1>5

\* The quantities of a cycle, of a sensor that has kept up.
LEMMA CycleTimes ==
    ASSUME ResampleInv, NEW failing \in Failures, Updates(failing), NEW e \in Steady'
    PROVE  /\ e \in Steady /\ e \in Entities
           /\ Since' = WindowStart /\ last_end' = Present
           /\ fetched'[e] = IF e \in failing THEN fetched[e] ELSE Present
           /\ e \in failing => Present - fetched[e] <= Overlap
           /\ last_end - fetched[e] <= Overlap
           /\ booted' = IF booted = Undefined THEN Present ELSE booted
           /\ last_end # Undefined => booted # Undefined /\ Present - last_end <= Pause
           /\ booted = Undefined => last_end = Undefined
           /\ fetched[e] = Undefined \/ fetched[e] >= booted
           /\ e \notin failing => e \in Mapped \ failing
<1>1. /\ last_end < Present /\ UNCHANGED <<config, past>> /\ last_end' = Present
      /\ fetched' = [d \in Entities |-> IF d \in failing THEN fetched[d] ELSE Present]
      /\ lapsed' = lapsed \cup {d \in failing : Present - fetched[d] > Overlap}
      /\ booted' = IF booted = Undefined THEN Present ELSE booted
  BY DEF Updates
<1>2. Mapped' = Mapped /\ Present' = Present /\ Window(last_end)' = Window(Present)
  BY <1>1 DEF Mapped, Present, Window
<1>3. Mapped \subseteq Entities
  BY ResampleConfigsAssumption DEF ResampleInv, ResampleTyped, Mapped
<1>4. e \in Steady /\ e \in Mapped /\ (e \in failing => ~(Present - fetched[e] > Overlap))
  BY <1>1, <1>2 DEF Steady
<1>5. /\ Present \in Nat /\ fetched[e] \in Int /\ last_end \in Int
      /\ booted \in Int /\ booted <= last_end /\ last_end >= Undefined /\ booted >= Undefined
  BY <1>3, <1>4, Typing DEF ResampleInv
<1>6. e \in failing => Present - fetched[e] <= Overlap
  BY <1>4, <1>5
<1>7. last_end - fetched[e] <= Overlap
  BY <1>4 DEF ResampleInv, KeepsUp
<1>8. /\ last_end # Undefined => booted # Undefined /\ Present - last_end <= Pause
      /\ fetched[e] = Undefined \/ fetched[e] >= booted
  BY <1>3, <1>4 DEF ResampleInv, Begun
<1>9. booted = Undefined => last_end = Undefined
  BY <1>8
<1> QED
  BY <1>1, <1>2, <1>3, <1>4, <1>6, <1>7, <1>8, <1>9 DEF Since, WindowStart

\* A cycle misses no change.
LEMMA UpdatesComplete ==
    ASSUME ResampleInv, NEW failing \in Failures, Updates(failing)
    PROVE  Complete' /\ KeepsUp'
<1> SUFFICES ASSUME NEW e \in Steady'
             PROVE  /\ last_end' - fetched'[e] <= Overlap
                    /\ \A t \in Since'..fetched'[e] : ChangedAt(e, t)' => Spoken(e, t)'
  BY DEF Complete, KeepsUp
<1>1. /\ e \in Steady /\ e \in Entities /\ Since' = WindowStart /\ last_end' = Present
      /\ fetched'[e] = IF e \in failing THEN fetched[e] ELSE Present
      /\ e \in failing => Present - fetched[e] <= Overlap
      /\ last_end - fetched[e] <= Overlap
      /\ e \notin failing => e \in Mapped \ failing
  BY CycleTimes
<1>2. /\ Present \in Nat /\ fetched[e] \in Int /\ fetched[e] <= last_end /\ last_end \in Int
      /\ fetched[e] >= Undefined /\ Since \in Nat /\ last_end < Present
  BY <1>1, Typing DEF ResampleInv, Updates
<1>3. /\ FetchStart \in 0..Present /\ FetchStart >= WindowStart /\ WindowStart \in Nat /\ WindowStart <= Present
      /\ FetchStart # WindowStart => last_end # Undefined /\ FetchStart = last_end - Overlap
      /\ last_end # Undefined => Since <= WindowStart
  BY <1>2, StartIs
<1>4. /\ \A x \in WindowStart..Present : Spoken(e, x) => Spoken(e, x)'
      /\ e \in Mapped \ failing =>
            \A x \in FetchStart..Present : x = FetchStart \/ ChangedAt(e, x) => Spoken(e, x)'
      /\ \A x \in 0..Present : ChangedAt(e, x)' <=> ChangedAt(e, x)
  BY <1>1, CycleKeeps
<1>5. ASSUME NEW t \in WindowStart..fetched'[e], ChangedAt(e, t)'
      PROVE  Spoken(e, t)'
  <2>1. t \in WindowStart..Present /\ t \in 0..Present /\ ChangedAt(e, t)
    BY <1>1, <1>2, <1>3, <1>4, <1>5
  <2>2. CASE t <= fetched[e]
    <3>1. last_end # Undefined /\ t \in Since..fetched[e]
      BY <1>2, <1>3, <2>1, <2>2 DEF Undefined
    <3>2. Spoken(e, t)
      BY <1>1, <2>1, <3>1 DEF ResampleInv, Complete
    <3> QED
      BY <1>4, <2>1, <3>2
  <2>3. CASE t > fetched[e]
    <3>1. e \notin failing
      BY <1>1, <1>2, <1>5, <2>1, <2>3
    <3>2. t \in FetchStart..Present
      BY <1>1, <1>2, <1>3, <2>1, <2>3
    <3> QED
      BY <1>1, <1>4, <2>1, <3>1, <3>2
  <2> QED
    BY <1>2, <2>1, <2>2, <2>3
<1>6. last_end' - fetched'[e] <= Overlap
  BY <1>1, <1>2
<1> QED
  BY <1>1, <1>5, <1>6

\* Nor does it lose what the streams start from.
LEMMA UpdatesAnchored ==
    ASSUME ResampleInv, NEW failing \in Failures, Updates(failing)
    PROVE  Anchored' /\ AnchoredSinceBoot' /\ AnchoredAtStart' /\ AnchoredLast'
<1>0. SUFFICES ASSUME NEW e \in Steady'
             PROVE  /\ \A w \in Since'..fetched'[e] - Overlap - Pause :
                          w >= booted' - Overlap => \E x \in w..w + Overlap + Pause : Spoken(e, x)'
                    /\ fetched'[e] > booted' /\ booted' - Overlap >= Since' =>
                          \E x \in booted' - Overlap..booted' : Spoken(e, x)'
                    /\ Window(booted') = Since' /\ fetched'[e] # Undefined => Spoken(e, Since)'
                    /\ fetched'[e] # Undefined /\ fetched'[e] = last_end' =>
                          \E x \in Since'..last_end' : Spoken(e, x)'
  BY DEF Anchored, AnchoredSinceBoot, AnchoredAtStart, AnchoredLast, Window
<1>1. /\ e \in Steady /\ e \in Entities /\ Since' = WindowStart /\ last_end' = Present
      /\ fetched'[e] = IF e \in failing THEN fetched[e] ELSE Present
      /\ e \in failing => Present - fetched[e] <= Overlap
      /\ last_end - fetched[e] <= Overlap
      /\ e \notin failing => e \in Mapped \ failing
      /\ booted' = IF booted = Undefined THEN Present ELSE booted
      /\ last_end # Undefined => booted # Undefined /\ Present - last_end <= Pause
      /\ booted = Undefined => last_end = Undefined
      /\ fetched[e] = Undefined \/ fetched[e] >= booted
  BY CycleTimes
<1>2. /\ Present \in Nat /\ fetched[e] \in Int /\ fetched[e] <= last_end /\ last_end \in Int
      /\ fetched[e] >= Undefined /\ Since \in Nat /\ last_end < Present
      /\ booted \in Int /\ booted <= last_end /\ booted >= Undefined
  BY <1>1, Typing DEF ResampleInv, Updates
<1>3. /\ FetchStart \in 0..Present /\ FetchStart >= WindowStart /\ WindowStart \in Nat /\ WindowStart <= Present
      /\ FetchStart # WindowStart => last_end # Undefined /\ FetchStart = last_end - Overlap
      /\ last_end # Undefined => FetchStart >= last_end - Overlap /\ Since <= WindowStart
  BY <1>2, StartIs
<1> PICK s \in 0..Present : s = FetchStart
  BY <1>3
<1> PICK W \in 0..Present : W = WindowStart
  BY <1>2, <1>3
<1> DEFINE f == fetched[e]
<1>4. /\ \A x \in W..Present : Spoken(e, x) => Spoken(e, x)'
      /\ e \notin failing => Spoken(e, s)'
  <2>1. s \in FetchStart..Present
    BY <1>2, <1>3
  <2> QED
    BY <1>1, <2>1, CycleKeeps
<1>5. ASSUME NEW w \in W..fetched'[e] - Overlap - Pause, w >= booted' - Overlap
      PROVE  \E x \in w..w + Overlap + Pause : Spoken(e, x)'
  <2>1. last_end # Undefined /\ booted' = booted
    BY <1>1, <1>2, <1>3, <1>5 DEF Undefined
  <2>2. CASE w <= f - Overlap - Pause
    <3>1. w \in Since..f - Overlap - Pause /\ w >= booted - Overlap
      BY <1>2, <1>3, <1>5, <2>1, <2>2
    <3>2. PICK x \in w..w + Overlap + Pause : Spoken(e, x)
      BY <1>1, <3>1 DEF ResampleInv, Anchored
    <3>3. x \in W..Present
      BY <1>2, <1>3, <1>5, <2>2, <3>2
    <3> QED
      BY <1>4, <3>2, <3>3
  <2>3. CASE w > f - Overlap - Pause
    <3>1. e \notin failing
      BY <1>1, <1>2, <1>5, <2>3
    <3>2. w <= last_end - Overlap
      BY <1>1, <1>2, <1>3, <1>5, <2>1, <3>1
    <3>3. s = last_end - Overlap
      BY <1>2, <1>3, <1>5, <2>1, <3>2
    <3>4. s \in w..w + Overlap + Pause
      BY <1>1, <1>2, <1>3, <2>3, <3>2, <3>3
    <3> QED
      BY <1>4, <3>1, <3>4
  <2> QED
    BY <1>2, <1>3, <2>2, <2>3
<1>6. ASSUME fetched'[e] > booted', booted' - Overlap >= W
      PROVE  \E x \in booted' - Overlap..booted' : Spoken(e, x)'
  <2>1. last_end # Undefined /\ booted' = booted /\ booted # Undefined
    BY <1>1, <1>2, <1>3, <1>6
  <2>2. CASE f > booted
    <3>1. PICK x \in booted - Overlap..booted : Spoken(e, x)
      BY <1>1, <1>2, <1>3, <1>6, <2>1, <2>2 DEF ResampleInv, AnchoredSinceBoot
    <3>2. x \in W..Present
      BY <1>2, <1>3, <1>6, <2>1, <3>1
    <3> QED
      BY <1>4, <2>1, <3>1, <3>2
  <2>3. CASE f <= booted
    <3>1. e \notin failing
      BY <1>1, <1>2, <1>6, <2>1, <2>3
    <3>2. f = booted
      <4>1. f # Undefined
        BY <1>1, <1>2, <1>3, <1>6, <2>1 DEF Undefined
      <4> QED
        BY <1>1, <1>2, <2>3, <4>1
    <3>3. s = last_end - Overlap /\ s \in booted - Overlap..booted
      BY <1>1, <1>2, <1>3, <1>6, <2>1, <3>2
    <3> QED
      BY <1>4, <2>1, <3>1, <3>3
  <2> QED
    BY <1>2, <2>2, <2>3
<1>7. ASSUME Window(booted') = W, fetched'[e] # Undefined
      PROVE  Spoken(e, Since)'
  <2>1. SUFFICES Spoken(e, W)'
    BY <1>1 DEF Spoken, RowAt, StateAt
  <2>2. CASE f = Undefined
    <3>1. e \notin failing
      BY <1>1, <1>7, <2>2
    <3>2. s = W
      <4>1. last_end # Undefined => last_end - Overlap < 0
        BY <1>1, <1>2, <2>2 DEF Undefined
      <4> QED
        BY <1>2, <1>3, <4>1
    <3> QED
      BY <1>4, <3>1, <3>2
  <2>3. CASE f # Undefined
    <3>1. last_end # Undefined /\ booted' = booted /\ booted # Undefined /\ booted \in Nat /\ last_end \in Nat
      BY <1>1, <1>2, <2>3 DEF Undefined
    <3>2. Window(booted) <= Since /\ Window(booted) \in Nat
      BY <1>2, <3>1, WindowBounds, WindowMoves DEF Since
    <3>3. Since = W /\ Window(booted) = Since
      BY <1>2, <1>3, <1>7, <3>1, <3>2
    <3>4. Spoken(e, Since)
      BY <1>1, <2>3, <3>3 DEF ResampleInv, AnchoredAtStart
    <3>5. Spoken(e, W) /\ W \in W..Present
      BY <1>2, <1>3, <3>3, <3>4
    <3> QED
      BY <1>4, <3>5
  <2> QED
    BY <2>2, <2>3
<1>8. ASSUME fetched'[e] # Undefined, fetched'[e] = last_end'
      PROVE  \E x \in W..Present : Spoken(e, x)'
  <2>1. e \notin failing
    BY <1>1, <1>2, <1>8
  <2>2. s \in W..Present
    BY <1>2, <1>3
  <2> QED
    BY <1>4, <2>1, <2>2
<1> QED
  BY <1>1, <1>5, <1>6, <1>7, <1>8


\* A cycle stores only what was said, where it belongs.
LEMMA UpdatesTyped ==
    ASSUME ResampleInv, NEW failing \in Failures, Updates(failing)
    PROVE  ResampleTyped' /\ Begun' /\ RowsTrue'
<1>1. /\ last_end < Present /\ UNCHANGED <<config, past>> /\ last_end' = Present
      /\ fetched' = [d \in Entities |-> IF d \in failing THEN fetched[d] ELSE Present]
      /\ lapsed' = lapsed \cup {d \in failing : Present - fetched[d] > Overlap}
      /\ booted' = IF booted = Undefined THEN Present ELSE booted
      /\ DOMAIN buffers' = Entities
      /\ buffers' = [d \in Entities |-> buffers'[d]]
  BY DEF Updates
<1>2. Mapped' = Mapped /\ Present' = Present /\ Since' = WindowStart
  BY <1>1 DEF Mapped, Present, Since, WindowStart, Window
<1>3. /\ Present \in Nat /\ Present <= Span /\ last_end \in Int /\ last_end >= Undefined
      /\ booted \in Int /\ booted <= last_end /\ booted >= Undefined
      /\ \A e \in Entities : fetched[e] \in Int /\ fetched[e] >= Undefined /\ fetched[e] <= last_end
  BY Typing DEF ResampleInv
<1>4. \A e \in Entities : buffers'[e] \in SUBSET Row
  BY CycleOf
<1>5. ResampleTyped'
  <2>1. buffers' \in [Entities -> SUBSET Row]
    BY <1>1, <1>4
  <2>2. fetched' \in [Entities -> Undefined..last_end']
    <3>1. \A e \in Entities : fetched'[e] \in Undefined..Present
      BY <1>1, <1>3 DEF Undefined
    <3>2. DOMAIN fetched' = Entities
      BY <1>1
    <3>3. fetched' = [d \in Entities |-> fetched'[d]]
      BY <1>1, <3>2
    <3> QED
      BY <1>1, <3>1, <3>3
  <2>3. lapsed' \subseteq Mapped'
    <3>1. failing \subseteq Mapped
      BY DEF Failures
    <3> QED
      BY <1>1, <1>2, <3>1 DEF ResampleInv, ResampleTyped
  <2>4. booted' \in Undefined..last_end' /\ last_end' \in Undefined..Present'
    BY <1>1, <1>2, <1>3 DEF Undefined
  <2> QED
    BY <1>1, <2>1, <2>2, <2>3, <2>4 DEF ResampleInv, ResampleTyped
<1>6. Begun'
  <2>1. last_end' # Undefined /\ booted' # Undefined /\ Present' - last_end' <= Pause
    BY <1>1, <1>2, <1>3 DEF Undefined
  <2>2. ASSUME NEW e \in Entities
        PROVE  fetched'[e] = Undefined \/ fetched'[e] >= booted'
    <3>1. fetched[e] = Undefined \/ fetched[e] >= booted
      BY DEF ResampleInv, Begun
    <3>2. booted = Undefined => fetched[e] = Undefined
      BY <1>3 DEF ResampleInv, Begun
    <3>3. fetched'[e] = IF e \in failing THEN fetched[e] ELSE Present
      BY <1>1
    <3> QED
      BY <1>1, <1>3, <3>1, <3>2, <3>3
  <2> QED
    BY <2>1, <2>2 DEF Begun
<1>7. RowsTrue'
  <2>1. SUFFICES ASSUME NEW e \in Entities, NEW r \in buffers'[e]
                 PROVE  e \in Mapped' /\ r.at \in Since'..last_end' /\ r.raw \in StateAt(e, r.at)'
    BY DEF RowsTrue
  <2>2. e \in Mapped /\ r.at \in WindowStart..Present /\ r.raw \in StateAt(e, r.at)
    BY CycleOf
  <2>3. WindowStart \in Nat
    BY <1>1, StartIs
  <2>4. r.at \in 0..Present
    BY <1>3, <2>2, <2>3
  <2>5. StateAt(e, r.at)' = StateAt(e, r.at)
    BY <1>1, <2>4, StatesStay DEF ResampleInv
  <2> QED
    BY <1>1, <1>2, <2>2, <2>5
<1> QED
  BY <1>5, <1>6, <1>7

\* What is in the buffers does not depend on what happens after.
LEMMA StaysSame ==
    ASSUME ResampleInv, UNCHANGED <<config, resampler>>,
           UNCHANGED past \/ \E m \in Moment : past' = Append(past, m)
    PROVE  RowsTrue' /\ KeepsUp' /\ Complete' /\ Anchored' /\ AnchoredSinceBoot' /\ AnchoredAtStart' /\ AnchoredLast'
<1>1. /\ Present \in Nat /\ last_end \in Int /\ last_end <= Present /\ Since \in Nat /\ ResampleTyped
      /\ \A e \in Entities : fetched[e] \in Int /\ fetched[e] <= last_end
      /\ booted \in Int /\ booted <= last_end
  BY Typing DEF ResampleInv
<1>2. UNCHANGED <<config, buffers, last_end, fetched, lapsed, booted>>
  BY DEF resampler
<1>3. /\ Mapped' = Mapped /\ Steady' = Steady /\ Since' = Since
      /\ Window(booted)' = Window(booted)
  BY <1>2 DEF Mapped, Steady, Since, Window
<1>4. \A e \in Entities : \A t \in 0..last_end :
         /\ StateAt(e, t)' = StateAt(e, t) /\ (ChangedAt(e, t)' <=> ChangedAt(e, t))
  <2>1. \A t \in 0..last_end : t \in 0..Present
    BY <1>1
  <2> QED
    BY <1>1, <1>2, <2>1, StatesStay
<1>5. \A e \in Entities : \A t \in 0..last_end : Spoken(e, t)' <=> Spoken(e, t)
  BY <1>2, <1>4 DEF Spoken, RowAt
<1>6. Steady \subseteq Entities
  BY ResampleConfigsAssumption DEF ResampleInv, ResampleTyped, Steady, Mapped
<1>7. RowsTrue'
  <2>1. \A e \in Entities : \A r \in buffers[e] : e \in Mapped /\ r.at \in Since..last_end /\ r.raw \in StateAt(e, r.at)
    BY DEF ResampleInv, RowsTrue
  <2>2. \A e \in Entities : \A r \in buffers[e] : r.at \in 0..last_end
    BY <1>1, <2>1
  <2>3. \A e \in Entities : \A r \in buffers[e] : r.raw \in StateAt(e, r.at)'
    BY <1>4, <2>1, <2>2
  <2> QED
    BY <1>2, <1>3, <2>1, <2>3 DEF RowsTrue
<1>8. KeepsUp'
  BY <1>2, <1>3 DEF ResampleInv, KeepsUp
<1>9. Complete'
  <2>1. SUFFICES ASSUME NEW e \in Steady, NEW t \in Since..fetched[e], ChangedAt(e, t)'
                 PROVE  Spoken(e, t)'
    BY <1>2, <1>3 DEF Complete
  <2>2. e \in Entities /\ t \in 0..last_end
    BY <1>1, <1>6
  <2> QED
    BY <1>4, <1>5, <2>1, <2>2 DEF ResampleInv, Complete
<1>10. Anchored'
  <2>1. SUFFICES ASSUME NEW e \in Steady, NEW w \in Since..fetched[e] - Overlap - Pause, w >= booted - Overlap
                 PROVE  \E x \in w..w + Overlap + Pause : Spoken(e, x)'
    BY <1>2, <1>3 DEF Anchored
  <2>2. PICK x \in w..w + Overlap + Pause : Spoken(e, x)
    BY <2>1 DEF ResampleInv, Anchored
  <2>3. e \in Entities /\ x \in 0..last_end
    BY <1>1, <1>6
  <2> QED
    BY <1>5, <2>2, <2>3
<1>11. AnchoredSinceBoot'
  <2>1. SUFFICES ASSUME NEW e \in Steady, fetched[e] > booted, booted - Overlap >= Since
                 PROVE  \E x \in booted - Overlap..booted : Spoken(e, x)'
    BY <1>2, <1>3 DEF AnchoredSinceBoot
  <2>2. PICK x \in booted - Overlap..booted : Spoken(e, x)
    BY <2>1 DEF ResampleInv, AnchoredSinceBoot
  <2>3. e \in Entities /\ x \in 0..last_end
    BY <1>1, <1>6, <2>1
  <2> QED
    BY <1>5, <2>2, <2>3
<1>12. AnchoredAtStart'
  <2>1. SUFFICES ASSUME NEW e \in Steady, Window(booted) = Since, fetched[e] # Undefined
                 PROVE  Spoken(e, Since)'
    BY <1>2, <1>3 DEF AnchoredAtStart, Window
  <2> PICK W \in Nat : W = Since
    BY <1>1
  <2>2. Spoken(e, W)
    BY <2>1 DEF ResampleInv, AnchoredAtStart
  <2>3. e \in Entities /\ last_end # Undefined
    BY <1>1, <1>6, <2>1, Typing DEF Undefined, ResampleInv
  <2>4. W \in 0..last_end
    BY <1>1, <2>3, Typing DEF ResampleInv
  <2>5. Spoken(e, W)'
    BY <1>5, <2>2, <2>3, <2>4
  <2> QED
    BY <1>3, <2>5 DEF Spoken, RowAt, StateAt
<1>13. AnchoredLast'
  <2>1. SUFFICES ASSUME NEW e \in Steady, fetched[e] # Undefined, fetched[e] = last_end
                 PROVE  \E x \in Since..last_end : Spoken(e, x)'
    BY <1>2, <1>3 DEF AnchoredLast
  <2>2. PICK x \in Since..last_end : Spoken(e, x)
    BY <2>1 DEF ResampleInv, AnchoredLast
  <2>3. e \in Entities /\ x \in 0..last_end
    BY <1>1, <1>6
  <2> QED
    BY <1>5, <2>2, <2>3
<1> QED
  BY <1>7, <1>8, <1>9, <1>10, <1>11, <1>12, <1>13

\* Time passes.
LEMMA ProceedsKeeps ==
    ASSUME ResampleInv, Proceeds
    PROVE  ResampleInv'
<1>1. /\ Present < Span /\ (Present - last_end < Pause \/ last_end = Undefined)
      /\ UNCHANGED <<config, resampler>>
  BY DEF Proceeds
<1>2. PICK m \in Moment : past' = Append(past, m)
  <2>1. PICK p \in Plants, out \in {{}, {Frail} \cap Mapped} : past' = Append(past, [plant |-> p, out |-> out])
    BY DEF Proceeds
  <2>2. Mapped \subseteq Entities
    BY ResampleConfigsAssumption DEF ResampleInv, ResampleTyped, Mapped
  <2>3. [plant |-> p, out |-> out] \in Moment
    BY <2>2 DEF Moment
  <2> QED
    BY <2>1, <2>3
<1>3. /\ Present \in Nat /\ Len(past) = Present + 1 /\ past \in Seq(Moment) /\ last_end \in Int
      /\ last_end <= Present /\ last_end >= Undefined
  BY Typing DEF ResampleInv, ResampleTyped
<1>4. /\ past' \in Seq(Moment) /\ Len(past') = Present + 2 /\ Present' = Present + 1
  BY <1>2, <1>3 DEF Present
<1>5. UNCHANGED <<config, buffers, last_end, fetched, lapsed, booted>> /\ Mapped' = Mapped
  BY <1>1 DEF resampler, Mapped
<1>6. ResampleTyped'
  <2>1. last_end' \in Undefined..Present' /\ Len(past') \in 1..Span + 1
    BY <1>1, <1>3, <1>4, <1>5 DEF Undefined
  <2> QED
    BY <1>4, <1>5, <2>1 DEF ResampleInv, ResampleTyped
<1>7. Begun'
  <2>1. last_end # Undefined => Present + 1 - last_end <= Pause
    BY <1>1, <1>3
  <2> QED
    <3>1. last_end' = last_end /\ buffers' = buffers /\ fetched' = fetched /\ booted' = booted
      BY <1>5
    <3>2. last_end' # Undefined => booted' # Undefined
      BY <3>1 DEF ResampleInv, Begun
    <3>3. last_end' # Undefined => Present' - last_end' <= Pause
      BY <1>3, <1>4, <2>1, <3>1
    <3>4. last_end' = Undefined => \A e \in Entities : buffers'[e] = {}
      BY <3>1 DEF ResampleInv, Begun
    <3>5. \A e \in Entities : fetched'[e] = Undefined \/ fetched'[e] >= booted'
      BY <3>1 DEF ResampleInv, Begun
    <3> QED
      BY <3>2, <3>3, <3>4, <3>5 DEF Begun
<1> QED
  BY <1>1, <1>2, <1>6, <1>7, StaysSame DEF ResampleInv

\* With nothing fetched there is nothing to be wrong.
LEMMA EmptyIsTrue == ResampleTyped /\ Begun /\ last_end = Undefined /\ lapsed = {} => ResampleInv
<1> SUFFICES ASSUME ResampleTyped, Begun, last_end = Undefined, lapsed = {}
             PROVE  ResampleInv
  OBVIOUS
<1>1. /\ \A e \in Entities : buffers[e] = {} /\ fetched[e] = Undefined
      /\ booted = Undefined /\ Since \in Nat /\ Since >= 0
  <2>1. \A e \in Entities : fetched[e] \in Int /\ fetched[e] >= Undefined /\ fetched[e] <= last_end
    BY Typing
  <2>2. booted \in Int /\ booted <= last_end /\ booted >= Undefined /\ Since \in Nat
    BY Typing
  <2> QED
    BY <2>1, <2>2 DEF Begun, Undefined
<1>2. Steady \subseteq Entities
  BY ResampleConfigsAssumption DEF ResampleTyped, Steady, Mapped
<1>3. RowsTrue
  BY <1>1 DEF RowsTrue
<1>4. KeepsUp
  BY <1>1, <1>2 DEF KeepsUp, Undefined
<1>5. Complete /\ Anchored
  <2>1. \A e \in Steady : Since..fetched[e] = {} /\ Since..fetched[e] - Overlap - Pause = {}
    BY <1>1, <1>2 DEF Undefined
  <2> QED
    BY <2>1 DEF Complete, Anchored
<1>6. AnchoredSinceBoot /\ AnchoredAtStart /\ AnchoredLast
  BY <1>1, <1>2 DEF AnchoredSinceBoot, AnchoredAtStart, AnchoredLast, Undefined
<1> QED
  BY <1>3, <1>4, <1>5, <1>6 DEF ResampleInv

\* A restart begins anew.
LEMMA RebootsKeeps ==
    ASSUME ResampleInv, Reboots
    PROVE  ResampleInv'
<1>1. /\ buffers' = [e \in Entities |-> {}] /\ last_end' = Undefined
      /\ fetched' = [e \in Entities |-> Undefined] /\ lapsed' = {} /\ booted' = Undefined
      /\ UNCHANGED <<config, past>>
  BY DEF Reboots
<1>2. ResampleTyped'
  <2>1. Present' = Present /\ Present \in Nat /\ Undefined \in Undefined..Undefined
        /\ Undefined \in Undefined..Present
    BY <1>1, Typing DEF Present, ResampleInv, Undefined
  <2> QED
    BY <1>1, <2>1 DEF ResampleInv, ResampleTyped
<1>3. Begun'
  BY <1>1 DEF Begun
<1>4. (ResampleTyped /\ Begun /\ last_end = Undefined /\ lapsed = {} => ResampleInv)'
  BY EmptyIsTrue, PTL
<1> QED
  BY <1>1, <1>2, <1>3, <1>4

\* As the program does at first.
LEMMA ResampleInitHolds ==
    ASSUME ResampleInit
    PROVE  ResampleInv
<1>1. PICK p \in Plants : past = [t \in 1..Kept |-> [plant |-> p, out |-> {}]]
  BY DEF ResampleInit
<1>2. /\ past \in Seq(Moment) /\ Len(past) = Kept /\ Kept \in 1..Span + 1
  <2>1. [plant |-> p, out |-> {}] \in Moment
    BY DEF Moment
  <2> QED
    BY <1>1, <2>1
<1>3. ResampleTyped
  <2>1. Present \in Nat
    BY <1>2 DEF Present
  <2>2. Undefined \in Undefined..Undefined /\ Undefined \in Undefined..Present
    BY <2>1 DEF Undefined
  <2> QED
    BY <1>2, <2>2 DEF ResampleInit, ResampleTyped
<1>4. Begun
  BY DEF ResampleInit, Begun
<1> QED
  BY <1>3, <1>4, EmptyIsTrue DEF ResampleInit

\* The buffers tell, of every sensor that is fetched often enough, what it said and
\* every change of it, and always from some point on (RecorderResampler.update).
THEOREM ResampleInvariant == ResampleSpec => []ResampleInv
<1>1. ResampleInv /\ [ResampleNext]_recording => ResampleInv'
  <2>1. SUFFICES ASSUME ResampleInv, [ResampleNext]_recording
                 PROVE  ResampleInv'
    OBVIOUS
  <2>2. CASE \E failing \in Failures : Updates(failing)
    BY <2>1, <2>2, UpdatesTyped, UpdatesComplete, UpdatesAnchored DEF ResampleInv
  <2>3. CASE Proceeds
    BY <2>1, <2>3, ProceedsKeeps
  <2>4. CASE Reboots
    BY <2>1, <2>4, RebootsKeeps
  <2>5. CASE UNCHANGED recording
    <3>1. UNCHANGED <<config, resampler, past>> /\ Present' = Present
      BY <2>5 DEF recording, Present
    <3>2. ResampleTyped' /\ Begun'
      BY <2>1, <3>1 DEF ResampleInv, ResampleTyped, Begun, resampler, Mapped
    <3> QED
      BY <2>1, <3>1, <3>2, StaysSame DEF ResampleInv
  <2> QED
    BY <2>1, <2>2, <2>3, <2>4, <2>5 DEF ResampleNext
<1> QED
  BY <1>1, ResampleInitHolds, PTL DEF ResampleSpec


-----------------------------------------------------------------------------
(* The streams *)

\* Of the numbers up to a bound that are in a set there is a last one.
LEMMA LastOf ==
    ASSUME NEW n \in Nat, NEW S \in SUBSET Nat, S # {}, \A s \in S : s <= n
    PROVE  \E m \in S : \A s \in S : s <= m
<1> DEFINE T == {n - s : s \in S}
<1>1. T \in SUBSET Nat /\ T # {}
  <2>1. \A s \in S : n - s \in Nat
    OBVIOUS
  <2>2. PICK s \in S : TRUE
    OBVIOUS
  <2>3. n - s \in T
    BY <2>2
  <2> QED
    BY <2>1, <2>3
<1>2. PICK k \in T : \A j \in T : k <= j
  <2> HIDE DEF T
  <2> QED
    BY <1>1, LeastNat
<1>3. PICK m \in S : k = n - m
  OBVIOUS
<1>4. \A s \in S : n - m <= n - s
  BY <1>2, <1>3
<1>5. \A s \in S : s \in Nat /\ m \in Nat
  OBVIOUS
<1> QED
  BY <1>4, <1>5

\* A sample holds, of each sensor that is tracked, what it last said.
LEMMA HeldIs ==
    ASSUME ResampleInv, NEW e \in Entities, NEW t \in Nat, e \notin lapsed, t <= fetched[e],
           Held(buffers[e], t) # {}
    PROVE  \E a \in 0..Present : \E v \in Int :
             /\ e \in Mapped
             /\ StateAt(e, a) = {v} /\ Held(buffers[e], t) = {v} /\ LastSaid(e, t) = {v}
             /\ StateAt(e, t) # {} => StateAt(e, t) = {v}
<1>1. PICK r \in buffers[e] : r.at <= t /\ \A y \in buffers[e] : y.at <= t => y.at <= r.at
  BY DEF Held
<1>2. e \in Mapped /\ r.at \in Since..last_end /\ r.raw \in StateAt(e, r.at)
  BY <1>1 DEF ResampleInv, RowsTrue
<1>3. /\ Present \in Nat /\ Since \in Nat /\ last_end \in Int /\ last_end <= Present
      /\ fetched[e] \in Int /\ fetched[e] <= last_end /\ ResampleTyped
      /\ e \in Steady /\ buffers[e] \in SUBSET Row
  BY <1>2, Typing DEF ResampleInv, ResampleTyped, Steady
<1> PICK a \in Nat : a = r.at
  BY <1>2, <1>3
<1>4. a \in Since..t /\ a \in 0..Present /\ t \in 0..Present
  BY <1>1, <1>2, <1>3
<1>5. PICK v \in Int : StateAt(e, a) = {v} /\ r.raw = v
  BY <1>2, <1>3, <1>4, StateIs
\* Between the row and the instant the sensor says that or nothing.
<1>6. ASSUME NEW z \in a..t, StateAt(e, z) # {}
      PROVE  StateAt(e, z) = {v}
  <2> DEFINE T == {y \in a..t : StateAt(e, y) # {} /\ StateAt(e, y) # {v}}
  <2>1. SUFFICES ASSUME T # {}
                 PROVE  FALSE
    BY <1>6
  <2>2. T \in SUBSET Nat
    BY <1>4
  <2>3. PICK y \in T : \A x \in T : y <= x
    <3> HIDE DEF T
    <3> QED
      BY <2>1, <2>2, LeastNat
  <2>4. y \in a..t /\ y \in Nat /\ StateAt(e, y) # {} /\ StateAt(e, y) # {v}
    BY <2>2, <2>3
  <2>5. y # a
    BY <1>5, <2>4
  <2>6. y - 1 \in a..t /\ y - 1 \notin T
    BY <1>4, <2>2, <2>3, <2>4, <2>5
  <2>7. ChangedAt(e, y)
    BY <2>4, <2>6 DEF ChangedAt
  <2>8. Spoken(e, y)
    <3>1. y \in Since..fetched[e]
      BY <1>3, <1>4, <2>4
    <3> QED
      BY <1>3, <2>7, <3>1 DEF ResampleInv, Complete
  <2>9. PICK s \in buffers[e] : s.at = y
    BY <2>4, <2>8 DEF Spoken, RowAt
  <2> QED
    BY <1>1, <1>4, <2>4, <2>5, <2>9
<1>7. Held(buffers[e], t) = {v}
  <2>1. ASSUME NEW s \in buffers[e], s.at <= t, \A y \in buffers[e] : y.at <= t => y.at <= s.at
        PROVE  s.raw = v
    <3>1. s.at \in Nat /\ r.at \in Nat
      BY <1>3 DEF Row
    <3>2. s.at = a
      BY <1>1, <2>1, <3>1
    <3>3. s.raw \in StateAt(e, a)
      BY <3>2 DEF ResampleInv, RowsTrue
    <3> QED
      BY <1>5, <3>3
  <2>2. v \in Held(buffers[e], t)
    BY <1>1, <1>5 DEF Held
  <2>3. ASSUME NEW w \in Held(buffers[e], t)
        PROVE  w = v
    BY <2>1 DEF Held
  <2> QED
    BY <2>2, <2>3
<1>8. LastSaid(e, t) = {v}
  <2> DEFINE T == {y \in a..t : StateAt(e, y) # {}}
  <2>1. T \in SUBSET Nat /\ T # {} /\ \A y \in T : y <= t
    <3>1. a \in a..t /\ StateAt(e, a) # {}
      BY <1>3, <1>4, <1>5
    <3> QED
      BY <1>4, <3>1
  <2>2. PICK y \in T : \A x \in T : x <= y
    <3> HIDE DEF T
    <3> QED
      BY <2>1, LastOf
  <2>3. y \in a..t /\ y \in 0..t /\ StateAt(e, y) = {v}
    BY <1>4, <1>6, <2>2
  <2>4. \A z \in y + 1..t : StateAt(e, z) = {}
    <3>1. SUFFICES ASSUME NEW z \in y + 1..t, StateAt(e, z) # {}
                   PROVE  FALSE
      OBVIOUS
    <3>2. z \in a..t
      BY <1>4, <2>3, <3>1
    <3>3. z \in T /\ z > y
      BY <2>3, <3>1, <3>2
    <3> QED
      BY <1>4, <2>2, <2>3, <3>3
  <2>5. v \in LastSaid(e, t)
    BY <2>3, <2>4 DEF LastSaid
  <2>6. ASSUME NEW w \in LastSaid(e, t)
        PROVE  w = v
    <3>1. PICK x \in 0..t : StateAt(e, x) # {} /\ w \in StateAt(e, x) /\ \A z \in x + 1..t : StateAt(e, z) = {}
      BY <2>6 DEF LastSaid
    <3>2. x >= a
      <4>1. SUFFICES ASSUME x < a
                     PROVE  FALSE
        BY <1>4, <3>1
      <4>2. a \in x + 1..t
        BY <1>4, <3>1, <4>1
      <4> QED
        BY <1>5, <3>1, <4>2
    <3>3. x \in a..t
      BY <1>4, <3>1, <3>2
    <3> QED
      BY <1>6, <3>1, <3>3
  <2> QED
    BY <2>5, <2>6
<1>9. StateAt(e, t) # {} => StateAt(e, t) = {v}
  BY <1>4, <1>6
<1> QED
  BY <1>2, <1>4, <1>5, <1>7, <1>8, <1>9

\* And there is something to hold, from any point on at which the buffer is whole.
LEMMA HeldSome ==
    ASSUME ResampleInv, NEW e \in Steady, NEW t \in Nat, t <= fetched[e],
           NEW x \in Since..t, Spoken(e, x), StateAt(e, t) # {}
    PROVE  Held(buffers[e], t) # {}
<1>1. /\ Since \in Nat /\ fetched[e] \in Int /\ e \in Entities /\ buffers[e] \in SUBSET Row
  BY ResampleConfigsAssumption, Typing DEF ResampleInv, ResampleTyped, Steady, Mapped
<1>2. \E y \in x..t : RowAt(e, y)
  <2> DEFINE T == {y \in x..t : StateAt(e, y) # {}}
  <2>1. T \in SUBSET Nat /\ T # {}
    BY <1>1
  <2>2. PICK y \in T : \A z \in T : y <= z
    <3> HIDE DEF T
    <3> QED
      BY <2>1, LeastNat
  <2>3. y \in x..t /\ y \in Nat /\ StateAt(e, y) # {}
    BY <2>1, <2>2
  <2>4. CASE y = x
    BY <2>3, <2>4 DEF Spoken
  <2>5. CASE y # x
    <3>1. y - 1 \in x..t /\ y - 1 \notin T
      BY <1>1, <2>1, <2>2, <2>3, <2>5
    <3>2. ChangedAt(e, y)
      BY <2>3, <3>1 DEF ChangedAt
    <3>3. y \in Since..fetched[e]
      BY <1>1, <2>3
    <3>4. Spoken(e, y)
      BY <3>2, <3>3 DEF ResampleInv, Complete
    <3> QED
      BY <2>3, <3>4 DEF Spoken
  <2> QED
    BY <2>4, <2>5
<1> DEFINE times == {r.at : r \in {s \in buffers[e] : s.at <= t}}
<1>3. times \in SUBSET Nat /\ times # {} /\ \A s \in times : s <= t
  <2>1. \A r \in buffers[e] : r.at \in Nat
    BY <1>1 DEF Row
  <2>2. \E r \in buffers[e] : r.at <= t
    BY <1>1, <1>2 DEF RowAt
  <2> QED
    BY <2>1, <2>2
<1>4. PICK m \in times : \A s \in times : s <= m
  <2> HIDE DEF times
  <2> QED
    BY <1>3, LastOf
<1>5. PICK r \in buffers[e] : r.at = m /\ r.at <= t
  OBVIOUS
<1>6. \A y \in buffers[e] : y.at <= t => y.at <= r.at
  BY <1>4, <1>5
<1> QED
  BY <1>5, <1>6 DEF Held

\* One value of each reading makes a sample.
Samples(sols, acs, backups, bats, grids) ==
    {[solar |-> sol, ac |-> ac, backup |-> b, battery |-> bat, grid |-> g] :
        sol \in sols, ac \in acs, b \in backups, bat \in bats, g \in grids}

\* What the platform's readings of an entity mean.
Told(signal, role, states) == {Canonical(config.platform, signal, role, v) : v \in states}

HeldOf(e, t) == Held(buffers[e], t)

\* The samples, by what the buffers hold.
LEMMA SampleIs ==
    ASSUME NEW t
    PROVE  SampleAt(t) =
             IF HeldOf("battery_soc", t) = {} THEN {}
             ELSE Samples(Told("pv", "primary", HeldOf("pv_power", t)),
                          Told("ac_port", "primary", HeldOf("ac_port_power", t)),
                          Told("backup", "primary", HeldOf("backup_power", t)),
                          Told("battery", BatteryRole, HeldOf(BatteryEntity, t)),
                          Told("grid", GridRole, HeldOf(GridEntity, t)))
<1>1. /\ {"pv_power", "ac_port_power", "backup_power", BatteryEntity, GridEntity, "battery_soc"} = Contributing
  BY DEF Contributing
<1> DEFINE held == [e \in Contributing |-> Held(buffers[e], t)]
<1>2. /\ held["battery_soc"] = HeldOf("battery_soc", t) /\ held["pv_power"] = HeldOf("pv_power", t)
      /\ held["ac_port_power"] = HeldOf("ac_port_power", t)
      /\ held["backup_power"] = HeldOf("backup_power", t)
      /\ held[BatteryEntity] = HeldOf(BatteryEntity, t) /\ held[GridEntity] = HeldOf(GridEntity, t)
  BY <1>1 DEF HeldOf
<1>3. SampleAt(t) =
        IF held["battery_soc"] = {} THEN {}
        ELSE Samples(Told("pv", "primary", held["pv_power"]),
                     Told("ac_port", "primary", held["ac_port_power"]),
                     Told("backup", "primary", held["backup_power"]),
                     Told("battery", BatteryRole, held[BatteryEntity]),
                     Told("grid", GridRole, held[GridEntity]))
  <2>1. CASE held["battery_soc"] = {}
    BY <2>1 DEF SampleAt
  <2>2. CASE held["battery_soc"] # {}
    BY <2>2 DEF SampleAt, Samples, Told
  <2> QED
    BY <2>1, <2>2
<1> HIDE DEF held
<1> QED
  BY <1>2, <1>3

\* A sample is made of what it holds.
LEMMA SampleOf ==
    ASSUME NEW t, NEW s \in SampleAt(t)
    PROVE  /\ s.solar \in Told("pv", "primary", HeldOf("pv_power", t))
           /\ s.battery \in Told("battery", BatteryRole, HeldOf(BatteryEntity, t))
           /\ s.grid \in Told("grid", GridRole, HeldOf(GridEntity, t))
<1> DEFINE sols == Told("pv", "primary", HeldOf("pv_power", t))
           acs == Told("ac_port", "primary", HeldOf("ac_port_power", t))
           backups == Told("backup", "primary", HeldOf("backup_power", t))
           bats == Told("battery", BatteryRole, HeldOf(BatteryEntity, t))
           grids == Told("grid", GridRole, HeldOf(GridEntity, t))
<1>1. SampleAt(t) \in {{}, Samples(sols, acs, backups, bats, grids)}
  BY SampleIs
<1> HIDE DEF sols, acs, backups, bats, grids
<1>2. s \in Samples(sols, acs, backups, bats, grids)
  BY <1>1
<1>3. PICK sol \in sols, ac \in acs, b \in backups, bat \in bats, g \in grids :
        s = [solar |-> sol, ac |-> ac, backup |-> b, battery |-> bat, grid |-> g]
  BY <1>2 DEF Samples
<1> QED
  BY <1>3 DEF sols, bats, grids


\* So a sample of tracked sensors holds what they last said.
LEMMA TrackedHeld ==
    ASSUME ResampleInv, NEW t \in Timeline, Tracked(t), NEW e \in Contributing, HeldOf(e, t) # {}
    PROVE  \E a \in 0..Present : \E v \in Int :
             /\ e \in Mapped
             /\ StateAt(e, a) = {v} /\ HeldOf(e, t) = {v} /\ LastSaid(e, t) = {v}
<1>1. e \in Entities /\ e \notin lapsed /\ fetched[e] >= t
  BY DEF Tracked, Contributing, Entities, BatteryEntity, GridEntity
<1>2. t \in Nat
  <2>1. PICK d \in Contributing : \E r \in buffers[d] : r.at = t
    BY DEF Timeline
  <2>2. d \in Entities
    BY DEF Contributing, Entities, BatteryEntity, GridEntity
  <2>3. t \in Since..last_end /\ Since \in Nat
    BY <2>1, <2>2, Typing DEF ResampleInv, RowsTrue
  <2> QED
    BY <2>3
<1>3. t <= fetched[e]
  BY <1>1, <1>2, Typing DEF ResampleInv
<1>4. Held(buffers[e], t) # {}
  BY DEF HeldOf
<1>5. \E a \in 0..Present : \E v \in Int :
        /\ e \in Mapped
        /\ StateAt(e, a) = {v} /\ Held(buffers[e], t) = {v} /\ LastSaid(e, t) = {v}
  <2> PICK instant \in Nat : instant = t
    BY <1>2
  <2> PICK d \in Entities : d = e
    BY <1>1
  <2>1. d \notin lapsed /\ instant <= fetched[d] /\ Held(buffers[d], instant) # {}
    BY <1>1, <1>3, <1>4
  <2>2. \E a \in 0..Present : \E v \in Int :
          /\ d \in Mapped
          /\ StateAt(d, a) = {v} /\ Held(buffers[d], instant) = {v} /\ LastSaid(d, instant) = {v}
          /\ StateAt(d, instant) # {} => StateAt(d, instant) = {v}
    <3> HIDE DEF ResampleInv
    <3> QED
      BY <2>1, HeldIs
  <2> QED
    BY <2>2
<1> QED
  BY <1>5 DEF HeldOf

LEMMA SamplesTrue == ResampleInv => StreamsTrue
<1> SUFFICES ASSUME ResampleInv, last_end # Undefined, NEW t \in Timeline, Tracked(t), NEW s \in SampleAt(t)
             PROVE  /\ {s.battery} = {Canonical(config.platform, "battery", BatteryRole, v) :
                                        v \in LastSaid(BatteryEntity, t)}
                    /\ {s.grid} = {Canonical(config.platform, "grid", GridRole, v) :
                                        v \in LastSaid(GridEntity, t)}
                    /\ {s.solar} = LastSaid("pv_power", t)
  BY DEF StreamsTrue
<1>1. /\ s.solar \in Told("pv", "primary", HeldOf("pv_power", t))
      /\ s.battery \in Told("battery", BatteryRole, HeldOf(BatteryEntity, t))
      /\ s.grid \in Told("grid", GridRole, HeldOf(GridEntity, t))
  BY SampleOf
<1>2. HeldOf("pv_power", t) # {} /\ HeldOf(BatteryEntity, t) # {} /\ HeldOf(GridEntity, t) # {}
  BY <1>1 DEF Told
<1>3. {"pv_power", BatteryEntity, GridEntity} \subseteq Contributing
  BY DEF Contributing
<1>4. PICK v \in Int : HeldOf(BatteryEntity, t) = {v} /\ LastSaid(BatteryEntity, t) = {v}
  BY <1>2, <1>3, TrackedHeld
<1>5. PICK w \in Int : HeldOf(GridEntity, t) = {w} /\ LastSaid(GridEntity, t) = {w}
  BY <1>2, <1>3, TrackedHeld
<1>6. PICK a \in 0..Present, u \in Int : /\ StateAt("pv_power", a) = {u} /\ HeldOf("pv_power", t) = {u}
                                       /\ LastSaid("pv_power", t) = {u}
  BY <1>2, <1>3, TrackedHeld
<1>7. {s.battery} = {Canonical(config.platform, "battery", BatteryRole, x) : x \in LastSaid(BatteryEntity, t)}
  BY <1>1, <1>4 DEF Told
<1>8. {s.grid} = {Canonical(config.platform, "grid", GridRole, x) : x \in LastSaid(GridEntity, t)}
  BY <1>1, <1>5 DEF Told
<1>9. s.solar = u
  <2>1. s.solar = Canonical(config.platform, "pv", "primary", u)
    BY <1>1, <1>6 DEF Told
  <2>2. u \in Nat
    <3>1. "pv_power" \in Entities
      BY DEF Entities
    <3>2. u = Published(config.platform, past[a + 1].plant)["pv_power"]
      BY <1>6, <3>1, StateIs DEF ResampleInv
    <3>3. past[a + 1].plant \in Plant
      <4>1. a + 1 \in 1..Len(past) /\ past \in Seq(Moment)
        BY Typing DEF ResampleInv, ResampleTyped
      <4>2. past[a + 1] \in Moment
        BY <4>1
      <4> QED
        BY <4>2, ResamplePlantsAssumption DEF Moment
    <3> QED
      BY <3>2, <3>3 DEF Published, Plant
  <2> QED
    BY <2>1, <2>2 DEF Canonical, Positive
<1> QED
  BY <1>6, <1>7, <1>8, <1>9

\* In a stretch that is long enough past the window, every sensor has been heard.
LEMMA Heard ==
    ASSUME ResampleInv, last_end # Undefined, NEW t \in Since + Overlap + Pause..last_end,
           Window(booted) = Since \/ t >= booted, NEW e \in Steady, fetched[e] = last_end
    PROVE  \E x \in Since..t : Spoken(e, x)
<1>1. /\ Since \in Nat /\ last_end \in Nat /\ booted \in Int /\ booted <= last_end /\ booted >= Undefined
      /\ Overlap \in Nat /\ Pause \in Nat /\ Pause >= 1
  BY Typing DEF ResampleInv
<1>2. CASE Window(booted) = Since
  <2>1. Spoken(e, Since)
    BY <1>2 DEF ResampleInv, AnchoredAtStart
  <2> QED
    BY <1>1, <2>1
<1>3. CASE Window(booted) # Since
  <2> DEFINE w == t - Overlap - Pause
  <2>1. w \in Since..fetched[e] - Overlap - Pause /\ w + Overlap + Pause = t /\ t >= booted
    BY <1>1, <1>3
  <2>2. CASE w >= booted - Overlap
    <3>1. PICK x \in w..t : Spoken(e, x)
      BY <2>1, <2>2 DEF ResampleInv, Anchored
    <3> QED
      BY <1>1, <2>1, <3>1
  <2>3. CASE w < booted - Overlap
    <3>1. booted - Overlap >= Since
      BY <1>1, <2>1, <2>3
    <3>2. booted # last_end
      BY <1>3 DEF Since
    <3>3. fetched[e] > booted
      BY <1>1, <3>2
    <3>4. PICK x \in booted - Overlap..booted : Spoken(e, x)
      BY <3>1, <3>3 DEF ResampleInv, AnchoredSinceBoot
    <3> QED
      BY <1>1, <2>1, <3>1, <3>4
  <2> QED
    BY <1>1, <2>1, <2>2, <2>3
<1> QED
  BY <1>2, <1>3

LEMMA SamplesWhole == ResampleInv => StreamsWhole
<1> SUFFICES ASSUME ResampleInv, last_end # Undefined, NEW t \in Since + Overlap + Pause..last_end,
                    Window(booted) = Since \/ t >= booted, Tracked(last_end),
                    \A e \in Contributing : StateAt(e, t) # {},
                    NEW d \in Contributing, ChangedAt(d, t)
             PROVE  t \in Timeline /\ SampleAt(t) # {}
  BY DEF StreamsWhole, Since
<1>1. /\ Since \in Nat /\ last_end \in Nat /\ Present \in Nat /\ last_end <= Present
      /\ \A e \in Entities : fetched[e] \in Int /\ fetched[e] <= last_end
  BY Typing DEF ResampleInv
<1>2. Contributing \subseteq Entities
  BY DEF Contributing, Entities, BatteryEntity, GridEntity
<1>3. t \in Nat /\ t \in Since..last_end
  BY <1>1
<1>4. \A e \in Contributing : e \in Steady /\ fetched[e] = last_end
  <2> TAKE e \in Contributing
  <2>1. e \in Mapped
    BY DEF StateAt
  <2>2. e \notin lapsed /\ fetched[e] >= last_end
    BY DEF Tracked
  <2> QED
    BY <1>1, <1>2, <2>1, <2>2 DEF Steady
<1>5. t \in Timeline
  <2>1. Spoken(d, t)
    BY <1>3, <1>4 DEF ResampleInv, Complete
  <2>2. RowAt(d, t)
    BY <2>1 DEF Spoken
  <2> QED
    BY <2>2 DEF Timeline, RowAt
<1>6. \A e \in Contributing : HeldOf(e, t) # {}
  <2> TAKE e \in Contributing
  <2>1. PICK x \in Since..t : Spoken(e, x)
    BY <1>4, Heard
  <2>2. t <= fetched[e]
    BY <1>3, <1>4
  <2> QED
    BY <1>3, <1>4, <2>1, <2>2, HeldSome DEF HeldOf
<1>7. SampleAt(t) # {}
  <2>1. {"pv_power", "ac_port_power", "backup_power", BatteryEntity, GridEntity, "battery_soc"} = Contributing
    BY DEF Contributing
  <2>2. ASSUME NEW e \in Contributing, NEW signal, NEW role
        PROVE  Told(signal, role, HeldOf(e, t)) # {}
    BY <1>6 DEF Told
  <2> DEFINE sols == Told("pv", "primary", HeldOf("pv_power", t))
             acs == Told("ac_port", "primary", HeldOf("ac_port_power", t))
             backups == Told("backup", "primary", HeldOf("backup_power", t))
             bats == Told("battery", BatteryRole, HeldOf(BatteryEntity, t))
             grids == Told("grid", GridRole, HeldOf(GridEntity, t))
  <2>3. /\ SampleAt(t) = Samples(sols, acs, backups, bats, grids)
        /\ sols # {} /\ acs # {} /\ backups # {} /\ bats # {} /\ grids # {}
    BY <1>6, <2>1, <2>2, SampleIs
  <2> HIDE DEF sols, acs, backups, bats, grids
  <2>4. PICK sol \in sols, ac \in acs, b \in backups, bat \in bats, g \in grids : TRUE
    BY <2>3
  <2>5. [solar |-> sol, ac |-> ac, backup |-> b, battery |-> bat, grid |-> g]
          \in Samples(sols, acs, backups, bats, grids)
    BY DEF Samples
  <2> QED
    BY <2>3, <2>5
<1> QED
  BY <1>5, <1>7

LEMMA ResampleTypes == ResampleInv => ResampleTypeOK
<1> SUFFICES ASSUME ResampleInv
             PROVE  ResampleTypeOK
  OBVIOUS
<1>1. /\ Present \in Nat /\ Present <= Span /\ last_end \in Int
      /\ last_end <= Present /\ last_end >= Undefined
      /\ booted \in Int /\ booted <= last_end /\ booted >= Undefined
      /\ \A e \in Entities : fetched[e] \in Int /\ fetched[e] >= Undefined /\ fetched[e] <= last_end
  BY Typing DEF ResampleInv
<1>2. Mapped \subseteq Entities
  BY ResampleConfigsAssumption DEF ResampleInv, ResampleTyped, Mapped
<1>3. \A e \in Mapped : \A r \in buffers[e] : r \in Row /\ r.at \in Window(last_end)..last_end
  BY <1>2 DEF ResampleInv, ResampleTyped, RowsTrue, Since
<1>4. \A e \in Mapped : fetched[e] \in Undefined..Present
  BY <1>1, <1>2 DEF Undefined
<1>5. Present \in 0..Span /\ last_end \in Undefined..Present
  BY <1>1 DEF Undefined
<1> QED
  BY <1>3, <1>4, <1>5 DEF ResampleTypeOK, ResampleInv, ResampleTyped

\* Neither a failed fetch nor a restart makes the streams tell what no sensor said
\* (RecorderResampler.update, build_derived_samples).
THEOREM FaithfulStreams == ResampleSpec => []StreamsFaithful
<1>1. ResampleInv => StreamsFaithful
  BY ResampleTypes, SamplesTrue, SamplesWhole DEF StreamsFaithful
<1> QED
  BY <1>1, ResampleInvariant, PTL


-----------------------------------------------------------------------------
(* The live path *)

\* Of the numbers in a set the first one is the least.
LEMMA FirstIs ==
    ASSUME NEW S \in SUBSET Int, NEW m \in S, \A j \in S : m <= j
    PROVE  (CHOOSE i \in S : \A j \in S : i <= j) = m
<1>1. \A i \in S : (\A j \in S : i <= j) => i = m
  OBVIOUS
<1> QED
  BY <1>1

\* Where one entity stands for a signal, it is what is read.
LEMMA ReadOne ==
    ASSUME NEW platform, NEW signal, NEW mapped, NEW states, NEW entity, NEW role,
           Candidates(signal, mapped) = <<Bound(entity, role)>>
    PROVE  /\ entity \in mapped => Read(platform, signal, mapped, states) =
                 {Canonical(platform, signal, role, raw) : raw \in states[entity]}
           /\ entity \notin mapped => Read(platform, signal, mapped, states) = {}
<1> DEFINE bindings == Candidates(signal, mapped)
           readable == {i \in Chain(signal, mapped) : states[bindings[i].entity] # {}}
<1>1. Len(bindings) = 1 /\ bindings[1].entity = entity /\ bindings[1].role = role
  BY DEF Bound
<1>2. readable = IF entity \in mapped /\ states[entity] # {} THEN {1} ELSE {}
  BY <1>1 DEF Chain
<1>3. Read(platform, signal, mapped, states) =
        IF readable = {} THEN {}
        ELSE {Canonical(platform, signal, bindings[CHOOSE i \in readable : \A j \in readable : i <= j].role, raw) :
                raw \in states[bindings[CHOOSE i \in readable : \A j \in readable : i <= j].entity]}
  BY DEF Read
<1> HIDE DEF bindings, readable
<1>4. CASE readable = {1}
  <2>1. (CHOOSE i \in readable : \A j \in readable : i <= j) = 1
    BY <1>4, FirstIs
  <2> QED
    BY <1>1, <1>2, <1>3, <1>4, <2>1
<1>5. CASE readable = {}
  BY <1>2, <1>3, <1>5
<1> QED
  BY <1>2, <1>4, <1>5

\* Where two do, the first one as long as it can be read.
LEMMA ReadTwo ==
    ASSUME NEW platform, NEW signal, NEW mapped, NEW states, NEW first, NEW second,
           NEW role, NEW other,
           Candidates(signal, mapped) = <<Bound(first, role), Bound(second, other)>>
    PROVE  /\ first \in mapped /\ states[first] # {} => Read(platform, signal, mapped, states) =
                 {Canonical(platform, signal, role, raw) : raw \in states[first]}
           /\ first \notin mapped /\ second \in mapped => Read(platform, signal, mapped, states) =
                 {Canonical(platform, signal, other, raw) : raw \in states[second]}
<1> DEFINE bindings == Candidates(signal, mapped)
           readable == {i \in Chain(signal, mapped) : states[bindings[i].entity] # {}}
<1>1. /\ Len(bindings) = 2 /\ bindings[1].entity = first /\ bindings[1].role = role
      /\ bindings[2].entity = second /\ bindings[2].role = other
  BY DEF Bound
<1>2. /\ readable \in SUBSET {1, 2}
      /\ 1 \in readable <=> first \in mapped /\ states[first] # {}
      /\ 2 \in readable <=> second \in mapped /\ states[second] # {}
  BY <1>1 DEF Chain
<1>3. Read(platform, signal, mapped, states) =
        IF readable = {} THEN {}
        ELSE {Canonical(platform, signal, bindings[CHOOSE i \in readable : \A j \in readable : i <= j].role, raw) :
                raw \in states[bindings[CHOOSE i \in readable : \A j \in readable : i <= j].entity]}
  BY DEF Read
<1> HIDE DEF bindings, readable
<1>4. ASSUME first \in mapped, states[first] # {}
      PROVE  Read(platform, signal, mapped, states) = {Canonical(platform, signal, role, raw) : raw \in states[first]}
  <2>1. 1 \in readable /\ readable \in SUBSET Int /\ \A j \in readable : 1 <= j
    BY <1>2, <1>4
  <2>2. (CHOOSE i \in readable : \A j \in readable : i <= j) = 1
    BY <2>1, FirstIs
  <2> QED
    BY <1>1, <1>3, <2>1, <2>2
<1>5. ASSUME first \notin mapped, second \in mapped
      PROVE  Read(platform, signal, mapped, states) = {Canonical(platform, signal, other, raw) : raw \in states[second]}
  <2>1. CASE states[second] = {}
    <3>1. readable = {}
      BY <1>2, <1>5, <2>1
    <3> QED
      BY <1>3, <2>1, <3>1
  <2>2. CASE states[second] # {}
    <3>1. readable = {2}
      BY <1>2, <1>5, <2>2
    <3>2. (CHOOSE i \in readable : \A j \in readable : i <= j) = 2
      BY <3>1, FirstIs
    <3> QED
      BY <1>1, <1>3, <3>1, <3>2
  <2> QED
    BY <2>1, <2>2
<1> QED
  BY <1>4, <1>5

\* The live path reads each signal from the entity the recorder's path takes, as long as it can.
LEMMA LiveReads ==
    ASSUME NEW states
    PROVE  /\ \A e \in {"pv_power", "ac_port_power", "backup_power"} :
                 \A signal \in {"pv", "ac_port", "backup"} :
                    <<signal, e>> \in {<<"pv", "pv_power">>, <<"ac_port", "ac_port_power">>,
                                       <<"backup", "backup_power">>} =>
                       Read(config.platform, signal, Mapped, states) =
                          IF e \in Mapped THEN Told(signal, "primary", states[e]) ELSE {}
           /\ BatteryEntity \in Mapped /\ states[BatteryEntity] # {} =>
                 Read(config.platform, "battery", Mapped, states) = Told("battery", BatteryRole, states[BatteryEntity])
           /\ GridEntity \in Mapped /\ states[GridEntity] # {} =>
                 Read(config.platform, "grid", Mapped, states) = Told("grid", GridRole, states[GridEntity])
<1>1. /\ Candidates("pv", Mapped) = <<Bound("pv_power", "primary")>>
      /\ Candidates("ac_port", Mapped) = <<Bound("ac_port_power", "primary")>>
      /\ Candidates("backup", Mapped) = <<Bound("backup_power", "primary")>>
  BY DEF Candidates
<1>2. Candidates("battery", Mapped) = <<Bound("battery_power_signed", "signed_net"), Bound("battery_power", "primary")>>
  BY DEF Candidates
<1>3. Candidates("grid", Mapped) = <<Bound("grid_power", "primary"), Bound("grid_power_fallback", "fallback")>>
  BY DEF Candidates
<1>4. ASSUME NEW e, NEW signal, Candidates(signal, Mapped) = <<Bound(e, "primary")>>
      PROVE  Read(config.platform, signal, Mapped, states) =
               IF e \in Mapped THEN Told(signal, "primary", states[e]) ELSE {}
  <2>1. CASE e \in Mapped
    <3>1. Read(config.platform, signal, Mapped, states) =
            {Canonical(config.platform, signal, "primary", raw) : raw \in states[e]}
      BY <1>4, <2>1, ReadOne
    <3> QED
      BY <2>1, <3>1 DEF Told
  <2>2. CASE e \notin Mapped
    BY <1>4, <2>2, ReadOne
  <2> QED
    BY <2>1, <2>2
<1>5. ASSUME BatteryEntity \in Mapped, states[BatteryEntity] # {}
      PROVE  Read(config.platform, "battery", Mapped, states) = Told("battery", BatteryRole, states[BatteryEntity])
  <2>1. CASE "battery_power_signed" \in Mapped
    <3>1. BatteryEntity = "battery_power_signed" /\ BatteryRole = "signed_net"
      BY <2>1 DEF BatteryEntity, BatteryRole
    <3> QED
      BY <1>2, <1>5, <2>1, <3>1, ReadTwo DEF Told
  <2>2. CASE "battery_power_signed" \notin Mapped
    <3>1. BatteryEntity = "battery_power" /\ BatteryRole = "primary"
      BY <2>2 DEF BatteryEntity, BatteryRole
    <3> QED
      BY <1>2, <1>5, <2>2, <3>1, ReadTwo DEF Told
  <2> QED
    BY <2>1, <2>2
<1>6. ASSUME GridEntity \in Mapped, states[GridEntity] # {}
      PROVE  Read(config.platform, "grid", Mapped, states) = Told("grid", GridRole, states[GridEntity])
  <2>1. CASE "grid_power" \in Mapped
    <3>1. GridEntity = "grid_power" /\ GridRole = "primary"
      BY <2>1 DEF GridEntity, GridRole
    <3> QED
      BY <1>3, <1>6, <2>1, <3>1, ReadTwo DEF Told
  <2>2. CASE "grid_power" \notin Mapped
    <3>1. GridEntity = "grid_power_fallback" /\ GridRole = "fallback"
      BY <2>2 DEF GridEntity, GridRole
    <3> QED
      BY <1>3, <1>6, <2>2, <3>1, ReadTwo DEF Told
  <2> QED
    BY <2>1, <2>2
<1>7. ASSUME NEW e, NEW signal, <<signal, e>> \in {<<"pv", "pv_power">>, <<"ac_port", "ac_port_power">>,
                                                   <<"backup", "backup_power">>}
      PROVE  Read(config.platform, signal, Mapped, states) =
               IF e \in Mapped THEN Told(signal, "primary", states[e]) ELSE {}
  <2>1. CASE signal = "pv" /\ e = "pv_power"
    BY <1>1, <1>4, <2>1
  <2>2. CASE signal = "ac_port" /\ e = "ac_port_power"
    BY <1>1, <1>4, <2>2
  <2>3. CASE signal = "backup" /\ e = "backup_power"
    BY <1>1, <1>4, <2>3
  <2> QED
    BY <1>7, <2>1, <2>2, <2>3
<1> QED
  BY <1>5, <1>6, <1>7


\* A sensor that can be read reads as it stands.
LEMMA LiveStateIs ==
    ASSUME ResampleTyped, NEW e \in Entities
    PROVE  /\ LiveStates[e] \in {{}, StateAt(e, Present)}
           /\ e \notin AgeLimited => LiveStates[e] = StateAt(e, Present)
           /\ LiveStates[e] # {} => e \in Mapped
           /\ \A v \in LiveStates[e] : v = Published(config.platform, past[Present + 1].plant)[e]
<1>1. Present \in 0..Present
  BY Typing
<1>2. LiveStates[e] = IF e \in AgeLimited /\ ~Fresh(e) THEN {} ELSE StateAt(e, Present)
  BY DEF LiveStates
<1>3. /\ e \notin Mapped => StateAt(e, Present) = {}
      /\ StateAt(e, Present) # {} => StateAt(e, Present) = {Published(config.platform, past[Present + 1].plant)[e]}
  BY <1>1, StateIs
<1> QED
  BY <1>2, <1>3

\* A sensor that can be read and is tracked: the recorder holds what the live path reads.
LEMMA HeldIsLive ==
    ASSUME ResampleInv, last_end = Present, Tracked(Present),
           NEW e \in Contributing, LiveStates[e] # {}
    PROVE  e \in Mapped /\ HeldOf(e, Present) = LiveStates[e]
<1>1. /\ Present \in Nat /\ Since \in Nat /\ Present # Undefined /\ ResampleTyped
      /\ \A f \in Entities : fetched[f] \in Int /\ fetched[f] <= last_end
  BY Typing DEF ResampleInv, Undefined
<1>2. Contributing \subseteq Entities
  BY DEF Contributing, Entities, BatteryEntity, GridEntity
<1> PICK instant \in Nat : instant = Present
  BY <1>1
<1>3. e \in Entities /\ e \in Mapped /\ LiveStates[e] = StateAt(e, instant) /\ StateAt(e, instant) # {}
  BY <1>1, <1>2, LiveStateIs
<1>4. e \in Steady /\ fetched[e] = last_end /\ e \notin lapsed
  <2>1. e \notin lapsed /\ fetched[e] >= Present
    BY DEF Tracked
  <2> QED
    BY <1>1, <1>3, <2>1 DEF Steady
<1>5. PICK x \in Since..last_end : Spoken(e, x)
  BY <1>1, <1>4 DEF ResampleInv, AnchoredLast
<1>6. Held(buffers[e], instant) # {}
  BY <1>1, <1>3, <1>4, <1>5, HeldSome
<1>7. Held(buffers[e], instant) = StateAt(e, instant)
  <2>1. instant <= fetched[e]
    BY <1>1, <1>4
  <2>2. PICK a \in 0..Present, v \in Int :
          Held(buffers[e], instant) = {v} /\ (StateAt(e, instant) # {} => StateAt(e, instant) = {v})
    BY <1>3, <1>4, <1>6, <2>1, HeldIs
  <2> QED
    BY <1>3, <2>2
<1> QED
  BY <1>3, <1>7 DEF HeldOf

\* Either path takes the same reading in the same role.
LEMMA AllAgree ==
    ASSUME ResampleInv, last_end = Present, Tracked(Present),
           \A e \in Contributing : LiveStates[e] # {}
    PROVE  SampleAt(Present) = Live
<1>3. \A e \in Contributing : e \in Mapped /\ HeldOf(e, Present) = LiveStates[e]
  BY HeldIsLive
<1> DEFINE Reads(signal) == Read(config.platform, signal, Mapped, LiveStates)
<1>4. {"pv_power", "ac_port_power", "backup_power", BatteryEntity, GridEntity, "battery_soc"} = Contributing
  BY DEF Contributing
<1>5. /\ Reads("pv") = Told("pv", "primary", LiveStates["pv_power"])
      /\ Reads("ac_port") = Told("ac_port", "primary", LiveStates["ac_port_power"])
      /\ Reads("backup") = Told("backup", "primary", LiveStates["backup_power"])
  BY <1>3, <1>4, LiveReads
<1>6. /\ Reads("battery") = Told("battery", BatteryRole, LiveStates[BatteryEntity])
      /\ Reads("grid") = Told("grid", GridRole, LiveStates[GridEntity])
  BY <1>3, <1>4, LiveReads
<1>7. Reads("battery") # {} /\ Reads("grid") # {} /\ LiveStates["battery_soc"] # {}
  <2>1. LiveStates[BatteryEntity] # {} /\ LiveStates[GridEntity] # {} /\ LiveStates["battery_soc"] # {}
    BY <1>4
  <2> QED
    BY <1>6, <2>1 DEF Told
<1>8. Live = Samples(Reads("pv"), Reads("ac_port"), Reads("backup"), Reads("battery"), Reads("grid"))
  <2>1. Live = Samples(Reads("pv"), Reads("ac_port"), Reads("backup"),
                       IF LiveStates["battery_soc"] = {} THEN {} ELSE OrZero(Reads("battery")),
                       OrZero(Reads("grid")))
    BY DEF Live, LiveSample, Samples
  <2>2. OrZero(Reads("battery")) = Reads("battery") /\ OrZero(Reads("grid")) = Reads("grid")
    BY <1>7 DEF OrZero
  <2> HIDE DEF Reads
  <2> QED
    BY <1>7, <2>1, <2>2
<1>9. SampleAt(Present) = Samples(Told("pv", "primary", LiveStates["pv_power"]),
                                  Told("ac_port", "primary", LiveStates["ac_port_power"]),
                                  Told("backup", "primary", LiveStates["backup_power"]),
                                  Told("battery", BatteryRole, LiveStates[BatteryEntity]),
                                  Told("grid", GridRole, LiveStates[GridEntity]))
  <2>1. /\ HeldOf("battery_soc", Present) # {} /\ HeldOf("pv_power", Present) = LiveStates["pv_power"]
        /\ HeldOf("ac_port_power", Present) = LiveStates["ac_port_power"]
        /\ HeldOf("backup_power", Present) = LiveStates["backup_power"]
        /\ HeldOf(BatteryEntity, Present) = LiveStates[BatteryEntity]
        /\ HeldOf(GridEntity, Present) = LiveStates[GridEntity]
    BY <1>3, <1>4, <1>7
  <2> QED
    BY <2>1, SampleIs
<1> HIDE DEF Reads
<1> QED
  BY <1>5, <1>6, <1>8, <1>9

\* A signal whose preferred sensor can be read is the same on both paths.
LEMMA SignalsAgree ==
    ASSUME ResampleInv, last_end = Present, Tracked(Present),
           NEW s \in SampleAt(Present), NEW l \in Live
    PROVE  /\ s.solar = l.solar /\ s.ac = l.ac /\ s.backup = l.backup
           /\ LiveStates[BatteryEntity] # {} => s.battery = l.battery
           /\ LiveStates[GridEntity] # {} => s.grid = l.grid
<1> DEFINE Reads(signal) == Read(config.platform, signal, Mapped, LiveStates)
           Says(e) == Published(config.platform, past[Present + 1].plant)[e]
<1>1. /\ {"pv_power", "ac_port_power", "backup_power", BatteryEntity, GridEntity, "battery_soc"} = Contributing
      /\ Contributing \subseteq Entities
  BY DEF Contributing, Entities, BatteryEntity, GridEntity
<1>2. \A e \in Entities : \A v \in LiveStates[e] : v = Says(e)
  BY LiveStateIs DEF ResampleInv
<1>3. \A e \in Contributing : LiveStates[e] # {} => e \in Mapped /\ HeldOf(e, Present) = LiveStates[e]
  BY HeldIsLive
<1>4. s \in Samples(Told("pv", "primary", HeldOf("pv_power", Present)),
                    Told("ac_port", "primary", HeldOf("ac_port_power", Present)),
                    Told("backup", "primary", HeldOf("backup_power", Present)),
                    Told("battery", BatteryRole, HeldOf(BatteryEntity, Present)),
                    Told("grid", GridRole, HeldOf(GridEntity, Present)))
  BY SampleIs
<1>5. PICK bats, grids :
        /\ l \in Samples(Reads("pv"), Reads("ac_port"), Reads("backup"), bats, grids)
        /\ bats \in {{}, OrZero(Reads("battery"))} /\ grids = OrZero(Reads("grid"))
  BY DEF Live, LiveSample, Samples
<1>6. /\ Reads("pv") \in {{}, Told("pv", "primary", LiveStates["pv_power"])}
      /\ Reads("ac_port") \in {{}, Told("ac_port", "primary", LiveStates["ac_port_power"])}
      /\ Reads("backup") \in {{}, Told("backup", "primary", LiveStates["backup_power"])}
  BY LiveReads
<1>7. ASSUME NEW e \in Contributing, NEW signal, NEW role,
             NEW x \in Told(signal, role, HeldOf(e, Present)), NEW y \in Told(signal, role, LiveStates[e])
      PROVE  x = y
  <2>1. LiveStates[e] # {}
    BY <1>7 DEF Told
  <2>2. HeldOf(e, Present) = LiveStates[e]
    BY <1>3, <2>1
  <2>3. x = Canonical(config.platform, signal, role, Says(e)) /\ y = Canonical(config.platform, signal, role, Says(e))
    BY <1>1, <1>2, <1>7, <2>2 DEF Told
  <2> QED
    BY <2>3
<1> HIDE DEF Reads
<1>8. /\ s.solar \in Told("pv", "primary", HeldOf("pv_power", Present))
      /\ s.ac \in Told("ac_port", "primary", HeldOf("ac_port_power", Present))
      /\ s.backup \in Told("backup", "primary", HeldOf("backup_power", Present))
      /\ s.battery \in Told("battery", BatteryRole, HeldOf(BatteryEntity, Present))
      /\ s.grid \in Told("grid", GridRole, HeldOf(GridEntity, Present))
  BY <1>4 DEF Samples
<1>9. /\ l.solar \in Reads("pv") /\ l.ac \in Reads("ac_port") /\ l.backup \in Reads("backup")
      /\ l.battery \in bats /\ l.grid \in grids
  BY <1>5 DEF Samples
<1>10. s.solar = l.solar /\ s.ac = l.ac /\ s.backup = l.backup
  <2>1. /\ l.solar \in Told("pv", "primary", LiveStates["pv_power"])
        /\ l.ac \in Told("ac_port", "primary", LiveStates["ac_port_power"])
        /\ l.backup \in Told("backup", "primary", LiveStates["backup_power"])
    BY <1>6, <1>9
  <2>2. "pv_power" \in Contributing /\ "ac_port_power" \in Contributing /\ "backup_power" \in Contributing
    BY <1>1
  <2>3. s.solar = l.solar
    BY <1>7, <1>8, <2>1, <2>2
  <2>4. s.ac = l.ac
    BY <1>7, <1>8, <2>1, <2>2
  <2>5. s.backup = l.backup
    BY <1>7, <1>8, <2>1, <2>2
  <2> QED
    BY <2>3, <2>4, <2>5
<1>11. ASSUME LiveStates[BatteryEntity] # {}
       PROVE  s.battery = l.battery
  <2>1. Reads("battery") = Told("battery", BatteryRole, LiveStates[BatteryEntity])
    BY <1>1, <1>3, <1>11, LiveReads DEF Reads
  <2>2. Reads("battery") # {}
    BY <1>11, <2>1 DEF Told
  <2>3. l.battery \in Told("battery", BatteryRole, LiveStates[BatteryEntity])
    BY <1>5, <1>9, <2>1, <2>2 DEF OrZero
  <2> QED
    BY <1>1, <1>7, <1>8, <2>3
<1>12. ASSUME LiveStates[GridEntity] # {}
       PROVE  s.grid = l.grid
  <2>1. Reads("grid") = Told("grid", GridRole, LiveStates[GridEntity])
    BY <1>1, <1>3, <1>12, LiveReads DEF Reads
  <2>2. Reads("grid") # {}
    BY <1>12, <2>1 DEF Told
  <2>3. l.grid \in Told("grid", GridRole, LiveStates[GridEntity])
    BY <1>5, <1>9, <2>1, <2>2 DEF OrZero
  <2> QED
    BY <1>1, <1>7, <1>8, <2>3
<1> QED
  BY <1>10, <1>11, <1>12

LEMMA PathsAgree == ResampleInv => RecorderAgrees
BY AllAgree, SignalsAgree DEF RecorderAgrees

\* What the readings say of a plant, in sunSale's directions.
LEMMA Directions ==
    ASSUME ResampleTyped, BatteryDirected, NEW p \in Plant, NEW platform, platform = config.platform
    PROVE  /\ Canonical(platform, "pv", "primary", Published(platform, p)["pv_power"]) = p.solar
           /\ Canonical(platform, "ac_port", "primary", Published(platform, p)["ac_port_power"]) = AcPort(p)
           /\ Canonical(platform, "backup", "primary", Published(platform, p)["backup_power"]) = p.backup
           /\ Canonical(platform, "battery", BatteryRole, Published(platform, p)[BatteryEntity]) = p.battery
           /\ Canonical(platform, "grid", "primary", Published(platform, p)["grid_power"]) = GridNet(p)
<1>1. /\ p.solar \in Nat /\ p.backup \in Nat /\ p.battery \in Int /\ AcPort(p) \in Int /\ GridNet(p) \in Int
  BY DEF Plant, AcPort, GridNet
<1>2. platform \in Platforms
  BY ResampleConfigsAssumption DEF ResampleTyped
<1>3. Canonical(platform, "battery", BatteryRole, Published(platform, p)[BatteryEntity]) = p.battery
  <2>1. CASE platform = "solis"
    <3>1. BatteryEntity = "battery_power_signed" /\ BatteryRole = "signed_net"
      BY <2>1 DEF BatteryDirected, BatteryEntity, BatteryRole
    <3>2. Published(platform, p)[BatteryEntity] = -p.battery
      BY <2>1, <3>1 DEF Published
    <3>3. Canonical(platform, "battery", BatteryRole, -p.battery) = -(-p.battery)
      BY <2>1, <3>1 DEF Canonical, Flipped
    <3> QED
      BY <1>1, <3>2, <3>3
  <2>2. CASE platform = "generic"
    <3>1. Published(platform, p)[BatteryEntity] = p.battery
      BY <2>2 DEF Published, BatteryEntity
    <3>2. Canonical(platform, "battery", BatteryRole, p.battery) = p.battery
      BY <2>2 DEF Canonical, Flipped
    <3> QED
      BY <3>1, <3>2
  <2> QED
    BY <1>2, <2>1, <2>2 DEF Platforms
<1>4. /\ Canonical(platform, "pv", "primary", Published(platform, p)["pv_power"]) = p.solar
      /\ Canonical(platform, "backup", "primary", Published(platform, p)["backup_power"]) = p.backup
  BY <1>1 DEF Canonical, Published, Positive
<1>5. Canonical(platform, "ac_port", "primary", Published(platform, p)["ac_port_power"]) = AcPort(p)
  BY DEF Canonical, Published, Flipped
<1>6. Canonical(platform, "grid", "primary", Published(platform, p)["grid_power"]) = GridNet(p)
  BY DEF Canonical, Published, Flipped
<1> QED
  BY <1>3, <1>4, <1>5, <1>6

\* The flows add up to the plant's.
LEMMA SamplesLive ==
    ASSUME ResampleTyped, BatteryDirected, LiveStates[BatteryEntity] # {}, LiveStates["grid_power"] # {},
           NEW p \in Plant, p = past[Present + 1].plant, NEW s \in Live
    PROVE  Consumption(s) = p.load + p.backup /\ Losses(s) = p.loss
<1> DEFINE Reads(signal) == Read(config.platform, signal, Mapped, LiveStates)
           Says(e) == Published(config.platform, p)[e]
<1>1. {"pv_power", "ac_port_power", "backup_power", BatteryEntity, "grid_power"} \subseteq Entities
  BY DEF Entities, BatteryEntity
<1>2. \A e \in Entities : \A v \in LiveStates[e] : v = Says(e)
  BY LiveStateIs
<1>3. BatteryEntity \in Mapped /\ "grid_power" \in Mapped
  BY <1>1, LiveStateIs
<1>4. GridEntity = "grid_power" /\ GridRole = "primary"
  BY <1>3 DEF GridEntity, GridRole
<1>5. /\ Reads("pv") \in {{}, Told("pv", "primary", LiveStates["pv_power"])}
      /\ Reads("ac_port") \in {{}, Told("ac_port", "primary", LiveStates["ac_port_power"])}
      /\ Reads("backup") \in {{}, Told("backup", "primary", LiveStates["backup_power"])}
  BY LiveReads
<1>6. /\ Reads("battery") = Told("battery", BatteryRole, LiveStates[BatteryEntity])
      /\ Reads("grid") = Told("grid", "primary", LiveStates["grid_power"])
  BY <1>3, <1>4, LiveReads
<1>7. Reads("battery") # {} /\ Reads("grid") # {}
  BY <1>6 DEF Told
<1>8. s \in Samples(Reads("pv"), Reads("ac_port"), Reads("backup"), Reads("battery"), Reads("grid"))
  <2>1. Live = Samples(Reads("pv"), Reads("ac_port"), Reads("backup"),
                       IF LiveStates["battery_soc"] = {} THEN {} ELSE OrZero(Reads("battery")),
                       OrZero(Reads("grid")))
    BY DEF Live, LiveSample, Samples
  <2>2. OrZero(Reads("battery")) = Reads("battery") /\ OrZero(Reads("grid")) = Reads("grid")
    BY <1>7 DEF OrZero
  <2> HIDE DEF Reads
  <2>3. LiveStates["battery_soc"] # {}
    BY <2>1 DEF Samples
  <2> QED
    BY <2>1, <2>2, <2>3
<1>9. ASSUME NEW e \in Entities, NEW signal, NEW role, NEW x \in Told(signal, role, LiveStates[e])
      PROVE  x = Canonical(config.platform, signal, role, Says(e))
  BY <1>2, <1>9 DEF Told
<1>10. /\ s.solar = p.solar /\ s.ac = AcPort(p) /\ s.backup = p.backup
       /\ s.battery = p.battery /\ s.grid = GridNet(p)
  <2>1. PICK sol \in Reads("pv"), ac \in Reads("ac_port"), b \in Reads("backup"),
              bat \in Reads("battery"), g \in Reads("grid") :
          s = [solar |-> sol, ac |-> ac, backup |-> b, battery |-> bat, grid |-> g]
    <3> HIDE DEF Reads
    <3> QED
      BY <1>8 DEF Samples
  <2> HIDE DEF Reads
  <2>2. /\ sol \in Told("pv", "primary", LiveStates["pv_power"])
        /\ ac \in Told("ac_port", "primary", LiveStates["ac_port_power"])
        /\ b \in Told("backup", "primary", LiveStates["backup_power"])
        /\ bat \in Told("battery", BatteryRole, LiveStates[BatteryEntity])
        /\ g \in Told("grid", "primary", LiveStates["grid_power"])
    BY <1>5, <1>6
  <2>3. /\ sol = Canonical(config.platform, "pv", "primary", Says("pv_power"))
        /\ ac = Canonical(config.platform, "ac_port", "primary", Says("ac_port_power"))
        /\ b = Canonical(config.platform, "backup", "primary", Says("backup_power"))
        /\ bat = Canonical(config.platform, "battery", BatteryRole, Says(BatteryEntity))
        /\ g = Canonical(config.platform, "grid", "primary", Says("grid_power"))
    BY <1>1, <1>9, <2>2
  <2> QED
    <3>1. sol = p.solar /\ ac = AcPort(p) /\ b = p.backup /\ bat = p.battery /\ g = GridNet(p)
      BY <2>3, Directions
    <3> QED
      BY <2>1, <3>1
<1>11. /\ p.solar \in Nat /\ p.battery \in Int /\ p.load \in Nat /\ p.loss \in Nat /\ p.backup \in Nat
  BY DEF Plant
<1>12. s.backup + s.ac + s.grid = p.load + p.backup /\ s.solar - s.battery - s.ac - s.backup = p.loss
  BY <1>10, <1>11 DEF AcPort, GridNet
<1> QED
  BY <1>11, <1>12 DEF Consumption, Losses, Positive

\* One port imports or exports.
LEMMA PortsLive ==
    ASSUME ResampleTyped, NEW p \in Plant, p = past[Present + 1].plant,
           NEW i \in Read(config.platform, "import", Mapped, LiveStates),
           NEW x \in Read(config.platform, "export", Mapped, LiveStates)
    PROVE  i - x = GridNet(p) /\ (i = 0 \/ x = 0)
<1>1. \A e \in Entities : \A v \in LiveStates[e] : v = Published(config.platform, p)[e]
  BY LiveStateIs
<1>2. GridNet(p) \in Int
  BY DEF Plant, AcPort, GridNet
<1>3. i = Positive(GridNet(p))
  <2>1. CASE "grid_import_power" \in Mapped
    <3>1. Candidates("import", Mapped) = <<Bound("grid_import_power", "primary")>>
      BY <2>1 DEF Candidates, Directional
    <3>2. PICK v \in LiveStates["grid_import_power"] : i = Canonical(config.platform, "import", "primary", v)
      BY <2>1, <3>1, ReadOne
    <3>3. v = Positive(GridNet(p))
      BY <1>1, <3>2 DEF Published, Entities
    <3> QED
      BY <1>2, <3>2, <3>3 DEF Canonical, Positive
  <2>2. CASE "grid_import_power" \notin Mapped
    <3>1. Candidates("import", Mapped) = <<Bound("signed_grid_power", "signed_net")>>
      BY <2>2 DEF Candidates, Directional
    <3>2. PICK v \in LiveStates["signed_grid_power"] : i = Canonical(config.platform, "import", "signed_net", v)
      <4>1. "signed_grid_power" \in Mapped
        BY <3>1, ReadOne
      <4> QED
        BY <3>1, <4>1, ReadOne
    <3>3. v = GridNet(p)
      BY <1>1, <3>2 DEF Published, Entities
    <3> QED
      BY <3>2, <3>3 DEF Canonical
  <2> QED
    BY <2>1, <2>2
<1>4. x = Positive(-GridNet(p))
  <2>1. CASE "grid_export_power" \in Mapped
    <3>1. Candidates("export", Mapped) = <<Bound("grid_export_power", "primary")>>
      BY <2>1 DEF Candidates, Directional
    <3>2. PICK v \in LiveStates["grid_export_power"] : x = Canonical(config.platform, "export", "primary", v)
      BY <2>1, <3>1, ReadOne
    <3>3. v = Positive(-GridNet(p))
      BY <1>1, <3>2 DEF Published, Entities
    <3>4. x = Positive(v)
      BY <3>2 DEF Canonical
    <3> QED
      BY <1>2, <3>3, <3>4 DEF Positive
  <2>2. CASE "grid_export_power" \notin Mapped
    <3>1. Candidates("export", Mapped) = <<Bound("signed_grid_power", "signed_net")>>
      BY <2>2 DEF Candidates, Directional
    <3>2. PICK v \in LiveStates["signed_grid_power"] : x = Canonical(config.platform, "export", "signed_net", v)
      <4>1. "signed_grid_power" \in Mapped
        BY <3>1, ReadOne
      <4> QED
        BY <3>1, <4>1, ReadOne
    <3>3. v = GridNet(p)
      BY <1>1, <3>2 DEF Published, Entities
    <3> QED
      BY <3>2, <3>3 DEF Canonical
  <2> QED
    BY <2>1, <2>2
<1> QED
  BY <1>2, <1>3, <1>4 DEF Positive

LEMMA PlantRead == ResampleInv => LiveTrue
<1> SUFFICES ASSUME ResampleInv
             PROVE  LiveTrue
  OBVIOUS
<1>1. ResampleTyped /\ past[Present + 1].plant \in Plant
  <2>1. Present + 1 \in 1..Len(past) /\ past \in Seq(Moment)
    BY Typing DEF ResampleInv, ResampleTyped
  <2>2. past[Present + 1] \in Moment
    BY <2>1
  <2> QED
    BY <2>2, ResamplePlantsAssumption DEF Moment, ResampleInv
<1> DEFINE p == past[Present + 1].plant
<1>2. BatteryDirected /\ LiveStates[BatteryEntity] # {} /\ LiveStates["grid_power"] # {} =>
        \A s \in Live : Consumption(s) = p.load + p.backup /\ Losses(s) = p.loss
  BY <1>1, SamplesLive
<1>3. \A i \in Read(config.platform, "import", Mapped, LiveStates) :
        \A x \in Read(config.platform, "export", Mapped, LiveStates) : i - x = GridNet(p) /\ (i = 0 \/ x = 0)
  BY <1>1, PortsLive
<1> QED
  BY <1>2, <1>3 DEF LiveTrue

\* The recorder's path and the live one tell one story, and it is the plant's
\* (to_canonical, resolve_bindings, _resolve_roles).
THEOREM TrueReadings == ResampleSpec => []ReadingsTrue
<1>1. ResampleInv => ReadingsTrue
  BY PathsAgree, PlantRead DEF ReadingsTrue
<1> QED
  BY <1>1, ResampleInvariant, PTL

================================================================================
