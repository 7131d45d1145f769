------------------------------ MODULE MCLearning ------------------------------
(* What the installation learns about itself, one subject a behaviour: the     *)
(* battery's capacity, the market, the house.  The subjects share no state.    *)
EXTENDS CapacityLearning, MarketSignals, BaseLoad

CONSTANT Subjects

VARIABLE subject

Av(b, s, c) == [bms |-> b, soc |-> s, counters |-> c]
MCSoc       == 15..45
MCMoves     == {-15, -1, 0, 5, 15}
MCAvail     == {Av(TRUE, TRUE, TRUE), Av(FALSE, TRUE, TRUE), Av(FALSE, FALSE, TRUE), Av(TRUE, TRUE, FALSE)}
MCOffsets   == {Missing, 3}
FirstPack   == [nominal |-> 10000, capacity |-> 9000]
MCPacks     == {FirstPack, [nominal |-> 15000, capacity |-> 18000]}
\* A sample of the first schema, of a state of charge that was made up
MCOld       == {[schema |-> 1, nominal |-> 10000,
                 obs |-> <<[soc_start |-> 50, soc_end |-> 60, energy |-> 700, direction |-> "charge"]>>]}

\* The network charges more in the day's second half.
Curve(buy, P) == [spot |-> [i \in 1..4 |-> buy[i] - (IF i > 2 THEN 12 ELSE 1)], buy |-> buy, sell |-> [i \in 1..4 |-> buy[i] - 8], priced |-> P]
Unpriced  == Curve(<<10, 20, 30, 40>>, {})
MCMarkets == {Curve(<<10, 20, 30, 40>>, 1..4), Curve(<<20, 20, 20, 20>>, 1..4), Curve(<<30, 10, 10, 40>>, 1..4),
              Curve(<<15, 15, 35, 35>>, {2, 3, 4}), Unpriced}
Idle      == [bought |-> <<0, 0, 0, 0>>, sold |-> <<0, 0, 0, 0>>]
MCTrades  == {Idle, [bought |-> <<40, 4, 0, 0>>, sold |-> <<0, 0, 4, 100>>],
              [bought |-> <<0, 10, 30, 0>>, sold |-> <<20, 0, 0, 0>>]}
MCWeekend == {1}
MCHoliday == {-2}
Peak(d, p, c) == [day |-> d, peak |-> p, class |-> c]
MCHist    == {{}, {Peak(-1, 30, "weekday"), Peak(-3, 40, "weekday"), Peak(-4, 20, "weekday")},
              {Peak(-1, 30, "weekend"), Peak(-2, 40, "weekday"), Peak(-3, 25, "weekday")}}
Cfg(c, e, b, a) == [cheap_share |-> c, expensive_share |-> e, cheap_below |-> b, expensive_above |-> a]
MCLevels == {Cfg(25, 25, NoPrice, NoPrice), Cfg(50, 50, NoPrice, NoPrice), Cfg(60, 75, NoPrice, NoPrice),
              Cfg(0, 100, NoPrice, NoPrice), Cfg(25, 25, 25, NoPrice), Cfg(50, 40, 35, 15)}

Load(kwh, complete) == [kwh |-> [h \in 0..2 |-> kwh[h + 1]], complete |-> [h \in 0..2 |-> complete[h + 1]]]
MCLoads   == {Load(<<4, 8, 12>>, <<100, 100, 100>>), Load(<<1, 9, 2>>, <<30, 100, 40>>),
              Load(<<6, 0, 20>>, <<100, 80, 79>>), Load(<<0, 3, 10>>, <<0, 90, 100>>)}
MCCharges == {0, 3, 8, 24, 30, 60, 1000}

LearningInit ==
    /\ subject \in Subjects
    /\ CapacityInit /\ MarketInit /\ LoadInit
    /\ subject # "battery" => pack = FirstPack /\ offset = Missing
    /\ subject # "market" => market = <<Unpriced, Unpriced>> /\ trade = <<Idle, Idle>> /\ peaks = {}

LearningNext ==
    \/ subject = "battery" /\ CapacityNext /\ UNCHANGED <<subject, marketVars, loadVars>>
    \/ subject = "market" /\ MarketNext /\ UNCHANGED <<subject, capacityVars, loadVars>>
    \/ subject = "house" /\ LoadNext /\ UNCHANGED <<subject, capacityVars, marketVars>>

\* The learnt capacity is the installed pack's, over restarts, packs and gauges.
EstimateTrue ==
    /\ CapacityTypeOK /\ MarketTypeOK /\ LoadTypeOK
    /\ EstimateFitsPack /\ EstimatePlausible

learningVars == <<capacityVars, marketVars, loadVars>>

LearningSpec == LearningInit /\ [][LearningNext]_<<subject, learningVars>>
===============================================================================
