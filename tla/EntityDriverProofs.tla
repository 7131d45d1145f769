-------------------------- MODULE EntityDriverProofs --------------------------
(***************************************************************************)
(* What the entity driver keeps on every platform, for any configured powers, *)
(* any narrow bound, any number of faults that the timed command outlives and *)
(* any interleaving of the control module with the heartbeat: a command that  *)
(* settled verifies, is decoded as itself and is in force.                    *)
(*                                                                           *)
(* The argument: an undisturbed command has put its writes in place up to the *)
(* one it has reached, a renewal writes only what is in place already, on     *)
(* Huawei the age of the timed command stays below the beats that failed, and *)
(* once no forced mode is wanted no beat runs and the command only ages.      *)
(***************************************************************************)
EXTENDS EntityDriver, SequenceTheorems, TLAPS

USE DEF NoMode, Callers

States == {"self", "fed", "manual", "general", "eco_charge", "eco_discharge", "zero_ct", "zero_load",
           "selling", "stop", "charge", "discharge", "engaged", "off", Unknown}

Entry ==
    [kind : {"number"}, role : Numbers, value : Powers, row : BOOLEAN]
    \cup [kind : {"select"}, role : Selects, value : States, row : BOOLEAN]
    \cup [kind : {"switch"}, role : Switches, value : BOOLEAN, row : BOOLEAN]
    \cup [kind : {"service"}, role : {"device"}, value : {"stop", "charge", "discharge"}, row : {FALSE}]

\* A sequence of writes in which no entity is written twice.
Tidy(plan) ==
    /\ plan \in Seq(Entry) /\ Len(plan) \in 2..10
    /\ \A i, j \in 1..Len(plan) : plan[i].kind = plan[j].kind /\ plan[i].role = plan[j].role => i = j

LEMMA Larger ==
    ASSUME NEW a \in Int, NEW b \in Int
    PROVE  Max({a, b}) = IF a >= b THEN a ELSE b
BY DEF Max

LEMMA Lesser ==
    ASSUME NEW a \in Int, NEW b \in Int
    PROVE  Min({a, b}) = IF a <= b THEN a ELSE b
BY DEF Min

LEMMA NumberEntry ==
    ASSUME NEW r \in Numbers, NEW v \in {0, 1, ExportCap, Rated, Charge, Discharge, -Min({Charge, Rated})}
    PROVE  Number(r, v) \in Entry /\ Unseen(Number(r, v)) \in Entry
<1>1. /\ ExportCap \in Nat /\ Rated \in Nat /\ Charge \in Nat /\ Discharge \in Nat
      /\ Rated >= 1 /\ Charge >= 1 /\ Charge <= Rated
  BY PowersAssumption
<1>2. Min({Charge, Rated}) = Charge
  BY <1>1, Lesser
<1>3. v \in Powers
  BY <1>1, <1>2 DEF Powers
<1> QED
  BY <1>3 DEF Number, Unseen, Write, Entry

LEMMA SelectEntry ==
    ASSUME NEW r \in Selects, NEW v \in States
    PROVE  Select(r, v) \in Entry /\ Unseen(Select(r, v)) \in Entry
BY DEF Select, Write, Unseen, Entry

LEMMA SwitchEntry ==
    ASSUME NEW r \in Switches, NEW v \in BOOLEAN
    PROVE  Switch(r, v) \in Entry
BY DEF Switch, Write, Entry

LEMMA ServiceEntry ==
    ASSUME NEW v \in {"stop", "charge", "discharge"}
    PROVE  Service(v) \in Entry
BY DEF Service, Entry

\* An entity is written with what it can show.
LEMMA EntryIs ==
    ASSUME NEW write \in Entry
    PROVE  /\ write.kind \in {"number", "select", "switch", "service"}
           /\ write.kind = "number" => write.role \in Numbers /\ write.value \in Powers
           /\ write.kind = "select" => write.role \in Selects /\ write.value \in States
           /\ write.kind = "switch" => write.role \in Switches /\ write.value \in BOOLEAN
           /\ write.kind = "service" => /\ write.role = "device" /\ write.row = FALSE
                                       /\ write.value \in {"stop", "charge", "discharge"}
BY DEF Entry

\* Two and three writes of different entities.
LEMMA TidyTwo ==
    ASSUME NEW a \in Entry, NEW b \in Entry, a.kind # b.kind \/ a.role # b.role
    PROVE  Tidy(<<a, b>>)
BY DEF Tidy

LEMMA TidyThree ==
    ASSUME NEW a \in Entry, NEW b \in Entry, NEW c \in Entry,
           a.kind # b.kind \/ a.role # b.role, a.kind # c.kind \/ a.role # c.role,
           b.kind # c.kind \/ b.role # c.role
    PROVE  Tidy(<<a, b, c>>)
BY DEF Tidy

LEMMA TidyFour ==
    ASSUME NEW a \in Entry, NEW b \in Entry, NEW c \in Entry, NEW d \in Entry,
           a.kind # b.kind \/ a.role # b.role, a.kind # c.kind \/ a.role # c.role,
           a.kind # d.kind \/ a.role # d.role, b.kind # c.kind \/ b.role # c.role,
           b.kind # d.kind \/ b.role # d.role, c.kind # d.kind \/ c.role # d.role
    PROVE  Tidy(<<a, b, c, d>>)
BY DEF Tidy

LEMMA TidyHuawei ==
    ASSUME NEW m \in Dispatched
    PROVE  Tidy(Huawei[m])
<1> USE NumberEntry, SelectEntry, SwitchEntry, ServiceEntry, TidyTwo, TidyThree, TidyFour
        DEF Huawei, Number, Select, Switch, Service, Write, Numbers, Selects, Switches, States
<1>1. CASE m = "SelfUse"
  BY <1>1
<1>2. CASE m = "FeedIn"
  BY <1>2
<1>3. CASE m = "NoExport"
  BY <1>3
<1>4. CASE m = "StandBy"
  BY <1>4
<1>5. CASE m = "GridCharge"
  BY <1>5
<1>6. CASE m = "Discharge"
  BY <1>6
<1> QED
  BY <1>1, <1>2, <1>3, <1>4, <1>5, <1>6 DEF Dispatched

LEMMA TidySolax ==
    ASSUME NEW m \in Dispatched
    PROVE  Tidy(Solax[m])
<1> USE NumberEntry, SelectEntry, SwitchEntry, ServiceEntry, TidyTwo, TidyThree, TidyFour
        DEF Solax, Number, Select, Switch, Service, Write, Numbers, Selects, Switches, States
<1>1. CASE m = "SelfUse"
  BY <1>1
<1>2. CASE m = "FeedIn"
  BY <1>2
<1>3. CASE m = "NoExport"
  BY <1>3
<1>4. CASE m = "StandBy"
  BY <1>4
<1>5. CASE m = "GridCharge"
  BY <1>5
<1>6. CASE m = "Discharge"
  BY <1>6
<1> QED
  BY <1>1, <1>2, <1>3, <1>4, <1>5, <1>6 DEF Dispatched

LEMMA TidySungrow ==
    ASSUME NEW m \in Dispatched
    PROVE  Tidy(Sungrow[m])
<1> USE NumberEntry, SelectEntry, SwitchEntry, ServiceEntry, TidyTwo, TidyThree, TidyFour
        DEF Sungrow, Number, Select, Switch, Service, Write, Numbers, Selects, Switches, States
<1>1. CASE m = "SelfUse"
  BY <1>1
<1>2. CASE m = "FeedIn"
  BY <1>2
<1>3. CASE m = "NoExport"
  BY <1>3
<1>4. CASE m = "StandBy"
  BY <1>4
<1>5. CASE m = "GridCharge"
  BY <1>5
<1>6. CASE m = "Discharge"
  BY <1>6
<1> QED
  BY <1>1, <1>2, <1>3, <1>4, <1>5, <1>6 DEF Dispatched

LEMMA TidyGoodwe ==
    ASSUME NEW m \in Dispatched
    PROVE  Tidy(Goodwe[m])
<1> USE NumberEntry, SelectEntry, SwitchEntry, ServiceEntry, TidyTwo, TidyThree, TidyFour
        DEF Goodwe, Number, Select, Switch, Service, Write, Numbers, Selects, Switches, States
<1>1. CASE m = "SelfUse"
  BY <1>1
<1>2. CASE m = "FeedIn"
  BY <1>2
<1>3. CASE m = "NoExport"
  BY <1>3
<1>4. CASE m = "StandBy"
  BY <1>4
<1>5. CASE m = "GridCharge"
  BY <1>5
<1>6. CASE m = "Discharge"
  BY <1>6
<1> QED
  BY <1>1, <1>2, <1>3, <1>4, <1>5, <1>6 DEF Dispatched

LEMMA TidyDeye ==
    ASSUME NEW m \in Dispatched
    PROVE  Tidy(Deye[m])
<1> USE NumberEntry, SelectEntry, SwitchEntry, ServiceEntry, TidyTwo, TidyThree, TidyFour
        DEF Deye, Number, Select, Switch, Service, Write, Numbers, Selects, Switches, States
<1>1. CASE m = "SelfUse"
  BY <1>1
<1>2. CASE m = "FeedIn"
  BY <1>2
<1>3. CASE m = "NoExport"
  BY <1>3
<1>4. CASE m = "StandBy"
  BY <1>4
<1>5. CASE m = "GridCharge"
  BY <1>5
<1>6. CASE m = "Discharge"
  BY <1>6
<1> QED
  BY <1>1, <1>2, <1>3, <1>4, <1>5, <1>6 DEF Dispatched

LEMMA WordIs ==
    ASSUME NEW on
    PROVE  Word(on) = <<Switch("self_use", "self_use" \in on), Switch("tou", "tou" \in on),
                        Switch("grid_charge", "grid_charge" \in on), Switch("feed_in", "feed_in" \in on)>>
BY DEF Word

\* Sequences with the same elements at the same places.
LEMMA JoinIs ==
    ASSUME NEW S, NEW s \in Seq(S), NEW t \in Seq(S), NEW u \in Seq(S), Len(u) = Len(s) + Len(t),
           \A i \in 1..Len(s) : u[i] = s[i], \A i \in 1..Len(t) : u[Len(s) + i] = t[i]
    PROVE  s \o t = u
<1>1. /\ s \o t \in Seq(S) /\ Len(s \o t) = Len(s) + Len(t)
      /\ \A i \in 1 .. Len(s) + Len(t) : (s \o t)[i] = IF i <= Len(s) THEN s[i] ELSE t[i - Len(s)]
  BY ConcatProperties
<1>2. Len(s) \in Nat /\ Len(t) \in Nat
  OBVIOUS
<1>3. \A i \in 1..Len(s \o t) : (s \o t)[i] = u[i]
  <2> TAKE i \in 1..Len(s \o t)
  <2>1. CASE i <= Len(s)
    BY <1>1, <1>2, <2>1
  <2>2. CASE i > Len(s)
    <3>1. i - Len(s) \in 1..Len(t) /\ Len(s) + (i - Len(s)) = i
      BY <1>1, <1>2, <2>2
    <3> QED
      BY <1>1, <1>2, <2>2, <3>1
  <2> QED
    BY <1>1, <1>2, <2>1, <2>2
<1> QED
  BY <1>1, <1>3, SeqEqual

LEMMA JoinFourThree ==
    ASSUME NEW a, NEW b, NEW c, NEW d, NEW e, NEW f, NEW g
    PROVE  <<a, b, c, d>> \o <<e, f, g>> = <<a, b, c, d, e, f, g>>
<1> DEFINE S == {a, b, c, d, e, f, g}
           s == <<a, b, c, d>>
           t == <<e, f, g>>
           u == <<a, b, c, d, e, f, g>>
<1>1. /\ s \in Seq(S) /\ t \in Seq(S) /\ u \in Seq(S)
      /\ Len(s) = 4 /\ Len(t) = 3 /\ Len(u) = 7
  OBVIOUS
<1>2. /\ u[1] = s[1] /\ u[2] = s[2] /\ u[3] = s[3] /\ u[4] = s[4]
      /\ u[4 + 1] = t[1] /\ u[4 + 2] = t[2] /\ u[4 + 3] = t[3]
  OBVIOUS
<1> HIDE DEF S, s, t, u
<1>3. Len(u) = Len(s) + Len(t)
  BY <1>1
<1>4. \A i \in 1..Len(s) : u[i] = s[i]
  BY <1>1, <1>2
<1>5. \A i \in 1..Len(t) : u[Len(s) + i] = t[i]
  BY <1>1, <1>2
<1>6. s \o t = u
  BY <1>1, <1>3, <1>4, <1>5, JoinIs
<1> QED
  BY <1>6 DEF s, t, u

LEMMA JoinSevenThree ==
    ASSUME NEW a, NEW b, NEW c, NEW d, NEW e, NEW f, NEW g, NEW h, NEW j, NEW k
    PROVE  <<a, b, c, d, e, f, g>> \o <<h, j, k>> = <<a, b, c, d, e, f, g, h, j, k>>
<1> DEFINE S == {a, b, c, d, e, f, g, h, j, k}
           s == <<a, b, c, d, e, f, g>>
           t == <<h, j, k>>
           u == <<a, b, c, d, e, f, g, h, j, k>>
<1>1. /\ s \in Seq(S) /\ t \in Seq(S) /\ u \in Seq(S)
      /\ Len(s) = 7 /\ Len(t) = 3 /\ Len(u) = 10
  OBVIOUS
<1>2. /\ u[1] = s[1] /\ u[2] = s[2] /\ u[3] = s[3] /\ u[4] = s[4] /\ u[5] = s[5] /\ u[6] = s[6] /\ u[7] = s[7]
      /\ u[7 + 1] = t[1] /\ u[7 + 2] = t[2] /\ u[7 + 3] = t[3]
  OBVIOUS
<1> HIDE DEF S, s, t, u
<1>3. Len(u) = Len(s) + Len(t)
  BY <1>1
<1>4. \A i \in 1..Len(s) : u[i] = s[i]
  BY <1>1, <1>2
<1>5. \A i \in 1..Len(t) : u[Len(s) + i] = t[i]
  BY <1>1, <1>2
<1>6. s \o t = u
  BY <1>1, <1>3, <1>4, <1>5, JoinIs
<1> QED
  BY <1>6 DEF s, t, u

LEMMA JoinSevenTwo ==
    ASSUME NEW a, NEW b, NEW c, NEW d, NEW e, NEW f, NEW g, NEW h, NEW j
    PROVE  <<a, b, c, d, e, f, g>> \o <<h, j>> = <<a, b, c, d, e, f, g, h, j>>
<1> DEFINE S == {a, b, c, d, e, f, g, h, j}
           s == <<a, b, c, d, e, f, g>>
           t == <<h, j>>
           u == <<a, b, c, d, e, f, g, h, j>>
<1>1. /\ s \in Seq(S) /\ t \in Seq(S) /\ u \in Seq(S)
      /\ Len(s) = 7 /\ Len(t) = 2 /\ Len(u) = 9
  OBVIOUS
<1>2. /\ u[1] = s[1] /\ u[2] = s[2] /\ u[3] = s[3] /\ u[4] = s[4] /\ u[5] = s[5] /\ u[6] = s[6] /\ u[7] = s[7]
      /\ u[7 + 1] = t[1] /\ u[7 + 2] = t[2]
  OBVIOUS
<1> HIDE DEF S, s, t, u
<1>3. Len(u) = Len(s) + Len(t)
  BY <1>1
<1>4. \A i \in 1..Len(s) : u[i] = s[i]
  BY <1>1, <1>2
<1>5. \A i \in 1..Len(t) : u[Len(s) + i] = t[i]
  BY <1>1, <1>2
<1>6. s \o t = u
  BY <1>1, <1>3, <1>4, <1>5, JoinIs
<1> QED
  BY <1>6 DEF s, t, u

LEMMA RegistersEngaged ==
    ASSUME NEW on, NEW c, NEW d, NEW e, NEW s, s # 0
    PROVE  Registers(on, c, d, e, s) =
             <<Switch("self_use", "self_use" \in on), Switch("tou", "tou" \in on),
               Switch("grid_charge", "grid_charge" \in on), Switch("feed_in", "feed_in" \in on),
               Number("charge", c), Number("discharge", d), Number("export", e),
               Select("rc", "engaged"), Unseen(Number("rc_timeout", 1)), Number("rc_setpoint", s)>>
<1> DEFINE w1 == Switch("self_use", "self_use" \in on)
           w2 == Switch("tou", "tou" \in on)
           w3 == Switch("grid_charge", "grid_charge" \in on)
           w4 == Switch("feed_in", "feed_in" \in on)
           n1 == Number("charge", c)
           n2 == Number("discharge", d)
           n3 == Number("export", e)
           r1 == Select("rc", "engaged")
           r2 == Unseen(Number("rc_timeout", 1))
           r3 == Number("rc_setpoint", s)
<1>1. RemoteControl(s) = <<r1, r2, r3>>
  BY DEF RemoteControl
<1>2. Registers(on, c, d, e, s) = Word(on) \o <<n1, n2, n3>> \o RemoteControl(s)
  BY DEF Registers
<1>3. Word(on) = <<w1, w2, w3, w4>>
  BY WordIs
<1> HIDE DEF w1, w2, w3, w4, n1, n2, n3, r1, r2, r3
<1>4. <<w1, w2, w3, w4>> \o <<n1, n2, n3>> = <<w1, w2, w3, w4, n1, n2, n3>>
  BY JoinFourThree
<1>5. <<w1, w2, w3, w4, n1, n2, n3>> \o <<r1, r2, r3>> = <<w1, w2, w3, w4, n1, n2, n3, r1, r2, r3>>
  BY JoinSevenThree
<1>6. Registers(on, c, d, e, s) = <<w1, w2, w3, w4, n1, n2, n3, r1, r2, r3>>
  BY <1>1, <1>2, <1>3, <1>4, <1>5
<1> QED
  BY <1>6 DEF w1, w2, w3, w4, n1, n2, n3, r1, r2, r3

LEMMA RegistersReleased ==
    ASSUME NEW on, NEW c, NEW d, NEW e
    PROVE  Registers(on, c, d, e, 0) =
             <<Switch("self_use", "self_use" \in on), Switch("tou", "tou" \in on),
               Switch("grid_charge", "grid_charge" \in on), Switch("feed_in", "feed_in" \in on),
               Number("charge", c), Number("discharge", d), Number("export", e),
               Number("rc_setpoint", 0), Unseen(Select("rc", "off"))>>
<1> DEFINE w1 == Switch("self_use", "self_use" \in on)
           w2 == Switch("tou", "tou" \in on)
           w3 == Switch("grid_charge", "grid_charge" \in on)
           w4 == Switch("feed_in", "feed_in" \in on)
           n1 == Number("charge", c)
           n2 == Number("discharge", d)
           n3 == Number("export", e)
           r1 == Number("rc_setpoint", 0)
           r2 == Unseen(Select("rc", "off"))
<1>1. RemoteControl(0) = <<r1, r2>>
  BY DEF RemoteControl
<1>2. Registers(on, c, d, e, 0) = Word(on) \o <<n1, n2, n3>> \o RemoteControl(0)
  BY DEF Registers
<1>3. Word(on) = <<w1, w2, w3, w4>>
  BY WordIs
<1> HIDE DEF w1, w2, w3, w4, n1, n2, n3, r1, r2
<1>4. <<w1, w2, w3, w4>> \o <<n1, n2, n3>> = <<w1, w2, w3, w4, n1, n2, n3>>
  BY JoinFourThree
<1>5. <<w1, w2, w3, w4, n1, n2, n3>> \o <<r1, r2>> = <<w1, w2, w3, w4, n1, n2, n3, r1, r2>>
  BY JoinSevenTwo
<1>6. Registers(on, c, d, e, 0) = <<w1, w2, w3, w4, n1, n2, n3, r1, r2>>
  BY <1>1, <1>2, <1>3, <1>4, <1>5
<1> QED
  BY <1>6 DEF w1, w2, w3, w4, n1, n2, n3, r1, r2

LEMMA SwitchesOf ==
    ASSUME NEW on, NEW bit \in Switches
    PROVE  Switch(bit, bit \in on) \in Entry
<1> DEFINE v == bit \in on
<1>1. v \in BOOLEAN
  OBVIOUS
<1> HIDE DEF v
<1>2. Switch(bit, v) \in Entry
  BY <1>1, SwitchEntry
<1> QED
  BY <1>2 DEF v

LEMMA Nine ==
    ASSUME NEW S, NEW a \in S, NEW b \in S, NEW c \in S, NEW d \in S, NEW e \in S, NEW f \in S,
           NEW g \in S, NEW h \in S, NEW j \in S
    PROVE  <<a, b, c, d, e, f, g, h, j>> \in Seq(S) /\ Len(<<a, b, c, d, e, f, g, h, j>>) = 9
OBVIOUS

LEMMA Ten ==
    ASSUME NEW S, NEW a \in S, NEW b \in S, NEW c \in S, NEW d \in S, NEW e \in S, NEW f \in S,
           NEW g \in S, NEW h \in S, NEW j \in S, NEW k \in S
    PROVE  <<a, b, c, d, e, f, g, h, j, k>> \in Seq(S) /\ Len(<<a, b, c, d, e, f, g, h, j, k>>) = 10
OBVIOUS

LEMMA TidyRegisters ==
    ASSUME NEW on, NEW c \in {0, 1, ExportCap, Rated, Charge, Discharge},
           NEW d \in {0, 1, ExportCap, Rated, Charge, Discharge},
           NEW e \in {0, 1, ExportCap, Rated, Charge, Discharge},
           NEW s \in {0, Rated, -Min({Charge, Rated})}
    PROVE  Tidy(Registers(on, c, d, e, s))
<1> DEFINE plan == Registers(on, c, d, e, s)
           place == [self_use |-> 1, tou |-> 2, grid_charge |-> 3, feed_in |-> 4, charge |-> 5,
                     discharge |-> 6, export |-> 7, rc |-> IF s = 0 THEN 9 ELSE 8,
                     rc_timeout |-> 9, rc_setpoint |-> IF s = 0 THEN 8 ELSE 10]
<1>1. /\ Switch("self_use", "self_use" \in on) \in Entry /\ Switch("tou", "tou" \in on) \in Entry
      /\ Switch("grid_charge", "grid_charge" \in on) \in Entry
      /\ Switch("feed_in", "feed_in" \in on) \in Entry
  BY SwitchesOf DEF Switches
<1>2. /\ Number("charge", c) \in Entry /\ Number("discharge", d) \in Entry
      /\ Number("export", e) \in Entry /\ Unseen(Number("rc_timeout", 1)) \in Entry
      /\ Number("rc_setpoint", s) \in Entry
  BY NumberEntry DEF Numbers
<1>3. Select("rc", "engaged") \in Entry /\ Unseen(Select("rc", "off")) \in Entry
  BY SelectEntry DEF Selects, States
<1>4. CASE s # 0
  <2>1. plan \in Seq(Entry) /\ Len(plan) = 10
    <3> DEFINE w1 == Switch("self_use", "self_use" \in on)
               w2 == Switch("tou", "tou" \in on)
               w3 == Switch("grid_charge", "grid_charge" \in on)
               w4 == Switch("feed_in", "feed_in" \in on)
               n1 == Number("charge", c)
               n2 == Number("discharge", d)
               n3 == Number("export", e)
               r1 == Select("rc", "engaged")
               r2 == Unseen(Number("rc_timeout", 1))
               r3 == Number("rc_setpoint", s)
    <3>1. plan = <<w1, w2, w3, w4, n1, n2, n3, r1, r2, r3>>
      BY <1>4, RegistersEngaged
    <3>2. {w1, w2, w3, w4, n1, n2, n3, r1, r2, r3} \subseteq Entry
      BY <1>1, <1>2, <1>3, <1>4
    <3> HIDE DEF w1, w2, w3, w4, n1, n2, n3, r1, r2, r3, plan
    <3> QED
      BY <3>1, <3>2, Ten
  <2>2. /\ plan[1].role = "self_use" /\ plan[2].role = "tou" /\ plan[3].role = "grid_charge"
        /\ plan[4].role = "feed_in" /\ plan[5].role = "charge" /\ plan[6].role = "discharge"
        /\ plan[7].role = "export" /\ plan[8].role = "rc" /\ plan[9].role = "rc_timeout"
        /\ plan[10].role = "rc_setpoint"
    BY <1>4, RegistersEngaged DEF Switch, Number, Select, Unseen, Write
  <2> HIDE DEF plan
  <2>3. \A i \in 1..10 : place[plan[i].role] = i
    BY <1>4, <2>2
  <2> HIDE DEF place
  <2>4. \A i, j \in 1..Len(plan) : plan[i].role = plan[j].role => i = j
    BY <2>1, <2>3
  <2>5. Len(plan) \in 2..10
    BY <2>1
  <2>6. Tidy(plan)
    BY <2>1, <2>4, <2>5 DEF Tidy
  <2> QED
    BY <2>6 DEF plan
<1>5. CASE s = 0
  <2>1. plan \in Seq(Entry) /\ Len(plan) = 9
    <3> DEFINE w1 == Switch("self_use", "self_use" \in on)
               w2 == Switch("tou", "tou" \in on)
               w3 == Switch("grid_charge", "grid_charge" \in on)
               w4 == Switch("feed_in", "feed_in" \in on)
               n1 == Number("charge", c)
               n2 == Number("discharge", d)
               n3 == Number("export", e)
               r1 == Number("rc_setpoint", 0)
               r2 == Unseen(Select("rc", "off"))
    <3>1. plan = <<w1, w2, w3, w4, n1, n2, n3, r1, r2>>
      BY <1>5, RegistersReleased
    <3>2. {w1, w2, w3, w4, n1, n2, n3, r1, r2} \subseteq Entry
      BY <1>1, <1>2, <1>3, <1>5
    <3> HIDE DEF w1, w2, w3, w4, n1, n2, n3, r1, r2, plan
    <3> QED
      BY <3>1, <3>2, Nine
  <2>2. /\ plan[1].role = "self_use" /\ plan[2].role = "tou" /\ plan[3].role = "grid_charge"
        /\ plan[4].role = "feed_in" /\ plan[5].role = "charge" /\ plan[6].role = "discharge"
        /\ plan[7].role = "export" /\ plan[8].role = "rc_setpoint" /\ plan[9].role = "rc"
    BY <1>5, RegistersReleased DEF Switch, Number, Select, Unseen, Write
  <2> HIDE DEF plan
  <2>3. \A i \in 1..9 : place[plan[i].role] = i
    BY <1>5, <2>2
  <2> HIDE DEF place
  <2>4. \A i, j \in 1..Len(plan) : plan[i].role = plan[j].role => i = j
    BY <2>1, <2>3
  <2>5. Len(plan) \in 2..10
    BY <2>1
  <2>6. Tidy(plan)
    BY <2>1, <2>4, <2>5 DEF Tidy
  <2> QED
    BY <2>6 DEF plan
<1> QED
  BY <1>4, <1>5

LEMMA TidySolis ==
    ASSUME NEW m \in Dispatched
    PROVE  Tidy(Solis[m])
<1>1. /\ ExportCap \in Nat /\ Rated \in Nat /\ Charge \in Nat /\ Discharge \in Nat
  BY PowersAssumption
<1> QED
  BY <1>1, TidyRegisters DEF Dispatched, Solis

\* Every plan of every platform.
LEMMA TidyPlans ==
    ASSUME NEW p \in Platforms, NEW m \in Dispatched
    PROVE  Tidy(Plans[p][m])
BY TidyHuawei, TidySolax, TidySungrow, TidyGoodwe, TidyDeye, TidySolis DEF Platforms, Plans

----------------------------------------------------------------------------
\* The invariant.

Specs == [mode : Dispatched \cup {NoMode}, tight : Numbers \cup {"none"}]

Job == [at : {"idle", "waiting", "writing"}, kind : {"apply", "hold", "beat"}, spec : Specs, next : Nat \ {0}]

Entities == [number : [Numbers -> Powers], select : [Selects -> States], switch : [Switches -> BOOLEAN]]

Forcible == [direction : {"none", "charge", "discharge"}, age : 0..Deadman]

Typed ==
    /\ TypeOK
    /\ jobs \in [Callers -> Job] /\ held \in Specs
    /\ entities \in Entities /\ forcible \in Forcible
    /\ platform = "solis" => unmapped = {}
    /\ platform # "solis" => tight \in {"none", "export"}

\* A caller works on what it was called for.
Called ==
    /\ jobs["module"].at # "idle" => /\ jobs["module"].kind \in {"apply", "hold"}
                                     /\ commanded # NoMode /\ jobs["module"].spec.mode = commanded
    /\ jobs["beat"].at # "idle" => jobs["beat"].kind = "beat"
    /\ \A c \in Callers : jobs[c].at = "waiting" => jobs[c].next = 1

This == [mode |-> commanded, tight |-> tight]

Agrees(write) ==
    write.kind # "service" /\ write.role \notin unmapped => entities[write.kind][write.role] = write.value

\* The first writes of the command's plan are in the entities.
Ordered == Effective(This)
InPlace(upto) == \A i \in 1..Len(Ordered) : i <= upto => Agrees(Ordered[i])

Applying == jobs["module"].at # "idle" /\ jobs["module"].kind = "apply"

\* What an undisturbed command has written so far, and after it all of it.
Applied ==
    ~disturbed /\ commanded # NoMode =>
        IF Applying
        THEN jobs["module"].spec = This /\ InPlace(jobs["module"].next - 1)
        ELSE /\ held = This /\ InPlace(Len(Ordered))
             /\ jobs["module"].at # "idle" => jobs["module"].spec = This
             /\ jobs["beat"].at = "writing" => jobs["beat"].spec = This

\* A beat is under way that has not reached the timed command yet.
Due == jobs["beat"].at # "idle" /\ jobs["beat"].next <= 3

\* Huawei's timed command is younger than the beats that did not reach it.
Renews ==
    loaded /\ ~disturbed /\ platform = "huawei" /\ unmapped = {} /\ commanded \in Forced =>
        IF Applying
        THEN jobs["module"].next > 3 => forcible.direction = Intended(commanded) /\ forcible.age <= faults
        ELSE /\ beating /\ forcible.direction = Intended(commanded)
             /\ forcible.age <= faults + (IF Due THEN 1 ELSE 0)

\* Huawei's stand-by has stopped the timed command with its second write.
Stops ==
    /\ ~disturbed /\ platform = "huawei" /\ unmapped = {} /\ commanded = "StandBy"
    /\ Applying => jobs["module"].next > 2
    => forcible.direction = "none"

\* The heartbeat belongs to the mode that is held, and to no entry that was unloaded unless an
\* apply_mode outlived it.  Once a forced mode is no longer wanted and a beat went by, nobody
\* has a forced plan to write.
Beats ==
    /\ ~Applying => held.mode = commanded
    /\ ~Applying /\ loaded => beating = KeepsAlive(platform, held.mode)
    /\ ~loaded /\ released # Late => ~beating
    /\ released > 0 => /\ ~beating /\ jobs["beat"].at = "idle"
                       /\ loaded \/ jobs["module"].at # "idle" => commanded \notin Forced

\* The timed command is as old as the time since a forced mode was wanted.
Ages ==
    platform = "huawei" /\ released > 0 /\ forcible.direction # "none" => forcible.age >= released

IInv == Typed /\ Called /\ Applied /\ Renews /\ Stops /\ Beats /\ Ages

----------------------------------------------------------------------------
\* What a plan becomes under the bounds.

\* Clamping keeps to the powers, and again changes nothing.
LEMMA Clamped ==
    ASSUME NEW role, NEW value \in Powers, NEW narrow
    PROVE  /\ Clamp(role, value, narrow) \in Powers
           /\ Clamp(role, Clamp(role, value, narrow), narrow) = Clamp(role, value, narrow)
<1>1. Tight \in Nat \ {0} /\ Rated \in Nat /\ Charge \in Nat /\ Discharge \in Nat /\ ExportCap \in Nat
  BY DriverAssumption, PowersAssumption
<1>2. value \in Int /\ -Tight \in Int
  BY <1>1 DEF Powers
<1>3. \A v \in Int : Max({-Tight, Min({v, Tight})}) =
          IF v > Tight THEN Tight ELSE IF v < -Tight THEN -Tight ELSE v
  <2> TAKE v \in Int
  <2>1. Min({v, Tight}) = IF v <= Tight THEN v ELSE Tight
    BY <1>1, Lesser
  <2>2. Min({v, Tight}) \in Int
    BY <1>1, <2>1
  <2>3. Max({-Tight, Min({v, Tight})}) = IF -Tight >= Min({v, Tight}) THEN -Tight ELSE Min({v, Tight})
    BY <1>2, <2>2, Larger
  <2> QED
    BY <1>1, <2>1, <2>3
<1>4. CASE role = narrow /\ role \notin unmapped
  <2> DEFINE w == IF value > Tight THEN Tight ELSE IF value < -Tight THEN -Tight ELSE value
  <2>1. Clamp(role, value, narrow) = w
    BY <1>2, <1>3, <1>4 DEF Clamp
  <2>2. w \in Int /\ w \in Powers
    BY <1>1, <1>2 DEF Powers
  <2>3. Clamp(role, w, narrow) = w
    BY <1>1, <1>2, <1>3, <1>4, <2>2 DEF Clamp
  <2> QED
    BY <2>1, <2>2, <2>3
<1>5. CASE ~(role = narrow /\ role \notin unmapped)
  BY <1>5 DEF Clamp
<1> QED
  BY <1>4, <1>5

\* A reduced write is a write of the same entity.
LEMMA Reduced ==
    ASSUME NEW write \in Entry, NEW narrow
    PROVE  /\ Reduce(write, narrow) \in Entry
           /\ Reduce(write, narrow).kind = write.kind /\ Reduce(write, narrow).role = write.role
           /\ Reduce(write, narrow).row = write.row
           /\ Reduce(write, narrow).value =
                 IF write.kind = "number" THEN Clamp(write.role, write.value, narrow) ELSE write.value
           /\ Reduce(Reduce(write, narrow), narrow) = Reduce(write, narrow)
<1>1. CASE write.kind = "number"
  <2> DEFINE v == Clamp(write.role, write.value, narrow)
  <2>1. write \in [kind : {"number"}, role : Numbers, value : Powers, row : BOOLEAN]
    BY <1>1 DEF Entry
  <2>2. v \in Powers /\ Clamp(write.role, v, narrow) = v
    BY <2>1, Clamped
  <2>3. Reduce(write, narrow) = [write EXCEPT !.value = v]
    BY <1>1 DEF Reduce
  <2>4. [write EXCEPT !.value = v] \in [kind : {"number"}, role : Numbers, value : Powers, row : BOOLEAN]
    BY <2>1, <2>2
  <2>5. /\ [write EXCEPT !.value = v].kind = "number" /\ [write EXCEPT !.value = v].role = write.role
        /\ [write EXCEPT !.value = v].row = write.row /\ [write EXCEPT !.value = v].value = v
    BY <2>1
  <2>6. Reduce([write EXCEPT !.value = v], narrow) = [[write EXCEPT !.value = v] EXCEPT !.value = v]
    BY <2>2, <2>5 DEF Reduce
  <2>7. [[write EXCEPT !.value = v] EXCEPT !.value = v] = [write EXCEPT !.value = v]
    BY <2>1
  <2> HIDE DEF v
  <2> QED
    BY <1>1, <2>3, <2>4, <2>5, <2>6, <2>7 DEF Entry, v
<1>2. CASE write.kind # "number"
  BY <1>2 DEF Reduce
<1> QED
  BY <1>1, <1>2

LEMMA EffectiveIs ==
    ASSUME NEW spec \in Specs, spec.mode # NoMode, platform \in Platforms
    PROVE  /\ Tidy(Effective(spec))
           /\ Len(Effective(spec)) = Len(Plans[platform][spec.mode])
           /\ \A i \in 1..Len(Effective(spec)) :
                 /\ Plans[platform][spec.mode][i] \in Entry
                 /\ Effective(spec)[i] = Reduce(Plans[platform][spec.mode][i], spec.tight)
                 /\ Reduce(Effective(spec)[i], spec.tight) = Effective(spec)[i]
<1> DEFINE plan == Plans[platform][spec.mode]
<1>1. Tidy(plan)
  BY TidyPlans DEF Specs
<1>2. Effective(spec) = [i \in DOMAIN plan |-> Reduce(plan[i], spec.tight)]
  BY DEF Effective
<1> HIDE DEF plan
<1>3. plan \in Seq(Entry) /\ DOMAIN plan = 1..Len(plan) /\ Len(plan) \in 2..10
  BY <1>1 DEF Tidy
<1>4. \A i \in 1..Len(plan) :
         /\ plan[i] \in Entry /\ Effective(spec)[i] = Reduce(plan[i], spec.tight)
         /\ Effective(spec)[i] \in Entry /\ Effective(spec)[i].kind = plan[i].kind
         /\ Effective(spec)[i].role = plan[i].role
         /\ Reduce(Effective(spec)[i], spec.tight) = Effective(spec)[i]
  BY <1>2, <1>3, Reduced
<1>5. Effective(spec) \in Seq(Entry) /\ Len(Effective(spec)) = Len(plan)
  BY <1>2, <1>3, <1>4
<1>6. Tidy(Effective(spec))
  BY <1>1, <1>3, <1>4, <1>5 DEF Tidy
<1> QED
  BY <1>4, <1>5, <1>6 DEF plan

\* What a caller writes is in the plan; an apply writes it in order.
LEMMA WritesIs ==
    ASSUME NEW job \in Job, job.spec.mode # NoMode, platform \in Platforms,
           NEW k \in 1..Len(Writes(job))
    PROVE  \E i \in 1..Len(Effective(job.spec)) :
              /\ Writes(job)[k] = Effective(job.spec)[i]
              /\ job.kind = "apply" => i = k
<1> DEFINE plan == Effective(job.spec)
<1>1. plan \in Seq(Entry) /\ Len(plan) \in Nat
  BY EffectiveIs DEF Job, Tidy
<1> HIDE DEF plan
<1>2. CASE job.kind = "apply"
  BY <1>1, <1>2 DEF Writes, plan
<1>3. CASE job.kind # "apply"
  <2>1. KeepsAlive(platform, job.spec.mode) /\ Writes(job) = Renewed(platform, plan)
    BY <1>3 DEF Writes, plan
  <2>2. CASE platform = "solis"
    <3>1. Writes(job) = SubSeq(plan, 8, Len(plan))
      BY <2>1, <2>2 DEF Renewed
    <3>2. \A i \in 8..Len(plan) : plan[i] \in Entry
      BY <1>1
    <3>3. /\ Len(Writes(job)) = IF 8 <= Len(plan) THEN Len(plan) - 8 + 1 ELSE 0
          /\ \A i \in 1..(Len(plan) - 8 + 1) : Writes(job)[i] = plan[8 + i - 1]
      BY <1>1, <3>1, <3>2, SubSeqProperties
    <3>4. 8 + k - 1 \in 1..Len(plan) /\ Writes(job)[k] = plan[8 + k - 1]
      BY <1>1, <3>3
    <3> QED
      BY <1>3, <3>4 DEF plan
  <2>3. CASE platform # "solis"
    BY <1>1, <1>3, <2>1, <2>3 DEF Renewed, plan
  <2> QED
    BY <2>2, <2>3
<1> QED
  BY <1>2, <1>3

\* What a write that gets through changes.
LEMMA Lands ==
    ASSUME Typed, NEW write \in Entry, Landed(write)
    PROVE  /\ entities' \in Entities /\ forcible' \in Forcible
           /\ \A kind \in {"number", "select", "switch"} : \A role \in DOMAIN entities[kind] :
                 kind # write.kind \/ role # write.role => entities'[kind][role] = entities[kind][role]
           /\ write.role \in unmapped => UNCHANGED device
           /\ write.kind # "service" => UNCHANGED forcible
           /\ write.role \notin unmapped /\ write.kind # "service" =>
                 entities'[write.kind][write.role] = Reduce(write, tight).value
           /\ write.role \notin unmapped /\ write.kind = "service" =>
                 forcible' = [direction |-> IF write.value = "stop" THEN "none" ELSE write.value, age |-> 0]
<1>1. entities \in Entities /\ forcible \in Forcible
  BY DEF Typed
<1>2. CASE write.role \in unmapped
  BY <1>1, <1>2 DEF Landed, device
<1>3. CASE write.role \notin unmapped /\ write.kind = "service"
  <2>1. entities' = entities
    BY <1>3 DEF Landed
  <2>2. forcible' = [direction |-> IF write.value = "stop" THEN "none" ELSE write.value, age |-> 0]
    BY <1>3 DEF Landed
  <2>3. write.value \in {"stop", "charge", "discharge"} /\ Deadman \in Nat
    BY <1>3, DriverAssumption DEF Entry
  <2>4. forcible' \in Forcible
    BY <2>2, <2>3 DEF Forcible
  <2> QED
    BY <1>1, <1>3, <2>1, <2>2, <2>4
<1>4. CASE write.role \notin unmapped /\ write.kind = "number"
  <2> DEFINE v == Clamp(write.role, write.value, tight)
  <2>1. write.role \in Numbers /\ write.value \in Powers
    BY <1>4 DEF Entry
  <2>2. v \in Powers /\ Reduce(write, tight).value = v
    BY <1>4, <2>1, Clamped, Reduced
  <2>3. entities' = [entities EXCEPT !["number"][write.role] = v] /\ UNCHANGED forcible
    BY <1>4 DEF Landed
  <2> HIDE DEF v
  <2> QED
    BY <1>1, <1>4, <2>1, <2>2, <2>3 DEF Entities
<1>5. CASE write.role \notin unmapped /\ write.kind = "select"
  <2>1. write.role \in Selects /\ write.value \in States /\ Reduce(write, tight).value = write.value
    BY <1>5, Reduced DEF Entry
  <2>3. entities' = [entities EXCEPT !["select"][write.role] = write.value] /\ UNCHANGED forcible
    BY <1>5 DEF Landed
  <2> QED
    BY <1>1, <1>5, <2>1, <2>3 DEF Entities
<1>6. CASE write.role \notin unmapped /\ write.kind = "switch"
  <2>1. write.role \in Switches /\ write.value \in BOOLEAN /\ Reduce(write, tight).value = write.value
    BY <1>6, Reduced DEF Entry
  <2>3. entities' = [entities EXCEPT !["switch"][write.role] = write.value] /\ UNCHANGED forcible
    BY <1>6 DEF Landed
  <2> QED
    BY <1>1, <1>6, <2>1, <2>3 DEF Entities
<1> QED
  BY <1>2, <1>3, <1>4, <1>5, <1>6 DEF Entry

----------------------------------------------------------------------------
\* The types, and what a caller works on.

\* What the entities show after a mode was set is a reading of each.
LEMMA ShownIs ==
    ASSUME NEW p \in Platforms, NEW mode \in Dispatched
    PROVE  Shown(p, mode) \in Entities
<1> DEFINE plan == Plans[p][mode]
           mine(kind, role) == {i \in DOMAIN plan : plan[i].kind = kind /\ plan[i].role = role}
           of(kind, role, default) == IF mine(kind, role) = {} THEN default ELSE plan[Max(mine(kind, role))].value
<1>1. /\ plan \in Seq(Entry) /\ DOMAIN plan = 1..Len(plan) /\ Len(plan) \in Nat
      /\ \A i, j \in 1..Len(plan) : plan[i].kind = plan[j].kind /\ plan[i].role = plan[j].role => i = j
  BY TidyPlans DEF Tidy
<1>2. Shown(p, mode) = [number |-> [r \in Numbers |-> of("number", r, 0)],
                        select |-> [r \in Selects |-> of("select", r, Unknown)],
                        switch |-> [r \in Switches |-> of("switch", r, FALSE)]]
  BY DEF Shown
<1> HIDE DEF plan
<1>3. ASSUME NEW kind, NEW role, NEW S, NEW default \in S,
             \A write \in Entry : write.kind = kind /\ write.role = role => write.value \in S
      PROVE  of(kind, role, default) \in S
  <2>1. CASE mine(kind, role) = {}
    BY <2>1
  <2>2. CASE mine(kind, role) # {}
    <3>1. PICK i \in 1..Len(plan) : i \in mine(kind, role)
      BY <1>1, <2>2
    <3>2. mine(kind, role) = {i}
      BY <1>1, <3>1
    <3>3. Max(mine(kind, role)) = i
      BY <1>1, <3>2, Larger
    <3>4. of(kind, role, default) = plan[i].value
      BY <2>2, <3>3
    <3>5. plan[i] \in Entry /\ plan[i].kind = kind /\ plan[i].role = role
      BY <1>1, <3>1
    <3>6. plan[i].value \in S
      BY <1>3, <3>5
    <3> HIDE DEF of, mine
    <3> QED
      BY <3>4, <3>6
  <2> QED
    BY <2>1, <2>2
<1> HIDE DEF of
<1>4. \A r \in Numbers : of("number", r, 0) \in Powers
  <2>1. 0 \in Powers
    BY PowersAssumption DEF Powers
  <2> QED
    BY <1>3, <2>1, EntryIs
<1>5. \A r \in Selects : of("select", r, Unknown) \in States
  <2>1. Unknown \in States
    BY DEF States
  <2> QED
    BY <1>3, <2>1, EntryIs
<1>6. \A r \in Switches : of("switch", r, FALSE) \in BOOLEAN
  <2>1. FALSE \in BOOLEAN
    OBVIOUS
  <2>2. \A write \in Entry : write.kind = "switch" => write.value \in BOOLEAN
    BY EntryIs
  <2> QED
    BY <1>3, <2>1, <2>2, Zenon
<1> DEFINE numbers == [r \in Numbers |-> of("number", r, 0)]
           selects == [r \in Selects |-> of("select", r, Unknown)]
           switches == [r \in Switches |-> of("switch", r, FALSE)]
<1>7. numbers \in [Numbers -> Powers] /\ selects \in [Selects -> States] /\ switches \in [Switches -> BOOLEAN]
  BY <1>4, <1>5, <1>6
<1>8. Shown(p, mode) = [number |-> numbers, select |-> selects, switch |-> switches]
  BY <1>2
<1> HIDE DEF numbers, selects, switches
<1> QED
  BY <1>7, <1>8 DEF Entities

LEMMA Starts == Init => IInv
<1> SUFFICES ASSUME Init PROVE IInv
  OBVIOUS
<1>1. NoSpec \in Specs /\ Resting \in Job
  BY DEF NoSpec, Resting, Specs, Job
<1>2. entities \in Entities
  BY ShownIs DEF Init, Dispatched
<1>3. forcible \in Forcible
  BY DriverAssumption DEF Init, Forcible
<1>4. jobs \in [Callers -> Job] /\ \A c \in Callers : jobs[c] = Resting
  BY <1>1 DEF Init
<1>5. TypeOK
  <2>1. unmapped \subseteq {"mode", "export", "device"} /\ tight \in Numbers \cup {"none"}
    BY DEF Init, Numbers
  <2>2. commanded = NoMode /\ held.mode = NoMode /\ faults \in 0..MaxFaults
    BY DriverAssumption DEF Init, NoSpec
  <2>3. released \in Late..(Deadman + 1)
    BY DriverAssumption DEF Init, Late
  <2> QED
    BY <1>2, <1>3, <1>4, <2>1, <2>2, <2>3 DEF TypeOK, Init, Entities, Forcible, Resting
<1>6. (platform = "solis" => unmapped = {}) /\ (platform # "solis" => tight \in {"none", "export"})
  BY DEF Init
<1>7. Called /\ Applied /\ Renews /\ Stops
  BY <1>4 DEF Called, Applied, Renews, Stops, Init, Resting, Forced
<1>8. Beats /\ Ages
  <2>1. /\ jobs["beat"].at = "idle" /\ held.mode = NoMode /\ commanded = NoMode /\ loaded
        /\ released = 0 /\ ~beating
    BY <1>4 DEF Init, Resting, NoSpec
  <2>2. beating \in BOOLEAN /\ KeepsAlive(platform, held.mode) \in BOOLEAN
    BY DEF Init, KeepsAlive
  <2>3. ~KeepsAlive(platform, held.mode)
    BY <2>1 DEF KeepsAlive, Forced
  <2>4. beating = KeepsAlive(platform, held.mode)
    BY <2>1, <2>2, <2>3, Zenon
  <2> QED
    BY <2>1, <2>4 DEF Beats, Ages
<1> QED
  BY <1>1, <1>2, <1>3, <1>4, <1>5, <1>6, <1>7, <1>8 DEF IInv, Typed, Init

\* The plan of a caller that writes is a sequence of writes.
LEMMA NextWrite ==
    ASSUME Typed, NEW c \in Callers, jobs[c].spec.mode # NoMode, jobs[c].next <= Len(Writes(jobs[c]))
    PROVE  /\ jobs[c] \in Job /\ jobs[c].spec \in Specs
           /\ Writes(jobs[c])[jobs[c].next] \in Entry
           /\ \E i \in 1..Len(Effective(jobs[c].spec)) :
                 /\ Writes(jobs[c])[jobs[c].next] = Effective(jobs[c].spec)[i]
                 /\ jobs[c].kind = "apply" => i = jobs[c].next
<1>1. jobs[c] \in Job /\ platform \in Platforms
  BY DEF Typed, TypeOK
<1>2. jobs[c].spec \in Specs /\ jobs[c].next \in Nat \ {0}
  BY <1>1 DEF Job
<1>3. Effective(jobs[c].spec) \in Seq(Entry)
  BY <1>1, <1>2, EffectiveIs DEF Tidy
<1>4. Len(Writes(jobs[c])) \in Nat
  <2>1. CASE jobs[c].kind = "apply"
    BY <1>3, <2>1 DEF Writes
  <2>2. CASE jobs[c].kind # "apply" /\ ~KeepsAlive(platform, jobs[c].spec.mode)
    BY <2>2 DEF Writes
  <2>3. CASE jobs[c].kind # "apply" /\ KeepsAlive(platform, jobs[c].spec.mode)
    <3>1. Writes(jobs[c]) = Renewed(platform, Effective(jobs[c].spec))
      BY <2>3 DEF Writes
    <3>2. Renewed(platform, Effective(jobs[c].spec)) \in Seq(Entry)
      BY <1>3 DEF Renewed
    <3> QED
      BY <3>1, <3>2
  <2> QED
    BY <2>1, <2>2, <2>3
<1>5. jobs[c].next \in 1..Len(Writes(jobs[c]))
  BY <1>2, <1>4
<1> DEFINE job == jobs[c]
           k == job.next
           plan == Effective(job.spec)
<1> HIDE DEF job, k, plan
<1>6. /\ job \in Job /\ job.spec.mode # NoMode /\ k \in 1..Len(Writes(job))
      /\ plan \in Seq(Entry)
  BY <1>1, <1>3, <1>5 DEF job, k, plan
<1>7. PICK i \in 1..Len(plan) : Writes(job)[k] = plan[i] /\ (job.kind = "apply" => i = k)
  BY <1>1, <1>6, WritesIs DEF plan
<1>8. plan[i] \in Entry
  BY <1>6
<1> QED
  BY <1>1, <1>2, <1>7, <1>8 DEF job, k, plan

LEMMA StaysTyped ==
    ASSUME Typed, Called, Next
    PROVE  Typed' /\ Called'
<1> USE DEF Typed, TypeOK, Called
<1>1. ASSUME NEW mode \in Dispatched, Command(mode)
      PROVE  Typed' /\ Called'
  <2> DEFINE job == [at |-> "waiting", kind |-> "apply", next |-> 1, spec |-> [mode |-> mode, tight |-> tight]]
  <2>1. job \in Job /\ mode # NoMode
    BY DEF Job, Specs, Dispatched
  <2>2. jobs' = [jobs EXCEPT !["module"] = job]
    BY <1>1 DEF Command
  <2>3. jobs' \in [Callers -> Job] /\ jobs'["module"] = job /\ jobs'["beat"] = jobs["beat"]
    BY <2>1, <2>2
  <2>4. /\ job.at = "waiting" /\ job.kind = "apply" /\ job.next = 1 /\ job.spec.mode = mode
        /\ jobs["module"].at = "idle" /\ commanded' = mode
        /\ UNCHANGED <<fixed, device, owner, held>>
        /\ beating' \in BOOLEAN /\ loaded' \in BOOLEAN /\ faults' \in 0..MaxFaults
        /\ disturbed' \in BOOLEAN /\ tight' = tight
        /\ released' \in {0, released}
    BY <1>1 DEF Command
  <2> HIDE DEF job
  <2>5. Called' /\ \A d \in Callers : (owner' = d) <=> (jobs'[d].at = "writing")
    BY <2>1, <2>3, <2>4
  <2> QED
    BY <2>1, <2>3, <2>4, <2>5, DriverAssumption DEF fixed, device, Job, Late
<1>2. CASE Hold
  <2> DEFINE job == [at |-> "waiting", kind |-> "hold", next |-> 1, spec |-> [mode |-> commanded, tight |-> tight]]
  <2>1. job \in Job
    BY DEF Job, Specs
  <2>2. jobs' = [jobs EXCEPT !["module"] = job]
    BY <1>2 DEF Hold
  <2>3. jobs' \in [Callers -> Job] /\ jobs'["module"] = job /\ jobs'["beat"] = jobs["beat"]
    BY <2>1, <2>2
  <2> QED
    BY <1>2, <2>3 DEF Hold, fixed, device
<1>3. ASSUME NEW c \in Callers, Acquire(c)
      PROVE  Typed' /\ Called'
  <2> DEFINE spec == IF c = "beat" THEN held ELSE jobs[c].spec
  <2>1. jobs[c] \in Job /\ spec \in Specs
    BY DEF Job
  <2>2. jobs' = [jobs EXCEPT ![c].at = "writing", ![c].spec = spec]
    BY <1>3 DEF Acquire
  <2>3. /\ jobs' \in [Callers -> Job] /\ jobs'[c].at = "writing" /\ jobs'[c].spec = spec
        /\ jobs'[c].kind = jobs[c].kind /\ jobs'[c].next = jobs[c].next
        /\ \A d \in Callers : d # c => jobs'[d] = jobs[d]
    BY <2>1, <2>2 DEF Job
  <2>4. held' = (IF jobs[c].kind = "hold" THEN spec ELSE held)
    BY <1>3 DEF Acquire
  <2>5. held' \in Specs /\ held'.mode \in Dispatched \cup {NoMode}
    BY <2>1, <2>4 DEF Specs
  <2>6. jobs[c].at = "waiting" /\ owner = "none" /\ owner' = c
    BY <1>3 DEF Acquire, Acquired
  <2>7. UNCHANGED <<fixed, tight, device, commanded, beating, loaded, faults, disturbed, released>>
    BY <1>3 DEF Acquire
  <2>8. c = "module" => spec = jobs[c].spec
    OBVIOUS
  <2> HIDE DEF spec
  <2>9. \A d \in Callers : /\ jobs'[d].at \in {"idle", "waiting", "writing"}
                           /\ jobs'[d].kind \in {"apply", "hold", "beat"}
    BY <2>3 DEF Job
  <2>10. Called'
    BY <2>3, <2>6, <2>7, <2>8
  <2>11. \A d \in Callers : (owner' = d) <=> (jobs'[d].at = "writing")
    BY <2>3, <2>6
  <2> QED
    BY <2>3, <2>5, <2>6, <2>7, <2>9, <2>10, <2>11 DEF fixed, device
<1>4. ASSUME NEW c \in Callers, WriteNext(c)
      PROVE  Typed' /\ Called'
  <2>1. /\ jobs[c].at = "writing" /\ jobs[c].spec.mode # NoMode /\ jobs[c].next <= Len(Writes(jobs[c]))
        /\ jobs' = [jobs EXCEPT ![c].next = @ + 1]
        /\ UNCHANGED <<fixed, tight, commanded, owner, held, beating, loaded, released>>
    BY <1>4 DEF WriteNext
  <2>2. jobs[c] \in Job
    OBVIOUS
  <2>3. /\ jobs' \in [Callers -> Job]
        /\ jobs'[c].at = jobs[c].at /\ jobs'[c].kind = jobs[c].kind /\ jobs'[c].spec = jobs[c].spec
        /\ \A d \in Callers : d # c => jobs'[d] = jobs[d]
    BY <2>1, <2>2 DEF Job
  <2>4. entities' \in Entities /\ forcible' \in Forcible
    <3>1. Writes(jobs[c])[jobs[c].next] \in Entry
      BY <2>1, NextWrite
    <3>2. CASE Landed(Writes(jobs[c])[jobs[c].next])
      BY <3>1, <3>2, Lands
    <3>3. CASE UNCHANGED device
      BY <3>3 DEF device
    <3> QED
      BY <1>4, <3>2, <3>3 DEF WriteNext
  <2>5. faults' \in 0..MaxFaults /\ disturbed' \in BOOLEAN
    <3>1. \/ UNCHANGED <<faults, disturbed>>
          \/ /\ faults < MaxFaults /\ faults' = faults + 1
             /\ disturbed' = (disturbed \/ jobs[c].kind = "apply")
      BY <1>4 DEF WriteNext
    <3>2. faults' \in 0..MaxFaults
      BY <3>1, DriverAssumption
    <3>3. disturbed' \in BOOLEAN
      BY <3>1
    <3> QED
      BY <3>2, <3>3
  <2>6. Called'
    BY <2>1, <2>3
  <2>7. TypeOK'
    BY <2>1, <2>3, <2>4, <2>5 DEF Entities, Forcible, fixed, Job
  <2> QED
    BY <2>1, <2>3, <2>4, <2>6, <2>7 DEF fixed
<1>5. ASSUME NEW c \in Callers, Finish(c)
      PROVE  Typed' /\ Called'
  <2>1. /\ jobs[c].at = "writing" /\ jobs' = [jobs EXCEPT ![c] = Resting] /\ owner' = "none"
        /\ UNCHANGED <<fixed, tight, device, commanded, loaded, faults, disturbed>>
        /\ released' \in {released, Late}
    BY <1>5 DEF Finish
  <2>2. Resting \in Job /\ Resting.at = "idle"
    BY DEF Resting, NoSpec, Job, Specs
  <2>3. /\ jobs' \in [Callers -> Job] /\ jobs'[c].at = "idle"
        /\ \A d \in Callers : d # c => jobs'[d] = jobs[d]
    BY <2>1, <2>2
  <2>4. jobs[c] \in Job /\ jobs[c].spec \in Specs
    BY DEF Job
  <2>5. held' \in Specs /\ beating' \in BOOLEAN
    BY <1>5, <2>4 DEF Finish, Phased, KeepsAlive
  <2>6. \A d \in Callers : (owner' = d) <=> (jobs'[d].at = "writing")
    BY <2>1, <2>3
  <2>7. Called'
    BY <2>1, <2>3
  <2>8. TypeOK'
    <3>1. released' \in Late..(Deadman + 1)
      BY <2>1, DriverAssumption DEF Late
    <3> QED
      BY <2>1, <2>3, <2>5, <2>6, <3>1 DEF fixed, device, Job, Specs
  <2> QED
    BY <2>1, <2>3, <2>5, <2>7, <2>8 DEF fixed, device
<1>6. CASE Tick
  <2> DEFINE beat == [Resting EXCEPT !.at = "waiting", !.kind = "beat"]
  <2>1. beat \in Job /\ beat.at = "waiting" /\ beat.kind = "beat" /\ beat.next = 1
    <3>1. Resting \in Job /\ Resting.next = 1
      BY DEF Resting, NoSpec, Job, Specs
    <3> QED
      BY <3>1 DEF Job
  <2>2. /\ \A d \in Callers : jobs[d].at = "idle"
        /\ jobs' = IF beating THEN [jobs EXCEPT !["beat"] = beat] ELSE jobs
        /\ UNCHANGED <<fixed, tight, entities, commanded, owner, held, beating, loaded, faults, disturbed>>
    BY <1>6 DEF Tick
  <2> HIDE DEF beat
  <2>3. /\ jobs' \in [Callers -> Job] /\ jobs'["module"] = jobs["module"]
        /\ jobs'["beat"] = beat \/ jobs'["beat"] = jobs["beat"]
    BY <2>1, <2>2
  <2>4. forcible' \in Forcible
    BY <1>6, DriverAssumption DEF Tick, Forcible
  <2>5. Called' /\ \A d \in Callers : (owner' = d) <=> (jobs'[d].at = "writing")
    BY <2>1, <2>2, <2>3
  <2>6. TypeOK'
    <3>1. \A d \in Callers : jobs[d].spec \in Specs /\ jobs'[d] \in Job
      BY <2>3 DEF Job
    <3>2. \A d \in Callers : jobs'[d].spec \in Specs
      BY <3>1 DEF Job
    <3>3. released' \in Late..(Deadman + 1)
      <4>1. \/ released' = released
            \/ released # Late /\ released' = Min({released + 1, Deadman + 1})
        <5>1. CASE released = Late \/ (loaded /\ commanded \in Forced)
          BY <1>6, <5>1 DEF Tick
        <5>2. CASE ~(released = Late \/ (loaded /\ commanded \in Forced))
          BY <1>6, <5>2 DEF Tick
        <5> QED
          BY <5>1, <5>2
      <4>2. Min({released + 1, Deadman + 1}) =
               IF released + 1 <= Deadman + 1 THEN released + 1 ELSE Deadman + 1
        BY Lesser, DriverAssumption DEF Late
      <4> QED
        BY <4>1, <4>2, DriverAssumption DEF Late
    <3> QED
      BY <2>2, <2>3, <2>4, <2>5, <3>1, <3>2, <3>3 DEF fixed, Job, Forcible
  <2> QED
    BY <2>2, <2>3, <2>4, <2>5, <2>6 DEF fixed
<1>7. CASE Shutdown
  <2>1. /\ UNCHANGED <<fixed, tight, device, commanded, jobs, owner, held, faults, disturbed, released>>
        /\ loaded' = FALSE /\ beating' = FALSE
    BY <1>7 DEF Shutdown
  <2>2. Called'
    BY <2>1
  <2>3. TypeOK'
    BY <2>1 DEF fixed, device
  <2> QED
    BY <2>1, <2>2, <2>3 DEF fixed, device
<1>8. CASE Foreign
  <2>1. UNCHANGED <<fixed, commanded, jobs, owner, held, beating, loaded, released>> /\ faults' \in 0..MaxFaults /\ disturbed' = TRUE
    BY <1>8, DriverAssumption DEF Foreign
  <2>2. entities' \in Entities /\ forcible' \in Forcible /\ tight' \in {tight, "export", "none"}
    <3>1. CASE UNCHANGED device
      BY <1>8, <3>1 DEF Foreign, device
    <3>2. ASSUME NEW mode \in Dispatched, NEW i \in 1..2, Landed(Plans[platform][mode][i])
          PROVE  entities' \in Entities /\ forcible' \in Forcible
      <4>1. Plans[platform][mode][i] \in Entry
        BY TidyPlans DEF Tidy
      <4> QED
        BY <3>2, <4>1, Lands
    <3> QED
      BY <1>8, <3>1, <3>2 DEF Foreign
  <2>3. TypeOK'
    BY <2>1, <2>2 DEF fixed, Entities, Forcible, Numbers
  <2> QED
    BY <2>1, <2>2, <2>3 DEF fixed
<1> QED
  BY <1>1, <1>2, <1>3, <1>4, <1>5, <1>6, <1>7, <1>8 DEF Next

----------------------------------------------------------------------------
\* What an undisturbed command has written.

LEMMA OrderedIs ==
    ASSUME Typed, commanded # NoMode
    PROVE  /\ This \in Specs /\ This.mode = commanded /\ This.tight = tight /\ Tidy(Ordered)
           /\ Len(Ordered) = Len(Plans[platform][commanded])
           /\ \A i \in 1..Len(Ordered) :
                /\ Plans[platform][commanded][i] \in Entry
                /\ Ordered[i] = Reduce(Plans[platform][commanded][i], tight)
                /\ Reduce(Ordered[i], tight) = Ordered[i]
<1>1. This \in Specs /\ This.mode = commanded /\ This.tight = tight
  BY DEF Typed, TypeOK, This, Specs
<1> QED
  BY <1>1, EffectiveIs DEF Typed, TypeOK, Ordered

LEMMA SameOrdered ==
    ASSUME UNCHANGED <<fixed, tight, commanded>>
    PROVE  Ordered' = Ordered
BY DEF fixed, Ordered, Effective, Reduce, Clamp, This

\* A write of the plan puts itself in place and moves no other one.
LEMMA LandsInPlace ==
    ASSUME Typed, commanded # NoMode, UNCHANGED <<fixed, tight, commanded>>,
           NEW k \in 1..Len(Ordered), Landed(Ordered[k])
    PROVE  /\ \A n \in Nat : InPlace(n) => InPlace(n)'
           /\ InPlace(k - 1) => InPlace(k)'
<1>1. /\ Ordered \in Seq(Entry) /\ Len(Ordered) \in Nat
      /\ \A i, j \in 1..Len(Ordered) :
            Ordered[i].kind = Ordered[j].kind /\ Ordered[i].role = Ordered[j].role => i = j
      /\ \A i \in 1..Len(Ordered) : Reduce(Ordered[i], tight) = Ordered[i]
  BY OrderedIs DEF Tidy
<1>2. Ordered[k] \in Entry /\ Ordered' = Ordered /\ unmapped' = unmapped
  BY <1>1, SameOrdered DEF fixed
<1>3. ASSUME NEW i \in 1..Len(Ordered), Agrees(Ordered[i]) \/ i = k
      PROVE  Agrees(Ordered[i])'
  <2>1. SUFFICES ASSUME Ordered[i].kind # "service", Ordered[i].role \notin unmapped
                 PROVE  entities'[Ordered[i].kind][Ordered[i].role] = Ordered[i].value
    BY <1>2 DEF Agrees
  <2>2. CASE i = k
    BY <1>1, <1>2, <2>1, <2>2, Lands
  <2>3. CASE i # k
    <3>1. Ordered[i].kind # Ordered[k].kind \/ Ordered[i].role # Ordered[k].role
      BY <1>1, <2>3
    <3>2. Ordered[i] \in Entry
      BY <1>1
    <3>3. Ordered[i].kind \in {"number", "select", "switch"} /\ Ordered[i].role \in DOMAIN entities[Ordered[i].kind]
      BY <2>1, <3>2, EntryIs DEF Typed, Entities
    <3>4. entities'[Ordered[i].kind][Ordered[i].role] = entities[Ordered[i].kind][Ordered[i].role]
      BY <1>2, <3>1, <3>3, Lands
    <3> QED
      BY <1>3, <2>1, <2>3, <3>4 DEF Agrees
  <2> QED
    BY <2>2, <2>3
<1> QED
  BY <1>1, <1>2, <1>3 DEF InPlace

LEMMA StaysApplied ==
    ASSUME IInv, Next
    PROVE  Applied'
<1> USE DEF IInv
<1>1. SUFFICES ASSUME ~disturbed', commanded' # NoMode
               PROVE  Applied'
  BY DEF Applied
<1>2. jobs \in [Callers -> Job] /\ \A c \in Callers : jobs[c] \in Job
  BY DEF Typed
<1>3. Typed' /\ Called'
  BY StaysTyped
<1>5. ASSUME NEW mode \in Dispatched, Command(mode)
      PROVE  Applied'
  <2>1. /\ jobs'["module"].kind = "apply" /\ jobs'["module"].next = 1
        /\ jobs'["module"].spec = [mode |-> mode, tight |-> tight]
        /\ commanded' = mode /\ tight' = tight /\ Applying'
    BY <1>2, <1>5 DEF Command, Applying
  <2>2. InPlace(jobs["module"].next - 1)'
    BY <2>1 DEF InPlace
  <2> QED
    BY <2>1, <2>2 DEF This, Applied
<1>6. CASE Hold
  <2>1. /\ jobs' = [jobs EXCEPT !["module"] = [at |-> "waiting", kind |-> "hold", next |-> 1, spec |-> This]]
        /\ jobs["module"].at = "idle" /\ commanded # NoMode
        /\ UNCHANGED <<fixed, tight, device, commanded, held, disturbed>>
    BY <1>6 DEF Hold, This
  <2>2. /\ jobs'["module"].kind = "hold" /\ jobs'["module"].spec = This /\ jobs'["beat"] = jobs["beat"]
        /\ ~Applying /\ ~Applying'
    BY <1>2, <2>1 DEF Applying
  <2>3. /\ held = This /\ InPlace(Len(Ordered))
        /\ jobs["beat"].at = "writing" => jobs["beat"].spec = This
    BY <1>1, <2>1, <2>2 DEF Applied
  <2>4. This' = This /\ Ordered' = Ordered
    BY <2>1, SameOrdered DEF This
  <2>5. InPlace(Len(Ordered))'
    BY <2>1, <2>3, <2>4 DEF InPlace, Agrees, fixed, device
  <2> QED
    BY <1>1, <2>1, <2>2, <2>3, <2>4, <2>5 DEF Applied
<1>7. ASSUME NEW c \in Callers, Acquire(c)
      PROVE  Applied'
  <2> DEFINE spec == IF c = "beat" THEN held ELSE jobs[c].spec
  <2>1. /\ jobs' = [jobs EXCEPT ![c].at = "writing", ![c].spec = spec]
        /\ held' = IF jobs[c].kind = "hold" THEN spec ELSE held
        /\ jobs[c].at = "waiting" /\ owner = "none"
        /\ UNCHANGED <<fixed, tight, device, commanded, disturbed>>
    BY <1>7 DEF Acquire, Acquired
  <2>2. /\ jobs'[c].at = "writing" /\ jobs'[c].spec = spec
        /\ \A d \in Callers : jobs'[d].kind = jobs[d].kind /\ jobs'[d].next = jobs[d].next
        /\ \A d \in Callers : d # c => jobs'[d] = jobs[d]
    BY <1>2, <2>1 DEF Job
  <2>3. ~disturbed /\ commanded # NoMode /\ This' = This /\ Ordered' = Ordered
    BY <1>1, <2>1, SameOrdered DEF This
  <2>4. Applying' = Applying
    BY <2>1, <2>2 DEF Applying
  <2>5. \A d \in Callers : jobs[d].at # "writing"
    BY <2>1 DEF Typed, TypeOK
  <2>6. CASE Applying
    <3>1. jobs["module"].spec = This /\ InPlace(jobs["module"].next - 1)
      BY <2>3, <2>6 DEF Applied
    <3>2. InPlace(jobs["module"].next - 1)'
      BY <2>1, <2>2, <2>3, <3>1 DEF InPlace, Agrees, fixed, device
    <3>3. jobs'["module"].spec = This
      BY <2>2, <3>1
    <3> QED
      BY <2>3, <2>4, <2>6, <3>2, <3>3 DEF Applied
  <2>7. CASE ~Applying
    <3>1. /\ held = This /\ InPlace(Len(Ordered))
          /\ jobs["module"].at # "idle" => jobs["module"].spec = This
      BY <2>3, <2>7 DEF Applied
    <3>2. InPlace(Len(Ordered))'
      BY <2>1, <2>3, <3>1 DEF InPlace, Agrees, fixed, device
    <3>3. spec = This
      BY <2>1, <3>1
    <3>4. held' = This
      BY <2>1, <3>1, <3>3
    <3>5. /\ jobs'["module"].at # "idle" => jobs'["module"].spec = This
          /\ jobs'["beat"].at = "writing" => jobs'["beat"].spec = This
      BY <2>1, <2>2, <2>5, <3>1, <3>3
    <3> QED
      BY <2>3, <2>4, <2>7, <3>2, <3>4, <3>5 DEF Applied
  <2> QED
    BY <2>6, <2>7
<1>8. ASSUME NEW c \in Callers, WriteNext(c)
      PROVE  Applied'
  <2> DEFINE job == jobs[c]
             write == Writes(job)[job.next]
  <2>1. /\ job.at = "writing" /\ job.spec.mode # NoMode /\ job.next <= Len(Writes(job))
        /\ jobs' = [jobs EXCEPT ![c].next = @ + 1]
        /\ UNCHANGED <<fixed, tight, commanded, owner, held, beating, loaded>>
        /\ \/ Landed(write) /\ UNCHANGED disturbed
           \/ disturbed' = (disturbed \/ job.kind = "apply") /\ UNCHANGED device
    BY <1>8 DEF WriteNext
  <2>2. /\ jobs'[c].next = job.next + 1 /\ job.next \in Nat \ {0}
        /\ \A d \in Callers : /\ jobs'[d].at = jobs[d].at /\ jobs'[d].kind = jobs[d].kind
                             /\ jobs'[d].spec = jobs[d].spec
        /\ \A d \in Callers : d # c => jobs'[d] = jobs[d]
    BY <1>2, <2>1 DEF Job
  <2>3. ~disturbed /\ commanded # NoMode /\ This' = This /\ Ordered' = Ordered
    <3>1. ~disturbed
      BY <1>1, <2>1, Zenon
    <3>2. commanded # NoMode /\ This' = This /\ Ordered' = Ordered
      BY <1>1, <2>1, SameOrdered DEF This
    <3> QED
      BY <3>1, <3>2
  <2>4. Applying' = Applying
    BY <2>2 DEF Applying
  <2>5. PICK k \in 1..Len(Effective(job.spec)) :
            write = Effective(job.spec)[k] /\ (job.kind = "apply" => k = job.next)
    BY <2>1, NextWrite
  <2>6. owner = c /\ \A d \in Callers : d # c => jobs[d].at # "writing"
    BY <2>1 DEF Typed, TypeOK
  <2> HIDE DEF write
  <2>7. CASE Applying /\ c = "module"
    <3>1. job.spec = This /\ InPlace(job.next - 1) /\ job.kind = "apply"
      BY <2>3, <2>7 DEF Applied, Applying
    <3>2. Landed(write)
      BY <1>1, <2>1, <3>1
    <3>3. k = job.next /\ k \in 1..Len(Ordered) /\ write = Ordered[k]
      BY <2>5, <3>1 DEF Ordered
    <3>4. InPlace(k - 1) => InPlace(k)'
      BY <2>1, <2>3, <3>2, <3>3, LandsInPlace
    <3>5. Len(Ordered) \in Nat
      BY <2>3, OrderedIs DEF Tidy
    <3>6. InPlace(jobs["module"].next - 1)'
      BY <2>2, <2>7, <3>1, <3>3, <3>4 DEF InPlace
    <3> QED
      BY <2>2, <2>3, <2>4, <2>7, <3>1, <3>6 DEF Applied
  <2>8. CASE Applying /\ c = "beat"
    <3>1. jobs["module"].at = "waiting" /\ jobs["module"].next = 1
      BY <1>2, <2>6, <2>8 DEF Called, Applying, Job
    <3>2. jobs'["module"] = jobs["module"]
      BY <2>2, <2>8
    <3>3. InPlace(jobs["module"].next - 1)'
      BY <3>1, <3>2 DEF InPlace
    <3>4. jobs["module"].spec = This
      BY <2>3, <2>8 DEF Applied
    <3> QED
      BY <2>3, <2>4, <2>8, <3>2, <3>3, <3>4 DEF Applied
  <2>9. CASE ~Applying
    <3>1. /\ held = This /\ InPlace(Len(Ordered))
          /\ jobs["module"].at # "idle" => jobs["module"].spec = This
          /\ jobs["beat"].at = "writing" => jobs["beat"].spec = This
      BY <2>3, <2>9 DEF Applied
    <3>2. job.spec = This
      BY <2>1, <3>1
    <3>3. k \in 1..Len(Ordered) /\ write = Ordered[k]
      BY <2>5, <3>2 DEF Ordered
    <3>4. Len(Ordered) \in Nat
      BY <2>3, OrderedIs DEF Tidy
    <3>5. InPlace(Len(Ordered))'
      <4>1. CASE Landed(write)
        BY <2>1, <2>3, <3>1, <3>3, <3>4, <4>1, LandsInPlace DEF InPlace
      <4>2. CASE UNCHANGED device
        BY <2>1, <2>3, <3>1, <4>2 DEF InPlace, Agrees, fixed, device
      <4> QED
        BY <2>1, <4>1, <4>2
    <3> QED
      BY <2>1, <2>2, <2>3, <2>4, <2>9, <3>1, <3>5 DEF Applied
  <2> QED
    BY <2>7, <2>8, <2>9
<1>9. ASSUME NEW c \in Callers, Finish(c)
      PROVE  Applied'
  <2> DEFINE job == jobs[c]
  <2>1. /\ job.at = "writing" /\ (job.spec.mode = NoMode \/ job.next > Len(Writes(job)))
        /\ jobs' = [jobs EXCEPT ![c] = Resting]
        /\ held' = IF job.kind = "apply" THEN job.spec ELSE held
        /\ UNCHANGED <<fixed, tight, device, commanded, disturbed>>
    BY <1>9 DEF Finish
  <2>2. jobs'[c].at = "idle" /\ \A d \in Callers : d # c => jobs'[d] = jobs[d]
    BY <1>2, <2>1 DEF Resting
  <2>3. ~disturbed /\ commanded # NoMode /\ This' = This /\ Ordered' = Ordered
    BY <1>1, <2>1, SameOrdered DEF This
  <2>4. \A d \in Callers : d # c => jobs[d].at # "writing"
    BY <2>1 DEF Typed, TypeOK
  <2>5. Len(Ordered) \in Nat
    BY <2>3, OrderedIs DEF Tidy
  <2>6. CASE Applying /\ c = "module"
    <3>1. job.spec = This /\ InPlace(job.next - 1) /\ job.kind = "apply" /\ job.next \in Nat
      BY <1>2, <2>3, <2>6 DEF Applied, Applying, Job
    <3>2. Writes(job) = Ordered
      BY <3>1 DEF Writes, Ordered
    <3>3. job.next > Len(Ordered)
      BY <2>1, <2>3, <3>1, <3>2 DEF This
    <3>4. InPlace(Len(Ordered))'
      BY <2>1, <2>3, <2>5, <3>1, <3>3 DEF InPlace, Agrees, fixed, device
    <3>5. held' = This /\ ~Applying'
      BY <2>1, <2>2, <2>6, <3>1 DEF Applying
    <3> QED
      BY <2>2, <2>3, <2>4, <2>6, <3>4, <3>5 DEF Applied
  <2>7. CASE Applying /\ c = "beat"
    <3>1. jobs'["module"] = jobs["module"] /\ Applying'
      BY <2>2, <2>7 DEF Applying
    <3>2. jobs["module"].spec = This /\ InPlace(jobs["module"].next - 1)
      BY <2>3, <2>7 DEF Applied
    <3>3. InPlace(jobs["module"].next - 1)'
      BY <2>1, <2>3, <3>1, <3>2 DEF InPlace, Agrees, fixed, device
    <3> QED
      BY <2>3, <3>1, <3>2, <3>3 DEF Applied
  <2>8. CASE ~Applying
    <3>1. /\ held = This /\ InPlace(Len(Ordered)) /\ job.kind # "apply"
          /\ jobs["module"].at # "idle" => jobs["module"].spec = This
          /\ jobs["beat"].at = "writing" => jobs["beat"].spec = This
      BY <2>1, <2>3, <2>8 DEF Applied, Applying, Called
    <3>2. InPlace(Len(Ordered))'
      BY <2>1, <2>3, <3>1 DEF InPlace, Agrees, fixed, device
    <3>3. ~Applying'
      BY <2>2, <2>8 DEF Applying
    <3> QED
      BY <2>1, <2>2, <2>3, <3>1, <3>2, <3>3 DEF Applied
  <2> QED
    BY <2>6, <2>7, <2>8
<1>10. CASE Tick
  <2>1. /\ \A d \in Callers : jobs[d].at = "idle"
        /\ jobs' = IF beating THEN [jobs EXCEPT !["beat"] = [Resting EXCEPT !.at = "waiting", !.kind = "beat"]]
                   ELSE jobs
        /\ UNCHANGED <<fixed, tight, entities, commanded, held, disturbed>>
    BY <1>10 DEF Tick
  <2>2. jobs'["module"] = jobs["module"] /\ jobs'["beat"].at # "writing" /\ ~Applying /\ ~Applying'
    BY <1>2, <2>1 DEF Resting, Applying
  <2>3. ~disturbed /\ commanded # NoMode /\ This' = This /\ Ordered' = Ordered
    BY <1>1, <2>1, SameOrdered DEF This
  <2>4. held = This /\ InPlace(Len(Ordered))
    BY <2>2, <2>3 DEF Applied
  <2>5. InPlace(Len(Ordered))'
    BY <2>1, <2>3, <2>4 DEF InPlace, Agrees, fixed
  <2> QED
    BY <2>1, <2>2, <2>3, <2>4, <2>5 DEF Applied
<1>11. CASE Shutdown
  <2>1. UNCHANGED <<fixed, tight, device, commanded, jobs, held, disturbed>>
    BY <1>11 DEF Shutdown
  <2>2. This' = This /\ Ordered' = Ordered /\ Applying' = Applying
    BY <2>1, SameOrdered DEF This, Applying
  <2> QED
    <3>1. ~disturbed /\ commanded # NoMode
      BY <1>1, <2>1
    <3>2. InPlace(jobs["module"].next - 1) => InPlace(jobs["module"].next - 1)'
      BY <2>1, <2>2 DEF InPlace, Agrees, fixed, device
    <3>3. InPlace(Len(Ordered)) => InPlace(Len(Ordered))'
      BY <2>1, <2>2 DEF InPlace, Agrees, fixed, device
    <3> QED
      BY <2>1, <2>2, <3>1, <3>2, <3>3 DEF Applied
<1>12. CASE Foreign
  BY <1>1, <1>12 DEF Foreign
<1> QED
  BY <1>5, <1>6, <1>7, <1>8, <1>9, <1>10, <1>11, <1>12 DEF Next

----------------------------------------------------------------------------
\* Huawei's timed command is renewed.

\* Huawei's forced plans end with the timed command, and every caller writes the whole plan.
LEMMA HuaweiForced ==
    ASSUME Typed, platform = "huawei", commanded \in Forced
    PROVE  /\ commanded # NoMode /\ Len(Ordered) = 3
           /\ Ordered[1].kind # "service" /\ Ordered[2].kind # "service"
           /\ Ordered[3] = Service(Intended(commanded))
           /\ \A job \in Job : job.spec = This => Writes(job) = Ordered
<1> DEFINE plan == Plans[platform][commanded]
<1>1. commanded # NoMode /\ commanded \in Dispatched
  BY DEF Forced, Dispatched
<1>2. plan = Huawei[commanded]
  BY DEF Plans
<1>3. /\ Len(plan) = 3 /\ plan[1].kind # "service" /\ plan[2].kind # "service"
      /\ plan[3] = Service(Intended(commanded))
  <2>1. CASE commanded = "GridCharge"
    BY <1>2, <2>1 DEF Huawei, Select, Switch, Number, Write, Service, Intended
  <2>2. CASE commanded = "Discharge"
    BY <1>2, <2>2 DEF Huawei, Select, Switch, Number, Write, Service, Intended
  <2> QED
    BY <2>1, <2>2 DEF Forced
<1>4. /\ Len(Ordered) = Len(plan)
      /\ \A i \in 1..Len(Ordered) : plan[i] \in Entry /\ Ordered[i] = Reduce(plan[i], tight)
  BY <1>1, OrderedIs
<1> HIDE DEF plan
<1>5. /\ Ordered[1] = Reduce(plan[1], tight) /\ Ordered[2] = Reduce(plan[2], tight)
      /\ Ordered[3] = Reduce(plan[3], tight) /\ plan[1] \in Entry /\ plan[2] \in Entry
  BY <1>3, <1>4
<1>6. Reduce(plan[3], tight) = plan[3]
  BY <1>3 DEF Reduce, Service
<1>7. ASSUME NEW job \in Job, job.spec = This
      PROVE  Writes(job) = Ordered
  BY <1>7 DEF Writes, KeepsAlive, Renewed, Ordered, This
<1> QED
  BY <1>1, <1>3, <1>4, <1>5, <1>6, <1>7, Reduced

LEMMA StaysRenewed ==
    ASSUME IInv, Next
    PROVE  Renews'
<1> USE DEF IInv
<1>1. SUFFICES ASSUME loaded', ~disturbed', platform' = "huawei", unmapped' = {}, commanded' \in Forced
               PROVE  Renews'
  BY DEF Renews
<1>2. jobs \in [Callers -> Job] /\ \A c \in Callers : jobs[c] \in Job /\ jobs[c].next \in Nat \ {0}
  BY DEF Typed, Job
<1>3. /\ faults \in Nat /\ faults <= MaxFaults /\ forcible \in Forcible /\ forcible.age \in Nat
      /\ platform \in Platforms /\ Deadman \in Nat /\ MaxFaults \in Nat
  BY DriverAssumption DEF Typed, TypeOK, Forcible
<1>4. ASSUME NEW mode \in Dispatched, Command(mode)
      PROVE  Renews'
  BY <1>2, <1>4 DEF Command, Renews, Applying
<1>5. CASE Hold
  <2>1. /\ jobs' = [jobs EXCEPT !["module"] = [at |-> "waiting", kind |-> "hold", next |-> 1,
                                               spec |-> [mode |-> commanded, tight |-> tight]]]
        /\ jobs["module"].at = "idle"
        /\ UNCHANGED <<fixed, forcible, commanded, beating, loaded, faults, disturbed>>
    BY <1>5 DEF Hold, device
  <2>2. ~Applying /\ ~Applying' /\ jobs'["beat"] = jobs["beat"]
    BY <1>2, <2>1 DEF Applying
  <2> QED
    BY <1>1, <2>1, <2>2 DEF Renews, Due, Intended, fixed
<1>6. ASSUME NEW c \in Callers, Acquire(c)
      PROVE  Renews'
  <2> DEFINE spec == IF c = "beat" THEN held ELSE jobs[c].spec
  <2>1. /\ jobs' = [jobs EXCEPT ![c].at = "writing", ![c].spec = spec]
        /\ jobs[c].at = "waiting"
        /\ UNCHANGED <<fixed, forcible, commanded, beating, loaded, faults, disturbed>>
    BY <1>6 DEF Acquire, Acquired, device
  <2>2. \A d \in Callers : /\ jobs'[d].kind = jobs[d].kind /\ jobs'[d].next = jobs[d].next
                           /\ (jobs'[d].at = "idle") <=> (jobs[d].at = "idle")
    BY <1>2, <2>1 DEF Job
  <2>3. (Applying' <=> Applying) /\ (Due' <=> Due)
    BY <2>2 DEF Applying, Due
  <2> QED
    BY <1>1, <2>1, <2>2, <2>3 DEF Renews, Intended, fixed
<1>7. ASSUME NEW c \in Callers, WriteNext(c)
      PROVE  Renews'
  <2> DEFINE job == jobs[c]
             write == Writes(job)[job.next]
  <2>1. /\ job.at = "writing" /\ job.spec.mode # NoMode /\ job.next <= Len(Writes(job))
        /\ jobs' = [jobs EXCEPT ![c].next = @ + 1]
        /\ UNCHANGED <<fixed, tight, commanded, owner, held, beating, loaded>>
        /\ \/ Landed(write) /\ UNCHANGED <<faults, disturbed>>
           \/ faults' = faults + 1 /\ disturbed' = (disturbed \/ job.kind = "apply") /\ UNCHANGED device
    BY <1>7 DEF WriteNext
  <2>2. /\ jobs'[c].next = job.next + 1
        /\ \A d \in Callers : jobs'[d].at = jobs[d].at /\ jobs'[d].kind = jobs[d].kind
        /\ \A d \in Callers : d # c => jobs'[d] = jobs[d]
    BY <1>2, <2>1 DEF Job
  <2>3. ~disturbed
    BY <1>1, <2>1, Zenon
  <2>4. loaded /\ platform = "huawei" /\ unmapped = {} /\ commanded \in Forced
    BY <1>1, <2>1 DEF fixed
  <2>5. /\ commanded # NoMode /\ Len(Ordered) = 3
        /\ Ordered[1].kind # "service" /\ Ordered[2].kind # "service"
        /\ Ordered[3] = Service(Intended(commanded))
        /\ job.spec = This => Writes(job) = Ordered
    BY <1>2, <2>4, HuaweiForced
  <2>6. Applying' <=> Applying
    BY <2>2 DEF Applying
  <2>7. Intended(commanded)' = Intended(commanded) /\ Intended(commanded) \in {"charge", "discharge"}
    BY <2>1, <2>4 DEF Intended, fixed, Forced
  <2>12. ASSUME job.spec = This
         PROVE  job.next \in 1..3
    <3>1. job.next \in Nat /\ job.next >= 1
      BY <1>2 DEF Job
    <3>2. job.next <= 3
      BY <2>1, <2>5, <2>12
    <3> QED
      BY <3>1, <3>2
  <2>8. ASSUME job.spec = This, Landed(write)
        PROVE  /\ job.next \in {1, 2} => UNCHANGED forcible
               /\ job.next = 3 => forcible'.direction = Intended(commanded) /\ forcible'.age = 0
               /\ job.next \in 1..3
    <3>1. job.next \in 1..3 /\ write = Ordered[job.next]
      BY <2>5, <2>8, <2>12
    <3>2. Ordered \in Seq(Entry) /\ write \in Entry
      BY <2>5, <3>1, OrderedIs DEF Tidy
    <3>3. CASE job.next \in {1, 2}
      BY <2>5, <2>8, <3>1, <3>2, <3>3, Lands
    <3>4. CASE job.next = 3
      <4>1. write.kind = "service" /\ write.value = Intended(commanded) /\ write.role \notin unmapped
        BY <2>4, <2>5, <3>1, <3>4 DEF Service
      <4>2. forcible' = [direction |-> IF write.value = "stop" THEN "none" ELSE write.value, age |-> 0]
        BY <2>8, <3>2, <4>1, Lands
      <4> QED
        BY <2>7, <3>4, <4>1, <4>2
    <3> QED
      BY <3>1, <3>3, <3>4
  <2> HIDE DEF write
  <2>9. CASE Applying /\ c = "module"
    <3>1. job.spec = This /\ job.kind = "apply"
      BY <2>3, <2>5, <2>9 DEF Applied, Applying
    <3>2. Landed(write) /\ faults' = faults
      BY <1>1, <2>1, <3>1
    <3>3. jobs'["module"].next > 3 => forcible'.direction = Intended(commanded) /\ forcible'.age = 0
      BY <1>2, <2>2, <2>8, <2>9, <3>1, <3>2
    <3> QED
      BY <1>3, <2>6, <2>7, <2>9, <3>2, <3>3 DEF Renews
  <2>10. CASE Applying /\ c = "beat"
    <3>1. jobs["module"].at # "writing"
      BY <2>1, <2>10 DEF Typed, TypeOK
    <3>2. jobs["module"].at = "waiting"
      BY <1>2, <2>10, <3>1 DEF Applying, Job
    <3>3. jobs'["module"].next = 1
      BY <2>2, <2>10, <3>2 DEF Called
    <3> QED
      BY <2>6, <2>10, <3>3 DEF Renews
  <2>11. CASE ~Applying
    <3>1. /\ beating /\ forcible.direction = Intended(commanded)
          /\ forcible.age <= faults + (IF Due THEN 1 ELSE 0)
      BY <2>3, <2>4, <2>11 DEF Renews
    <3>2. job.spec = This
      BY <2>1, <2>3, <2>5, <2>11 DEF Applied
    <3>3. job.next \in 1..3
      BY <2>12, <3>2
    <3>4. forcible'.direction = Intended(commanded)
      BY <2>1, <2>8, <3>1, <3>2, <3>3 DEF device
    <3>5. forcible'.age <= faults' + (IF Due' THEN 1 ELSE 0)
      <4>1. CASE c = "beat"
        <5>1. Due /\ (Due' <=> job.next + 1 <= 3)
          BY <2>1, <2>2, <3>3, <4>1 DEF Due
        <5> QED
          BY <1>3, <2>1, <2>8, <3>1, <3>2, <3>3, <5>1 DEF device
      <4>2. CASE c = "module"
        <5>1. Due' <=> Due
          BY <2>2, <4>2 DEF Due
        <5> QED
          BY <1>3, <2>1, <2>8, <3>1, <3>2, <3>3, <5>1 DEF device
      <4> QED
        BY <4>1, <4>2
    <3> QED
      BY <2>1, <2>6, <2>7, <2>11, <3>1, <3>4, <3>5 DEF Renews
  <2> QED
    BY <2>9, <2>10, <2>11
<1>8. ASSUME NEW c \in Callers, Finish(c)
      PROVE  Renews'
  <2> DEFINE job == jobs[c]
  <2>1. /\ job.at = "writing" /\ (job.spec.mode = NoMode \/ job.next > Len(Writes(job)))
        /\ jobs' = [jobs EXCEPT ![c] = Resting]
        /\ beating' = IF job.kind = "apply" THEN Phased(job.spec) ELSE beating
        /\ UNCHANGED <<fixed, tight, device, commanded, loaded, faults, disturbed>>
    BY <1>8 DEF Finish
  <2>2. jobs'[c].at = "idle" /\ \A d \in Callers : d # c => jobs'[d] = jobs[d]
    BY <1>2, <2>1 DEF Resting
  <2>3. ~disturbed /\ loaded /\ platform = "huawei" /\ unmapped = {} /\ commanded \in Forced
    BY <1>1, <2>1 DEF fixed
  <2>4. /\ commanded # NoMode /\ Len(Ordered) = 3
        /\ job.spec = This => Writes(job) = Ordered
    BY <1>2, <2>3, HuaweiForced
  <2>5. ASSUME job.spec = This
        PROVE  job.next > 3
    <3>1. job.spec.mode # NoMode
      BY <2>4, <2>5 DEF This
    <3>2. Len(Writes(job)) = 3
      BY <2>4, <2>5
    <3> QED
      BY <2>1, <3>1, <3>2
  <2>6. Intended(commanded)' = Intended(commanded) /\ forcible' = forcible /\ faults' = faults
    BY <2>1 DEF Intended, fixed, device
  <2>7. CASE Applying /\ c = "module"
    <3>1. job.spec = This /\ job.kind = "apply" /\ ~Applying'
      BY <2>2, <2>3, <2>4, <2>7 DEF Applied, Applying
    <3>2. forcible.direction = Intended(commanded) /\ forcible.age <= faults
      BY <2>3, <2>5, <2>7, <3>1 DEF Renews
    <3>3. Phased(job.spec)
      BY <2>3, <3>1 DEF Phased, KeepsAlive, This
    <3>4. beating'
      BY <2>1, <3>1, <3>3
    <3> QED
      BY <1>3, <2>6, <3>1, <3>2, <3>4 DEF Renews
  <2>8. CASE Applying /\ c = "beat"
    <3>1. jobs'["module"] = jobs["module"] /\ Applying'
      BY <2>2, <2>8 DEF Applying
    <3> QED
      BY <2>3, <2>6, <2>8, <3>1 DEF Renews
  <2>9. CASE ~Applying
    <3>1. /\ beating /\ forcible.direction = Intended(commanded)
          /\ forcible.age <= faults + (IF Due THEN 1 ELSE 0)
      BY <2>3, <2>9 DEF Renews
    <3>2. job.spec = This /\ job.kind # "apply"
      BY <2>1, <2>3, <2>4, <2>9 DEF Applied, Applying, Called
    <3>3. beating' /\ ~Applying'
      BY <2>1, <2>2, <2>9, <3>1, <3>2 DEF Applying
    <3>4. Due' <=> Due
      BY <2>2, <2>5, <3>2, <1>2 DEF Due
    <3> QED
      BY <2>6, <3>1, <3>3, <3>4 DEF Renews
  <2> QED
    BY <2>7, <2>8, <2>9
<1>9. CASE Tick
  <2>1. /\ \A d \in Callers : jobs[d].at = "idle"
        /\ forcible' = IF forcible.direction = "none" THEN forcible
                       ELSE IF forcible.age < Deadman THEN [forcible EXCEPT !.age = @ + 1]
                       ELSE [direction |-> "none", age |-> 0]
        /\ jobs' = IF beating THEN [jobs EXCEPT !["beat"] = [Resting EXCEPT !.at = "waiting", !.kind = "beat"]]
                   ELSE jobs
        /\ UNCHANGED <<fixed, commanded, beating, loaded, faults, disturbed>>
    BY <1>9 DEF Tick
  <2>2. ~disturbed /\ loaded /\ platform = "huawei" /\ unmapped = {} /\ commanded \in Forced /\ ~Applying /\ ~Due
    BY <1>1, <2>1 DEF fixed, Applying, Due
  <2>3. beating /\ forcible.direction = Intended(commanded) /\ forcible.age <= faults
    BY <1>3, <2>2 DEF Renews
  <2>4. Intended(commanded)' = Intended(commanded) /\ Intended(commanded) # "none"
    BY <2>1, <2>2 DEF Intended, fixed, Forced
  <2>5. forcible.age < Deadman
    BY <1>3, <2>3, KeepaliveAssumption
  <2>6. forcible'.direction = Intended(commanded) /\ forcible'.age = forcible.age + 1
    BY <1>3, <2>1, <2>3, <2>4, <2>5 DEF Forcible
  <2>7. Due' /\ ~Applying'
    BY <1>2, <2>1, <2>2, <2>3 DEF Due, Applying, Resting
  <2> QED
    BY <1>3, <2>1, <2>3, <2>4, <2>6, <2>7 DEF Renews
<1>10. CASE Shutdown
  BY <1>1, <1>10 DEF Shutdown
<1>11. CASE Foreign
  BY <1>1, <1>11 DEF Foreign
<1> QED
  BY <1>4, <1>5, <1>6, <1>7, <1>8, <1>9, <1>10, <1>11 DEF Next

----------------------------------------------------------------------------
\* Huawei's timed command is stopped, or lapses.

\* Huawei's stand-by plan ends with the stop, and nothing renews it.
LEMMA HuaweiStandBy ==
    ASSUME Typed, platform = "huawei", commanded = "StandBy"
    PROVE  /\ commanded # NoMode /\ Len(Ordered) = 2
           /\ Ordered[1].kind # "service" /\ Ordered[2] = Service("stop")
           /\ \A job \in Job : job.spec = This => Writes(job) = IF job.kind = "apply" THEN Ordered ELSE <<>>
<1> DEFINE plan == Plans[platform][commanded]
<1>1. plan = Huawei["StandBy"]
  BY DEF Plans
<1>2. /\ Len(plan) = 2 /\ plan[1].kind # "service" /\ plan[2] = Service("stop")
  BY <1>1 DEF Huawei, Select, Write
<1>3. /\ Len(Ordered) = Len(plan)
      /\ \A i \in 1..Len(Ordered) : plan[i] \in Entry /\ Ordered[i] = Reduce(plan[i], tight)
  BY OrderedIs
<1> HIDE DEF plan
<1>4. Ordered[1] = Reduce(plan[1], tight) /\ Ordered[2] = Reduce(plan[2], tight) /\ plan[1] \in Entry
  BY <1>2, <1>3
<1>5. Reduce(plan[2], tight) = plan[2]
  BY <1>2 DEF Reduce, Service
<1>6. ASSUME NEW job \in Job, job.spec = This
      PROVE  Writes(job) = IF job.kind = "apply" THEN Ordered ELSE <<>>
  BY <1>6 DEF Writes, KeepsAlive, Ordered, This, Forced
<1> QED
  BY <1>2, <1>3, <1>4, <1>5, <1>6, Reduced

LEMMA StaysStopped ==
    ASSUME IInv, Next
    PROVE  Stops'
<1> USE DEF IInv
<1>1. SUFFICES ASSUME ~disturbed', platform' = "huawei", unmapped' = {}, commanded' = "StandBy",
                      (Applying => jobs["module"].next > 2)'
               PROVE  forcible'.direction = "none"
  BY DEF Stops
<1>2. jobs \in [Callers -> Job] /\ \A c \in Callers : jobs[c] \in Job /\ jobs[c].next \in Nat \ {0}
  BY DEF Typed, Job
<1>3. ASSUME NEW mode \in Dispatched, Command(mode)
      PROVE  FALSE
  BY <1>1, <1>2, <1>3 DEF Command, Applying
<1>4. CASE Hold
  BY <1>1, <1>2, <1>4 DEF Hold, Stops, Applying, fixed, device
<1>5. ASSUME NEW c \in Callers, Acquire(c)
      PROVE  forcible'.direction = "none"
  <2>1. /\ jobs' = [jobs EXCEPT ![c].at = "writing", ![c].spec = IF c = "beat" THEN held ELSE jobs[c].spec]
        /\ jobs[c].at = "waiting"
        /\ UNCHANGED <<fixed, forcible, commanded, disturbed>>
    BY <1>5 DEF Acquire, Acquired, device
  <2>2. jobs'["module"].kind = jobs["module"].kind /\ jobs'["module"].next = jobs["module"].next
        /\ (jobs'["module"].at = "idle" <=> jobs["module"].at = "idle")
    BY <1>2, <2>1 DEF Job
  <2> QED
    BY <1>1, <2>1, <2>2 DEF Stops, Applying, fixed
<1>6. ASSUME NEW c \in Callers, WriteNext(c)
      PROVE  forcible'.direction = "none"
  <2> DEFINE job == jobs[c]
             write == Writes(job)[job.next]
  <2>1. /\ job.at = "writing" /\ job.spec.mode # NoMode /\ job.next <= Len(Writes(job))
        /\ jobs' = [jobs EXCEPT ![c].next = @ + 1]
        /\ UNCHANGED <<fixed, tight, commanded>>
        /\ \/ Landed(write) /\ UNCHANGED disturbed
           \/ disturbed' = (disturbed \/ job.kind = "apply") /\ UNCHANGED device
    BY <1>6 DEF WriteNext
  <2>2. /\ jobs'[c].next = job.next + 1
        /\ \A d \in Callers : jobs'[d].at = jobs[d].at /\ jobs'[d].kind = jobs[d].kind
        /\ \A d \in Callers : d # c => jobs'[d] = jobs[d]
    BY <1>2, <2>1 DEF Job
  <2>3. ~disturbed
    BY <1>1, <2>1, Zenon
  <2>4. platform = "huawei" /\ unmapped = {} /\ commanded = "StandBy"
    BY <1>1, <2>1 DEF fixed
  <2>5. /\ commanded # NoMode /\ Len(Ordered) = 2
        /\ Ordered[1].kind # "service" /\ Ordered[2] = Service("stop")
        /\ job.spec = This => Writes(job) = IF job.kind = "apply" THEN Ordered ELSE <<>>
    BY <1>2, <2>4, HuaweiStandBy
  <2>6. Applying' <=> Applying
    BY <2>2 DEF Applying
  <2>7. ASSUME ~Applying
        PROVE  FALSE
    <3>1. job.spec = This /\ job.kind # "apply"
      BY <2>1, <2>3, <2>5, <2>7 DEF Applied, Applying, Called
    <3>2. Len(Writes(job)) = 0
      BY <2>5, <3>1
    <3> QED
      BY <1>2, <2>1, <3>2
  <2>8. c = "module" /\ Applying
    <3>1. Applying
      BY <2>7
    <3>2. ASSUME c = "beat"
          PROVE  FALSE
      <4>1. jobs["module"].at # "writing"
        BY <2>1, <3>2 DEF Typed, TypeOK
      <4>2. jobs["module"].at = "waiting"
        BY <1>2, <3>1, <4>1 DEF Applying, Job
      <4>3. jobs'["module"].next = 1
        BY <2>2, <3>2, <4>2 DEF Called
      <4> QED
        BY <1>1, <2>6, <3>1, <4>3
    <3> QED
      BY <3>1, <3>2
  <2>9. job.spec = This /\ job.kind = "apply" /\ Writes(job) = Ordered
    BY <2>3, <2>5, <2>8 DEF Applied, Applying
  <2>10. job.next = 2
    <3>1. job.next + 1 > 2 /\ job.next <= 2
      BY <1>1, <2>1, <2>2, <2>5, <2>6, <2>8, <2>9
    <3> QED
      BY <1>2, <3>1
  <2>11. Landed(write)
    BY <1>1, <2>1, <2>9
  <2>12. write = Service("stop")
    BY <2>5, <2>9, <2>10
  <2> HIDE DEF write
  <2>13. write \in Entry /\ write.kind = "service" /\ write.value = "stop" /\ write.role \notin unmapped
    BY <2>4, <2>12, ServiceEntry DEF Service
  <2> QED
    BY <2>11, <2>13, Lands
<1>7. ASSUME NEW c \in Callers, Finish(c)
      PROVE  forcible'.direction = "none"
  <2> DEFINE job == jobs[c]
  <2>1. /\ job.at = "writing" /\ (job.spec.mode = NoMode \/ job.next > Len(Writes(job)))
        /\ jobs' = [jobs EXCEPT ![c] = Resting]
        /\ UNCHANGED <<fixed, tight, device, commanded, disturbed>>
    BY <1>7 DEF Finish
  <2>2. \A d \in Callers : d # c => jobs'[d] = jobs[d]
    BY <1>2, <2>1 DEF Resting
  <2>3. ~disturbed /\ platform = "huawei" /\ unmapped = {} /\ commanded = "StandBy"
    BY <1>1, <2>1 DEF fixed
  <2>4. Applying => jobs["module"].next > 2
    <3>1. CASE c = "beat"
      BY <1>1, <2>2, <3>1 DEF Applying
    <3>2. CASE c = "module" /\ Applying
      <4>1. job.spec = This /\ job.kind = "apply" /\ commanded # NoMode
        BY <2>3, <3>2, HuaweiStandBy DEF Applied, Applying
      <4>2. Len(Writes(job)) = 2 /\ job.spec.mode # NoMode
        BY <1>2, <2>3, <4>1, HuaweiStandBy DEF This
      <4> QED
        BY <2>1, <3>2, <4>2
    <3> QED
      BY <3>1, <3>2
  <2> QED
    BY <2>1, <2>3, <2>4 DEF Stops, device
<1>8. CASE Tick
  <2>1. /\ \A d \in Callers : jobs[d].at = "idle"
        /\ forcible.direction = "none" => forcible' = forcible
        /\ UNCHANGED <<fixed, commanded, disturbed>>
    BY <1>8 DEF Tick
  <2> QED
    BY <1>1, <2>1 DEF Stops, Applying, fixed
<1>9. CASE Shutdown
  BY <1>1, <1>9 DEF Shutdown, Stops, Applying, fixed, device
<1>10. CASE Foreign
  BY <1>1, <1>10 DEF Foreign
<1> QED
  BY <1>3, <1>4, <1>5, <1>6, <1>7, <1>8, <1>9, <1>10 DEF Next

LEMMA StaysBeating ==
    ASSUME IInv, Next
    PROVE  Beats'
<1> USE DEF IInv
<1>1. /\ jobs \in [Callers -> Job] /\ \A c \in Callers : jobs[c] \in Job
      /\ released \in Int /\ Late \in Int /\ Late < 0
  BY DEF Typed, TypeOK, Late
<1>2. ASSUME NEW mode \in Dispatched, Command(mode)
      PROVE  Beats'
  BY <1>1, <1>2 DEF Command, Beats, Applying
<1>3. CASE Hold
  BY <1>1, <1>3 DEF Hold, Beats, Applying, fixed
<1>4. ASSUME NEW c \in Callers, Acquire(c)
      PROVE  Beats'
  <2> DEFINE spec == IF c = "beat" THEN held ELSE jobs[c].spec
  <2>1. /\ jobs' = [jobs EXCEPT ![c].at = "writing", ![c].spec = spec]
        /\ held' = IF jobs[c].kind = "hold" THEN spec ELSE held
        /\ jobs[c].at = "waiting"
        /\ UNCHANGED <<fixed, commanded, beating, loaded, released>>
    BY <1>4 DEF Acquire, Acquired
  <2>2. \A d \in Callers : /\ jobs'[d].kind = jobs[d].kind
                           /\ (jobs'[d].at = "idle") <=> (jobs[d].at = "idle")
    BY <1>1, <2>1 DEF Job
  <2>3. Applying' <=> Applying
    BY <2>2 DEF Applying
  <2>4. ~Applying => held'.mode = held.mode
    BY <2>1 DEF Beats, Called
  <2> QED
    BY <2>1, <2>2, <2>3, <2>4 DEF Beats, fixed
<1>5. ASSUME NEW c \in Callers, WriteNext(c)
      PROVE  Beats'
  <2>1. /\ jobs' = [jobs EXCEPT ![c].next = @ + 1]
        /\ UNCHANGED <<fixed, commanded, held, beating, loaded, released>>
    BY <1>5 DEF WriteNext
  <2>2. \A d \in Callers : jobs'[d].kind = jobs[d].kind /\ jobs'[d].at = jobs[d].at
    BY <1>1, <2>1 DEF Job
  <2> QED
    BY <2>1, <2>2 DEF Beats, Applying, fixed
<1>6. ASSUME NEW c \in Callers, Finish(c)
      PROVE  Beats'
  <2> DEFINE job == jobs[c]
  <2>1. /\ job.at = "writing" /\ jobs' = [jobs EXCEPT ![c] = Resting]
        /\ IF job.kind = "apply" THEN held' = job.spec /\ beating' = Phased(job.spec)
           ELSE UNCHANGED <<held, beating>>
        /\ released' = IF job.kind = "apply" /\ ~loaded THEN Late ELSE released
        /\ UNCHANGED <<fixed, commanded, loaded>>
    BY <1>6 DEF Finish
  <2>2. jobs'[c].at = "idle" /\ \A d \in Callers : d # c => jobs'[d] = jobs[d]
    BY <1>1, <2>1 DEF Resting
  <2>3. CASE job.kind = "apply"
    <3>1. c = "module" /\ job.spec.mode = commanded /\ ~Applying'
      BY <2>1, <2>2, <2>3 DEF Called, Applying
    <3>2. held'.mode = commanded' /\ beating' = KeepsAlive(platform', held'.mode)
      BY <2>1, <2>3, <3>1 DEF Phased, fixed
    <3>3. ~loaded => released' = Late
      BY <2>1, <2>3
    <3>4. released' > 0 => /\ commanded \notin Forced /\ ~beating'
                           /\ jobs'["beat"].at = "idle"
      <4> SUFFICES ASSUME released' > 0
                   PROVE  commanded \notin Forced /\ ~beating' /\ jobs'["beat"].at = "idle"
        OBVIOUS
      <4>1. loaded /\ released' = released
        BY <1>1, <2>1, <3>3
      <4>2. commanded \notin Forced /\ jobs["beat"].at = "idle"
        BY <4>1 DEF Beats
      <4>3. ~KeepsAlive(platform', held'.mode)
        BY <2>1, <3>2, <4>2 DEF KeepsAlive
      <4>4. ~beating'
        BY <3>2, <4>3, Zenon
      <4> QED
        BY <2>2, <3>1, <4>2, <4>4
    <3> QED
      BY <2>1, <3>1, <3>2, <3>3, <3>4 DEF Beats
  <2>4. CASE job.kind # "apply"
    <3>1. Applying' <=> Applying
      BY <2>1, <2>2, <2>4 DEF Applying
    <3>2. \A d \in Callers : jobs[d].at = "idle" => jobs'[d].at = "idle"
      BY <2>2
    <3> QED
      BY <2>1, <2>4, <3>1, <3>2 DEF Beats, fixed
  <2> QED
    BY <2>3, <2>4
<1>7. CASE Tick
  <2>1. /\ \A d \in Callers : jobs[d].at = "idle"
        /\ jobs' = IF beating THEN [jobs EXCEPT !["beat"] = [Resting EXCEPT !.at = "waiting", !.kind = "beat"]]
                   ELSE jobs
        /\ released' = IF released = Late \/ (loaded /\ commanded \in Forced) THEN released
                       ELSE Min({released + 1, Deadman + 1})
        /\ UNCHANGED <<fixed, commanded, held, beating, loaded>>
    BY <1>7 DEF Tick
  <2>2. jobs'["module"] = jobs["module"] /\ ~Applying /\ ~Applying'
    BY <1>1, <2>1 DEF Applying
  <2>3. released' = Late <=> released = Late
    <3>1. Min({released + 1, Deadman + 1}) =
             IF released + 1 <= Deadman + 1 THEN released + 1 ELSE Deadman + 1
      BY <1>1, Lesser, DriverAssumption
    <3> QED
      BY <1>1, <2>1, <3>1, DriverAssumption DEF Late, Typed, TypeOK
  <2>4. released' > 0 => /\ loaded => commanded \notin Forced
                         /\ released # Late
    <3>1. CASE released = Late \/ (loaded /\ commanded \in Forced)
      BY <1>1, <2>1, <3>1 DEF Beats
    <3>2. CASE ~(released = Late \/ (loaded /\ commanded \in Forced))
      BY <3>2
    <3> QED
      BY <3>1, <3>2
  <2>5. released' > 0 => ~beating
    BY <2>2, <2>4 DEF Beats, KeepsAlive
  <2>6. released' > 0 => jobs'["beat"].at = "idle" /\ jobs'["module"].at = "idle"
    BY <2>1, <2>2, <2>5
  <2> QED
    BY <2>1, <2>2, <2>3, <2>4, <2>5, <2>6 DEF Beats, fixed
<1>8. CASE Shutdown
  BY <1>8 DEF Shutdown, Beats, Applying, fixed
<1>9. CASE Foreign
  BY <1>9 DEF Foreign, Beats, Applying, fixed
<1> QED
  BY <1>2, <1>3, <1>4, <1>5, <1>6, <1>7, <1>8, <1>9 DEF Next

\* Huawei's passive plans call no service but the stop.
LEMMA HuaweiPassive ==
    ASSUME NEW mode \in Dispatched, mode \notin Forced, NEW i \in 1..Len(Huawei[mode])
    PROVE  Huawei[mode][i].kind = "service" => Huawei[mode][i].value = "stop"
BY DEF Dispatched, Forced, Huawei, Select, Number, Switch, Service, Write

LEMMA StaysAged ==
    ASSUME IInv, Next
    PROVE  Ages'
<1> USE DEF IInv
<1>1. SUFFICES ASSUME platform' = "huawei", released' > 0, forcible'.direction # "none"
               PROVE  forcible'.age >= released'
  BY DEF Ages
<1>2. /\ jobs \in [Callers -> Job] /\ \A c \in Callers : jobs[c] \in Job
      /\ released \in Int /\ forcible.age \in Nat /\ forcible \in Forcible
      /\ Late \in Int /\ Late < 0 /\ Deadman \in Nat
  BY DriverAssumption DEF Typed, TypeOK, Late, Forcible
<1>3. ASSUME UNCHANGED <<fixed, forcible, released>>
      PROVE  forcible'.age >= released'
  BY <1>1, <1>3 DEF Ages, fixed
<1>4. ASSUME NEW mode \in Dispatched, Command(mode)
      PROVE  forcible'.age >= released'
  <2>1. UNCHANGED <<fixed, forcible>> /\ released' = IF mode \in Forced THEN 0 ELSE released
    BY <1>4 DEF Command, device
  <2> QED
    BY <1>1, <1>3, <2>1
<1>5. CASE Hold
  BY <1>3, <1>5 DEF Hold, device
<1>6. ASSUME NEW c \in Callers, Acquire(c)
      PROVE  forcible'.age >= released'
  BY <1>3, <1>6 DEF Acquire, device
<1>7. ASSUME NEW c \in Callers, WriteNext(c)
      PROVE  forcible'.age >= released'
  <2> DEFINE job == jobs[c]
             write == Writes(job)[job.next]
  <2>1. /\ job.at = "writing" /\ job.spec.mode # NoMode /\ job.next <= Len(Writes(job))
        /\ UNCHANGED <<fixed, released>>
        /\ Landed(write) \/ UNCHANGED device
    BY <1>7 DEF WriteNext
  <2>2. c = "module" /\ job.spec.mode = commanded /\ commanded \notin Forced /\ job.kind \in {"apply", "hold"}
    BY <1>1, <2>1 DEF Beats, Called
  <2>3. CASE UNCHANGED device
    BY <1>3, <2>1, <2>3 DEF device
  <2>4. CASE Landed(write)
    <3>1. platform = "huawei" /\ platform \in Platforms
      BY <1>1, <2>1 DEF fixed, Typed, TypeOK
    <3>2. job.kind = "apply"
      <4>1. ASSUME job.kind # "apply"
            PROVE  FALSE
        <5>1. Len(Writes(job)) = 0
          BY <2>2, <4>1 DEF Writes, KeepsAlive
        <5> QED
          BY <1>2, <2>1, <5>1 DEF Job
      <4> QED
        BY <4>1
    <3>3. /\ job.spec \in Specs /\ job.spec.mode \in Dispatched /\ write \in Entry
          /\ \E i \in 1..Len(Effective(job.spec)) : write = Effective(job.spec)[i]
      BY <1>2, <2>1, NextWrite DEF Specs
    <3>4. PICK i \in 1..Len(Effective(job.spec)) : write = Effective(job.spec)[i]
      BY <3>3
    <3> HIDE DEF job, write
    <3>5. /\ i \in 1..Len(Huawei[job.spec.mode]) /\ Huawei[job.spec.mode][i] \in Entry
          /\ write = Reduce(Huawei[job.spec.mode][i], job.spec.tight)
      <4>1. /\ Len(Effective(job.spec)) = Len(Plans[platform][job.spec.mode])
            /\ Plans[platform][job.spec.mode][i] \in Entry
            /\ Effective(job.spec)[i] = Reduce(Plans[platform][job.spec.mode][i], job.spec.tight)
        BY <2>1, <3>1, <3>3, <3>4, EffectiveIs
      <4>2. Plans[platform][job.spec.mode] = Huawei[job.spec.mode]
        BY <3>1 DEF Plans
      <4> QED
        BY <3>4, <4>1, <4>2
    <3>6. write.kind = "service" => write.value = "stop"
      BY <2>2, <3>3, <3>5, HuaweiPassive, Reduced
    <3>7. CASE write.kind = "service" /\ write.role \notin unmapped
      <4>1. forcible' = [direction |-> "none", age |-> 0]
        BY <2>4, <3>3, <3>6, <3>7, Lands
      <4> QED
        BY <1>1, <4>1
    <3>8. CASE write.kind # "service" \/ write.role \in unmapped
      <4>1. UNCHANGED forcible
        BY <2>4, <3>3, <3>8, Lands DEF device
      <4> QED
        BY <1>3, <2>1, <4>1
    <3> QED
      BY <3>7, <3>8
  <2> QED
    BY <2>1, <2>3, <2>4
<1>8. ASSUME NEW c \in Callers, Finish(c)
      PROVE  forcible'.age >= released'
  <2>1. UNCHANGED <<fixed, forcible>> /\ released' \in {released, Late}
    BY <1>8 DEF Finish, device
  <2> QED
    BY <1>1, <1>2, <1>3, <2>1
<1>9. CASE Tick
  <2>1. /\ forcible' = IF forcible.direction = "none" THEN forcible
                       ELSE IF forcible.age < Deadman THEN [forcible EXCEPT !.age = @ + 1]
                       ELSE [direction |-> "none", age |-> 0]
        /\ released' = IF released = Late \/ (loaded /\ commanded \in Forced) THEN released
                       ELSE Min({released + 1, Deadman + 1})
        /\ UNCHANGED fixed
    BY <1>9 DEF Tick
  <2>2. /\ forcible.direction # "none" /\ forcible'.age = forcible.age + 1
    BY <1>1, <1>2, <2>1 DEF Forcible
  <2>3. released' <= released + 1
    <3>1. Min({released + 1, Deadman + 1}) =
             IF released + 1 <= Deadman + 1 THEN released + 1 ELSE Deadman + 1
      BY <1>2, Lesser
    <3> QED
      BY <1>2, <2>1, <3>1
  <2>4. released > 0 => forcible.age >= released
    BY <1>1, <2>1, <2>2 DEF Ages, fixed
  <2> QED
    <3>1. released' \in Int
      <4>1. Min({released + 1, Deadman + 1}) =
               IF released + 1 <= Deadman + 1 THEN released + 1 ELSE Deadman + 1
        BY <1>2, Lesser
      <4> QED
        BY <1>2, <2>1, <4>1
    <3> QED
      BY <1>2, <2>2, <2>3, <2>4, <3>1
<1>10. CASE Shutdown
  BY <1>3, <1>10 DEF Shutdown, device
<1>11. CASE Foreign
  <2>1. UNCHANGED forcible
    BY <1>11 DEF Foreign, Landed, device
  <2> QED
    BY <1>3, <1>11, <2>1 DEF Foreign
<1> QED
  BY <1>4, <1>5, <1>6, <1>7, <1>8, <1>9, <1>10, <1>11 DEF Next

THEOREM Invariance == Spec => []IInv
<1>1. IInv /\ Next => IInv'
  BY StaysTyped, StaysApplied, StaysRenewed, StaysStopped, StaysBeating, StaysAged DEF IInv
<1>2. IInv /\ UNCHANGED vars => IInv'
  <2> SUFFICES ASSUME IInv, UNCHANGED vars PROVE IInv'
    OBVIOUS
  <2>1. Typed' /\ Called'
    BY DEF IInv, Typed, TypeOK, Called, vars, fixed, device
  <2>2. Applied'
    <3>1. Ordered' = Ordered /\ This' = This /\ Applying' = Applying
      BY SameOrdered DEF This, Applying, vars
    <3>2. InPlace(jobs["module"].next - 1) => InPlace(jobs["module"].next - 1)'
      BY <3>1 DEF InPlace, Agrees, vars, fixed, device
    <3>3. InPlace(Len(Ordered)) => InPlace(Len(Ordered))'
      BY <3>1 DEF InPlace, Agrees, vars, fixed, device
    <3> QED
      BY <3>1, <3>2, <3>3 DEF IInv, Applied, vars
  <2>3. Renews'
    BY DEF IInv, Renews, Applying, Due, Intended, vars, fixed, device
  <2>4. Stops' /\ Beats' /\ Ages'
    BY DEF IInv, Stops, Beats, Ages, Applying, vars, fixed, device
  <2> QED
    BY <2>1, <2>2, <2>3, <2>4 DEF IInv
<1> QED
  BY <1>1, <1>2, Starts, PTL DEF Spec

----------------------------------------------------------------------------
\* What a settled command shows.

LEMMA SettledIs ==
    ASSUME IInv, Settled
    PROVE  /\ commanded \in Dispatched /\ commanded # NoMode /\ held = This
           /\ \A i \in 1..Len(Ordered) : Agrees(Ordered[i])
<1>1. jobs["module"].at = "idle" /\ ~Applying /\ ~disturbed /\ commanded # NoMode
  BY DEF Settled, Applying
<1>2. held = This /\ InPlace(Len(Ordered))
  BY <1>1 DEF IInv, Applied
<1>3. Len(Ordered) \in Nat
  BY <1>1, OrderedIs DEF IInv, Tidy
<1> QED
  BY <1>1, <1>2, <1>3 DEF InPlace, IInv, Typed, TypeOK

LEMMA Verifies == IInv => AppliedVerifies
<1> SUFFICES ASSUME IInv, Settled
             PROVE  Verified(commanded)
  BY DEF AppliedVerifies
<1>1. Surface(commanded) = Ordered
  BY DEF Surface, Ordered, This
<1>2. Ordered \in Seq(Entry) /\ DOMAIN Ordered = 1..Len(Ordered)
  BY SettledIs, OrderedIs DEF IInv, Tidy
<1>3. ASSUME NEW i \in 1..Len(Ordered)
      PROVE  ~Mismatched(Ordered[i])
  <2>1. Ordered[i] \in Entry /\ Agrees(Ordered[i])
    BY <1>2, SettledIs
  <2> QED
    BY <2>1, EntryIs DEF Agrees, Mismatched, Mapped
<1> QED
  BY <1>1, <1>2, <1>3 DEF Verified

\* Where every role has its entity, each shows the value of its row, clamped.
LEMMA RowsShown ==
    ASSUME IInv, Settled, unmapped = {}, NEW role, NEW value,
           NEW i \in 1..Len(Plans[platform][commanded])
    PROVE  /\ Plans[platform][commanded][i] = Number(role, value) =>
                 value \in Powers /\ entities.number[role] = Clamp(role, value, tight)
           /\ Plans[platform][commanded][i] = Select(role, value) => entities.select[role] = value
           /\ Plans[platform][commanded][i] = Switch(role, value) => entities.switch[role] = value
<1> DEFINE write == Plans[platform][commanded][i]
<1>1. write \in Entry /\ Agrees(Reduce(write, tight))
  BY SettledIs, OrderedIs DEF IInv
<1> HIDE DEF write
<1>2. /\ write.kind = "number" => entities.number[write.role] = Clamp(write.role, write.value, tight)
      /\ write.kind = "select" => entities.select[write.role] = write.value
      /\ write.kind = "switch" => entities.switch[write.role] = write.value
      /\ write.kind = "number" => write.value \in Powers
  <2> DEFINE reduced == Reduce(write, tight)
  <2>1. /\ reduced.kind = write.kind /\ reduced.role = write.role
        /\ reduced.value = IF write.kind = "number" THEN Clamp(write.role, write.value, tight) ELSE write.value
    BY <1>1, Reduced
  <2>2. write.kind # "service" => entities[write.kind][write.role] = reduced.value
    BY <1>1, <2>1 DEF Agrees
  <2> HIDE DEF reduced
  <2>3. write.kind = "number" => entities["number"][write.role] = Clamp(write.role, write.value, tight)
    BY <2>1, <2>2
  <2>4. write.kind = "select" => entities["select"][write.role] = write.value
    BY <2>1, <2>2
  <2>5. write.kind = "switch" => entities["switch"][write.role] = write.value
    BY <2>1, <2>2
  <2> QED
    BY <1>1, <2>3, <2>4, <2>5, EntryIs
<1>3. /\ write = Number(role, value) =>
            value \in Powers /\ entities.number[role] = Clamp(role, value, tight)
      /\ write = Select(role, value) => entities.select[role] = value
      /\ write = Switch(role, value) => entities.switch[role] = value
  <2>1. CASE write = Number(role, value)
    <3>1. write.kind = "number" /\ write.role = role /\ write.value = value
      BY <2>1 DEF Number, Write
    <3>2. write # Select(role, value) /\ write # Switch(role, value)
      BY <2>1 DEF Number, Select, Switch, Write
    <3> QED
      BY <1>2, <3>1, <3>2
  <2>2. CASE write = Select(role, value)
    <3>1. write.kind = "select" /\ write.role = role /\ write.value = value
      BY <2>2 DEF Select, Write
    <3>2. write # Number(role, value) /\ write # Switch(role, value)
      BY <2>2 DEF Number, Select, Switch, Write
    <3> QED
      BY <1>2, <3>1, <3>2
  <2>3. CASE write = Switch(role, value)
    <3>1. write.kind = "switch" /\ write.role = role /\ write.value = value
      BY <2>3 DEF Switch, Write
    <3>2. write # Number(role, value) /\ write # Select(role, value)
      BY <2>3 DEF Number, Select, Switch, Write
    <3> QED
      BY <1>2, <3>1, <3>2
  <2> QED
    BY <2>1, <2>2, <2>3
<1> QED
  BY <1>3 DEF write

LEMMA HuaweiShows ==
    ASSUME IInv, Settled, unmapped = {}, platform = "huawei"
    PROVE  entities.select["mode"] = IF commanded = "FeedIn" THEN "fed" ELSE "self"
<1> DEFINE plan == Plans[platform][commanded]
           shown == IF commanded = "FeedIn" THEN "fed" ELSE "self"
<1>1. plan = Huawei[commanded] /\ commanded \in Dispatched
  BY SettledIs DEF Plans
<1>2. 1 \in 1..Len(plan) /\ plan[1] = Select("mode", shown)
  <2> HIDE DEF plan
  <2>1. CASE commanded = "SelfUse"
    BY <1>1, <2>1 DEF Huawei
  <2>2. CASE commanded = "FeedIn"
    BY <1>1, <2>2 DEF Huawei
  <2>3. CASE commanded = "NoExport"
    BY <1>1, <2>3 DEF Huawei
  <2>4. CASE commanded = "StandBy"
    BY <1>1, <2>4 DEF Huawei
  <2>5. CASE commanded = "GridCharge"
    BY <1>1, <2>5 DEF Huawei
  <2>6. CASE commanded = "Discharge"
    BY <1>1, <2>6 DEF Huawei
  <2> QED
    BY <1>1, <2>1, <2>2, <2>3, <2>4, <2>5, <2>6 DEF Dispatched
<1> QED
  BY <1>2, RowsShown

LEMMA SolaxShows ==
    ASSUME IInv, Settled, unmapped = {}, platform \in {"solax", "sungrow"}
    PROVE  /\ commanded \in {"SelfUse", "NoExport"} => entities.select["mode"] = "self"
           /\ commanded = "FeedIn" => entities.select["mode"] = IF platform = "solax" THEN "fed" ELSE "self"
           /\ commanded \in {"StandBy", "GridCharge", "Discharge"} =>
                 /\ entities.select["mode"] = "manual"
                 /\ entities.select["direction"] = IF commanded = "StandBy" THEN "stop"
                                                   ELSE IF commanded = "GridCharge" THEN "charge" ELSE "discharge"
<1> DEFINE plan == Plans[platform][commanded]
           shown == IF commanded \in {"SelfUse", "NoExport"} THEN "self"
                    ELSE IF commanded = "FeedIn" THEN (IF platform = "solax" THEN "fed" ELSE "self")
                    ELSE "manual"
           direction == IF commanded = "StandBy" THEN "stop"
                        ELSE IF commanded = "GridCharge" THEN "charge" ELSE "discharge"
<1>1. plan = (IF platform = "solax" THEN Solax[commanded] ELSE Sungrow[commanded]) /\ commanded \in Dispatched
  BY SettledIs DEF Plans
<1>2. 1 \in 1..Len(plan) /\ plan[1] = Select("mode", shown)
  BY <1>1 DEF Solax, Sungrow, Dispatched
<1>3. commanded \in {"StandBy", "GridCharge", "Discharge"} =>
         2 \in 1..Len(plan) /\ plan[2] = Select("direction", direction)
  BY <1>1 DEF Solax, Sungrow
<1>4. entities.select["mode"] = shown
  BY <1>2, RowsShown
<1>5. commanded \in {"StandBy", "GridCharge", "Discharge"} => entities.select["direction"] = direction
  BY <1>3, RowsShown
<1> QED
  BY <1>4, <1>5

LEMMA GoodweShows ==
    ASSUME IInv, Settled, unmapped = {}, platform = "goodwe"
    PROVE  /\ entities.select["mode"] = IF commanded \in {"StandBy", "GridCharge"} THEN "eco_charge"
                                        ELSE IF commanded = "Discharge" THEN "eco_discharge" ELSE "general"
           /\ commanded = "StandBy" => entities.number["power"] = 0
           /\ commanded \in Forced => entities.number["power"] # 0
<1> DEFINE plan == Plans[platform][commanded]
           shown == IF commanded \in {"StandBy", "GridCharge"} THEN "eco_charge"
                    ELSE IF commanded = "Discharge" THEN "eco_discharge" ELSE "general"
           power == IF commanded = "StandBy" THEN 0 ELSE IF commanded = "GridCharge" THEN Charge ELSE Rated
<1>1. plan = Goodwe[commanded] /\ commanded \in Dispatched
  BY SettledIs DEF Plans
<1>2. 1 \in 1..Len(plan) /\ plan[1] = Select("mode", shown)
  BY <1>1 DEF Goodwe, Dispatched
<1>3. commanded \in {"StandBy", "GridCharge", "Discharge"} =>
         2 \in 1..Len(plan) /\ plan[2] = Number("power", power)
  BY <1>1 DEF Goodwe
<1>4. entities.select["mode"] = shown
  BY <1>2, RowsShown
<1>5. commanded \in {"StandBy", "GridCharge", "Discharge"} => entities.number["power"] = Clamp("power", power, tight)
  BY <1>3, RowsShown
<1>6. Clamp("power", power, tight) = power
  BY DEF Clamp, IInv, Typed
<1> QED
  BY <1>4, <1>5, <1>6, PowersAssumption DEF Forced

LEMMA DeyeShows ==
    ASSUME IInv, Settled, unmapped = {}, platform = "deye"
    PROVE  /\ entities.select["mode"] = IF commanded \in {"FeedIn", "Discharge"} THEN "selling"
                                        ELSE IF commanded = "NoExport" THEN "zero_load" ELSE "zero_ct"
           /\ commanded = "GridCharge" => entities.switch["grid_charge"]
           /\ commanded = "StandBy" => ~entities.switch["grid_charge"]
<1> DEFINE plan == Plans[platform][commanded]
           shown == IF commanded \in {"FeedIn", "Discharge"} THEN "selling"
                    ELSE IF commanded = "NoExport" THEN "zero_load" ELSE "zero_ct"
<1>1. plan = Deye[commanded] /\ commanded \in Dispatched
  BY SettledIs DEF Plans
<1>2. 1 \in 1..Len(plan) /\ plan[1] = Select("mode", shown)
  BY <1>1 DEF Deye, Dispatched
<1>3. commanded = "GridCharge" => 2 \in 1..Len(plan) /\ plan[2] = Switch("grid_charge", TRUE)
  BY <1>1 DEF Deye
<1>4. commanded = "GridCharge" => entities.switch["grid_charge"] = TRUE
  BY <1>3, RowsShown
<1>5. commanded = "StandBy" => 2 \in 1..Len(plan) /\ plan[2] = Switch("grid_charge", FALSE)
  BY <1>1 DEF Deye
<1>6. commanded = "StandBy" => entities.switch["grid_charge"] = FALSE
  BY <1>5, RowsShown
<1> QED
  BY <1>2, <1>4, <1>6, RowsShown

LEMMA RegistersShow ==
    ASSUME IInv, Settled, platform = "solis", NEW on \in SUBSET Switches, NEW c, NEW d, NEW e, NEW s,
           Solis[commanded] = Registers(on, c, d, e, s)
    PROVE  /\ {bit \in Switches : entities.switch[bit]} = on
           /\ d \in Powers /\ e \in Powers /\ s \in Powers
           /\ entities.number["discharge"] = Clamp("discharge", d, tight)
           /\ entities.number["export"] = Clamp("export", e, tight)
           /\ entities.number["rc_setpoint"] = Clamp("rc_setpoint", s, tight)
           /\ s # 0 => entities.select["rc"] = "engaged"
<1> DEFINE plan == Plans[platform][commanded]
<1>1. plan = Registers(on, c, d, e, s) /\ unmapped = {}
  BY DEF Plans, IInv, Typed
<1>2. /\ 1..8 \subseteq 1..Len(plan)
      /\ plan[1] = Switch("self_use", "self_use" \in on) /\ plan[2] = Switch("tou", "tou" \in on)
      /\ plan[3] = Switch("grid_charge", "grid_charge" \in on) /\ plan[4] = Switch("feed_in", "feed_in" \in on)
      /\ plan[6] = Number("discharge", d) /\ plan[7] = Number("export", e)
      /\ s # 0 => plan[8] = Select("rc", "engaged") /\ 10 \in 1..Len(plan) /\ plan[10] = Number("rc_setpoint", s)
      /\ s = 0 => plan[8] = Number("rc_setpoint", s)
  <2>1. CASE s # 0
    BY <1>1, <2>1, RegistersEngaged
  <2>2. CASE s = 0
    BY <1>1, <2>2, RegistersReleased
  <2> QED
    BY <2>1, <2>2
<1> HIDE DEF plan
<1>3. \A i \in 1..8 : i \in 1..Len(plan)
  BY <1>2
<1>4. \A i \in 1..Len(plan) : \A role, value :
         /\ plan[i] = Number(role, value) => value \in Powers /\ entities.number[role] = Clamp(role, value, tight)
         /\ plan[i] = Select(role, value) => entities.select[role] = value
         /\ plan[i] = Switch(role, value) => entities.switch[role] = value
  BY <1>1, RowsShown DEF plan
<1>5. d \in Powers /\ entities.number["discharge"] = Clamp("discharge", d, tight)
  BY <1>2, <1>3, <1>4
<1>6. e \in Powers /\ entities.number["export"] = Clamp("export", e, tight)
  BY <1>2, <1>3, <1>4
<1>7. s \in Powers /\ entities.number["rc_setpoint"] = Clamp("rc_setpoint", s, tight)
  BY <1>2, <1>3, <1>4
<1>8. s # 0 => entities.select["rc"] = "engaged"
  BY <1>2, <1>3, <1>4
<1>9. /\ entities.switch["self_use"] = ("self_use" \in on) /\ entities.switch["tou"] = ("tou" \in on)
      /\ entities.switch["grid_charge"] = ("grid_charge" \in on)
      /\ entities.switch["feed_in"] = ("feed_in" \in on)
  BY <1>2, <1>3, <1>4
<1>10. {bit \in Switches : entities.switch[bit]} = on
  BY <1>9 DEF Switches
<1> QED
  BY <1>5, <1>6, <1>7, <1>8, <1>10

\* A clamp keeps the sign.
LEMMA ClampedSign ==
    ASSUME NEW role, NEW value \in Powers, NEW narrow
    PROVE  /\ Clamp(role, value, narrow) \in Int /\ value \in Int
           /\ value > 0 <=> Clamp(role, value, narrow) > 0
           /\ value < 0 <=> Clamp(role, value, narrow) < 0
           /\ value >= 0 => Clamp(role, value, narrow) =
                 IF role = narrow /\ role \notin unmapped /\ value > Tight THEN Tight ELSE value
<1>1. Tight \in Nat \ {0} /\ Rated \in Nat /\ Charge \in Nat /\ Discharge \in Nat /\ ExportCap \in Nat
  BY DriverAssumption, PowersAssumption
<1>2. value \in Int /\ -Tight \in Int
  BY <1>1 DEF Powers
<1>3. Max({-Tight, Min({value, Tight})}) =
          IF value > Tight THEN Tight ELSE IF value < -Tight THEN -Tight ELSE value
  <2>1. Min({value, Tight}) = IF value <= Tight THEN value ELSE Tight
    BY <1>1, <1>2, Lesser
  <2>2. Min({value, Tight}) \in Int
    BY <1>1, <1>2, <2>1
  <2>3. Max({-Tight, Min({value, Tight})}) =
           IF -Tight >= Min({value, Tight}) THEN -Tight ELSE Min({value, Tight})
    BY <1>2, <2>2, Larger
  <2> QED
    BY <1>1, <1>2, <2>1, <2>3
<1> QED
  BY <1>1, <1>2, <1>3 DEF Clamp

LEMMA SolisShows ==
    ASSUME IInv, Settled, platform = "solis"
    PROVE  LET on == {bit \in Switches : entities.switch[bit]}
               discharge == entities.number["discharge"]
               setpoint == entities.number["rc_setpoint"]
               export == entities.number["export"]
           IN  /\ on = IF commanded \in {"FeedIn", "Discharge"} THEN {"feed_in"}
                       ELSE IF commanded = "GridCharge" THEN {"self_use", "grid_charge"} ELSE {"self_use"}
               /\ discharge \in Int /\ setpoint \in Int /\ export \in Int
               /\ discharge = 0 <=> commanded \in {"GridCharge", "StandBy"}
               /\ export = 0 <=> commanded \in {"NoExport", "GridCharge", "StandBy"}
               /\ setpoint > 0 <=> commanded = "Discharge"
               /\ setpoint < 0 <=> commanded = "GridCharge"
               /\ commanded \in Forced => entities.select["rc"] = "engaged"
               /\ commanded = "Discharge" =>
                     /\ discharge = Clamp("discharge", Discharge, tight)
                     /\ setpoint = Clamp("rc_setpoint", Rated, tight)
                     /\ export = Clamp("export", ExportCap, tight)
<1> DEFINE on == IF commanded \in {"FeedIn", "Discharge"} THEN {"feed_in"}
                 ELSE IF commanded = "GridCharge" THEN {"self_use", "grid_charge"} ELSE {"self_use"}
           c == IF commanded = "Discharge" THEN 0 ELSE Charge
           d == IF commanded \in {"GridCharge", "StandBy"} THEN 0 ELSE Discharge
           e == IF commanded \in {"NoExport", "GridCharge", "StandBy"} THEN 0 ELSE ExportCap
           s == IF commanded = "Discharge" THEN Rated
                ELSE IF commanded = "GridCharge" THEN -Min({Charge, Rated}) ELSE 0
<1>1. commanded \in Dispatched
  BY SettledIs
<1>2. Solis[commanded] = Registers(on, c, d, e, s) /\ on \in SUBSET Switches
  BY <1>1 DEF Solis, Dispatched, Switches
<1>3. Min({Charge, Rated}) = Charge /\ Charge > 0 /\ Rated > 0 /\ Discharge > 0 /\ ExportCap > 0
  BY PowersAssumption, Lesser
<1>4. /\ {bit \in Switches : entities.switch[bit]} = on
      /\ d \in Powers /\ e \in Powers /\ s \in Powers
      /\ entities.number["discharge"] = Clamp("discharge", d, tight)
      /\ entities.number["export"] = Clamp("export", e, tight)
      /\ entities.number["rc_setpoint"] = Clamp("rc_setpoint", s, tight)
      /\ s # 0 => entities.select["rc"] = "engaged"
  <2> HIDE DEF on, c, d, e, s
  <2> QED
    BY <1>2, RegistersShow
<1>5. /\ entities.number["discharge"] \in Int /\ entities.number["rc_setpoint"] \in Int
      /\ entities.number["export"] \in Int
      /\ d > 0 <=> entities.number["discharge"] > 0
      /\ d < 0 <=> entities.number["discharge"] < 0
      /\ e > 0 <=> entities.number["export"] > 0
      /\ e < 0 <=> entities.number["export"] < 0
      /\ s > 0 <=> entities.number["rc_setpoint"] > 0
      /\ s < 0 <=> entities.number["rc_setpoint"] < 0
  <2> HIDE DEF on, c, d, e, s
  <2>1. /\ entities.number["discharge"] \in Int
        /\ d > 0 <=> entities.number["discharge"] > 0
        /\ d < 0 <=> entities.number["discharge"] < 0
    <3>1. d \in Powers /\ entities.number["discharge"] = Clamp("discharge", d, tight)
      BY <1>4
    <3>2. /\ Clamp("discharge", d, tight) \in Int
          /\ d > 0 <=> Clamp("discharge", d, tight) > 0
          /\ d < 0 <=> Clamp("discharge", d, tight) < 0
      <4> DEFINE number == Clamp("discharge", d, tight)
      <4> HIDE DEF number
      <4>1. number \in Int /\ (d > 0 <=> number > 0) /\ (d < 0 <=> number < 0)
        BY <3>1, ClampedSign DEF number
      <4> QED
        BY <4>1 DEF number
    <3> QED
      BY <3>1, <3>2, Zenon
  <2>2. /\ entities.number["rc_setpoint"] \in Int
        /\ s > 0 <=> entities.number["rc_setpoint"] > 0
        /\ s < 0 <=> entities.number["rc_setpoint"] < 0
    <3>1. s \in Powers /\ entities.number["rc_setpoint"] = Clamp("rc_setpoint", s, tight)
      BY <1>4
    <3>2. /\ Clamp("rc_setpoint", s, tight) \in Int
          /\ s > 0 <=> Clamp("rc_setpoint", s, tight) > 0
          /\ s < 0 <=> Clamp("rc_setpoint", s, tight) < 0
      <4> DEFINE number == Clamp("rc_setpoint", s, tight)
      <4> HIDE DEF number
      <4>1. number \in Int /\ (s > 0 <=> number > 0) /\ (s < 0 <=> number < 0)
        BY <3>1, ClampedSign DEF number
      <4> QED
        BY <4>1 DEF number
    <3> QED
      BY <3>1, <3>2, Zenon
  <2>3. /\ entities.number["export"] \in Int
        /\ e > 0 <=> entities.number["export"] > 0
        /\ e < 0 <=> entities.number["export"] < 0
    <3>1. e \in Powers /\ entities.number["export"] = Clamp("export", e, tight)
      BY <1>4
    <3>2. /\ Clamp("export", e, tight) \in Int
          /\ e > 0 <=> Clamp("export", e, tight) > 0
          /\ e < 0 <=> Clamp("export", e, tight) < 0
      <4> DEFINE number == Clamp("export", e, tight)
      <4> HIDE DEF number
      <4>1. number \in Int /\ (e > 0 <=> number > 0) /\ (e < 0 <=> number < 0)
        BY <3>1, ClampedSign DEF number
      <4> QED
        BY <4>1 DEF number
    <3> QED
      BY <3>1, <3>2, Zenon
  <2> QED
    BY <2>1, <2>2, <2>3
<1>6. /\ d \in Nat /\ (d = 0 <=> commanded \in {"GridCharge", "StandBy"})
      /\ e \in Nat /\ (e = 0 <=> commanded \in {"NoExport", "GridCharge", "StandBy"})
      /\ s \in Int /\ (s > 0 <=> commanded = "Discharge") /\ (s < 0 <=> commanded = "GridCharge")
      /\ commanded \in Forced => s # 0
      /\ commanded = "Discharge" => d = Discharge /\ s = Rated /\ e = ExportCap
  BY <1>3, PowersAssumption DEF Forced
<1> HIDE DEF d, e, s
<1> QED
  BY <1>4, <1>5, <1>6

LEMMA DecodesRegisters ==
    ASSUME IInv, Settled, platform = "solis"
    PROVE  Observed = commanded
<1> DEFINE on == {bit \in Switches : entities.switch[bit]}
           discharge == entities.number["discharge"]
           setpoint == entities.number["rc_setpoint"]
           export == entities.number["export"]
           engaged == entities.select["rc"] = "engaged"
<1>1. /\ on = IF commanded \in {"FeedIn", "Discharge"} THEN {"feed_in"}
               ELSE IF commanded = "GridCharge" THEN {"self_use", "grid_charge"} ELSE {"self_use"}
      /\ discharge \in Int /\ setpoint \in Int /\ export \in Int
      /\ discharge = 0 <=> commanded \in {"GridCharge", "StandBy"}
      /\ export = 0 <=> commanded \in {"NoExport", "GridCharge", "StandBy"}
      /\ setpoint > 0 <=> commanded = "Discharge"
      /\ commanded \in Forced => engaged
  BY SolisShows
<1>2. Observed = DecodeRegisters(on, discharge, setpoint, export, engaged)
  BY DEF Observed
<1>3. commanded \in Dispatched
  BY SettledIs
<1> HIDE DEF on, discharge, setpoint, export, engaged
<1>4. CASE commanded = "GridCharge"
  BY <1>1, <1>2, <1>4 DEF DecodeRegisters
<1>5. CASE commanded = "Discharge"
  BY <1>1, <1>2, <1>5 DEF DecodeRegisters, Forced
<1>6. CASE commanded = "FeedIn"
  BY <1>1, <1>2, <1>6 DEF DecodeRegisters
<1>7. CASE commanded = "StandBy"
  BY <1>1, <1>2, <1>7 DEF DecodeRegisters
<1>8. CASE commanded = "NoExport"
  BY <1>1, <1>2, <1>8 DEF DecodeRegisters
<1>9. CASE commanded = "SelfUse"
  BY <1>1, <1>2, <1>9 DEF DecodeRegisters
<1> QED
  BY <1>3, <1>4, <1>5, <1>6, <1>7, <1>8, <1>9 DEF Dispatched

LEMMA Decodes == IInv => DecodedAsApplied
<1> SUFFICES ASSUME IInv, Settled, unmapped = {}, platform # "solis"
             PROVE  \/ Observed = commanded
                    \/ Observed = "SelfUse" /\ commanded \notin Forced
                    \/ Observed \in {"SelfUse", "FeedIn"} /\ platform \in {"huawei", "deye"}
                    \/ Observed = "GridCharge" /\ platform = "goodwe" /\ commanded = "StandBy"
  BY DecodesRegisters DEF DecodedAsApplied
<1>1. commanded \in Dispatched /\ platform \in Platforms
  BY SettledIs DEF IInv, Typed, TypeOK
<1>2. Observed = DecodeState(platform, entities.select["mode"], entities.select["direction"])
  BY DEF Observed, Mapped
<1>3. CASE platform = "huawei"
  BY <1>2, <1>3, HuaweiShows DEF DecodeState, Decode, Unknown
<1>4. CASE platform \in {"solax", "sungrow"}
  <2>1. CASE platform = "solax"
    BY <1>1, <1>2, <2>1, SolaxShows DEF DecodeState, Decode, SubDecode, Unknown, Dispatched, Forced
  <2>2. CASE platform = "sungrow"
    BY <1>1, <1>2, <2>2, SolaxShows DEF DecodeState, Decode, SubDecode, Unknown, Dispatched, Forced
  <2> QED
    BY <1>4, <2>1, <2>2
<1>5. CASE platform = "goodwe"
  BY <1>1, <1>2, <1>5, GoodweShows DEF DecodeState, Decode, Unknown, Dispatched, Forced
<1>6. CASE platform = "deye"
  BY <1>1, <1>2, <1>6, DeyeShows DEF DecodeState, Decode, Unknown, Dispatched
<1> QED
  BY <1>1, <1>3, <1>4, <1>5, <1>6 DEF Platforms

\* The least of three.
LEMMA LeastOfThree ==
    ASSUME NEW a \in Int, NEW b \in Int, NEW c \in Int
    PROVE  /\ Min({a, b, c}) \in {a, b, c}
           /\ Min({a, b, c}) <= a /\ Min({a, b, c}) <= b /\ Min({a, b, c}) <= c
<1>1. \E m \in {a, b, c} : \A n \in {a, b, c} : m <= n
  <2>1. CASE a <= b /\ a <= c
    BY <2>1
  <2>2. CASE b <= a /\ b <= c
    BY <2>2
  <2>3. CASE c <= a /\ c <= b
    BY <2>3
  <2> QED
    BY <2>1, <2>2, <2>3
<1> QED
  BY <1>1 DEF Min

\* No two bounds are narrow at once, so the least of the three registers is the least of
\* their values or the one narrow bound.
LEMMA PlannedReached == IInv => PlannedIsCommanded
<1> SUFFICES ASSUME IInv, platform = "solis", Settled, commanded = "Discharge"
             PROVE  Min({Min({Discharge, Rated, ExportCap}), Reach}) =
                    Min({entities.number["discharge"], entities.number["rc_setpoint"],
                         entities.number["export"]})
  BY DEF PlannedIsCommanded
<1> DEFINE d == entities.number["discharge"]
           s == entities.number["rc_setpoint"]
           e == entities.number["export"]
<1>1. /\ Tight \in Nat \ {0} /\ Discharge \in Nat \ {0} /\ Rated \in Nat \ {0} /\ ExportCap \in Nat \ {0}
      /\ Charge \in Nat \ {0} /\ unmapped = {}
  BY DriverAssumption, PowersAssumption DEF IInv, Typed
<1>2. Discharge \in Powers /\ Rated \in Powers /\ ExportCap \in Powers
  BY <1>1 DEF Powers
<1>3. /\ d = IF tight = "discharge" /\ Discharge > Tight THEN Tight ELSE Discharge
      /\ s = IF tight = "rc_setpoint" /\ Rated > Tight THEN Tight ELSE Rated
      /\ e = IF tight = "export" /\ ExportCap > Tight THEN Tight ELSE ExportCap
  <2>1. /\ d = Clamp("discharge", Discharge, tight) /\ s = Clamp("rc_setpoint", Rated, tight)
        /\ e = Clamp("export", ExportCap, tight)
    BY SolisShows
  <2>2. d = IF tight = "discharge" /\ Discharge > Tight THEN Tight ELSE Discharge
    BY <1>1, <1>2, <2>1, ClampedSign
  <2>3. s = IF tight = "rc_setpoint" /\ Rated > Tight THEN Tight ELSE Rated
    BY <1>1, <1>2, <2>1, ClampedSign
  <2>4. e = IF tight = "export" /\ ExportCap > Tight THEN Tight ELSE ExportCap
    BY <1>1, <1>2, <2>1, ClampedSign
  <2> QED
    BY <2>2, <2>3, <2>4
<1> DEFINE least == Min({Discharge, Rated, ExportCap})
           written == Min({d, s, e})
<1>4. /\ d \in Int /\ s \in Int /\ e \in Int
  BY <1>1, <1>3
<1>5. /\ least \in {Discharge, Rated, ExportCap}
      /\ least <= Discharge /\ least <= Rated /\ least <= ExportCap
  BY <1>1, LeastOfThree
<1> HIDE DEF d, s, e
<1>6. written \in {d, s, e} /\ written <= d /\ written <= s /\ written <= e
  BY <1>4, LeastOfThree
<1> HIDE DEF least, written
<1>7. Reach = IF tight \in {"discharge", "rc_setpoint", "export"} THEN Tight ELSE Rated + Discharge + ExportCap
  BY DEF Reach
<1>8. least \in Int /\ Reach \in Int /\ written \in Int
  BY <1>1, <1>4, <1>5, <1>6, <1>7
<1>9. Min({least, Reach}) = IF least <= Reach THEN least ELSE Reach
  BY <1>8, Lesser
<1>10. Min({least, Reach}) = written
  <2>1. CASE tight \notin {"discharge", "rc_setpoint", "export"}
    BY <1>1, <1>3, <1>5, <1>6, <1>7, <1>9, <2>1
  <2>2. CASE tight = "discharge"
    BY <1>1, <1>3, <1>5, <1>6, <1>7, <1>9, <2>2
  <2>3. CASE tight = "rc_setpoint"
    BY <1>1, <1>3, <1>5, <1>6, <1>7, <1>9, <2>3
  <2>4. CASE tight = "export"
    BY <1>1, <1>3, <1>5, <1>6, <1>7, <1>9, <2>4
  <2> QED
    BY <2>1, <2>2, <2>3, <2>4
<1> QED
  BY <1>10 DEF least, written, d, s, e

\* The flow in force on the platforms that hold it in their entities, and on Huawei.
LEMMA Flows ==
    ASSUME IInv, Settled, unmapped = {}
    PROVE  /\ platform \notin {"huawei", "deye"} \/ commanded = "StandBy" => ForcedFlow = Intended(commanded)
           /\ Intended(commanded) # "none" => ForcedFlow = Intended(commanded)
<1>1. commanded \in Dispatched /\ platform \in Platforms
  BY SettledIs DEF IInv, Typed, TypeOK
<1>2. CASE platform = "huawei"
  <2>1. loaded /\ ~disturbed /\ ~Applying
    BY DEF Settled, Applying
  <2>2. Intended(commanded) # "none" => commanded \in Forced
    BY <1>1 DEF Intended, Forced
  <2>3. Intended(commanded) # "none" => forcible.direction = Intended(commanded)
    BY <1>2, <2>1, <2>2 DEF IInv, Renews
  <2>4. commanded = "StandBy" => forcible.direction = Intended(commanded)
    BY <1>2, <2>1 DEF IInv, Stops, Intended
  <2> QED
    BY <1>2, <2>3, <2>4 DEF ForcedFlow
<1>3. CASE platform \in {"solax", "sungrow"}
  BY <1>1, <1>3, SolaxShows DEF ForcedFlow, Intended, Dispatched
<1>4. CASE platform = "goodwe"
  BY <1>1, <1>4, GoodweShows DEF ForcedFlow, Intended, Dispatched, Forced
<1>5. CASE platform = "deye"
  BY <1>5, DeyeShows DEF ForcedFlow, Intended
<1>6. CASE platform = "solis"
  <2>1. /\ entities.number["rc_setpoint"] \in Int
        /\ entities.number["rc_setpoint"] > 0 <=> commanded = "Discharge"
        /\ entities.number["rc_setpoint"] < 0 <=> commanded = "GridCharge"
        /\ commanded \in Forced => entities.select["rc"] = "engaged"
    BY <1>6, SolisShows
  <2> QED
    BY <1>6, <2>1 DEF ForcedFlow, Intended, Forced
<1> QED
  BY <1>1, <1>2, <1>3, <1>4, <1>5, <1>6 DEF Platforms

\* In every reachable state, on every platform and for every configured power, narrow
\* bound and number of faults, a settled command verifies, is read back as itself or as
\* the mode it cannot be told from, and delivers what the planner was told
\* (apply_mode, effective_spec, decode_observed, _capability).
THEOREM SettledShowsAlways == Spec => []SettledShows
<1>1. IInv => SettledShows
  BY Verifies, Decodes, PlannedReached DEF SettledShows, IInv, Typed
<1> QED
  BY <1>1, Invariance, PTL

\* A forced mode that settled stays in force, by the entities it set or by the beats
\* that renew it in time; no passive mode leaves a forced flow running where its plan
\* undoes it; and what Huawei's other plans or an unload leave lapses with the time of the
\* command, since no beat renews it (hold, keepalive, refresh_rc, shutdown).
THEOREM ForceFollowsModeAlways == Spec => []ForceFollowsMode
<1>1. IInv => LeftoverLapses
  <2> SUFFICES ASSUME IInv, platform = "huawei", released > Deadman, forcible.direction # "none"
               PROVE  FALSE
    BY DEF LeftoverLapses
  <2>1. /\ released \in Int /\ Deadman \in Nat /\ forcible.age \in Nat /\ forcible.age <= Deadman
    BY DriverAssumption DEF IInv, Typed, TypeOK, Late
  <2>2. forcible.age >= released
    BY <2>1 DEF IInv, Ages
  <2> QED
    BY <2>1, <2>2
<1>2. IInv => ForceFollowsMode
  BY <1>1, Flows DEF ForceFollowsMode, ForceLasts, PassiveEndsForce
<1> QED
  BY <1>2, Invariance, PTL

===============================================================================
