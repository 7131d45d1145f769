------------------------------ MODULE MonthlyBill ------------------------------
(***************************************************************************)
(* The ledger of daily costs (pipeline/monthly_bill.py).                      *)
(*                                                                           *)
(* Each cycle prices the days the series still covers into the ledger, and    *)
(* bills the month as the ledger's days before yesterday plus a live window   *)
(* from yesterday, or from the first of the month, to now.                    *)
(*                                                                           *)
(* Buying and selling each have one price, so that a cost is the pair of the   *)
(* energies it is for.                                                       *)
(***************************************************************************)
EXTENDS ObservedDay

CONSTANT MonthStarts        \* the days that are the first of a month

ASSUME MonthsAssumption == MonthStarts \subseteq Nat

\* Months are numbered from the one the model's first day is in.
Month(d) == Cardinality({m \in MonthStarts : m <= d})

Free == [imported |-> 0, exported |-> 0]

Plus(x, y) == [imported |-> x.imported + y.imported, exported |-> x.exported + y.exported]

SumOf(f, S) == FoldSet(LAMBDA d, c : Plus(f[d], c), Free, S)

\* compute_bill_slots, summed: every priced slot of the window, matched with the
\* observed slot of the same start.
BillSlots(observed, series, lo, hi) ==
    LET At(t) == {i \in DOMAIN observed : observed[i].start = t}
        Slot(t) == IF At(t) = {} THEN Free
                   ELSE LET i == Max(At(t))
                        IN  [imported |-> observed[i].imported, exported |-> observed[i].exported]
    IN  FoldSeq(LAMBDA s, c : Plus(Slot(s.start), c), Free,
                PricedSlots(Window(series, lo, hi)))

\* Mutation: a completed day is priced once.
RepricedOnce(ledger, observed, series, today) ==
    LET priced == {s.start : s \in ToSet(PricedSlots(series))}
        again  == {d \in 0..today - 1 : priced # {} /\ DayStart(d) >= Min(priced)} \ DOMAIN ledger
    IN  [d \in DOMAIN ledger \cup again |->
            IF d \in again THEN BillSlots(observed, series, DayStart(d), DayStart(d + 1))
            ELSE ledger[d]]

\* The completed days that start no earlier than the first priced slot are
\* priced again, over what the ledger has.
Repriced(ledger, observed, series, today) ==
    LET priced == {s.start : s \in ToSet(PricedSlots(series))}
        again  == {d \in 0..today - 1 : priced # {} /\ DayStart(d) >= Min(priced)}
    IN  [d \in DOMAIN ledger \cup again |->
            IF d \in again THEN BillSlots(observed, series, DayStart(d), DayStart(d + 1))
            ELSE ledger[d]]

\* The ledger keeps the current and the previous month.
Pruned(ledger, today) == Restrict(ledger, {d \in DOMAIN ledger : Month(d) >= Month(today) - 1})

FirstOfMonth(today) == Min({m \in MonthStarts : m <= today /\ Month(m) = Month(today)} \cup
                           (IF Month(today) = 0 THEN {0} ELSE {}))

\* The first day of the live window
LiveFrom(today) == Max({today - 1, FirstOfMonth(today)})

\* Mutation: a day that ends with the live window's start is not carried.
CarryDaysShort(ledger, today) ==
    {d \in DOMAIN ledger : Month(d) = Month(today) /\ d + 1 < LiveFrom(today)}

CarryDays(ledger, today) ==
    {d \in DOMAIN ledger : Month(d) = Month(today) /\ d + 1 <= LiveFrom(today)}

\* build_monthly_bill_result: the ledger to store and the month's total
Bill(ledger, observed, series, now) ==
    LET today == DayOf(now)
        next  == Pruned(Repriced(ledger, observed, series, today), today)
    IN  [ledger |-> next,
         total  |-> Plus(SumOf(next, CarryDays(next, today)),
                         BillSlots(observed, series, DayStart(LiveFrom(today)), now + 1))]

================================================================================
