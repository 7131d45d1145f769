------------------------------- MODULE PriceCurve -------------------------------
(***************************************************************************)
(* The price-curve history (pipeline/price_forecast.py, price_fill.py,        *)
(* orchestration/coordinator.py:_save_price_curve_history): settled days,     *)
(* frozen features and predictions, banked errors, and the days the shape     *)
(* engine has learned.                                                       *)
(*                                                                           *)
(* A prediction is told apart by the time it was issued; its curve, and the   *)
(* engine's arithmetic, are left out.                                        *)
(***************************************************************************)
EXTENDS PriceGrid

CONSTANTS
    ErrorDays,      \* PRICE_ERROR_RETENTION_DAYS
    NoShape         \* the shape state that is None; a state is the bag of its days

Prediction == [day : Nat, issued : Nat]

DayRecord == [day : Nat, predicted : SUBSET Prediction]

NoCurve == [records |-> {}, vintages |-> {}, predictions |-> {}, errors |-> {}, shape |-> NoShape]

Recorded(h) == {r.day : r \in h.records}
Predicted(h) == {p.day : p \in h.predictions}

\* compute_price_forecast: tomorrow is predicted unless it is priced, by an
\* engine that has learned a day.
Forecasts(h, series, now) ==
    LET tomorrow == DayOf(now) + 1
    IN  IF h.shape # NoShape /\ h.shape # EmptyBag /\ tomorrow \notin PricedDays(series)
        THEN {[day |-> tomorrow, issued |-> now]}
        ELSE {}

\* capture_feature_vintage, once a day for tomorrow.  It rebuilds the history
\* from its records and vintages alone.
CaptureVintage(h, outlook, today) ==
    IF today + 1 \in h.vintages \/ ~outlook THEN h
    ELSE [NoCurve EXCEPT !.records = h.records, !.vintages = h.vintages \cup {today + 1}]

CapturePrediction(h, forecasts) ==
    [h EXCEPT !.predictions = @ \cup {p \in forecasts : p.day \notin Predicted(h)}]

\* bank_fill_errors: a predicted day that is priced now is banked, once.
BankErrors(h, series, today) ==
    LET kept == {e \in h.errors : e.day >= today - ErrorDays}
        due  == {p \in h.predictions : /\ p.day >= today - ErrorDays
                                       /\ p.day \in PricedDays(series)
                                       /\ \A e \in h.errors : e.day # p.day}
    IN  [h EXCEPT !.errors = kept \cup due]

Learned(records) == SetToBag({r.day : r \in records})

\* Mutation: every settled day is learned again.
LearnAll(h, records, added) ==
    IF h.shape = NoShape THEN Learned(records) ELSE h.shape (+) Learned(records)

\* advance_shape_state: the new days are learned, or, without a state, the whole
\* history is replayed.
Learn(h, records, added) ==
    IF h.shape = NoShape THEN Learned(records) ELSE h.shape (+) Learned(added)

\* settle_days: yesterday and today, if they are priced and not recorded yet.
\* The errors are not carried over.
SettleDays(h, series, today) ==
    LET fresh == {d \in {today - 1, today} : d \in PricedDays(series)} \ Recorded(h)
        added == {[day |-> d, predicted |-> {p \in h.predictions : p.day = d}] : d \in fresh}
        kept  == [vintages    |-> {d \in h.vintages : d > today},
                  predictions |-> {p \in h.predictions : p.day >= today}]
    IN  IF \/ PricedDays(series) = {}
           \/ added = {} /\ kept.vintages = h.vintages /\ kept.predictions = h.predictions
        THEN h
        ELSE [records     |-> h.records \cup added,
              vintages    |-> kept.vintages,
              predictions |-> kept.predictions,
              errors      |-> {},
              shape       |-> Learn(h, h.records \cup added, added)]

\* _save_price_curve_history: the four updates, in their order
SaveCurve(h, series, outlook, now) ==
    LET today == DayOf(now)
    IN  SettleDays(BankErrors(CapturePrediction(CaptureVintage(h, outlook, today),
                                                Forecasts(h, series, now)),
                              series, today),
                   series, today)

================================================================================
