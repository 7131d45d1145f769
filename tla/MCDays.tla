-------------------------------- MODULE MCDays --------------------------------
(* What the installation keeps from day to day, one subject to a behaviour, the *)
(* subjects sharing no state: the day's accounts, or one of those of MCLearning. *)
EXTENDS DayRollover, MCLearning

\* The parts that are not the subject rest in one of their first states.
MCInit == Init /\ LearningInit

MCNext ==
    \/ subject = "accounts" /\ Next /\ UNCHANGED <<subject, learningVars>>
    \/ LearningNext /\ UNCHANGED vars

MCSpec == MCInit /\ [][MCNext]_<<subject, vars, learningVars>>
===============================================================================
