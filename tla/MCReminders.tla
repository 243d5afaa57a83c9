----------------------------- MODULE MCReminders -----------------------------
(* Instances of Reminders for TLC. *)
EXTENDS Reminders

Every(interval, max) ==
  [freq |-> "fixed", interval |-> interval, weekdays |-> {}, max |-> max,
   until |-> None, zone |-> UTC]

(* Every hour twice; every two hours for ever. *)
SomeRules == {Every(1, 2), Every(2, None)}
TwiceOnly == {Every(1, 2)}
Hourly == {Every(1, None)}
==============================================================================
