------------------------- MODULE MCRecurrenceSeries -------------------------
(* Instances of RecurrenceSeries for TLC. *)
EXTENDS RecurrenceSeries

Rule(freq, interval) ==
  [freq |-> freq, interval |-> interval, weekdays |-> {}, mode |-> "day_of_month",
   nth |-> 0, weekday |-> 0, max |-> None, until |-> None, zone |-> UTC]

(* Clocks go forward on March 31st, 2024 and back on October 27th. *)
Summer == [from |-> At(90, 2), to |-> At(300, 3)]

MonthRules ==
  {[Rule(freq, interval) EXCEPT !.mode = mode, !.zone = zone] :
     freq \in {"month"}, interval \in {1, 2, 3}, zone \in {UTC, Summer},
     mode \in {"day_of_month", "last_day_of_month"}}
  \cup {[Rule("month", 1) EXCEPT !.mode = "nth_weekday", !.nth = n, !.weekday = 4] :
          n \in {-1, 1, 5}}
YearRules ==
  {Rule("year", 1), [Rule("year", 1) EXCEPT !.mode = "nth_weekday", !.nth = -1]}
WeekRules ==
  {[Rule("week", 1) EXCEPT !.weekdays = days, !.zone = zone] :
     days \in {{}, {0, 3}, {6}}, zone \in {UTC, Summer}}
  \cup {[Rule("week", n) EXCEPT !.weekdays = days] :
          n \in {2, 3}, days \in {{}, {0, 3}}}
DayRules == {[Rule("day", n) EXCEPT !.zone = zone] : n \in {1, 3}, zone \in {UTC, Summer}}
FixedRules == {Rule("fixed", n) : n \in {1, 5, 36}}

Endless == MonthRules \cup YearRules \cup WeekRules \cup DayRules \cup FixedRules
AllRules ==
  Endless
  \cup {[r EXCEPT !.max = 3] : r \in {Rule("week", 1), Rule("month", 1), Rule("fixed", 5)}}
  \cup {[r EXCEPT !.until = 95] : r \in {Rule("week", 1), Rule("month", 1), Rule("day", 3)}}

(* Late in January, at eight and at twenty o'clock; the end of February. *)
AllAnchors == {At(28, 8), At(30, 20), At(59, 8)}
SomeDelays == {0, 11, 24 * 9}

BiweeklyRules == {[Rule("week", 2) EXCEPT !.zone = Summer]}
============================================================================
