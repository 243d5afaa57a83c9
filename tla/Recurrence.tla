----------------------------- MODULE Recurrence -----------------------------
(***************************************************************************)
(* reminders/recurrence.go: when a recurring reminder is due next.         *)
(*                                                                         *)
(* Times are wall clock times in the rule's time zone, counted in hours    *)
(* from midnight of Monday, January 1st, 2024 (day 0 of month 0).  A zone  *)
(* puts its clocks forward by one hour from one wall time to another;      *)
(* instants, which Go compares, are wall times less that hour.  Wall times *)
(* inside the skipped and the repeated hour are left out.  Minutes and     *)
(* hours are one frequency, "fixed", that knows no zone.                   *)
(*                                                                         *)
(* CountExceeded, ClampedTo31 and onlyAnchorsWeekday are mistakes that no  *)
(* definition makes and the properties of RecurrenceSeries would find.     *)
(***************************************************************************)
EXTENDS Integers, FiniteSets

CONSTANTS
  None,            \* no time: ok = false, or no end
  WeeklyHorizon,   \* days nextWeekly looks ahead (366*3 in the code)
  Tries            \* candidates the other loops try (100000, 1200 and 500)

ASSUME RecurrenceAssumption ==
  /\ WeeklyHorizon \in Nat
  /\ Tries \in Nat
  /\ None \notin Int

----------------------------------------------------------------------------
(* Calendar: what package time does for this code. *)

DayLen == 24
DayOf(t) == t \div DayLen
ClockOf(t) == t % DayLen
At(day, clock) == DayLen * day + clock

(* Time.Sub and Time.After work on instants. *)
Instant(zone, t) == IF zone.from <= t /\ t < zone.to THEN t - 1 ELSE t
After(zone, t, u) == Instant(zone, t) > Instant(zone, u)
UTC == [from |-> 0, to |-> 0]

(* Monday is 0. *)
Weekday(day) == day % 7

IsLeap(year) == year % 4 = 0
MonthsOf30 == {3, 5, 8, 10}
lastDayOfMonth(month) ==
  LET m == month % 12
  IN  IF m = 1 THEN (IF IsLeap(month \div 12) THEN 29 ELSE 28)
      ELSE IF m \in MonthsOf30 THEN 30 ELSE 31

DaysBefore == <<0, 31, 59, 90, 120, 151, 181, 212, 243, 273, 304, 334>>
FirstDay(month) ==
  LET y == month \div 12
      m == month % 12
  IN  365 * y + (y + 3) \div 4 + DaysBefore[m + 1] + IF m > 1 /\ IsLeap(y) THEN 1 ELSE 0

(* Month and day of month of a day: 48 months are 1461 days. *)
MonthOf(day) ==
  LET about == (48 * day) \div 1461
  IN  CHOOSE m \in about - 1 .. about + 1 : FirstDay(m) <= day /\ day < FirstDay(m + 1)
DayOfMonth(day) == day - FirstDay(MonthOf(day)) + 1
DaysOfMonth(month) == FirstDay(month) .. FirstDay(month + 1) - 1

Earliest(S) ==
  IF \E t \in S : \A u \in S : t <= u
  THEN CHOOSE t \in S : \A u \in S : t <= u
  ELSE None

----------------------------------------------------------------------------

(* nextFixedInterval, on instants. *)
nextFixedInterval(anchor, after, step) ==
  IF anchor > after THEN anchor
  ELSE anchor + ((after - anchor) \div step + 1) * step

(* nextDaily *)
nextDaily(anchor, after, rule) ==
  Earliest({t \in {anchor + DayLen * k * rule.interval : k \in 0 .. Tries - 1} :
              After(rule.zone, t, after)})

(* weekStartMonday, and weeksBetween of two such Mondays, which divides    *)
(* the hours that pass between them.                                       *)
weekStartMonday(day) == day - Weekday(day)
weeksBetween(zone, start, end) ==
  LET hours == Instant(zone, At(end, 0)) - Instant(zone, At(start, 0))
      days == (IF hours < 0 THEN -hours ELSE hours) \div 24
  IN  days \div 7

(* nextWeekly *)
onlyAnchorsWeekday(anchor, rule) == {Weekday(DayOf(anchor))}
weekdaysOf(anchor, rule) ==
  IF rule.weekdays = {} THEN {Weekday(DayOf(anchor))} ELSE rule.weekdays

nextWeekly(anchor, after, rule) ==
  LET anchorWeek == weekStartMonday(DayOf(anchor))
      candidates ==
        {At(day, ClockOf(anchor)) :
           day \in {d \in DayOf(after) .. DayOf(after) + WeeklyHorizon - 1 :
                      /\ Weekday(d) \in weekdaysOf(anchor, rule)
                      /\ weeksBetween(rule.zone, anchorWeek, weekStartMonday(d))
                           % rule.interval = 0}}
  IN  Earliest({t \in candidates : After(rule.zone, t, after)})

(* nthWeekdayInMonth; not every month has a fifth. *)
nthWeekdayInMonth(month, nth, weekday) ==
  LET days == {d \in DaysOfMonth(month) : Weekday(d) = weekday}
      upTo(d) == Cardinality({e \in days : e <= d})
  IN  {d \in days : upTo(d) = (IF nth = -1 THEN Cardinality(days) ELSE nth)}

(* calendarInstant: the day of a month that the rule names, if there is    *)
(* one; the anchor's day is clamped to the month's end.                    *)
ClampedTo31(anchor, month) == DayOfMonth(DayOf(anchor))
ClampedDay(anchor, month) ==
  LET day == DayOfMonth(DayOf(anchor))
      last == lastDayOfMonth(month)
  IN  IF day > last THEN last ELSE day

calendarDays(month, anchor, rule) ==
  CASE rule.mode = "last_day_of_month" ->
         {FirstDay(month) + lastDayOfMonth(month) - 1}
    [] rule.mode = "nth_weekday" -> nthWeekdayInMonth(month, rule.nth, rule.weekday)
    [] rule.mode = "day_of_month" -> {FirstDay(month) + ClampedDay(anchor, month) - 1}

(* nextMonthly and nextYearly: the first candidate after, in months that   *)
(* are so many units from the anchor's.                                    *)
nextByMonths(anchor, after, rule, unit) ==
  LET month(k) == MonthOf(DayOf(anchor)) + k * rule.interval * unit
      candidates ==
        {At(day, ClockOf(anchor)) :
           day \in UNION {calendarDays(month(k), anchor, rule) : k \in 0 .. Tries - 1}}
  IN  Earliest({t \in candidates : After(rule.zone, t, after)})

computeNext(anchor, after, rule) ==
  CASE rule.freq = "fixed" -> nextFixedInterval(anchor, after, rule.interval)
    [] rule.freq = "day" -> nextDaily(anchor, after, rule)
    [] rule.freq = "week" -> nextWeekly(anchor, after, rule)
    [] rule.freq = "month" -> nextByMonths(anchor, after, rule, 1)
    [] rule.freq = "year" -> nextByMonths(anchor, after, rule, 12)

(* Validate; rule.max and rule.until stand for the end. *)
Validate(rule) ==
  /\ rule.interval \in Nat \ {0}
  /\ rule.freq \in {"fixed", "day", "week", "month", "year"}
  /\ rule.freq \in {"month", "year"} =>
       /\ rule.mode \in {"day_of_month", "last_day_of_month", "nth_weekday"}
       /\ rule.mode = "nth_weekday" => rule.nth \in {-1} \cup 1 .. 5
                                       /\ rule.weekday \in 0 .. 6
  /\ rule.max \in (Nat \ {0}) \cup {None}
  /\ rule.until \in Int \cup {None}

(* RecurrenceRule: weekdays are what ParseWeekday returns, and a time zone *)
(* changes its clocks between two times, or never.                         *)
IsRule(rule) ==
  /\ Validate(rule)
  /\ rule.weekdays \subseteq 0 .. 6
  /\ rule.zone \in [from : Int, to : Int]

(* The end of a series: after so many deliveries, or with a day. *)
CountExceeded(rule, count) == rule.max # None /\ count > rule.max
CountReached(rule, count) == rule.max # None /\ count >= rule.max
PastEndDate(rule, t) == rule.until # None /\ DayOf(t) > rule.until

NextDue(anchor, after, rule, count) ==
  LET next == computeNext(anchor, after, rule)
  IN  IF CountReached(rule, count) \/ next = None \/ PastEndDate(rule, next)
      THEN None
      ELSE next
============================================================================
