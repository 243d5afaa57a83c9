-------------------------- MODULE RecurrenceSeries --------------------------
(***************************************************************************)
(* The life of one recurring reminder that nobody touches: memory/         *)
(* pipeline.go's DeliverDueReminders delivers it, possibly late, and moves *)
(* it on with Recurrence's NextDue.  The properties compare every move     *)
(* with what the rule means, stated without any search.                    *)
(***************************************************************************)
EXTENDS Recurrence

CONSTANTS
  Rules,       \* recurrence rules
  Anchors,     \* first occurrences
  Delays,      \* hours a delivery may come late
  Deliveries,  \* how many deliveries are watched: bounds an instance
  Horizon      \* until when a series that ended is watched: bounds an instance

ASSUME SeriesAssumption ==
  /\ Deliveries \in Nat
  /\ Horizon \in Nat
  /\ Anchors \subseteq Nat
  /\ Delays \subseteq Nat
  /\ \A r \in Rules : IsRule(r)

VARIABLES
  rule, anchor,
  now,       \* the time of the latest delivery
  due,       \* the next occurrence, or None
  count      \* deliveries so far

vars == <<rule, anchor, now, due, count>>

Init ==
  /\ rule \in Rules
  /\ anchor \in Anchors
  /\ now = anchor
  /\ due = anchor
  /\ count = 0

Deliver(delay) ==
  /\ due # None
  /\ count < Deliveries
  /\ now' = due + delay
  /\ count' = count + 1
  /\ due' = NextDue(anchor, now', rule, count')
  /\ UNCHANGED <<rule, anchor>>

(* The series is over, or no longer watched. *)
Over ==
  /\ due = None \/ count = Deliveries
  /\ UNCHANGED vars

Next == Over \/ \E delay \in Delays : Deliver(delay)

Spec == Init /\ [][Next]_vars

----------------------------------------------------------------------------
(* What a rule means. *)

WeeksApart(t) == (weekStartMonday(DayOf(t)) - weekStartMonday(DayOf(anchor))) \div 7
MonthsApart(t) == MonthOf(DayOf(t)) - MonthOf(DayOf(anchor))

OnDayOfMonth(t) ==
  LET day == DayOfMonth(DayOf(t))
      last == lastDayOfMonth(MonthOf(DayOf(t)))
  IN  CASE rule.mode = "day_of_month" ->
             \/ day = DayOfMonth(DayOf(anchor))
             \/ day = last /\ DayOfMonth(DayOf(anchor)) > last
        [] rule.mode = "last_day_of_month" -> day = last
        [] rule.mode = "nth_weekday" ->
             /\ Weekday(DayOf(t)) = rule.weekday
             /\ IF rule.nth = -1 THEN day + 7 > last ELSE (day - 1) \div 7 + 1 = rule.nth

Intended(t) ==
  CASE rule.freq = "fixed" -> (t - anchor) % rule.interval = 0
    [] rule.freq = "day" -> (DayOf(t) - DayOf(anchor)) % rule.interval = 0
    [] rule.freq = "week" ->
         /\ Weekday(DayOf(t)) \in IF rule.weekdays = {} THEN {Weekday(DayOf(anchor))}
                                  ELSE rule.weekdays
         /\ WeeksApart(t) % rule.interval = 0
    [] rule.freq = "month" -> MonthsApart(t) % rule.interval = 0 /\ OnDayOfMonth(t)
    [] rule.freq = "year" -> MonthsApart(t) % (12 * rule.interval) = 0 /\ OnDayOfMonth(t)

(* The times between the latest delivery and t that could be occurrences.  *)
Between(t) ==
  IF rule.freq = "fixed" THEN now + 1 .. t - 1
  ELSE {u \in {At(day, ClockOf(anchor)) : day \in DayOf(now) .. DayOf(t)} : now < u /\ u < t}

(* NextDue stays on the rule's schedule, at the anchor's time of day and   *)
(* without drifting after a short month (calendarInstant, nextWeekly).     *)
OnSchedule ==
  (count > 0 /\ due # None) =>
    /\ due > now
    /\ rule.freq # "fixed" => ClockOf(due) = ClockOf(anchor)
    /\ Intended(due)

(* However late a delivery is, the next one is the very next occurrence,   *)
(* and a series that ended has reached its count or has no occurrence left *)
(* before its end date (NextDue).                                          *)
NothingSkipped ==
  count > 0 =>
    LET ended == due = None /\ ~(rule.max # None /\ count = rule.max)
        next == IF due # None THEN due ELSE IF ended THEN Horizon ELSE now
    IN  \A t \in Between(next) : Intended(t) => (ended /\ DayOf(t) > rule.until)

(* after_count and on_date are kept: no delivery too many, none is due     *)
(* after the last day.                                                     *)
EndIsKept ==
  /\ rule.max # None => (count <= rule.max /\ (count = rule.max => due = None))
  /\ (count > 0 /\ due # None /\ rule.until # None) => DayOf(due) <= rule.until

----------------------------------------------------------------------------
(* memory/reminder_update.go:19, "Repeat every N units": a weekly reminder *)
(* comes back in every N-th week of the calendar.  weeksBetween counts the *)
(* hours that pass instead, and loses a week when clocks go forward.       *)
EveryNthWeek ==
  (rule.freq = "week" /\ due # None) => WeeksApart(due) % rule.interval = 0
============================================================================
