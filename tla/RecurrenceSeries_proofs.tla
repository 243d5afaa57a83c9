---------------------- MODULE RecurrenceSeries_proofs ----------------------
(***************************************************************************)
(* RecurrenceSeries for any rules that Validate accepts, any anchors and   *)
(* delays, any zones and any bounds of the loops.                          *)
(***************************************************************************)
EXTENDS RecurrenceSeries, Recurrence_proofs

(* What the loops of nextDaily, nextWeekly and nextByMonths look for. *)

Running == rule \in Rules /\ anchor \in Anchors /\ now \in Nat /\ anchor <= now

OnRule(t) ==
  /\ t > now
  /\ rule.freq # "fixed" => ClockOf(t) = ClockOf(anchor)
  /\ Intended(t)

(* No occurrence falls into an hour that the clocks skip. *)
NoHourSkipped == \A r \in Rules, a \in Anchors : HourNotSkipped(r, a)

(* Weeks are counted only where clocks do not change (see EveryNthWeek). *)
WholeWeeks == \A r \in Rules : CountsWeeks(r)

(* The first time after now that the rule means, if there is any. *)
IsFirst(c) ==
  /\ c \in Nat \cup {None}
  /\ c # None => OnRule(c)
  /\ (NoHourSkipped /\ c # None) => \A t \in Int : OnRule(t) => c <= t

LEMMA RunningFacts ==
  ASSUME Running
  PROVE  /\ IsRule(rule)
         /\ NoHourSkipped => HourNotSkipped(rule, anchor)
         /\ WholeWeeks => CountsWeeks(rule)
         /\ rule.interval \in Nat \ {0}
         /\ rule.zone \in [from : Int, to : Int]
         /\ rule.max \in (Nat \ {0}) \cup {None}
         /\ rule.until \in Int \cup {None}
         /\ rule.freq \in {"fixed", "day", "week", "month", "year"}
         /\ rule.freq \in {"month", "year"} =>
              /\ rule.mode \in {"day_of_month", "last_day_of_month", "nth_weekday"}
              /\ rule.mode = "nth_weekday" => rule.nth \in {-1} \cup 1 .. 5
                                              /\ rule.weekday \in 0 .. 6
         /\ anchor \in Nat /\ now \in Nat /\ anchor <= now
         /\ DayOf(anchor) \in Nat /\ DayOf(now) \in Nat /\ DayOf(anchor) <= DayOf(now)
         /\ ClockOf(anchor) \in 0 .. DayLen - 1
<1>1. anchor \in Nat /\ now \in Nat /\ anchor <= now
  BY SeriesAssumption DEF Running
<1>2. /\ DayOf(anchor) \in Nat /\ DayOf(now) \in Nat /\ DayOf(anchor) <= DayOf(now)
      /\ ClockOf(anchor) \in 0 .. DayLen - 1
  BY <1>1 DEF DayOf, ClockOf, DayLen
<1>3. IsRule(rule)
  BY SeriesAssumption DEF Running
<1>4. /\ NoHourSkipped => HourNotSkipped(rule, anchor)
      /\ WholeWeeks => CountsWeeks(rule)
  BY DEF Running, NoHourSkipped, WholeWeeks
<1> QED BY <1>1, <1>2, <1>3, <1>4, RuleFacts

(* nextFixedInterval *)
LEMMA FixedIsFirst ==
  ASSUME Running, rule.freq = "fixed"
  PROVE  /\ IsFirst(nextFixedInterval(anchor, now, rule.interval))
         /\ nextFixedInterval(anchor, now, rule.interval) # None
<1> DEFINE i == rule.interval
           a == now - anchor
           q == a \div i
           r == a % i
           c == nextFixedInterval(anchor, now, i)
<1>1. i \in Nat \ {0} /\ anchor \in Nat /\ now \in Nat /\ anchor <= now /\ a \in Nat
  BY RunningFacts
<1>2. c = anchor + (q + 1) * i
  BY <1>1 DEF nextFixedInterval
<1> HIDE DEF i, a, c
<1>3. q \in Int /\ r \in 0 .. i - 1 /\ a = i * q + r
  BY <1>1, Division
<1> HIDE DEF q, r
<1>4. (q + 1) * i = q * i + i /\ i * q = q * i /\ q * i \in Int
  BY <1>1, <1>3
<1>5. c \in Int /\ c > now /\ q * i <= now - anchor
  <2> DEFINE p == q * i
  <2>1. p \in Int /\ a = p + r /\ c = anchor + (p + i)
    BY <1>2, <1>3, <1>4
  <2>2. a = now - anchor
    BY DEF a
  <2> HIDE DEF p
  <2>3. c \in Int /\ c > now /\ p <= now - anchor
    BY <1>1, <1>3, <2>1, <2>2
  <2> QED BY <2>3 DEF p
<1>6. c - anchor = (q + 1) * i
  BY <1>1, <1>2, <1>3, <1>4
<1>7. (c - anchor) % i = 0
  <2>1. q + 1 \in Int
    BY <1>3
  <2> QED BY <1>1, <1>6, <2>1, MultipleHasNoRest
<1>8. OnRule(c)
  BY <1>5, <1>7 DEF OnRule, Intended, i
<1>9. ASSUME NEW t \in Int, OnRule(t) PROVE c <= t
  <2>1. t > now /\ (t - anchor) % i = 0
    BY <1>9 DEF OnRule, Intended, i
  <2> DEFINE j == (t - anchor) \div i
  <2>2. j \in Int /\ t - anchor = j * i
    BY <1>1, <2>1, NoRestIsMultiple
  <2> HIDE DEF j
  <2>3. j * i \in Int /\ q * i < j * i
    BY <1>1, <1>4, <1>5, <2>1, <2>2
  <2>4. q < j
    BY <1>1, <1>3, <2>2, <2>3, ProductOrder
  <2>5. q * i + i <= j * i
    BY <1>1, <1>3, <2>2, <2>4, ProductOrder
  <2> QED BY <1>1, <1>2, <1>4, <2>2, <2>3, <2>5
<1>10. c \in Nat /\ c # None
  BY <1>1, <1>5, RecurrenceAssumption
<1> QED BY <1>8, <1>9, <1>10 DEF IsFirst, c, i

(* A loop over candidates that are all meant by the rule, and that leave   *)
(* out none before one of them, finds the first.                           *)
LEMMA LoopIsFirst ==
  ASSUME Running, rule.freq # "fixed", NEW C, C \subseteq Int,
         \A t \in C : ClockOf(t) = ClockOf(anchor) /\ Intended(t),
         \A t \in Int, u \in C : (OnRule(t) /\ t < u) => t \in C
  PROVE  IsFirst(Earliest({t \in C : After(rule.zone, t, now)}))
<1> DEFINE c == Earliest({t \in C : After(rule.zone, t, now)})
<1>1. /\ c \in Int \cup {None}
      /\ c # None => c \in C /\ After(rule.zone, c, now) /\ c > now
      /\ c # None => \A t \in C : After(rule.zone, t, now) => c <= t
  <2>1. IsRule(rule) /\ now \in Int
    BY RunningFacts
  <2> QED BY <2>1, LoopIsLater
<1> HIDE DEF c
<1>2. c # None => OnRule(c)
  BY <1>1 DEF OnRule
<1>3. ASSUME c # None, NoHourSkipped, NEW t \in Int, OnRule(t), t < c PROVE FALSE
  <2>1. t \in C
    BY <1>1, <1>3
  <2>2. After(rule.zone, t, now)
    BY <1>3, RunningFacts, NotSkipped DEF OnRule
  <2>3. c <= t /\ c \in Int
    BY <1>1, <1>3, <2>1, <2>2
  <2> QED BY <1>3, <2>3
<1>4. (NoHourSkipped /\ c # None) => \A t \in Int : OnRule(t) => c <= t
  <2>1. c # None => c \in Int
    BY <1>1
  <2> QED BY <1>3, <2>1
<1>5. c \in Nat \cup {None}
  <2>1. now \in Nat
    BY RunningFacts
  <2> QED BY <1>1, <2>1
<1> QED BY <1>2, <1>4, <1>5 DEF IsFirst, c

(* nextDaily *)
LEMMA DailyIsFirst ==
  ASSUME Running, rule.freq = "day"
  PROVE  IsFirst(nextDaily(anchor, now, rule))
<1> DEFINE i == rule.interval
           C == {anchor + DayLen * k * i : k \in 0 .. Tries - 1}
<1>1. i \in Nat \ {0} /\ anchor \in Nat /\ now \in Nat /\ anchor <= now
  BY RunningFacts
<1>2. nextDaily(anchor, now, rule) = Earliest({t \in C : After(rule.zone, t, now)})
  BY DEF nextDaily
<1> HIDE DEF i
<1>3. ASSUME NEW k \in Int
      PROVE  DayLen * k * i = 24 * (k * i) /\ k * i \in Int /\ (k * i) % i = 0
  <2>1. DayLen * k * i = 24 * (k * i) /\ k * i \in Int
    BY <1>1 DEF DayLen
  <2> QED BY <1>1, <2>1, MultipleHasNoRest
<1>4. ASSUME NEW t \in C
      PROVE  \E k \in 0 .. Tries - 1 : /\ k * i \in Int /\ (k * i) % i = 0
                                       /\ t = anchor + 24 * (k * i)
  <2>1. PICK k \in 0 .. Tries - 1 : t = anchor + DayLen * k * i
    OBVIOUS
  <2>2. k \in Int
    BY RecurrenceAssumption
  <2> QED BY <1>3, <2>1, <2>2
<1>5. C \subseteq Int
  BY <1>1, <1>4
<1>6. ASSUME NEW t \in C
      PROVE  ClockOf(t) = ClockOf(anchor) /\ Intended(t)
  <2>1. PICK k \in 0 .. Tries - 1 : /\ k * i \in Int /\ (k * i) % i = 0
                                    /\ t = anchor + 24 * (k * i)
    BY <1>4
  <2> DEFINE p == k * i
  <2>2. p \in Int /\ p % i = 0 /\ t = anchor + 24 * p
    BY <2>1
  <2> HIDE DEF p
  <2>3. ClockOf(t) = ClockOf(anchor) /\ DayOf(t) - DayOf(anchor) = p
    BY <1>1, <2>2 DEF ClockOf, DayOf, DayLen
  <2> QED BY <2>2, <2>3 DEF Intended, i
<1>7. ASSUME NEW t \in Int, NEW u \in C, OnRule(t), t < u
      PROVE  t \in C
  <2>1. t > now /\ ClockOf(t) = ClockOf(anchor) /\ (DayOf(t) - DayOf(anchor)) % i = 0
    BY <1>7 DEF OnRule, Intended, i
  <2> DEFINE d == DayOf(t) - DayOf(anchor)
             j == d \div i
  <2>2. d \in Int /\ t = anchor + 24 * d
    <3>1. /\ DayOf(t) \in Int /\ t = 24 * DayOf(t) + ClockOf(t)
          /\ DayOf(anchor) \in Int /\ anchor = 24 * DayOf(anchor) + ClockOf(anchor)
          /\ ClockOf(anchor) \in Int
      BY <1>1, DayFacts DEF At, DayLen
    <3> QED BY <2>1, <3>1
  <2>3. j \in Int /\ d = j * i
    BY <1>1, <2>1, <2>2, NoRestIsMultiple
  <2> HIDE DEF d, j
  <2>4. PICK k \in 0 .. Tries - 1 : k * i \in Int /\ u = anchor + 24 * (k * i)
    BY <1>4
  <2>5. k \in Int /\ d < k * i /\ 0 < d
    BY <1>1, <1>7, <2>1, <2>2, <2>4, RecurrenceAssumption
  <2>6. j < k
    BY <1>1, <2>3, <2>5, ProductOrder
  <2>7. 0 < j
    <3>1. 0 * i = 0
      BY <1>1
    <3> QED BY <1>1, <2>3, <2>5, <3>1, ProductOrder
  <2>8. j \in 0 .. Tries - 1 /\ t = anchor + DayLen * j * i
    BY <1>3, <2>2, <2>3, <2>6, <2>7, RecurrenceAssumption
  <2> QED BY <2>8
<1> HIDE DEF C
<1> QED BY <1>2, <1>5, <1>6, <1>7, LoopIsFirst

(* nextWeekly *)
LEMMA WeeklyIsFirst ==
  ASSUME Running, WholeWeeks, rule.freq = "week"
  PROVE  IsFirst(nextWeekly(anchor, now, rule))
<1> DEFINE clock == ClockOf(anchor)
           weekdays == weekdaysOf(anchor, rule)
           anchorWeek == weekStartMonday(DayOf(anchor))
           last == DayOf(now) + WeeklyHorizon - 1
           days == {d \in DayOf(now) .. last :
                      /\ Weekday(d) \in weekdays
                      /\ weeksBetween(rule.zone, anchorWeek, weekStartMonday(d))
                           % rule.interval = 0}
           C == {At(day, clock) : day \in days}
<1>1. /\ anchor \in Nat /\ now \in Nat /\ rule.zone \in [from : Int, to : Int]
      /\ clock \in 0 .. DayLen - 1
      /\ DayOf(anchor) \in Nat /\ DayOf(now) \in Nat /\ DayOf(anchor) <= DayOf(now)
      /\ last \in Int
  BY RunningFacts, RecurrenceAssumption
<1>2. nextWeekly(anchor, now, rule) = Earliest({t \in C : After(rule.zone, t, now)})
  BY DEF nextWeekly
<1>3. ASSUME NEW d \in Int, DayOf(now) <= d, d <= last
      PROVE  LET t == At(d, clock)
             IN  /\ t \in Int /\ DayOf(t) = d /\ ClockOf(t) = ClockOf(anchor)
                 /\ d \in days <=> Intended(t)
  <2> DEFINE t == At(d, clock)
  <2>1. t \in Int /\ DayOf(t) = d /\ ClockOf(t) = clock
    BY <1>1, AtFacts
  <2>2. d \in DayOf(now) .. last
    BY <1>1, <1>3
  <2>3. Intended(t) <=> /\ Weekday(d) \in weekdays
                        /\ ((weekStartMonday(d) - anchorWeek) \div 7) % rule.interval = 0
    BY <2>1 DEF Intended, WeeksApart, weekdaysOf
  <2>4. weeksBetween(rule.zone, anchorWeek, weekStartMonday(d)) % rule.interval = 0
          <=> ((weekStartMonday(d) - anchorWeek) \div 7) % rule.interval = 0
    BY RunningFacts, WeeksAgree
  <2> QED BY <2>1, <2>2, <2>3, <2>4
<1> HIDE DEF weekdays, anchorWeek, last, clock
<1>4. ASSUME NEW d \in days
      PROVE  /\ At(d, clock) \in Int /\ DayOf(At(d, clock)) = d /\ d <= last
             /\ ClockOf(At(d, clock)) = ClockOf(anchor)
             /\ Intended(At(d, clock))
  <2>1. d \in Int /\ DayOf(now) <= d /\ d <= last
    BY <1>1
  <2> QED BY <1>3, <2>1
<1>5. C \subseteq Int /\ \A t \in C : ClockOf(t) = ClockOf(anchor) /\ Intended(t)
  BY <1>4
<1>6. ASSUME NEW t \in Int, NEW u \in C, OnRule(t), t < u
      PROVE  t \in C
  <2>1. t > now /\ ClockOf(t) = ClockOf(anchor) /\ Intended(t)
    BY <1>6 DEF OnRule
  <2>2. DayOf(t) \in Int /\ t = At(DayOf(t), clock)
    BY <2>1, DayFacts DEF clock
  <2>3. u \in Int /\ DayOf(u) <= last
    BY <1>4
  <2>4. DayOf(now) <= DayOf(t) /\ DayOf(t) <= DayOf(u) /\ DayOf(u) \in Int
    BY <1>1, <1>6, <2>1, <2>3, DaysAreOrdered, DayFacts
  <2>5. DayOf(t) \in days
    BY <1>1, <1>3, <2>1, <2>2, <2>3, <2>4
  <2> QED BY <2>2, <2>5
<1> HIDE DEF C
<1> QED BY <1>2, <1>5, <1>6, LoopIsFirst

(* The days that calendarInstant takes in a month are the days of that     *)
(* month that the rule means.                                              *)
LEMMA CalendarDaysFacts ==
  ASSUME Running, rule.freq \in {"month", "year"}, NEW month \in Nat, NEW day \in Int
  PROVE  day \in calendarDays(month, anchor, rule)
           <=> day \in DaysOfMonth(month) /\ OnDayOfMonth(At(day, ClockOf(anchor)))
<1> DEFINE last == lastDayOfMonth(month)
           f == FirstDay(month)
<1>1. /\ rule.mode \in {"day_of_month", "last_day_of_month", "nth_weekday"}
      /\ rule.mode = "nth_weekday" => rule.nth \in {-1} \cup 1 .. 5 /\ rule.weekday \in 0 .. 6
      /\ anchor \in Nat /\ ClockOf(anchor) \in 0 .. DayLen - 1
  BY RunningFacts
<1>2. DayOf(At(day, ClockOf(anchor))) = day
  BY <1>1, AtFacts
<1>3. last \in 28 .. 31 /\ f \in Nat
  BY MonthLength, FirstDayIsNear
<1>4. day \in DaysOfMonth(month) =>
        /\ MonthOf(day) = month /\ DayOfMonth(day) \in 1 .. last
        /\ day = f + DayOfMonth(day) - 1
  BY InMonth
<1>5. \A d \in 1 .. last : f + d - 1 \in DaysOfMonth(month) /\ DayOfMonth(f + d - 1) = d
  BY DayInMonth
<1> HIDE DEF f, last
<1>6. CASE rule.mode = "last_day_of_month"
  <2>1. calendarDays(month, anchor, rule) = {f + last - 1}
    BY <1>6 DEF calendarDays, f, last
  <2>2. day \in DaysOfMonth(month) =>
          (OnDayOfMonth(At(day, ClockOf(anchor))) <=> DayOfMonth(day) = last)
    BY <1>2, <1>4, <1>6 DEF OnDayOfMonth, last
  <2> QED BY <1>3, <1>4, <1>5, <2>1, <2>2
<1>7. CASE rule.mode = "day_of_month"
  <2> DEFINE k == ClampedDay(anchor, month)
  <2>1. calendarDays(month, anchor, rule) = {f + k - 1}
    BY <1>7 DEF calendarDays, f
  <2>2. k \in 1 .. last
    BY <1>1, ClampedDayFacts DEF last
  <2>3. day \in DaysOfMonth(month) =>
          (OnDayOfMonth(At(day, ClockOf(anchor))) <=> DayOfMonth(day) = k)
    BY <1>1, <1>2, <1>4, <1>7, ClampedDayFacts DEF OnDayOfMonth, last
  <2> HIDE DEF k
  <2> QED BY <1>3, <1>4, <1>5, <2>1, <2>2, <2>3
<1>8. CASE rule.mode = "nth_weekday"
  <2>1. calendarDays(month, anchor, rule) = nthWeekdayInMonth(month, rule.nth, rule.weekday)
    BY <1>8 DEF calendarDays
  <2>2. day \in nthWeekdayInMonth(month, rule.nth, rule.weekday) => day \in DaysOfMonth(month)
    BY DEF nthWeekdayInMonth
  <2>3. day \in DaysOfMonth(month) =>
          (OnDayOfMonth(At(day, ClockOf(anchor))) <=>
             /\ Weekday(day) = rule.weekday
             /\ IF rule.nth = -1 THEN DayOfMonth(day) + 7 > last
                ELSE (DayOfMonth(day) - 1) \div 7 + 1 = rule.nth)
    BY <1>2, <1>4, <1>8 DEF OnDayOfMonth, last
  <2> QED BY <1>1, <1>8, <2>1, <2>2, <2>3, NthWeekdayFacts DEF last
<1> QED BY <1>1, <1>6, <1>7, <1>8

(* nextMonthly and nextYearly *)
LEMMA ByMonthsIsFirst ==
  ASSUME Running, NEW unit,
         \/ rule.freq = "month" /\ unit = 1
         \/ rule.freq = "year" /\ unit = 12
  PROVE  IsFirst(nextByMonths(anchor, now, rule, unit))
<1> DEFINE clock == ClockOf(anchor)
           M == MonthOf(DayOf(anchor))
           month(k) == M + k * rule.interval * unit
           days == UNION {calendarDays(month(k), anchor, rule) : k \in 0 .. Tries - 1}
           C == {At(day, clock) : day \in days}
<1>1. nextByMonths(anchor, now, rule, unit) = Earliest({t \in C : After(rule.zone, t, now)})
  BY DEF nextByMonths
<1>2. PICK n \in Nat \ {0} : n = rule.interval * unit
  BY RunningFacts
<1>3. /\ anchor \in Nat /\ now \in Nat /\ anchor <= now
      /\ clock \in 0 .. DayLen - 1
      /\ DayOf(anchor) \in Nat /\ DayOf(now) \in Nat /\ DayOf(anchor) <= DayOf(now)
      /\ rule.freq \in {"month", "year"} /\ rule.freq # "fixed"
  BY RunningFacts
<1>4. M \in Nat
  BY <1>3, MonthOfFacts
<1>5. \A k \in Int : month(k) = M + k * n /\ k * n \in Int
  <2> SUFFICES ASSUME NEW k \in Int PROVE month(k) = M + k * n /\ k * n \in Int
    OBVIOUS
  <2>1. rule.interval \in Int /\ unit \in Int
    BY RunningFacts
  <2>2. k * rule.interval * unit = k * n
    BY <1>2, <2>1
  <2> QED BY <1>2, <2>2
<1>6. \A t : Intended(t) <=> MonthsApart(t) % n = 0 /\ OnDayOfMonth(t)
  <2>1. CASE rule.freq = "month" /\ unit = 1
    <3>1. n = rule.interval
      BY <1>2, <2>1, RunningFacts
    <3> QED BY <2>1, <3>1 DEF Intended
  <2>2. CASE rule.freq = "year" /\ unit = 12
    <3>1. n = 12 * rule.interval
      BY <1>2, <2>2, RunningFacts
    <3> QED BY <2>2, <3>1 DEF Intended
  <2> QED BY <2>1, <2>2
<1> HIDE DEF M, month, clock
<1>7. ASSUME NEW t \in C
      PROVE  \E k \in 0 .. Tries - 1, day \in Nat :
               /\ k \in Nat /\ k * n \in Int /\ M + k * n \in Nat
               /\ MonthOf(day) = M + k * n
               /\ t = At(day, clock) /\ t \in Int /\ DayOf(t) = day /\ ClockOf(t) = clock
               /\ OnDayOfMonth(t)
  <2>1. PICK k \in 0 .. Tries - 1 : \E day \in calendarDays(month(k), anchor, rule) :
                                       t = At(day, clock)
    OBVIOUS
  <2>2. k \in Nat /\ k \in Int
    BY RecurrenceAssumption
  <2>3. k * n \in Nat /\ month(k) = M + k * n /\ M + k * n \in Nat
    <3>1. k * n \in Nat
      BY <1>2, <2>2
    <3>2. month(k) = M + k * n
      BY <1>5, <2>2
    <3> QED BY <1>4, <3>1, <3>2
  <2>4. PICK day \in calendarDays(M + k * n, anchor, rule) : t = At(day, clock)
    BY <2>1, <2>3
  <2>5. day \in Int
    BY <1>3, <2>3, <2>4, RunningFacts, MonthCandidates
  <2>6. day \in DaysOfMonth(M + k * n) /\ OnDayOfMonth(At(day, clock))
    BY <1>3, <2>3, <2>4, <2>5, CalendarDaysFacts DEF clock
  <2>7. day \in Nat /\ MonthOf(day) = M + k * n
    BY <2>3, <2>6, InMonth
  <2>8. t \in Int /\ DayOf(t) = day /\ ClockOf(t) = clock
    BY <1>3, <2>4, <2>7, AtFacts
  <2> QED BY <2>2, <2>3, <2>4, <2>6, <2>7, <2>8
<1>8. C \subseteq Int
  BY <1>7
<1>9. ASSUME NEW t \in C
      PROVE  ClockOf(t) = ClockOf(anchor) /\ Intended(t)
  <2>1. PICK k \in 0 .. Tries - 1, day \in Nat :
               /\ k \in Nat /\ k * n \in Int /\ M + k * n \in Nat
               /\ MonthOf(day) = M + k * n
               /\ t = At(day, clock) /\ t \in Int /\ DayOf(t) = day /\ ClockOf(t) = clock
               /\ OnDayOfMonth(t)
    BY <1>7
  <2>2. MonthsApart(t) = k * n
    BY <1>4, <2>1 DEF MonthsApart, M
  <2>3. (k * n) % n = 0
    BY <1>2, <2>1, MultipleHasNoRest
  <2> QED BY <1>6, <2>1, <2>2, <2>3 DEF clock
<1>10. ASSUME NEW t \in Int, NEW u \in C, OnRule(t), t < u
       PROVE  t \in C
  <2>1. t > now /\ ClockOf(t) = clock /\ MonthsApart(t) % n = 0 /\ OnDayOfMonth(t)
    BY <1>3, <1>6, <1>10 DEF OnRule, clock
  <2> DEFINE day == DayOf(t)
             m == MonthOf(day)
  <2>2. PICK k \in 0 .. Tries - 1, later \in Nat :
               /\ k \in Nat /\ k * n \in Int /\ M + k * n \in Nat
               /\ MonthOf(later) = M + k * n
               /\ u \in Int /\ DayOf(u) = later
    BY <1>7
  <2>3. day \in Nat /\ DayOf(anchor) <= day /\ day <= later
    <3>1. now <= t /\ t <= u /\ now \in Int /\ u \in Int
      BY <1>3, <1>10, <2>1, <2>2
    <3>2. DayOf(now) <= day /\ day <= later /\ day \in Int
      BY <2>2, <3>1, DaysAreOrdered, DayFacts
    <3> HIDE DEF day
    <3> QED BY <1>3, <3>2
  <2>4. t = At(day, clock)
    BY <2>1, DayFacts
  <2> HIDE DEF day
  <2>5. m \in Nat /\ M <= m /\ m <= M + k * n /\ day \in DaysOfMonth(m)
    BY <1>3, <2>2, <2>3, LaterDayLaterMonth, DayOfMonthFacts DEF M
  <2>6. (m - M) % n = 0
    BY <2>1 DEF MonthsApart, M, day
  <2> HIDE DEF m
  <2> DEFINE j == (m - M) \div n
  <2>7. j \in Int /\ m - M = j * n
    <3>1. m - M \in Int
      BY <1>4, <2>5
    <3> QED BY <1>2, <2>6, <3>1, NoRestIsMultiple
  <2> HIDE DEF j
  <2>8. j * n \in Int /\ m = M + j * n /\ 0 <= j * n /\ j * n <= k * n
    BY <1>4, <1>5, <2>2, <2>5, <2>7
  <2>9. ~(k < j)
    BY <1>2, <2>2, <2>7, <2>8, ProductOrder
  <2>10. ~(j < 0)
    <3>1. 0 * n = 0
      BY <1>2
    <3> QED BY <1>2, <2>7, <2>8, <3>1, ProductOrder
  <2>11. j \in 0 .. Tries - 1 /\ month(j) = m
    BY <1>5, <2>2, <2>7, <2>8, <2>9, <2>10, RecurrenceAssumption
  <2>12. day \in calendarDays(m, anchor, rule)
    BY <1>3, <2>1, <2>3, <2>4, <2>5, CalendarDaysFacts DEF clock
  <2> QED BY <2>4, <2>11, <2>12
<1> HIDE DEF C
<1> QED BY <1>1, <1>3, <1>8, <1>9, <1>10, LoopIsFirst

----------------------------------------------------------------------------
(* computeNext *)

(* The first that the rule means, if the loops get that far. *)
LEMMA ComputedIsFirst ==
  ASSUME Running, WholeWeeks
  PROVE  IsFirst(computeNext(anchor, now, rule))
<1>1. CASE rule.freq = "fixed"
  BY <1>1, FixedIsFirst DEF computeNext
<1>2. CASE rule.freq = "day"
  BY <1>2, DailyIsFirst DEF computeNext
<1>3. CASE rule.freq = "week"
  BY <1>3, WeeklyIsFirst DEF computeNext
<1>4. CASE rule.freq = "month"
  BY <1>4, ByMonthsIsFirst DEF computeNext
<1>5. CASE rule.freq = "year"
  BY <1>5, ByMonthsIsFirst DEF computeNext
<1> QED BY <1>1, <1>2, <1>3, <1>4, <1>5, RunningFacts

----------------------------------------------------------------------------
(* The series. *)

(* What is due was computed when the latest delivery was made.  Without    *)
(* it the schedule of the next move would not follow from this one's: only *)
(* the anchor, never due, is what NextDue starts from.                     *)
IInv ==
  /\ Running
  /\ count \in Nat
  /\ count = 0 => due = anchor /\ now = anchor
  /\ count > 0 => due = NextDue(anchor, now, rule, count)
  /\ rule.max # None => count <= rule.max

LEMMA NextDueFacts ==
  ASSUME Running, NEW n \in Nat
  PROVE  LET c == computeNext(anchor, now, rule)
             next == NextDue(anchor, now, rule, n)
         IN  /\ next \in Nat \cup {None}
             /\ next # None => /\ next = c /\ next > now
                               /\ rule.max # None => n < rule.max
                               /\ rule.until # None => DayOf(next) <= rule.until
             /\ next = None => \/ rule.max # None /\ n >= rule.max
                               \/ c = None
                               \/ rule.until # None /\ DayOf(c) > rule.until
<1> DEFINE c == computeNext(anchor, now, rule)
           next == NextDue(anchor, now, rule, n)
<1>1. IsRule(rule) /\ anchor \in Nat /\ now \in Nat /\ now \in Int
  BY RunningFacts
<1>2. /\ next \in Int \cup {None}
      /\ next # None => /\ next = c /\ next > now
                        /\ rule.max # None => n < rule.max
                        /\ rule.until # None => DayOf(next) <= rule.until
      /\ next = None => \/ rule.max # None /\ n >= rule.max
                        \/ c = None
                        \/ rule.until # None /\ DayOf(c) > rule.until
  BY <1>1, NextDueIsLater
<1> HIDE DEF c, next
<1>3. next \in Nat \cup {None}
  BY <1>1, <1>2
<1> QED BY <1>2, <1>3 DEF c, next

LEMMA DueFacts ==
  ASSUME IInv
  PROVE  /\ due \in Nat \cup {None}
         /\ due # None => due >= now /\ (rule.max # None => count < rule.max)
<1>1. rule.max \in (Nat \ {0}) \cup {None} /\ anchor \in Nat /\ now \in Nat
  BY RunningFacts DEF IInv
<1>2. CASE count = 0
  BY <1>1, <1>2 DEF IInv
<1>3. CASE count > 0
  BY <1>1, <1>3, NextDueFacts DEF IInv
<1> QED BY <1>2, <1>3 DEF IInv

LEMMA IInvIsInvariant == Spec => []IInv
<1>1. Init => IInv
  <2> SUFFICES ASSUME Init PROVE IInv
    OBVIOUS
  <2>1. Running
    BY SeriesAssumption DEF Init, Running
  <2>2. rule.max \in (Nat \ {0}) \cup {None}
    BY <2>1, RunningFacts
  <2> QED BY <2>1, <2>2 DEF Init, IInv
<1>2. IInv /\ [Next]_vars => IInv'
  <2> SUFFICES ASSUME IInv, [Next]_vars PROVE IInv'
    OBVIOUS
  <2>1. ASSUME NEW delay \in Delays, Deliver(delay) PROVE IInv'
    <3>1. delay \in Nat /\ now \in Nat /\ anchor \in Nat /\ anchor <= now
      BY SeriesAssumption, RunningFacts DEF IInv
    <3>2. due \in Nat /\ due >= now /\ (rule.max # None => count < rule.max)
      BY <2>1, DueFacts DEF Deliver
    <3>3. now' = due + delay /\ rule' = rule /\ anchor' = anchor /\ count' = count + 1
          /\ due' = NextDue(anchor, now', rule, count')
      BY <2>1 DEF Deliver
    <3>4. now' \in Nat /\ anchor <= now'
      BY <3>1, <3>2, <3>3
    <3>5. Running'
      BY <3>3, <3>4 DEF Running, IInv
    <3>6. count' \in Nat /\ count' > 0
      BY <3>3 DEF IInv
    <3>7. due' = NextDue(anchor', now', rule', count')
      BY <3>3
    <3>8. rule'.max # None => count' <= rule'.max
      <4>1. rule.max \in (Nat \ {0}) \cup {None}
        BY RunningFacts DEF IInv
      <4> QED BY <3>2, <3>3, <4>1 DEF IInv
    <3> QED BY <3>5, <3>6, <3>7, <3>8 DEF IInv
  <2>2. CASE UNCHANGED vars
    BY <2>2 DEF vars, IInv, Running
  <2> QED BY <2>1, <2>2 DEF Next, Over
<1> QED BY <1>1, <1>2, PTL DEF Spec

(* after_count and on_date (NextDue): a series is never delivered more     *)
(* often than its rule allows, is over with the last of these deliveries,  *)
(* and nothing is due after its last day.  For every rule and any delays.  *)
THEOREM SeriesEnds == Spec => []EndIsKept
<1>1. IInv => EndIsKept
  <2> SUFFICES ASSUME IInv PROVE EndIsKept
    OBVIOUS
  <2>1. rule.max # None => count <= rule.max /\ (count = rule.max => due = None)
    <3>1. rule.max \in (Nat \ {0}) \cup {None} /\ count \in Nat
      BY RunningFacts DEF IInv
    <3> QED BY <3>1, DueFacts DEF IInv
  <2>2. (count > 0 /\ due # None /\ rule.until # None) => DayOf(due) <= rule.until
    BY NextDueFacts DEF IInv
  <2> QED BY <2>1, <2>2 DEF EndIsKept
<1> QED BY <1>1, IInvIsInvariant, PTL

(* What is due after a delivery is an occurrence. *)
LEMMA DueIsOnRule ==
  ASSUME IInv, WholeWeeks, count > 0, due # None
  PROVE  OnRule(due)
<1>1. Running /\ due = computeNext(anchor, now, rule)
  BY NextDueFacts DEF IInv
<1> QED BY <1>1, ComputedIsFirst DEF IsFirst

(* Every move of a series (computeNext) stays on the rule's schedule: the  *)
(* next time is later, at the anchor's time of day, and on a day the rule  *)
(* means, through short months, leap years and months without a fifth      *)
(* weekday.  Weeks are counted where clocks do not change.                 *)
THEOREM SeriesStaysOnSchedule == ASSUME WholeWeeks PROVE Spec => []OnSchedule
<1>1. IInv => OnSchedule
  BY DueIsOnRule DEF OnSchedule, OnRule
<1> QED BY <1>1, IInvIsInvariant, PTL

(* Where clocks do not change, every N-th week is every N-th week of the   *)
(* calendar, as the tool's description has it (reminder_update.go:19).     *)
THEOREM SeriesKeepsWeeks == ASSUME WholeWeeks PROVE Spec => []EveryNthWeek
<1>1. IInv => EveryNthWeek
  <2> SUFFICES ASSUME IInv, rule.freq = "week", due # None
               PROVE  WeeksApart(due) % rule.interval = 0
    BY DEF EveryNthWeek
  <2>1. rule.interval \in Nat \ {0} /\ DayOf(anchor) \in Nat /\ count \in Nat
    BY RunningFacts DEF IInv
  <2>2. CASE count = 0
    <3>1. weekStartMonday(DayOf(anchor)) \in Int
      BY <2>1 DEF weekStartMonday, Weekday
    <3>2. WeeksApart(anchor) = 0
      BY <3>1 DEF WeeksApart
    <3> QED BY <2>1, <2>2, <3>2 DEF IInv
  <2>3. CASE count > 0
    BY <2>3, DueIsOnRule DEF OnRule, Intended
  <2> QED BY <2>1, <2>2, <2>3
<1> QED BY <1>1, IInvIsInvariant, PTL

LEMMA NothingSkippedIfFound ==
  ASSUME IInv, WholeWeeks, NoHourSkipped, computeNext(anchor, now, rule) # None
  PROVE  NothingSkipped
<1> DEFINE ended == due = None /\ ~(rule.max # None /\ count = rule.max)
           next == IF due # None THEN due ELSE IF ended THEN Horizon ELSE now
           c == computeNext(anchor, now, rule)
<1> SUFFICES ASSUME count > 0, NEW t \in Between(next), Intended(t)
             PROVE  ended /\ DayOf(t) > rule.until
  BY DEF NothingSkipped
<1>1. /\ Running /\ count \in Nat /\ now \in Nat
      /\ rule.max \in (Nat \ {0}) \cup {None} /\ (rule.max # None => count <= rule.max)
      /\ rule.until \in Int \cup {None}
      /\ DayOf(now) \in Int /\ ClockOf(anchor) \in 0 .. DayLen - 1
  BY RunningFacts DEF IInv
<1>2. due \in Nat \cup {None} /\ next \in Int
  BY <1>1, DueFacts, SeriesAssumption
<1> HIDE DEF next
<1>3. t \in Int /\ now < t /\ t < next /\ (rule.freq # "fixed" => ClockOf(t) = ClockOf(anchor))
  <2>1. CASE rule.freq = "fixed"
    BY <1>1, <1>2, <2>1 DEF Between
  <2>2. CASE rule.freq # "fixed"
    <3>1. PICK day \in DayOf(now) .. DayOf(next) : t = At(day, ClockOf(anchor)) /\ now < t /\ t < next
      BY <2>2 DEF Between
    <3>2. day \in Int
      BY <1>1
    <3> QED BY <1>1, <3>1, <3>2, AtFacts
  <2> QED BY <2>1, <2>2
<1>4. OnRule(t)
  BY <1>1, <1>3 DEF OnRule
<1>5. c \in Nat /\ c <= t
  BY <1>1, <1>3, <1>4, ComputedIsFirst DEF IsFirst
<1>6. due = None
  <2>1. due # None => due = c /\ next = due
    BY <1>1, NextDueFacts DEF IInv, next
  <2> QED BY <1>2, <1>3, <1>5, <2>1
<1>7. ended
  BY <1>1, <1>3, <1>6 DEF next
<1>8. rule.until # None /\ DayOf(c) > rule.until
  BY <1>1, <1>6, <1>7, NextDueFacts DEF IInv
<1>9. DayOf(c) <= DayOf(t) /\ DayOf(c) \in Int /\ DayOf(t) \in Int
  BY <1>3, <1>5, DaysAreOrdered, DayFacts
<1> QED BY <1>1, <1>7, <1>8, <1>9

(* However late a delivery is, the next one is the very next occurrence,   *)
(* and a series ends only with its count or when no occurrence is left     *)
(* before its last day: as long as the loops reach.                        *)
THEOREM SeriesSkipsNothing ==
  ASSUME WholeWeeks, NoHourSkipped
  PROVE  Spec => [](InReach(rule, anchor, now) => NothingSkipped)
<1>1. IInv => (InReach(rule, anchor, now) => NothingSkipped)
  <2> SUFFICES ASSUME IInv, InReach(rule, anchor, now) PROVE NothingSkipped
    OBVIOUS
  <2>1. /\ Running /\ IsRule(rule) /\ anchor \in Nat /\ now \in Nat
        /\ HourNotSkipped(rule, anchor) /\ CountsWeeks(rule)
    BY RunningFacts DEF IInv
  <2>2. computeNext(anchor, now, rule) # None
    BY <2>1, ComputedIsFound
  <2> QED BY <2>2, NothingSkippedIfFound
<1> QED BY <1>1, IInvIsInvariant, PTL
=============================================================================
