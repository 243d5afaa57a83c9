-------------------------- MODULE Recurrence_proofs --------------------------
(***************************************************************************)
(* What NextDue returns for any rule that Validate accepts, any zone and   *)
(* any bounds of its loops: a time after the one it is given, and some     *)
(* time as long as the loops have candidates left.  Below that, the        *)
(* calendar.  RecurrenceSeries_proofs and Reminders_proofs build on it.    *)
(***************************************************************************)
EXTENDS Recurrence, FiniteSetTheorems, WellFoundedInduction, TLAPS

----------------------------------------------------------------------------
(* Arithmetic. *)

LEMMA Division ==
  ASSUME NEW a \in Int, NEW n \in Nat \ {0}
  PROVE  /\ a \div n \in Int
         /\ a % n \in 0 .. n - 1
         /\ a = n * (a \div n) + (a % n)
OBVIOUS

LEMMA ProductIsInt == ASSUME NEW k \in Int, NEW n \in Int PROVE k * n \in Int
OBVIOUS

(* Products with a positive factor are ordered as the other factors are. *)
LEMMA ProductOrder ==
  ASSUME NEW j \in Int, NEW k \in Int, NEW n \in Nat \ {0}
  PROVE  /\ j < k => j * n + n <= k * n
         /\ j * n < k * n => j < k
         /\ j * n = k * n => j = k
<1>1. j < k => j * n + n <= k * n
  <2> SUFFICES ASSUME j < k PROVE j * n + n <= k * n
    OBVIOUS
  <2>1. PICK d \in Nat : k = j + 1 + d
    <3> WITNESS k - j - 1 \in Nat
    <3> QED OBVIOUS
  <2>2. k * n = j * n + n + d * n
    BY <2>1
  <2>3. d * n \in Nat
    BY <2>1
  <2> QED BY <2>2, <2>3
<1>2. k < j => k * n + n <= j * n
  <2> SUFFICES ASSUME k < j PROVE k * n + n <= j * n
    OBVIOUS
  <2>1. PICK d \in Nat : j = k + 1 + d
    <3> WITNESS j - k - 1 \in Nat
    <3> QED OBVIOUS
  <2>2. j * n = k * n + n + d * n
    BY <2>1
  <2>3. d * n \in Nat
    BY <2>1
  <2> QED BY <2>2, <2>3
<1>3. j * n \in Int /\ k * n \in Int
  OBVIOUS
<1> QED BY <1>1, <1>2, <1>3

LEMMA MultipleHasNoRest ==
  ASSUME NEW k \in Int, NEW n \in Nat \ {0}
  PROVE  (k * n) % n = 0
<1> DEFINE p == k * n
           q == p \div n
           r == p % n
<1>1. p \in Int
  OBVIOUS
<1>2. q \in Int /\ r \in 0 .. n - 1 /\ p = n * q + r
  BY <1>1, Division
<1>3. n * q = q * n
  BY <1>2
<1>4. q * n \in Int /\ q * n <= k * n /\ k * n < q * n + n /\ k * n = q * n + r
  BY <1>2, <1>3
<1> HIDE DEF q, r
<1>5. ~(q < k) /\ ~(k < q)
  BY <1>2, <1>4, ProductOrder
<1>6. q = k
  BY <1>2, <1>5
<1>7. r = 0
  BY <1>2, <1>4, <1>6
<1> QED BY <1>7 DEF r

LEMMA NoRestIsMultiple ==
  ASSUME NEW a \in Int, NEW n \in Nat \ {0}, a % n = 0
  PROVE  a \div n \in Int /\ a = (a \div n) * n
<1>1. a \div n \in Int /\ a = n * (a \div n)
  BY Division
<1> QED BY <1>1

LEMMA OppositeMultiple ==
  ASSUME NEW a \in Int, NEW n \in Nat \ {0}
  PROVE  (-a) % n = 0 <=> a % n = 0
<1>1. ASSUME NEW b \in Int, b % n = 0 PROVE (-b) % n = 0
  <2> DEFINE k == b \div n
  <2>1. k \in Int /\ b = k * n
    BY <1>1, NoRestIsMultiple
  <2> HIDE DEF k
  <2>2. -b = (-k) * n /\ -k \in Int
    BY <2>1
  <2> QED BY <2>2, MultipleHasNoRest
<1>2. -(-a) = a /\ -a \in Int
  OBVIOUS
<1> QED BY <1>1, <1>2

----------------------------------------------------------------------------
(* The first of a set of candidates. *)

(* The loops return the first candidate or, with no candidate, none.       *)
LEMMA EarliestFacts ==
  ASSUME NEW S, S \subseteq Int
  PROVE  /\ Earliest(S) \in Int \cup {None}
         /\ Earliest(S) # None => /\ Earliest(S) \in S
                                  /\ \A t \in S : Earliest(S) <= t
<1>1. CASE \E t \in S : \A u \in S : t <= u
  <2> DEFINE e == CHOOSE t \in S : \A u \in S : t <= u
  <2>1. e \in S /\ \A u \in S : e <= u
    BY <1>1
  <2>2. Earliest(S) = e
    BY <1>1 DEF Earliest
  <2> QED BY <2>1, <2>2
<1>2. CASE ~ \E t \in S : \A u \in S : t <= u
  BY <1>2 DEF Earliest
<1> QED BY <1>1, <1>2

(* Natural numbers have a least one. *)
LEMMA EarliestExists ==
  ASSUME NEW S, S \subseteq Nat, S # {}
  PROVE  Earliest(S) # None
<1> DEFINE R == OpToRel(<, Nat)
<1>1. IsWellFoundedOn(R, Nat)
  BY NatLessThanWellFounded
<1>2. \A a, b \in Nat : a < b => <<a, b>> \in R
  BY DEF OpToRel
<1> HIDE DEF R
<1>3. PICK t \in S : \A u \in S : ~ (<<u, t>> \in R)
  BY <1>1, WFMin
<1>4. \A u \in S : t <= u
  <2> SUFFICES ASSUME NEW u \in S PROVE ~(u < t)
    OBVIOUS
  <2>1. u \in Nat /\ t \in Nat
    OBVIOUS
  <2>2. ~ (<<u, t>> \in R)
    BY <1>3
  <2> QED BY <1>2, <2>1, <2>2
<1> DEFINE e == CHOOSE x \in S : \A u \in S : x <= u
<1>5. e \in S
  BY <1>3, <1>4
<1>6. Earliest(S) = e
  BY <1>3, <1>4 DEF Earliest
<1> HIDE DEF e
<1>7. e \in Int
  BY <1>5
<1> QED BY <1>6, <1>7, RecurrenceAssumption

----------------------------------------------------------------------------
(* Days and clocks. *)

LEMMA DayFacts ==
  ASSUME NEW t \in Int
  PROVE  /\ DayOf(t) \in Int
         /\ ClockOf(t) \in 0 .. DayLen - 1
         /\ t = At(DayOf(t), ClockOf(t))
BY DEF DayOf, ClockOf, At, DayLen

LEMMA AtFacts ==
  ASSUME NEW day \in Int, NEW clock \in 0 .. DayLen - 1
  PROVE  /\ At(day, clock) \in Int
         /\ DayOf(At(day, clock)) = day
         /\ ClockOf(At(day, clock)) = clock
BY DEF DayOf, ClockOf, At, DayLen

LEMMA DaysAreOrdered ==
  ASSUME NEW t \in Int, NEW u \in Int
  PROVE  /\ t <= u => DayOf(t) <= DayOf(u)
         /\ DayOf(t) < DayOf(u) => t < u
BY DEF DayOf, DayLen

(* Go compares instants; a later instant is a later wall time, and a later *)
(* wall time is a later instant unless its hour was skipped.               *)
LEMMA LaterInstant ==
  ASSUME NEW zone \in [from : Int, to : Int], NEW t \in Int, NEW u \in Int
  PROVE  /\ After(zone, t, u) => t > u
         /\ (t > u /\ (zone.from < zone.to => t # zone.from)) => After(zone, t, u)
BY DEF After, Instant

LEMMA WeekFacts ==
  ASSUME NEW day \in Int
  PROVE  /\ Weekday(day) \in 0 .. 6
         /\ weekStartMonday(day) \in Int
         /\ weekStartMonday(day) % 7 = 0
         /\ day = weekStartMonday(day) + Weekday(day)
BY DEF Weekday, weekStartMonday

(* A day of the week that begins on a Monday, so many weeks later. *)
LEMMA DayOfLaterWeek ==
  ASSUME NEW monday \in Int, monday % 7 = 0, NEW w \in Int, NEW weekday \in 0 .. 6
  PROVE  /\ weekStartMonday(monday + 7 * w + weekday) = monday + 7 * w
         /\ Weekday(monday + 7 * w + weekday) = weekday
BY DEF Weekday, weekStartMonday

(* weeksBetween counts the weeks of the calendar where clocks do not       *)
(* change, and back from the end as forward to it.                         *)
LEMMA WeeksCounted ==
  ASSUME NEW zone \in [from : Int, to : Int], zone.from >= zone.to,
         NEW start \in Int, NEW end \in Int, start % 7 = 0, end % 7 = 0
  PROVE  LET w == (end - start) \div 7
         IN  weeksBetween(zone, start, end) = IF w < 0 THEN -w ELSE w
<1> DEFINE hours == Instant(zone, At(end, 0)) - Instant(zone, At(start, 0))
           days == (IF hours < 0 THEN -hours ELSE hours) \div 24
           w == (end - start) \div 7
<1>1. hours = 24 * (end - start)
  BY DEF Instant, At, DayLen
<1>2. days = IF end < start THEN start - end ELSE end - start
  BY <1>1
<1>3. w \in Int /\ end = start + 7 * w
  OBVIOUS
<1> HIDE DEF w, days, hours
<1>4. days = IF w < 0 THEN 7 * (-w) ELSE 7 * w
  BY <1>2, <1>3
<1>5. days \div 7 = IF w < 0 THEN -w ELSE w
  BY <1>3, <1>4
<1> QED BY <1>5 DEF weeksBetween, days, hours, w

----------------------------------------------------------------------------
(* The calendar. *)

YearOf(month) == month \div 12
InYear(month) == month % 12
LeapDays(year) == (year + 3) \div 4
LeapDay(year) == IF IsLeap(year) THEN 1 ELSE 0
DaysInto(m) ==
  CASE m = 0 -> 0   [] m = 1 -> 31  [] m = 2 -> 59   [] m = 3 -> 90
    [] m = 4 -> 120 [] m = 5 -> 151 [] m = 6 -> 181  [] m = 7 -> 212
    [] m = 8 -> 243 [] m = 9 -> 273 [] m = 10 -> 304 [] m = 11 -> 334

LEMMA MonthFacts ==
  ASSUME NEW month \in Nat
  PROVE  /\ YearOf(month) \in Nat
         /\ InYear(month) \in 0 .. 11
         /\ month = 12 * YearOf(month) + InYear(month)
BY DEF YearOf, InYear

LEMMA YearFacts ==
  ASSUME NEW y \in Nat
  PROVE  /\ LeapDays(y) \in Nat
         /\ LeapDay(y) \in 0 .. 1
         /\ LeapDays(y + 1) = LeapDays(y) + LeapDay(y)
         /\ 4 * LeapDays(y) <= y + 3
         /\ y <= 4 * LeapDays(y)
BY DEF LeapDays, LeapDay, IsLeap

LEMMA YearsAreOrdered ==
  ASSUME NEW x \in Nat, NEW y \in Nat, x < y
  PROVE  LeapDays(x + 1) <= LeapDays(y)
BY DEF LeapDays

DaysUntil(y, m) == 365 * y + LeapDays(y) + DaysInto(m) + IF m > 1 THEN LeapDay(y) ELSE 0
DaysIn(y, m) ==
  IF m = 1 THEN 28 + LeapDay(y) ELSE IF m \in {3, 5, 8, 10} THEN 30 ELSE 31

LEMMA FirstDayOfYear ==
  ASSUME NEW y \in Nat, NEW m \in 0 .. 11, NEW month \in Nat, month = 12 * y + m
  PROVE  /\ FirstDay(month) = DaysUntil(y, m)
         /\ lastDayOfMonth(month) = DaysIn(y, m)
<1>1. month \div 12 = y /\ month % 12 = m
  OBVIOUS
<1>2. FirstDay(month)
        = 365 * y + LeapDays(y) + DaysBefore[m + 1] + (IF m > 1 /\ IsLeap(y) THEN 1 ELSE 0)
  BY <1>1 DEF FirstDay, LeapDays
<1>3. lastDayOfMonth(month) = DaysIn(y, m)
  BY <1>1 DEF lastDayOfMonth, LeapDay, MonthsOf30, DaysIn
<1> QED BY <1>2, <1>3 DEF DaysUntil, DaysBefore, DaysInto, LeapDay

(* The next month begins when the last day of this one is over. *)
LEMMA MonthLength ==
  ASSUME NEW month \in Nat
  PROVE  /\ lastDayOfMonth(month) \in 28 .. 31
         /\ FirstDay(month + 1) = FirstDay(month) + lastDayOfMonth(month)
<1> DEFINE y == YearOf(month)
           m == InYear(month)
<1>1. y \in Nat /\ m \in 0 .. 11 /\ month = 12 * y + m
  BY MonthFacts
<1> HIDE DEF y, m
<1>2. CASE m < 11
  <2>1. m + 1 \in 0 .. 11 /\ month + 1 = 12 * y + (m + 1)
    BY <1>1, <1>2
  <2> QED BY <1>1, <1>2, <2>1, FirstDayOfYear, YearFacts
        DEF DaysUntil, DaysIn, DaysInto
<1>3. CASE m = 11
  <2>1. y + 1 \in Nat /\ month + 1 = 12 * (y + 1) + 0
    BY <1>1, <1>3
  <2> QED BY <1>1, <1>3, <2>1, FirstDayOfYear, YearFacts
        DEF DaysUntil, DaysIn, DaysInto
<1> QED BY <1>1, <1>2, <1>3

(* A month is about 1461/48 days. *)
LEMMA FirstDayIsNear ==
  ASSUME NEW month \in Nat
  PROVE  /\ FirstDay(month) \in Nat
         /\ 48 * FirstDay(month) <= 1461 * (month + 1)
         /\ 1461 * (month - 1) <= 48 * FirstDay(month)
<1> DEFINE y == YearOf(month)
           m == InYear(month)
<1>1. y \in Nat /\ m \in 0 .. 11 /\ month = 12 * y + m
  BY MonthFacts
<1> HIDE DEF y, m
<1>2. FirstDay(month) = DaysUntil(y, m)
  BY <1>1, FirstDayOfYear
<1> QED BY <1>1, <1>2, YearFacts DEF DaysUntil, DaysInto

LEMMA MonthsAreOrdered ==
  ASSUME NEW j \in Nat, NEW k \in Nat, j < k
  PROVE  FirstDay(j + 1) <= FirstDay(k)
<1> DEFINE x == YearOf(j)
           y == YearOf(k)
           m == InYear(j)
           n == InYear(k)
<1>1. x \in Nat /\ m \in 0 .. 11 /\ j = 12 * x + m
  BY MonthFacts
<1>2. y \in Nat /\ n \in 0 .. 11 /\ k = 12 * y + n
  BY MonthFacts
<1> HIDE DEF x, y, m, n
<1>3. FirstDay(j + 1) = FirstDay(j) + lastDayOfMonth(j)
  BY MonthLength
<1>4. FirstDay(j) = DaysUntil(x, m) /\ lastDayOfMonth(j) = DaysIn(x, m)
  BY <1>1, FirstDayOfYear
<1>5. FirstDay(k) = DaysUntil(y, n)
  BY <1>2, FirstDayOfYear
<1> USE DEF DaysUntil, DaysIn, DaysInto
<1>7. CASE x = y
  <2>1. m < n
    BY <1>1, <1>2, <1>7
  <2> QED BY <1>1, <1>2, <1>3, <1>4, <1>5, <1>7, <2>1, YearFacts
<1>8. CASE x < y
  <2>1. LeapDays(x) + LeapDay(x) <= LeapDays(y)
    BY <1>1, <1>2, <1>8, YearFacts, YearsAreOrdered
  <2>2. FirstDay(k) >= 365 * (x + 1) + LeapDays(x) + LeapDay(x)
    BY <1>1, <1>2, <1>5, <1>8, <2>1, YearFacts
  <2>3. FirstDay(j + 1) <= 365 * (x + 1) + LeapDays(x) + LeapDay(x)
    BY <1>1, <1>3, <1>4, YearFacts
  <2>4. FirstDay(k) \in Nat /\ FirstDay(j + 1) \in Nat
    <3>1. j + 1 \in Nat
      OBVIOUS
    <3> QED BY <3>1, FirstDayIsNear
  <2>5. LeapDays(x) \in Int /\ LeapDay(x) \in Int
    BY <1>1, YearFacts
  <2> QED BY <1>1, <2>2, <2>3, <2>4, <2>5
<1>9. x <= y
  <2> SUFFICES ASSUME y < x PROVE FALSE
    BY <1>1, <1>2
  <2> QED BY <1>1, <1>2
<1> QED BY <1>1, <1>2, <1>7, <1>8, <1>9

(* MonthOf looks in the right place. *)
LEMMA MonthOfFacts ==
  ASSUME NEW day \in Nat
  PROVE  /\ MonthOf(day) \in Nat
         /\ FirstDay(MonthOf(day)) <= day
         /\ day < FirstDay(MonthOf(day) + 1)
<1> DEFINE about == (48 * day) \div 1461
           fits(m) == FirstDay(m) <= day /\ day < FirstDay(m + 1)
           month == CHOOSE m \in about - 1 .. about + 1 : fits(m)
<1>1. about \in Nat /\ 1461 * about <= 48 * day /\ 48 * day < 1461 * (about + 1)
  OBVIOUS
<1>2. MonthOf(day) = month
  BY DEF MonthOf
<1> HIDE DEF about
<1>3. FirstDay(0) = 0
  BY DEF FirstDay, DaysBefore, IsLeap
<1>4. about + 1 \in Nat /\ about + 2 \in Nat
  BY <1>1
<1>5. FirstDay(about) \in Nat /\ FirstDay(about + 1) \in Nat /\ FirstDay(about + 2) \in Nat
  BY <1>1, <1>4, FirstDayIsNear
<1>6. day < FirstDay(about + 2)
  <2>1. 1461 * ((about + 2) - 1) <= 48 * FirstDay(about + 2)
    BY <1>4, FirstDayIsNear
  <2> QED BY <1>1, <1>5, <2>1
<1>7. (about - 1) + 1 = about /\ (about + 1) + 1 = about + 2
  BY <1>1
<1>8. about # 0 => about - 1 \in Nat /\ FirstDay(about - 1) <= day
  <2> SUFFICES ASSUME about # 0 PROVE about - 1 \in Nat /\ FirstDay(about - 1) <= day
    OBVIOUS
  <2>1. about - 1 \in Nat
    BY <1>1
  <2>2. 48 * FirstDay(about - 1) <= 1461 * ((about - 1) + 1) /\ FirstDay(about - 1) \in Nat
    BY <2>1, FirstDayIsNear
  <2> QED BY <1>1, <2>1, <2>2
<1>9. \E m \in about - 1 .. about + 1 : fits(m)
  <2>1. CASE day < FirstDay(about)
    <3>1. about # 0
      BY <1>3, <2>1
    <3> QED BY <1>1, <1>7, <1>8, <2>1, <3>1
  <2>2. CASE FirstDay(about) <= day /\ day < FirstDay(about + 1)
    BY <1>1, <2>2
  <2>3. CASE FirstDay(about + 1) <= day
    BY <1>1, <1>6, <1>7, <2>3
  <2> QED BY <1>5, <2>1, <2>2, <2>3
<1>10. month \in about - 1 .. about + 1 /\ fits(month)
  BY <1>9
<1> HIDE DEF month
<1>11. month # -1
  <2>1. month = -1 => month + 1 = 0
    OBVIOUS
  <2> QED BY <1>3, <1>10, <2>1
<1> QED BY <1>1, <1>2, <1>10, <1>11

LEMMA MonthOfIs ==
  ASSUME NEW month \in Nat, NEW day \in FirstDay(month) .. FirstDay(month + 1) - 1
  PROVE  day \in Nat /\ MonthOf(day) = month
<1>1. month + 1 \in Nat
  OBVIOUS
<1>2. FirstDay(month) \in Nat /\ FirstDay(month + 1) \in Nat
  BY <1>1, FirstDayIsNear
<1>3. day \in Nat /\ FirstDay(month) <= day /\ day < FirstDay(month + 1)
  BY <1>2
<1> DEFINE m == MonthOf(day)
<1>4. m \in Nat /\ FirstDay(m) <= day /\ day < FirstDay(m + 1)
  BY <1>3, MonthOfFacts
<1> HIDE DEF m
<1>5. m + 1 \in Nat
  BY <1>4
<1>6. FirstDay(m) \in Nat /\ FirstDay(m + 1) \in Nat
  BY <1>4, <1>5, FirstDayIsNear
<1>7. ~(m < month)
  BY <1>2, <1>3, <1>4, <1>6, MonthsAreOrdered
<1>8. ~(month < m)
  BY <1>2, <1>3, <1>4, <1>6, MonthsAreOrdered
<1>9. m = month
  BY <1>4, <1>7, <1>8
<1> QED BY <1>3, <1>9 DEF m

LEMMA LaterDayLaterMonth ==
  ASSUME NEW day \in Nat, NEW later \in Nat, day <= later
  PROVE  MonthOf(day) <= MonthOf(later)
<1> DEFINE m == MonthOf(day)
           n == MonthOf(later)
<1>1. m \in Nat /\ FirstDay(m) <= day
  BY MonthOfFacts
<1>2. n \in Nat /\ later < FirstDay(n + 1)
  BY MonthOfFacts
<1> HIDE DEF m, n
<1>3. n + 1 \in Nat
  BY <1>2
<1>4. FirstDay(m) \in Nat /\ FirstDay(n + 1) \in Nat
  BY <1>1, <1>3, FirstDayIsNear
<1>5. ~(n < m)
  BY <1>1, <1>2, <1>4, MonthsAreOrdered
<1>6. m <= n
  BY <1>1, <1>2, <1>5
<1> QED BY <1>6 DEF m, n

LEMMA DayOfMonthFacts ==
  ASSUME NEW day \in Nat
  PROVE  /\ MonthOf(day) \in Nat
         /\ DayOfMonth(day) \in 1 .. lastDayOfMonth(MonthOf(day))
         /\ day = FirstDay(MonthOf(day)) + DayOfMonth(day) - 1
         /\ day \in DaysOfMonth(MonthOf(day))
<1> DEFINE m == MonthOf(day)
<1>1. m \in Nat /\ FirstDay(m) <= day /\ day < FirstDay(m + 1)
  BY MonthOfFacts
<1>2. DayOfMonth(day) = day - FirstDay(m) + 1
  BY DEF DayOfMonth
<1> HIDE DEF m
<1>3. /\ FirstDay(m) \in Nat /\ lastDayOfMonth(m) \in 28 .. 31
      /\ FirstDay(m + 1) = FirstDay(m) + lastDayOfMonth(m)
  BY <1>1, MonthLength, FirstDayIsNear
<1>4. DayOfMonth(day) \in 1 .. lastDayOfMonth(m) /\ day = FirstDay(m) + DayOfMonth(day) - 1
  BY <1>1, <1>2, <1>3
<1>5. day \in DaysOfMonth(m)
  BY <1>1, <1>3 DEF DaysOfMonth
<1> QED BY <1>1, <1>4, <1>5 DEF m

LEMMA DayInMonth ==
  ASSUME NEW month \in Nat, NEW d \in 1 .. lastDayOfMonth(month)
  PROVE  LET day == FirstDay(month) + d - 1
         IN  /\ day \in Nat
             /\ day \in DaysOfMonth(month)
             /\ MonthOf(day) = month
             /\ DayOfMonth(day) = d
<1> DEFINE day == FirstDay(month) + d - 1
<1>1. /\ FirstDay(month) \in Nat /\ lastDayOfMonth(month) \in 28 .. 31
      /\ FirstDay(month + 1) = FirstDay(month) + lastDayOfMonth(month)
  BY MonthLength, FirstDayIsNear
<1>2. day \in FirstDay(month) .. FirstDay(month + 1) - 1
  BY <1>1
<1>3. day \in Nat /\ MonthOf(day) = month
  BY <1>2, MonthOfIs
<1>4. DayOfMonth(day) = d
  BY <1>1, <1>3 DEF DayOfMonth
<1> QED BY <1>2, <1>3, <1>4 DEF DaysOfMonth

(* Every seventh day is counted. *)
LEMMA EverySeventh ==
  ASSUME NEW f \in Int, NEW d \in Int, f <= d, d <= f + 30
  PROVE  /\ IsFiniteSet({e \in f .. d : e % 7 = d % 7})
         /\ Cardinality({e \in f .. d : e % 7 = d % 7}) = (d - f) \div 7 + 1
<1> DEFINE S == {e \in f .. d : e % 7 = d % 7}
           q == (d - f) \div 7
           T0 == {d}
           T1 == T0 \cup {d - 7}
           T2 == T1 \cup {d - 14}
           T3 == T2 \cup {d - 21}
           T4 == T3 \cup {d - 28}
<1>1. /\ IsFiniteSet(T0) /\ Cardinality(T0) = 1
      /\ IsFiniteSet(T1) /\ Cardinality(T1) = 2
      /\ IsFiniteSet(T2) /\ Cardinality(T2) = 3
      /\ IsFiniteSet(T3) /\ Cardinality(T3) = 4
      /\ IsFiniteSet(T4) /\ Cardinality(T4) = 5
  <2>1. IsFiniteSet(T0) /\ Cardinality(T0) = 1
    BY FS_Singleton
  <2>2. IsFiniteSet(T1) /\ Cardinality(T1) = 2
    BY <2>1, FS_AddElement
  <2>3. IsFiniteSet(T2) /\ Cardinality(T2) = 3
    BY <2>2, FS_AddElement
  <2>4. IsFiniteSet(T3) /\ Cardinality(T3) = 4
    BY <2>3, FS_AddElement
  <2>5. IsFiniteSet(T4) /\ Cardinality(T4) = 5
    BY <2>4, FS_AddElement
  <2> QED BY <2>1, <2>2, <2>3, <2>4, <2>5
<1>2. q \in 0 .. 4
  OBVIOUS
<1>3. /\ q = 0 => S = T0
      /\ q = 1 => S = T1
      /\ q = 2 => S = T2
      /\ q = 3 => S = T3
      /\ q = 4 => S = T4
  OBVIOUS
<1> HIDE DEF S, q, T0, T1, T2, T3, T4
<1>4. IsFiniteSet(S) /\ Cardinality(S) = q + 1
  BY <1>1, <1>2, <1>3
<1> QED BY <1>4 DEF S, q

----------------------------------------------------------------------------

(* The days of a month are those MonthOf finds in it. *)
LEMMA InMonth ==
  ASSUME NEW month \in Nat, NEW day \in DaysOfMonth(month)
  PROVE  /\ day \in Nat
         /\ MonthOf(day) = month
         /\ DayOfMonth(day) \in 1 .. lastDayOfMonth(month)
         /\ day = FirstDay(month) + DayOfMonth(day) - 1
<1>1. day \in Nat /\ MonthOf(day) = month
  BY MonthOfIs DEF DaysOfMonth
<1> QED BY <1>1, DayOfMonthFacts

(* calendarInstant with day_of_month and last_day_of_month: the day is in  *)
(* the month and the one the rule means.                                   *)
LEMMA ClampedDayFacts ==
  ASSUME NEW month \in Nat, NEW a \in Nat
  PROVE  /\ ClampedDay(a, month) \in 1 .. lastDayOfMonth(month)
         /\ \A d \in 1 .. lastDayOfMonth(month) :
              d = ClampedDay(a, month)
                <=> \/ d = DayOfMonth(DayOf(a))
                    \/ d = lastDayOfMonth(month) /\ DayOfMonth(DayOf(a)) > lastDayOfMonth(month)
<1>1. DayOf(a) \in Nat
  BY DEF DayOf, DayLen
<1>2. DayOfMonth(DayOf(a)) \in 1 .. lastDayOfMonth(MonthOf(DayOf(a))) /\ MonthOf(DayOf(a)) \in Nat
  BY <1>1, DayOfMonthFacts
<1>3. lastDayOfMonth(month) \in 28 .. 31 /\ lastDayOfMonth(MonthOf(DayOf(a))) \in 28 .. 31
  BY <1>2, MonthLength
<1> QED BY <1>2, <1>3 DEF ClampedDay

(* nthWeekdayInMonth: the n-th of a weekday is in the n-th seven days of   *)
(* the month, the last one in the last seven.                              *)
LEMMA NthWeekdayFacts ==
  ASSUME NEW month \in Nat, NEW weekday \in 0 .. 6, NEW nth \in {-1} \cup 1 .. 5,
         NEW day \in DaysOfMonth(month)
  PROVE  day \in nthWeekdayInMonth(month, nth, weekday)
           <=> /\ Weekday(day) = weekday
               /\ IF nth = -1 THEN DayOfMonth(day) + 7 > lastDayOfMonth(month)
                  ELSE (DayOfMonth(day) - 1) \div 7 + 1 = nth
<1> DEFINE days == {d \in DaysOfMonth(month) : Weekday(d) = weekday}
           sofar == {e \in days : e <= day}
           f == FirstDay(month)
           last == lastDayOfMonth(month)
           d == DayOfMonth(day)
<1>1. /\ f \in Nat /\ last \in 28 .. 31 /\ DaysOfMonth(month) = f .. f + last - 1
      /\ day \in Nat /\ d \in 1 .. last /\ day = f + d - 1
  <2>1. DayOfMonth(day) \in 1 .. lastDayOfMonth(month)
        /\ day = FirstDay(month) + DayOfMonth(day) - 1
    BY InMonth
  <2>2. FirstDay(month) \in Nat /\ lastDayOfMonth(month) \in 28 .. 31
        /\ FirstDay(month + 1) = FirstDay(month) + lastDayOfMonth(month)
    BY FirstDayIsNear, MonthLength
  <2> QED BY <2>1, <2>2, InMonth DEF DaysOfMonth
<1>2. day \in nthWeekdayInMonth(month, nth, weekday)
        <=> /\ Weekday(day) = weekday
            /\ Cardinality(sofar) = IF nth = -1 THEN Cardinality(days) ELSE nth
  BY DEF nthWeekdayInMonth
<1> HIDE DEF f, last, d
<1>3. ASSUME Weekday(day) = weekday
      PROVE  /\ Cardinality(sofar) = (d - 1) \div 7 + 1
             /\ Cardinality(sofar) = Cardinality(days) <=> d + 7 > last
  <2>1. sofar = {e \in f .. day : e % 7 = day % 7}
    BY <1>1, <1>3 DEF Weekday
  <2>2. Cardinality(sofar) = (day - f) \div 7 + 1
    <3>1. f \in Int /\ day \in Int /\ f <= day /\ day <= f + 30
      BY <1>1
    <3>2. Cardinality({e \in f .. day : e % 7 = day % 7}) = (day - f) \div 7 + 1
      BY <3>1, EverySeventh
    <3> QED BY <2>1, <3>2
  <2>3. day - f = d - 1
    BY <1>1
  <2>4. IsFiniteSet(days) /\ sofar \in SUBSET days
    <3>1. IsFiniteSet(f .. f + last - 1)
      <4>1. f + last - 1 \in Int
        BY <1>1
      <4> QED BY <1>1, <4>1, FS_Interval
    <3> QED BY <1>1, <3>1, FS_Subset
  <2>5. ASSUME d + 7 > last PROVE sofar = days
    <3> SUFFICES ASSUME NEW e \in days, e > day PROVE FALSE
      BY <1>1
    <3>1. e \in f .. f + last - 1 /\ e % 7 = day % 7
      BY <1>1, <1>3 DEF Weekday
    <3>2. e >= day + 7
      BY <1>1, <3>1
    <3> QED BY <1>1, <2>5, <3>1, <3>2
  <2>6. ASSUME Cardinality(sofar) = Cardinality(days) PROVE d + 7 > last
    <3>1. sofar = days
      BY <2>4, <2>6, FS_Subset
    <3>2. SUFFICES ASSUME d + 7 <= last PROVE FALSE
      BY <1>1
    <3>3. day + 7 \in f .. f + last - 1 /\ (day + 7) % 7 = day % 7
      BY <1>1, <3>2
    <3>4. day + 7 \in days
      BY <1>1, <1>3, <3>3 DEF Weekday
    <3> QED BY <1>1, <3>1, <3>4
  <2> QED BY <2>2, <2>3, <2>5, <2>6
<1> QED BY <1>2, <1>3 DEF d, last

(* Every month has a first to fourth and a last of each weekday. *)
LEMMA NthWeekdayExists ==
  ASSUME NEW month \in Nat, NEW weekday \in 0 .. 6, NEW nth \in {-1} \cup 1 .. 4
  PROVE  \E day \in DaysOfMonth(month) : day \in nthWeekdayInMonth(month, nth, weekday)
<1> DEFINE f == FirstDay(month)
           last == lastDayOfMonth(month)
           first == (weekday - f) % 7
           d == IF nth = -1 THEN last - ((f + last - 1 - weekday) % 7)
                ELSE first + 7 * (nth - 1) + 1
           day == f + d - 1
<1>1. f \in Nat /\ last \in 28 .. 31
  BY FirstDayIsNear, MonthLength
<1> HIDE DEF f, last
<1>2. /\ d \in 1 .. last
      /\ Weekday(day) = weekday
      /\ IF nth = -1 THEN d + 7 > last ELSE (d - 1) \div 7 + 1 = nth
  <2>1. CASE nth = -1
    <3> DEFINE r == (f + last - 1 - weekday) % 7
    <3>1. r \in 0 .. 6 /\ (f + last - 1 - r) % 7 = weekday
      BY <1>1
    <3>2. d = last - r
      BY <2>1
    <3> HIDE DEF r, d
    <3> QED BY <1>1, <2>1, <3>1, <3>2 DEF Weekday
  <2>2. CASE nth \in 1 .. 4
    <3>1. first \in 0 .. 6 /\ (f + first) % 7 = weekday
      BY <1>1
    <3>2. d = first + 7 * (nth - 1) + 1
      BY <2>2
    <3> HIDE DEF first, d
    <3>3. d \in 1 .. 28 /\ (d - 1) \div 7 + 1 = nth
      BY <2>2, <3>1, <3>2
    <3>4. (f + d - 1) % 7 = weekday
      BY <1>1, <2>2, <3>1, <3>2
    <3> QED BY <1>1, <2>2, <3>3, <3>4 DEF Weekday
  <2> QED BY <2>1, <2>2
<1> HIDE DEF d
<1>3. day \in DaysOfMonth(month) /\ DayOfMonth(day) = d
  BY <1>2, DayInMonth DEF f, last
<1>4. day \in nthWeekdayInMonth(month, nth, weekday)
  BY <1>2, <1>3, NthWeekdayFacts DEF last
<1> QED BY <1>3, <1>4

(* Of four months at least one has a fifth: they have 120 days. *)
LEMMA FifthWeekdayExists ==
  ASSUME NEW month \in Nat, NEW weekday \in 0 .. 6
  PROVE  \E j \in 0 .. 3 : \E day \in DaysOfMonth(month + j) :
           day \in nthWeekdayInMonth(month + j, 5, weekday)
<1> DEFINE f(j) == FirstDay(month + j)
           last(j) == lastDayOfMonth(month + j)
           first(j) == (weekday - f(j)) % 7
<1>1. ASSUME NEW j \in 0 .. 3, first(j) + 28 < last(j)
      PROVE  \E day \in DaysOfMonth(month + j) :
               day \in nthWeekdayInMonth(month + j, 5, weekday)
  <2> DEFINE m == month + j
             d == first(j) + 29
             day == f(j) + d - 1
  <2>1. m \in Nat
    OBVIOUS
  <2>2. f(j) \in Nat /\ last(j) \in 28 .. 31
    BY <2>1, FirstDayIsNear, MonthLength
  <2>3. d \in 1 .. last(j) /\ Weekday(day) = weekday /\ (d - 1) \div 7 + 1 = 5
    BY <1>1, <2>2 DEF Weekday
  <2> HIDE DEF d, m, first
  <2>4. day \in DaysOfMonth(m) /\ DayOfMonth(day) = d
    BY <2>1, <2>3, DayInMonth DEF m
  <2>5. day \in nthWeekdayInMonth(m, 5, weekday)
    BY <2>1, <2>3, <2>4, NthWeekdayFacts
  <2> QED BY <2>4, <2>5 DEF m
<1>2. \A j \in 0 .. 3 : /\ f(j) \in Nat /\ last(j) \in 28 .. 31
                        /\ f(j + 1) = f(j) + last(j)
  <2> SUFFICES ASSUME NEW j \in 0 .. 3
               PROVE  f(j) \in Nat /\ last(j) \in 28 .. 31 /\ f(j + 1) = f(j) + last(j)
    OBVIOUS
  <2>1. month + j \in Nat /\ month + (j + 1) = (month + j) + 1
    OBVIOUS
  <2> QED BY <2>1, FirstDayIsNear, MonthLength
<1>3. last(0) + last(1) + last(2) + last(3) >= 120
  <2>1. \A m \in Nat :
          lastDayOfMonth(m) >= (IF m % 12 = 1 THEN 28
                                ELSE IF m % 12 \in {3, 5, 8, 10} THEN 30 ELSE 31)
    BY DEF lastDayOfMonth, MonthsOf30
  <2>2. /\ last(0) >= (IF month % 12 = 1 THEN 28
                       ELSE IF month % 12 \in {3, 5, 8, 10} THEN 30 ELSE 31)
        /\ last(1) >= (IF (month + 1) % 12 = 1 THEN 28
                       ELSE IF (month + 1) % 12 \in {3, 5, 8, 10} THEN 30 ELSE 31)
        /\ last(2) >= (IF (month + 2) % 12 = 1 THEN 28
                       ELSE IF (month + 2) % 12 \in {3, 5, 8, 10} THEN 30 ELSE 31)
        /\ last(3) >= (IF (month + 3) % 12 = 1 THEN 28
                       ELSE IF (month + 3) % 12 \in {3, 5, 8, 10} THEN 30 ELSE 31)
    BY <2>1
  <2>3. last(0) \in Int /\ last(1) \in Int /\ last(2) \in Int /\ last(3) \in Int
    BY <1>2
  <2> HIDE DEF last
  <2> QED BY <2>2, <2>3
<1>4. SUFFICES ASSUME \A j \in 0 .. 3 : first(j) + 28 >= last(j) PROVE FALSE
  <2>1. \A j \in 0 .. 3 : first(j) \in Int /\ last(j) \in Int
    BY <1>2
  <2> HIDE DEF first, last
  <2> QED BY <1>1, <2>1
<1>5. \A j \in 0 .. 2 : first(j + 1) = first(j) + 28 - last(j)
  <2> SUFFICES ASSUME NEW j \in 0 .. 2 PROVE first(j + 1) = first(j) + 28 - last(j)
    OBVIOUS
  <2>1. f(j) \in Nat /\ last(j) \in 28 .. 31 /\ f(j + 1) = f(j) + last(j)
    BY <1>2
  <2>2. first(j) + 28 >= last(j)
    BY <1>4
  <2> HIDE DEF f, last
  <2> QED BY <2>1, <2>2
<1>6. /\ first(1) = first(0) + 28 - last(0)
      /\ first(2) = first(1) + 28 - last(1)
      /\ first(3) = first(2) + 28 - last(2)
      /\ first(3) + 28 >= last(3)
  <2>1. 0 + 1 = 1 /\ 1 + 1 = 2 /\ 2 + 1 = 3
    OBVIOUS
  <2> HIDE DEF first, last
  <2>2. first(0 + 1) = first(0) + 28 - last(0)
    BY <1>5
  <2>3. first(1 + 1) = first(1) + 28 - last(1)
    BY <1>5
  <2>4. first(2 + 1) = first(2) + 28 - last(2)
    BY <1>5
  <2> QED BY <1>4, <2>1, <2>2, <2>3, <2>4
<1>7. first(0) \in 0 .. 6 /\ \A j \in 0 .. 3 : last(j) \in 28 .. 31
  BY <1>2
<1> HIDE DEF first, last
<1> QED BY <1>3, <1>6, <1>7

----------------------------------------------------------------------------
(* Rules. *)

(* No occurrence falls into an hour that the clocks skip: times Recurrence *)
(* leaves out.                                                             *)
HourNotSkipped(rule, anchor) ==
  (rule.freq # "fixed" /\ rule.zone.from < rule.zone.to)
    => ClockOf(anchor) # ClockOf(rule.zone.from)

(* Weeks are counted only where clocks do not change (see EveryNthWeek in  *)
(* RecurrenceSeries).                                                      *)
CountsWeeks(rule) ==
  rule.freq = "week" => (rule.interval = 1 \/ rule.zone.from >= rule.zone.to)

(* The loops try enough candidates: nextWeekly looks further than the next *)
(* wanted week, the others have not come to their last candidates, and a   *)
(* fifth weekday is looked for in every month.  Nobody has waited for the  *)
(* 273 years, 100 years and 500 years of the code.                         *)
InReach(rule, anchor, after) ==
  CASE rule.freq = "fixed" -> TRUE
    [] rule.freq = "day" ->
         /\ Tries > 0
         /\ DayOf(after) < DayOf(anchor) + (Tries - 1) * rule.interval
    [] rule.freq = "week" -> 7 * rule.interval + 7 <= WeeklyHorizon
    [] rule.freq = "month" ->
         /\ Tries > 3
         /\ MonthOf(DayOf(after)) < MonthOf(DayOf(anchor)) + (Tries - 4) * rule.interval
         /\ (rule.mode = "nth_weekday" /\ rule.nth = 5) => rule.interval = 1
    [] rule.freq = "year" ->
         /\ Tries > 3
         /\ MonthOf(DayOf(after)) < MonthOf(DayOf(anchor)) + (Tries - 4) * (12 * rule.interval)
         /\ ~(rule.mode = "nth_weekday" /\ rule.nth = 5)

LEMMA RuleFacts ==
  ASSUME NEW rule, IsRule(rule)
  PROVE  /\ rule.interval \in Nat \ {0}
         /\ rule.zone \in [from : Int, to : Int]
         /\ rule.weekdays \subseteq 0 .. 6
         /\ rule.max \in (Nat \ {0}) \cup {None}
         /\ rule.until \in Int \cup {None}
         /\ rule.freq \in {"fixed", "day", "week", "month", "year"}
         /\ rule.freq \in {"month", "year"} =>
              /\ rule.mode \in {"day_of_month", "last_day_of_month", "nth_weekday"}
              /\ rule.mode = "nth_weekday" => rule.nth \in {-1} \cup 1 .. 5
                                              /\ rule.weekday \in 0 .. 6
BY DEF IsRule, Validate

LEMMA TimeFacts ==
  ASSUME NEW t \in Nat
  PROVE  DayOf(t) \in Nat /\ ClockOf(t) \in 0 .. DayLen - 1
BY DEF DayOf, ClockOf, DayLen

(* A wall time that is later is a later instant. *)
LEMMA NotSkipped ==
  ASSUME NEW rule, IsRule(rule), NEW anchor \in Nat, NEW after \in Int,
         HourNotSkipped(rule, anchor), rule.freq # "fixed",
         NEW t \in Int, t > after, ClockOf(t) = ClockOf(anchor)
  PROVE  After(rule.zone, t, after)
<1>1. rule.zone \in [from : Int, to : Int]
  BY RuleFacts
<1>2. rule.zone.from < rule.zone.to => t # rule.zone.from
  BY DEF HourNotSkipped
<1> QED BY <1>1, <1>2, LaterInstant

(* A loop returns the first of its candidates that is later, if any. *)
LEMMA LoopIsLater ==
  ASSUME NEW rule, IsRule(rule), NEW after \in Int, NEW C, C \subseteq Int
  PROVE  LET c == Earliest({t \in C : After(rule.zone, t, after)})
         IN  /\ c \in Int \cup {None}
             /\ c # None => c \in C /\ After(rule.zone, c, after) /\ c > after
             /\ c # None => \A t \in C : After(rule.zone, t, after) => c <= t
<1> DEFINE S == {t \in C : After(rule.zone, t, after)}
           c == Earliest(S)
<1>1. rule.zone \in [from : Int, to : Int]
  BY RuleFacts
<1>2. S \subseteq Int
  OBVIOUS
<1>3. /\ c \in Int \cup {None}
      /\ c # None => c \in S /\ \A t \in S : c <= t
  BY <1>2, EarliestFacts
<1> HIDE DEF c
<1>4. c # None => c \in C /\ After(rule.zone, c, after) /\ c \in Int
  BY <1>3
<1>5. c # None => c > after
  BY <1>1, <1>4, LaterInstant
<1> QED BY <1>3, <1>4, <1>5 DEF c

(* A loop that comes to a candidate that is later does not run out. *)
LEMMA LoopFinds ==
  ASSUME NEW rule, IsRule(rule), NEW anchor \in Nat, NEW after \in Nat,
         HourNotSkipped(rule, anchor), rule.freq # "fixed", NEW C, C \subseteq Int,
         NEW t \in C, t > after, ClockOf(t) = ClockOf(anchor)
  PROVE  Earliest({u \in C : After(rule.zone, u, after)}) # None
<1> DEFINE S == {u \in C : After(rule.zone, u, after)}
<1>1. rule.zone \in [from : Int, to : Int] /\ after \in Int
  BY RuleFacts
<1>2. ASSUME NEW u \in S PROVE u \in Nat
  <2>1. u \in Int /\ After(rule.zone, u, after)
    OBVIOUS
  <2>2. u > after
    BY <1>1, <2>1, LaterInstant
  <2> QED BY <2>1, <2>2
<1>3. S \subseteq Nat
  BY <1>2
<1>4. t \in S
  BY NotSkipped
<1> QED BY <1>3, <1>4, EarliestExists

----------------------------------------------------------------------------
(* The candidates of the loops. *)

(* nextDaily's are so many days from the anchor, at its hour. *)
LEMMA DailyCandidates ==
  ASSUME NEW rule, IsRule(rule), NEW anchor \in Nat, NEW k \in Int
  PROVE  LET t == anchor + DayLen * k * rule.interval
         IN  /\ k * rule.interval \in Int
             /\ t \in Int
             /\ t = anchor + 24 * (k * rule.interval)
             /\ ClockOf(t) = ClockOf(anchor)
             /\ DayOf(t) = DayOf(anchor) + k * rule.interval
<1> DEFINE i == rule.interval
           p == k * i
           t == anchor + DayLen * k * i
<1>1. i \in Int
  BY RuleFacts
<1> HIDE DEF i
<1>2. p \in Int /\ t = anchor + 24 * p
  BY <1>1 DEF DayLen
<1> HIDE DEF p, t
<1>3. t \in Int /\ ClockOf(t) = ClockOf(anchor) /\ DayOf(t) = DayOf(anchor) + p
  BY <1>2 DEF ClockOf, DayOf, DayLen
<1> QED BY <1>2, <1>3 DEF p, t, i

(* weeksBetween agrees with the calendar on which weeks are wanted, before *)
(* and after the anchor's, where CountsWeeks says so.                      *)
LEMMA WeeksAgree ==
  ASSUME NEW rule, IsRule(rule), NEW anchor \in Nat, CountsWeeks(rule), rule.freq = "week",
         NEW d \in Int
  PROVE  LET anchorWeek == weekStartMonday(DayOf(anchor))
         IN  weeksBetween(rule.zone, anchorWeek, weekStartMonday(d)) % rule.interval = 0
               <=> ((weekStartMonday(d) - anchorWeek) \div 7) % rule.interval = 0
<1> DEFINE a == weekStartMonday(DayOf(anchor))
           e == weekStartMonday(d)
           w == weeksBetween(rule.zone, a, e)
           v == (e - a) \div 7
           i == rule.interval
<1>1. DayOf(anchor) \in Int /\ rule.zone \in [from : Int, to : Int] /\ i \in Nat \ {0}
  BY RuleFacts, TimeFacts
<1>2. a \in Int /\ e \in Int /\ a % 7 = 0 /\ e % 7 = 0
  BY <1>1, WeekFacts
<1>3. v \in Int
  BY <1>2
<1>4. CASE rule.zone.from >= rule.zone.to
  <2>1. w = IF v < 0 THEN -v ELSE v
    BY <1>1, <1>2, <1>4, WeeksCounted
  <2> HIDE DEF v, w, i
  <2>2. w % i = 0 <=> v % i = 0
    BY <1>1, <1>3, <2>1, OppositeMultiple
  <2> QED BY <2>2 DEF v, w, i
<1>5. CASE rule.interval = 1
  <2>1. w \in Int
    <3>1. \A t \in Int : Instant(rule.zone, t) \in Int
      BY <1>1 DEF Instant
    <3>2. At(a, 0) \in Int /\ At(e, 0) \in Int
      BY <1>2 DEF At, DayLen
    <3> HIDE DEF a, e
    <3> QED BY <3>1, <3>2 DEF weeksBetween
  <2>2. \A x \in Int : x % 1 = 0
    OBVIOUS
  <2> QED BY <1>3, <1>5, <2>1, <2>2
<1> QED BY <1>4, <1>5 DEF CountsWeeks

(* calendarInstant takes days of the month it is asked for. *)
LEMMA CalendarDaysInMonth ==
  ASSUME NEW rule, IsRule(rule), rule.freq \in {"month", "year"}, NEW anchor \in Nat,
         NEW month \in Nat
  PROVE  calendarDays(month, anchor, rule) \subseteq DaysOfMonth(month)
<1>1. rule.mode \in {"day_of_month", "last_day_of_month", "nth_weekday"}
  BY RuleFacts
<1>2. FirstDay(month) \in Nat /\ lastDayOfMonth(month) \in 28 .. 31
  BY FirstDayIsNear, MonthLength
<1>3. ClampedDay(anchor, month) \in 1 .. lastDayOfMonth(month)
  BY ClampedDayFacts
<1>4. nthWeekdayInMonth(month, rule.nth, rule.weekday) \subseteq DaysOfMonth(month)
  BY DEF nthWeekdayInMonth
<1>5. \A d \in 1 .. lastDayOfMonth(month) : FirstDay(month) + d - 1 \in DaysOfMonth(month)
  BY DayInMonth
<1> QED BY <1>1, <1>2, <1>3, <1>4, <1>5 DEF calendarDays

(* nextMonthly's and nextYearly's months are so many units from the        *)
(* anchor's, their candidates days of these months at the anchor's hour.   *)
MonthStep(rule, unit) == rule.interval * unit
MonthAfter(rule, anchor, unit, k) == MonthOf(DayOf(anchor)) + k * rule.interval * unit

LEMMA MonthAfterFacts ==
  ASSUME NEW rule, IsRule(rule), NEW anchor \in Nat, NEW unit \in {1, 12}, NEW k \in Nat
  PROVE  /\ MonthStep(rule, unit) \in Nat \ {0}
         /\ k * MonthStep(rule, unit) \in Nat
         /\ MonthOf(DayOf(anchor)) \in Nat
         /\ MonthAfter(rule, anchor, unit, k)
              = MonthOf(DayOf(anchor)) + k * MonthStep(rule, unit)
         /\ MonthAfter(rule, anchor, unit, k) \in Nat
<1> DEFINE i == rule.interval
           M == MonthOf(DayOf(anchor))
<1>1. i \in Nat \ {0} /\ DayOf(anchor) \in Nat
  BY RuleFacts, TimeFacts
<1>2. M \in Nat
  BY <1>1, MonthOfFacts
<1> HIDE DEF i, M
<1>3. /\ i * unit \in Nat \ {0}
      /\ k * (i * unit) \in Nat
      /\ M + k * i * unit = M + k * (i * unit)
  <2>1. CASE unit = 1
    BY <1>1, <1>2, <2>1
  <2>2. CASE unit = 12
    BY <1>1, <1>2, <2>2
  <2> QED BY <2>1, <2>2
<1> QED BY <1>2, <1>3 DEF MonthStep, MonthAfter, i, M

LEMMA MonthCandidates ==
  ASSUME NEW rule, IsRule(rule), rule.freq \in {"month", "year"}, NEW anchor \in Nat,
         NEW month \in Nat, NEW day \in calendarDays(month, anchor, rule)
  PROVE  /\ day \in Nat /\ day \in DaysOfMonth(month) /\ MonthOf(day) = month
         /\ At(day, ClockOf(anchor)) \in Int
         /\ DayOf(At(day, ClockOf(anchor))) = day
         /\ ClockOf(At(day, ClockOf(anchor))) = ClockOf(anchor)
<1>1. day \in DaysOfMonth(month)
  BY CalendarDaysInMonth
<1>2. day \in Nat /\ MonthOf(day) = month
  BY <1>1, InMonth
<1>3. ClockOf(anchor) \in 0 .. DayLen - 1
  BY TimeFacts
<1> QED BY <1>1, <1>2, <1>3, AtFacts

----------------------------------------------------------------------------
(* computeNext returns a later time, or none. *)

(* nextFixedInterval always finds one (recurrence.go: "strictly after      *)
(* after").                                                                *)
LEMMA FixedIsLater ==
  ASSUME NEW anchor \in Int, NEW after \in Int, NEW step \in Nat \ {0}
  PROVE  /\ nextFixedInterval(anchor, after, step) \in Int
         /\ nextFixedInterval(anchor, after, step) > after
<1> DEFINE q == (after - anchor) \div step
           r == (after - anchor) % step
<1>1. CASE anchor > after
  BY <1>1 DEF nextFixedInterval
<1>2. CASE ~(anchor > after)
  <2>1. q \in Int /\ r \in 0 .. step - 1 /\ after - anchor = step * q + r
    BY Division
  <2>2. nextFixedInterval(anchor, after, step) = anchor + (q + 1) * step
    BY <1>2 DEF nextFixedInterval
  <2> HIDE DEF q, r
  <2>3. (q + 1) * step = step * q + step /\ step * q \in Int
    BY <2>1
  <2> DEFINE p == step * q
  <2>4. p \in Int /\ after - anchor = p + r
        /\ nextFixedInterval(anchor, after, step) = anchor + (p + step)
    BY <2>1, <2>2, <2>3
  <2> HIDE DEF p
  <2> QED BY <2>1, <2>4
<1> QED BY <1>1, <1>2

LEMMA DailyIsLater ==
  ASSUME NEW rule, IsRule(rule), NEW anchor \in Nat, NEW after \in Int
  PROVE  LET c == nextDaily(anchor, after, rule)
         IN  c \in Int \cup {None} /\ (c # None => c > after)
<1> DEFINE C == {anchor + DayLen * k * rule.interval : k \in 0 .. Tries - 1}
<1>1. C \subseteq Int
  <2>1. \A k \in 0 .. Tries - 1 : k \in Int
    BY RecurrenceAssumption
  <2> QED BY <2>1, DailyCandidates
<1> HIDE DEF C
<1>2. LET c == Earliest({t \in C : After(rule.zone, t, after)})
      IN  c \in Int \cup {None} /\ (c # None => c > after)
  BY <1>1, LoopIsLater
<1> QED BY <1>2 DEF nextDaily, C

LEMMA WeeklyIsLater ==
  ASSUME NEW rule, IsRule(rule), NEW anchor \in Nat, NEW after \in Int
  PROVE  LET c == nextWeekly(anchor, after, rule)
         IN  c \in Int \cup {None} /\ (c # None => c > after)
<1> DEFINE C == {At(day, ClockOf(anchor)) :
                   day \in {d \in DayOf(after) .. DayOf(after) + WeeklyHorizon - 1 :
                      /\ Weekday(d) \in weekdaysOf(anchor, rule)
                      /\ weeksBetween(rule.zone, weekStartMonday(DayOf(anchor)),
                                      weekStartMonday(d)) % rule.interval = 0}}
<1>1. C \subseteq Int
  <2>1. DayOf(after) \in Int /\ ClockOf(anchor) \in 0 .. DayLen - 1
    BY DayFacts
  <2> QED BY <2>1, AtFacts
<1> HIDE DEF C
<1>2. LET c == Earliest({t \in C : After(rule.zone, t, after)})
      IN  c \in Int \cup {None} /\ (c # None => c > after)
  BY <1>1, LoopIsLater
<1> QED BY <1>2 DEF nextWeekly, C

LEMMA ByMonthsIsLater ==
  ASSUME NEW rule, IsRule(rule), rule.freq \in {"month", "year"}, NEW anchor \in Nat,
         NEW after \in Int, NEW unit \in {1, 12}
  PROVE  LET c == nextByMonths(anchor, after, rule, unit)
         IN  c \in Int \cup {None} /\ (c # None => c > after)
<1> DEFINE month(k) == MonthAfter(rule, anchor, unit, k)
           C == {At(day, ClockOf(anchor)) :
                   day \in UNION {calendarDays(month(k), anchor, rule) : k \in 0 .. Tries - 1}}
<1>1. C \subseteq Int
  <2> SUFFICES ASSUME NEW k \in 0 .. Tries - 1, NEW day \in calendarDays(month(k), anchor, rule)
               PROVE  At(day, ClockOf(anchor)) \in Int
    OBVIOUS
  <2>1. k \in Nat
    BY RecurrenceAssumption
  <2>2. month(k) \in Nat
    BY <2>1, MonthAfterFacts
  <2> QED BY <2>2, MonthCandidates
<1> HIDE DEF C
<1>2. LET c == Earliest({t \in C : After(rule.zone, t, after)})
      IN  c \in Int \cup {None} /\ (c # None => c > after)
  BY <1>1, LoopIsLater
<1> QED BY <1>2 DEF nextByMonths, MonthAfter, C

LEMMA ComputedIsLater ==
  ASSUME NEW rule, IsRule(rule), NEW anchor \in Nat, NEW after \in Int
  PROVE  LET c == computeNext(anchor, after, rule)
         IN  c \in Int \cup {None} /\ (c # None => c > after)
<1>1. CASE rule.freq = "fixed"
  BY <1>1, FixedIsLater, RuleFacts DEF computeNext
<1>2. CASE rule.freq = "day"
  BY <1>2, DailyIsLater DEF computeNext
<1>3. CASE rule.freq = "week"
  BY <1>3, WeeklyIsLater DEF computeNext
<1>4. CASE rule.freq = "month"
  BY <1>4, ByMonthsIsLater DEF computeNext
<1>5. CASE rule.freq = "year"
  BY <1>5, ByMonthsIsLater DEF computeNext
<1> QED BY <1>1, <1>2, <1>3, <1>4, <1>5, RuleFacts

(* NextDue: a later time before the end of the series; without one, the    *)
(* series has ended or the loops found none.                               *)
LEMMA NextDueIsLater ==
  ASSUME NEW rule, IsRule(rule), NEW anchor \in Nat, NEW after \in Int, NEW n \in Nat
  PROVE  LET c == computeNext(anchor, after, rule)
             next == NextDue(anchor, after, rule, n)
         IN  /\ next \in Int \cup {None}
             /\ next # None => /\ next = c /\ next > after
                               /\ rule.max # None => n < rule.max
                               /\ rule.until # None => DayOf(next) <= rule.until
             /\ next = None => \/ rule.max # None /\ n >= rule.max
                               \/ c = None
                               \/ rule.until # None /\ DayOf(c) > rule.until
<1> DEFINE c == computeNext(anchor, after, rule)
<1>1. c \in Int \cup {None} /\ (c # None => c > after)
  BY ComputedIsLater
<1>2. rule.max \in (Nat \ {0}) \cup {None} /\ rule.until \in Int \cup {None}
  BY RuleFacts
<1> HIDE DEF c
<1>3. c # None => DayOf(c) \in Int
  <2>1. c # None => c \in Int
    BY <1>1
  <2> QED BY <2>1, DayFacts
<1> QED BY <1>1, <1>2, <1>3 DEF NextDue, CountReached, PastEndDate, c

----------------------------------------------------------------------------
(* computeNext finds a time as long as the loops have candidates. *)

LEMMA DailyFound ==
  ASSUME NEW rule, IsRule(rule), NEW anchor \in Nat, NEW after \in Nat,
         HourNotSkipped(rule, anchor), InReach(rule, anchor, after), rule.freq = "day"
  PROVE  nextDaily(anchor, after, rule) # None
<1> DEFINE C == {anchor + DayLen * k * rule.interval : k \in 0 .. Tries - 1}
           k0 == Tries - 1
           t == anchor + DayLen * k0 * rule.interval
<1>1. k0 \in 0 .. Tries - 1 /\ k0 \in Int /\ \A k \in 0 .. Tries - 1 : k \in Int
  BY RecurrenceAssumption DEF InReach
<1>2. DayOf(after) < DayOf(anchor) + k0 * rule.interval
  BY DEF InReach
<1>3. C \subseteq Int /\ t \in C
  BY <1>1, DailyCandidates
<1> HIDE DEF k0
<1>4. t \in Int /\ ClockOf(t) = ClockOf(anchor) /\ DayOf(t) = DayOf(anchor) + k0 * rule.interval
  BY <1>1, DailyCandidates
<1> HIDE DEF C, t
<1>5. t > after
  <2>1. after \in Int
    OBVIOUS
  <2> QED BY <1>2, <1>4, <2>1, DaysAreOrdered
<1>6. Earliest({u \in C : After(rule.zone, u, after)}) # None
  <2>1. rule.freq # "fixed"
    OBVIOUS
  <2> QED BY <1>3, <1>4, <1>5, <2>1, LoopFinds
<1> QED BY <1>6 DEF nextDaily, C

LEMMA WeeklyFound ==
  ASSUME NEW rule, IsRule(rule), NEW anchor \in Nat, NEW after \in Nat,
         HourNotSkipped(rule, anchor), CountsWeeks(rule), InReach(rule, anchor, after),
         rule.freq = "week"
  PROVE  nextWeekly(anchor, after, rule) # None
<1> DEFINE i == rule.interval
           clock == ClockOf(anchor)
           a == weekStartMonday(DayOf(anchor))
           e == weekStartMonday(DayOf(after))
           days == {d \in DayOf(after) .. DayOf(after) + WeeklyHorizon - 1 :
                      /\ Weekday(d) \in weekdaysOf(anchor, rule)
                      /\ weeksBetween(rule.zone, a, weekStartMonday(d)) % i = 0}
           C == {At(day, clock) : day \in days}
           passed == (e - a) \div 7
           w == (passed \div i + 1) * i
<1>1. /\ i \in Nat \ {0} /\ after \in Int /\ clock \in 0 .. DayLen - 1
      /\ DayOf(anchor) \in Nat /\ DayOf(after) \in Nat
      /\ 7 * i + 7 <= WeeklyHorizon
  BY RuleFacts, TimeFacts DEF InReach
<1>2. nextWeekly(anchor, after, rule) = Earliest({t \in C : After(rule.zone, t, after)})
  BY DEF nextWeekly
<1>3. /\ a \in Int /\ a % 7 = 0
      /\ passed \in Int /\ e = a + 7 * passed
      /\ e <= DayOf(after) /\ DayOf(after) <= e + 6
  <2>1. /\ a \in Int /\ a % 7 = 0 /\ e \in Int /\ e % 7 = 0
        /\ DayOf(after) = e + Weekday(DayOf(after)) /\ Weekday(DayOf(after)) \in 0 .. 6
    BY <1>1, WeekFacts
  <2> HIDE DEF a, e
  <2> QED BY <1>1, <2>1
<1>4. PICK weekday \in 0 .. 6 : weekday \in weekdaysOf(anchor, rule)
  <2>1. Weekday(DayOf(anchor)) \in 0 .. 6
    BY <1>1, WeekFacts
  <2>2. rule.weekdays \subseteq 0 .. 6
    BY RuleFacts
  <2> QED BY <2>1, <2>2 DEF weekdaysOf
<1> HIDE DEF i, a, e, passed
<1>5. w \in Int /\ passed < w /\ w <= passed + i /\ w % i = 0
  <2> DEFINE q == passed \div i
             r == passed % i
  <2>1. q \in Int /\ r \in 0 .. i - 1 /\ passed = i * q + r
    BY <1>1, <1>3, Division
  <2> HIDE DEF q, r
  <2>2. w = i * q + i /\ i * q \in Int
    <3>1. (q + 1) * i = i * q + i /\ i * q \in Int
      BY <1>1, <2>1
    <3> QED BY <3>1 DEF q
  <2>3. w % i = 0
    <3>1. q + 1 \in Int
      BY <2>1
    <3>2. ((q + 1) * i) % i = 0
      BY <1>1, <3>1, MultipleHasNoRest
    <3> QED BY <3>2 DEF q
  <2> HIDE DEF w
  <2> DEFINE p == i * q
  <2>4. p \in Int /\ w = p + i /\ passed = p + r
    BY <2>1, <2>2
  <2> HIDE DEF p
  <2> QED BY <1>1, <1>3, <2>1, <2>3, <2>4
<1> HIDE DEF w
<1> DEFINE d == a + 7 * w + weekday
           t == At(d, clock)
<1>6. /\ d \in Int /\ weekStartMonday(d) = a + 7 * w /\ Weekday(d) = weekday
  <2>1. a \in Int /\ a % 7 = 0 /\ w \in Int
    BY <1>3, <1>5
  <2>2. weekStartMonday(a + 7 * w + weekday) = a + 7 * w
        /\ Weekday(a + 7 * w + weekday) = weekday
    BY <2>1, DayOfLaterWeek
  <2>3. d \in Int
    BY <2>1
  <2> QED BY <2>2, <2>3
<1>7. DayOf(after) < d /\ d <= DayOf(after) + WeeklyHorizon - 1
  BY <1>1, <1>3, <1>5, RecurrenceAssumption
<1> HIDE DEF d
<1>8. d \in days
  <2>1. weeksBetween(rule.zone, a, weekStartMonday(d)) % i = 0
          <=> ((weekStartMonday(d) - a) \div 7) % i = 0
    BY <1>6, WeeksAgree DEF a, i
  <2>2. (weekStartMonday(d) - a) \div 7 = w
    BY <1>3, <1>5, <1>6
  <2>3. d \in DayOf(after) .. DayOf(after) + WeeklyHorizon - 1
    BY <1>1, <1>6, <1>7
  <2> QED BY <1>4, <1>5, <1>6, <2>1, <2>2, <2>3
<1>9. t \in Int /\ ClockOf(t) = ClockOf(anchor) /\ t > after
  <2>1. t \in Int /\ ClockOf(t) = clock /\ DayOf(t) = d
    BY <1>1, <1>6, AtFacts
  <2> QED BY <1>1, <1>7, <2>1, DaysAreOrdered
<1>10. C \subseteq Int
  BY <1>1, AtFacts
<1>11. t \in C
  BY <1>8
<1>12. rule.freq # "fixed"
  OBVIOUS
<1> HIDE DEF C, t
<1> QED BY <1>2, <1>9, <1>10, <1>11, <1>12, LoopFinds

(* calendarInstant finds a day in every month, a fifth weekday in one of   *)
(* four.                                                                   *)
LEMMA CalendarDaysExist ==
  ASSUME NEW rule, IsRule(rule), rule.freq \in {"month", "year"}, NEW anchor \in Nat,
         NEW month \in Nat
  PROVE  \E j \in 0 .. 3 :
           /\ \E day \in Int : day \in calendarDays(month + j, anchor, rule)
           /\ ~(rule.mode = "nth_weekday" /\ rule.nth = 5) => j = 0
<1>1. /\ rule.mode \in {"day_of_month", "last_day_of_month", "nth_weekday"}
      /\ rule.mode = "nth_weekday" => rule.nth \in {-1} \cup 1 .. 5 /\ rule.weekday \in 0 .. 6
  BY RuleFacts
<1>2. month + 0 = month /\ FirstDay(month) \in Nat /\ lastDayOfMonth(month) \in 28 .. 31
  BY FirstDayIsNear, MonthLength
<1>3. CASE rule.mode = "last_day_of_month"
  <2>1. FirstDay(month) + lastDayOfMonth(month) - 1 \in calendarDays(month, anchor, rule)
    BY <1>3 DEF calendarDays
  <2>2. FirstDay(month) + lastDayOfMonth(month) - 1 \in Int
    BY <1>2
  <2> QED BY <1>2, <1>3, <2>1, <2>2
<1>4. CASE rule.mode = "day_of_month"
  <2>1. FirstDay(month) + ClampedDay(anchor, month) - 1 \in calendarDays(month, anchor, rule)
    BY <1>4 DEF calendarDays
  <2>2. ClampedDay(anchor, month) \in 1 .. lastDayOfMonth(month)
    BY <1>1, ClampedDayFacts
  <2>3. FirstDay(month) + ClampedDay(anchor, month) - 1 \in Int
    BY <1>2, <2>2
  <2> QED BY <1>2, <1>4, <2>1, <2>3
<1>5. CASE rule.mode = "nth_weekday" /\ rule.nth # 5
  <2>1. rule.nth \in {-1} \cup 1 .. 4
    BY <1>1, <1>5
  <2>2. PICK day \in DaysOfMonth(month) :
          day \in nthWeekdayInMonth(month, rule.nth, rule.weekday)
    BY <1>1, <1>5, <2>1, NthWeekdayExists
  <2>3. day \in Int /\ day \in calendarDays(month, anchor, rule)
    BY <1>5, <2>2, InMonth DEF calendarDays
  <2> QED BY <1>2, <1>5, <2>3
<1>6. CASE rule.mode = "nth_weekday" /\ rule.nth = 5
  <2>1. PICK j \in 0 .. 3 : \E day \in DaysOfMonth(month + j) :
          day \in nthWeekdayInMonth(month + j, 5, rule.weekday)
    BY <1>1, <1>6, FifthWeekdayExists
  <2>2. PICK day \in DaysOfMonth(month + j) :
          day \in nthWeekdayInMonth(month + j, 5, rule.weekday)
    BY <2>1
  <2>3. month + j \in Nat
    OBVIOUS
  <2>4. day \in Int /\ day \in calendarDays(month + j, anchor, rule)
    BY <1>6, <2>2, <2>3, InMonth DEF calendarDays
  <2> QED BY <1>6, <2>4
<1> QED BY <1>1, <1>3, <1>4, <1>5, <1>6

(* nextMonthly and nextYearly find a day. *)
LEMMA ByMonthsFound ==
  ASSUME NEW rule, IsRule(rule), NEW anchor \in Nat, NEW after \in Nat,
         HourNotSkipped(rule, anchor), InReach(rule, anchor, after), NEW unit \in {1, 12},
         \/ rule.freq = "month" /\ unit = 1
         \/ rule.freq = "year" /\ unit = 12
  PROVE  nextByMonths(anchor, after, rule, unit) # None
<1> DEFINE M == MonthOf(DayOf(anchor))
           N == MonthOf(DayOf(after))
           n == MonthStep(rule, unit)
           month(k) == MonthAfter(rule, anchor, unit, k)
           days == UNION {calendarDays(month(k), anchor, rule) : k \in 0 .. Tries - 1}
           C == {At(day, ClockOf(anchor)) : day \in days}
           k0 == Tries - 4
<1>1. nextByMonths(anchor, after, rule, unit)
        = Earliest({t \in C : After(rule.zone, t, after)})
  BY DEF nextByMonths, MonthAfter
<1>2. /\ rule.freq \in {"month", "year"} /\ rule.freq # "fixed" /\ unit \in {1, 12}
      /\ rule.interval \in Nat \ {0} /\ after \in Int
      /\ DayOf(anchor) \in Nat /\ DayOf(after) \in Nat
  BY RuleFacts, TimeFacts
<1>3. M \in Nat /\ N \in Nat
  BY <1>2, MonthOfFacts
<1>4. N < M + k0 * n /\ k0 \in Nat /\ ((rule.mode = "nth_weekday" /\ rule.nth = 5) => n = 1)
  <2>1. CASE rule.freq = "month" /\ unit = 1
    <3>1. n = rule.interval
      BY <1>2, <2>1 DEF MonthStep
    <3> QED BY <2>1, <3>1, RecurrenceAssumption DEF InReach
  <2>2. CASE rule.freq = "year" /\ unit = 12
    <3>1. n = 12 * rule.interval
      BY <1>2, <2>2 DEF MonthStep
    <3> QED BY <2>2, <3>1, RecurrenceAssumption DEF InReach
  <2> QED BY <2>1, <2>2
<1>5. \A k \in Nat : k * n \in Nat /\ month(k) = M + k * n /\ month(k) \in Nat
  <2> SUFFICES ASSUME NEW k \in Nat
               PROVE  k * n \in Nat /\ month(k) = M + k * n /\ month(k) \in Nat
    OBVIOUS
  <2>1. IsRule(rule) /\ unit \in {1, 12}
    OBVIOUS
  <2> QED BY ONLY <2>1, MonthAfterFacts
<1>6. k0 + 3 = Tries - 1 /\ \A k \in 0 .. Tries - 1 : k \in Nat
  BY RecurrenceAssumption
<1> HIDE DEF M, N, n, month, k0
<1>7. PICK k \in 0 .. Tries - 1 : \E day \in calendarDays(month(k), anchor, rule) : N < month(k)
  <2>1. k0 * n \in Nat /\ month(k0) = M + k0 * n /\ month(k0) \in Nat /\ N < month(k0)
    BY <1>4, <1>5
  <2>2. PICK j \in 0 .. 3 :
          /\ \E day \in Int : day \in calendarDays(month(k0) + j, anchor, rule)
          /\ ~(rule.mode = "nth_weekday" /\ rule.nth = 5) => j = 0
    BY <1>2, <2>1, CalendarDaysExist
  <2>3. k0 + j \in 0 .. Tries - 1
    BY <1>4, <1>6, RecurrenceAssumption
  <2>4. month(k0 + j) = month(k0) + j
    <3>1. month(k0 + j) = M + (k0 + j) * n /\ M \in Nat
      BY <1>3, <1>4, <1>5
    <3>2. CASE j = 0
      BY <1>4, <2>1, <3>1, <3>2
    <3>3. CASE n = 1
      BY <1>4, <2>1, <3>1, <3>3
    <3> QED BY <1>4, <2>2, <3>2, <3>3
  <2>5. N < month(k0 + j)
    BY <1>3, <2>1, <2>4
  <2> QED BY <2>2, <2>3, <2>4, <2>5
<1>8. PICK day \in calendarDays(month(k), anchor, rule) : N < month(k)
  BY <1>7
<1> DEFINE t == At(day, ClockOf(anchor))
<1>9. month(k) \in Nat
  BY <1>5, <1>6
<1>10. /\ day \in Nat /\ MonthOf(day) = month(k)
       /\ t \in Int /\ DayOf(t) = day /\ ClockOf(t) = ClockOf(anchor)
  BY <1>2, <1>8, <1>9, MonthCandidates
<1>11. DayOf(after) < day
  <2> SUFFICES ASSUME day <= DayOf(after) PROVE FALSE
    BY <1>2, <1>10
  <2>1. MonthOf(day) <= N
    BY <1>2, <1>10, LaterDayLaterMonth DEF N
  <2> QED BY <1>3, <1>8, <1>9, <1>10, <2>1
<1>12. t > after
  BY <1>2, <1>10, <1>11, DaysAreOrdered
<1>13. C \subseteq Int
  <2> SUFFICES ASSUME NEW j \in 0 .. Tries - 1, NEW d \in calendarDays(month(j), anchor, rule)
               PROVE  At(d, ClockOf(anchor)) \in Int
    OBVIOUS
  <2>1. month(j) \in Nat
    BY <1>5, <1>6
  <2> QED BY <1>2, <2>1, MonthCandidates
<1>14. t \in C
  OBVIOUS
<1> HIDE DEF C, t
<1> QED BY <1>1, <1>2, <1>10, <1>12, <1>13, <1>14, LoopFinds

LEMMA ComputedIsFound ==
  ASSUME NEW rule, IsRule(rule), NEW anchor \in Nat, NEW after \in Nat,
         HourNotSkipped(rule, anchor), CountsWeeks(rule), InReach(rule, anchor, after)
  PROVE  computeNext(anchor, after, rule) # None
<1>1. CASE rule.freq = "fixed"
  <2>1. nextFixedInterval(anchor, after, rule.interval) \in Int
    BY FixedIsLater, RuleFacts
  <2> QED BY <1>1, <2>1, RecurrenceAssumption DEF computeNext
<1>2. CASE rule.freq = "day"
  BY <1>2, DailyFound DEF computeNext
<1>3. CASE rule.freq = "week"
  BY <1>3, WeeklyFound DEF computeNext
<1>4. CASE rule.freq = "month"
  BY <1>4, ByMonthsFound DEF computeNext
<1>5. CASE rule.freq = "year"
  BY <1>5, ByMonthsFound DEF computeNext
<1> QED BY <1>1, <1>2, <1>3, <1>4, <1>5, RuleFacts
=============================================================================
