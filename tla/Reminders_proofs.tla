-------------------------- MODULE Reminders_proofs --------------------------
(***************************************************************************)
(* Reminders for any number of reminders and tool calls, any batch limit,  *)
(* any rules and any faults: what a series sends is what its row counts,   *)
(* as long as no row is written from an outdated copy.                     *)
(***************************************************************************)
EXTENDS Reminders, Recurrence_proofs

(* The loops of computeNext try enough candidates for the times of the     *)
(* instance (see InReach).  A series whose interval is longer than         *)
(* nextWeekly looks ahead ends before its count.                           *)
LoopsReach ==
  \A rule \in Rules, anchor \in DueTimes, t \in 0 .. MaxTime : InReach(rule, anchor, t)

LEMMA RulesFacts ==
  ASSUME NEW rule \in Rules
  PROVE  /\ IsRule(rule) /\ ~(rule.zone.from < rule.zone.to) /\ CountsWeeks(rule)
         /\ rule # None
         /\ rule.max # None => rule.max \in Nat /\ rule.max > 0
<1>1. IsRule(rule) /\ rule.zone.from >= rule.zone.to /\ rule # None
  BY RemindersAssumption
<1>2. rule.zone.from \in Int /\ rule.zone.to \in Int /\ rule.max \in (Nat \ {0}) \cup {None}
  BY <1>1, RuleFacts
<1>3. ~(rule.zone.from < rule.zone.to)
  BY <1>1, <1>2
<1> QED BY <1>1, <1>2, <1>3 DEF CountsWeeks

(* NextDue for the rules of Reminders: a later time, unless the count is   *)
(* reached, the end date is past or a loop gives up.                       *)
LEMMA NextDueFacts ==
  ASSUME NEW rule \in Rules, NEW anchor \in DueTimes, NEW after \in Int, NEW n \in Nat
  PROVE  LET next == NextDue(anchor, after, rule, n)
         IN  /\ next \in Int \cup {None}
             /\ next # None => /\ next > after
                               /\ rule.max # None => n < rule.max
             /\ (LoopsReach /\ after \in 0 .. MaxTime
                 /\ next = None /\ rule.max # None /\ rule.until = None)
                  => n >= rule.max
<1> DEFINE next == NextDue(anchor, after, rule, n)
           c == computeNext(anchor, after, rule)
<1>1. IsRule(rule) /\ HourNotSkipped(rule, anchor) /\ CountsWeeks(rule) /\ anchor \in Nat
  BY RulesFacts, RemindersAssumption DEF HourNotSkipped
<1>2. /\ next \in Int \cup {None}
      /\ next # None => next > after /\ (rule.max # None => n < rule.max)
      /\ next = None => \/ rule.max # None /\ n >= rule.max
                        \/ c = None
                        \/ rule.until # None /\ DayOf(c) > rule.until
  BY <1>1, NextDueIsLater
<1>3. LoopsReach /\ after \in 0 .. MaxTime => c # None
  <2>1. LoopsReach /\ after \in 0 .. MaxTime => InReach(rule, anchor, after) /\ after \in Nat
    BY RemindersAssumption DEF LoopsReach
  <2> QED BY <1>1, <2>1, ComputedIsFound
<1> QED BY <1>2, <1>3

----------------------------------------------------------------------------
(* The inductive invariant. *)

(* The copies the scheduler and the updates hold are of pending rows. *)
Copies ==
  /\ \A r \in Reminders : batch[r] # None => Pending(batch[r]) /\ row[r] # None
  /\ \A c \in Calls :
       cpc[c] = "read" =>
         target[c] \in Reminders /\ Pending(held[c]) /\ row[target[c]] # None

(* Sent, and not yet counted. *)
InHand(r) == spc = "advance" /\ cur = r

Fresh(r) == row[r] = None => sends[r] = 0 /\ lost[r] = 0 /\ lastAt[r] = None

Open(r) ==
  (Undisturbed(r) /\ batch[r] # None) => row[r].status # "delivered"

(* A text sent is counted in the row, lost, the last of the series, or     *)
(* about to be counted.                                                    *)
Account(r) ==
  Undisturbed(r) =>
    sends[r] = row[r].count + lost[r]
                 + (IF row[r].status = "delivered" \/ InHand(r) THEN 1 ELSE 0)

Room(r) ==
  (Undisturbed(r) /\ Limited(row[r])) =>
    /\ row[r].count < row[r].rule.max
    /\ (LoopsReach /\ row[r].status = "delivered" /\ row[r].rule.until = None)
         => row[r].count + 1 >= row[r].rule.max

Later(r) ==
  (Undisturbed(r) /\ lastAt[r] # None) =>
    /\ InHand(r) => lastAt[r] = now
    /\ (Pending(row[r]) /\ ~InHand(r)) => row[r].due > lastAt[r]
    /\ (batch[r] # None /\ ~InHand(r)) => batch[r].due > lastAt[r]

RowInv(r) == Fresh(r) /\ Open(r) /\ Account(r) /\ Room(r) /\ Later(r)

IInv == TypeOK /\ Copies /\ \A r \in Reminders : RowInv(r)

LEMMA InitInv == Init => IInv
<1> SUFFICES ASSUME Init PROVE IInv
  OBVIOUS
<1>1. TypeOK
  <2>1. 0 \in 0 .. MaxTime
    BY RemindersAssumption
  <2> QED BY <2>1 DEF Init, TypeOK, Nothing
<1>2. \A r \in Reminders : row[r] = None /\ batch[r] = None
  BY DEF Init, Nothing
<1>3. Copies
  BY <1>2 DEF Init, Copies
<1>4. ASSUME NEW r \in Reminders PROVE RowInv(r)
  BY <1>2 DEF Init, RowInv, Fresh, Open, Account, Room, Later, Nothing, Undisturbed
<1> QED BY <1>1, <1>3, <1>4 DEF IInv

LEMMA UnchangedInv == IInv /\ UNCHANGED vars => IInv'
BY DEF IInv, TypeOK, Copies, RowInv, Fresh, Open, Account, Room, Later,
       Undisturbed, Limited, InHand, Pending, vars, tickVars, schedVars, callVars,
       ghostVars

LEMMA PassInv == IInv /\ Pass => IInv'
BY RemindersAssumption
DEF Pass, IInv, TypeOK, Copies, RowInv, Fresh, Open, Account, Room, Later,
       Undisturbed, Limited, InHand, Pending, vars, tickVars, schedVars, callVars,
       ghostVars

----------------------------------------------------------------------------
(* The scheduler. *)

(* What the end of a run, and the way to the next reminder, do. *)
LEMMA RestFacts ==
  ASSUME TypeOK, Rest
  PROVE  /\ spc' = "idle" /\ cur' = None /\ now' \in 0 .. MaxTime /\ ticker' \in BOOLEAN
         /\ batch' \in [Reminders -> Rows \cup {None}]
         /\ \A q \in Reminders : batch'[q] = None
BY RemindersAssumption DEF TypeOK, Rest, Nothing

LEMMA LeaveFacts ==
  ASSUME TypeOK, NEW r \in Reminders, Leave(r)
  PROVE  /\ spc' \in {"idle", "next"} /\ cur' = None /\ now' \in 0 .. MaxTime
         /\ ticker' \in BOOLEAN
         /\ batch' \in [Reminders -> Rows \cup {None}]
         /\ \A q \in Reminders : batch'[q] = None \/ (q # r /\ batch'[q] = batch[q])
<1>1. CASE Rest
  BY <1>1, RestFacts
<1>2. CASE ~Rest
  BY <1>2 DEF TypeOK, Leave, Nothing
<1> QED BY <1>1, <1>2

LEMMA FetchInv == IInv /\ Fetch => IInv'
<1> SUFFICES ASSUME IInv, Fetch PROVE IInv'
  OBVIOUS
<1> USE DEF IInv
<1>1. PICK B \in SUBSET {r \in Reminders : Due(row[r], tick)} :
        IF B = {} THEN Rest
        ELSE /\ now' = tick
             /\ batch' = [r \in Reminders |-> IF r \in B THEN row[r] ELSE None]
             /\ spc' = "next"
             /\ UNCHANGED <<cur, ticker>>
  BY DEF Fetch
<1>2. cur = None /\ spc = "idle" /\ tick \in 0 .. MaxTime
  BY DEF Fetch, TypeOK
<1>3. /\ spc' \in {"idle", "next"} /\ cur' = None /\ now' \in 0 .. MaxTime /\ ticker' \in BOOLEAN
      /\ batch' \in [Reminders -> Rows \cup {None}]
      /\ \A q \in Reminders :
           batch'[q] = None \/ (batch'[q] = row[q] /\ Pending(row[q]))
  <2>1. CASE B = {}
    BY <2>1, <1>1, RestFacts
  <2>2. CASE B # {}
    BY <2>2, <1>1, <1>2 DEF TypeOK, Due
  <2> QED BY <2>1, <2>2
<1>4. TypeOK'
  BY <1>3 DEF TypeOK, Fetch, callVars, ghostVars
<1>5. Copies'
  BY <1>3 DEF Copies, Fetch, callVars, Pending
<1>6. ASSUME NEW r \in Reminders PROVE RowInv(r)'
  BY <1>2, <1>3
  DEF RowInv, Fresh, Open, Account, Room, Later, Undisturbed, Limited, InHand, Pending,
      Fetch, ghostVars
<1> QED BY <1>4, <1>5, <1>6

LEMMA TakeNextInv == ASSUME NEW r \in Reminders PROVE IInv /\ TakeNext(r) => IInv'
<1> SUFFICES ASSUME IInv, TakeNext(r) PROVE IInv'
  OBVIOUS
<1> USE DEF IInv
<1>1. TypeOK'
  BY RemindersAssumption DEF TypeOK, TakeNext, tickVars, callVars, ghostVars
<1>2. Copies'
  BY DEF Copies, TakeNext, callVars, Pending
<1>3. ASSUME NEW q \in Reminders PROVE RowInv(q)'
  BY DEF RowInv, Fresh, Open, Account, Room, Later, Undisturbed, Limited, InHand,
      Pending, TakeNext, ghostVars
<1> QED BY <1>1, <1>2, <1>3

LEMMA RenderInv == ASSUME NEW r \in Reminders PROVE IInv /\ Render(r) => IInv'
<1> SUFFICES ASSUME IInv, Render(r) PROVE IInv'
  OBVIOUS
<1> USE DEF IInv
<1>1. CASE spc' = "send" /\ UNCHANGED <<ticker, now, batch, cur>>
  <2>1. TypeOK'
    BY <1>1 DEF TypeOK, Render, callVars, ghostVars
  <2>2. Copies'
    BY <1>1 DEF Copies, Render, callVars, Pending
  <2>3. ASSUME NEW q \in Reminders PROVE RowInv(q)'
    BY <1>1 DEF RowInv, Fresh, Open, Account, Room, Later, Undisturbed, Limited, InHand,
        Pending, Render, ghostVars
  <2> QED BY <2>1, <2>2, <2>3
<1>2. CASE Leave(r)
  <2>1. /\ spc' \in {"idle", "next"} /\ cur' = None /\ now' \in 0 .. MaxTime
        /\ ticker' \in BOOLEAN
        /\ batch' \in [Reminders -> Rows \cup {None}]
        /\ \A q \in Reminders : batch'[q] = None \/ (q # r /\ batch'[q] = batch[q])
    BY <1>2, LeaveFacts
  <2>2. TypeOK'
    BY <2>1 DEF TypeOK, Render, callVars, ghostVars
  <2>3. Copies'
    BY <2>1 DEF Copies, Render, callVars, Pending
  <2>4. ASSUME NEW q \in Reminders PROVE RowInv(q)'
    BY <2>1 DEF RowInv, Fresh, Open, Account, Room, Later, Undisturbed, Limited, InHand,
        Pending, Render, ghostVars
  <2> QED BY <2>2, <2>3, <2>4
<1> QED BY <1>1, <1>2 DEF Render, Skip

LEMMA SendInv == ASSUME NEW r \in Reminders PROVE IInv /\ Send(r) => IInv'
<1> SUFFICES ASSUME IInv, Send(r) PROVE IInv'
  OBVIOUS
<1> USE DEF IInv
<1>1. CASE /\ sends' = [sends EXCEPT ![r] = @ + 1]
           /\ lastAt' = [lastAt EXCEPT ![r] = now]
           /\ spc' = "advance"
           /\ UNCHANGED <<ticker, now, batch, cur>>
  <2>1. TypeOK'
    BY <1>1 DEF TypeOK, Send, callVars
  <2>2. Copies'
    BY <1>1 DEF Copies, Send, callVars, Pending
  <2>3. batch[r] # None /\ row[r] # None /\ ~InHand(r) /\ cur = r
    BY RemindersAssumption DEF Copies, Send, InHand, TypeOK
  <2>4. ASSUME NEW q \in Reminders, q # r PROVE RowInv(q)'
    BY <2>4, <1>1 DEF RowInv, Fresh, Open, Account, Room, Later, Undisturbed, Limited,
        InHand, Pending, Send, TypeOK
  <2>5. RowInv(r)'
    <3>1. sends'[r] = sends[r] + 1 /\ lastAt'[r] = now /\ InHand(r)' /\ sends[r] \in Nat
      BY <1>1, <2>3 DEF TypeOK, InHand
    <3>2. row' = row /\ lost' = lost /\ stale' = stale /\ batch' = batch /\ now' = now
      BY <1>1 DEF Send
    <3>3. Account(r)'
      <4>1. SUFFICES ASSUME Undisturbed(r)
                     PROVE  sends'[r] = row[r].count + lost[r] + 1
        BY <3>1, <3>2 DEF Account, Undisturbed
      <4>2. row[r].status # "delivered"
        BY <4>1, <2>3 DEF RowInv, Open
      <4>3. sends[r] = row[r].count + lost[r]
        <5>1. row[r].count \in Nat /\ lost[r] \in Nat
          BY <2>3 DEF TypeOK, Rows
        <5> QED BY <5>1, <4>1, <4>2, <2>3 DEF RowInv, Account
      <4>4. row[r].count \in Nat /\ lost[r] \in Nat
        BY <2>3 DEF TypeOK, Rows
      <4> QED BY <4>3, <4>4, <3>1
    <3> QED BY <2>3, <3>1, <3>2, <3>3
        DEF RowInv, Fresh, Open, Room, Later, Undisturbed, Limited
  <2> QED BY <2>1, <2>2, <2>4, <2>5
<1>2. CASE Rest /\ UNCHANGED <<sends, lastAt>>
  <2>1. /\ spc' = "idle" /\ cur' = None /\ now' \in 0 .. MaxTime /\ ticker' \in BOOLEAN
        /\ batch' \in [Reminders -> Rows \cup {None}]
        /\ \A q \in Reminders : batch'[q] = None
    BY <1>2, RestFacts
  <2>2. TypeOK'
    BY <1>2, <2>1 DEF TypeOK, Send, callVars
  <2>3. Copies'
    BY <2>1 DEF Copies, Send, callVars, Pending
  <2>4. ASSUME NEW q \in Reminders PROVE RowInv(q)'
    BY <1>2, <2>1 DEF RowInv, Fresh, Open, Account, Room, Later, Undisturbed, Limited,
        InHand, Pending, Send
  <2> QED BY <2>2, <2>3, <2>4
<1> QED BY <1>1, <1>2 DEF Send

(* What is advanced keeps the columns the properties do not know about, is *)
(* never cancelled, and is open again exactly if there is a next time.     *)
LEMMA AdvancedFacts ==
  ASSUME NEW x \in Rows, NEW y \in Rows, NEW t \in 0 .. MaxTime
  PROVE  LET z == Advanced(x, y, t)
             f == FollowingDue(y, t)
         IN  /\ z \in Rows /\ z # None
             /\ z.rule = x.rule
             /\ \/ /\ y.rule = None \/ f = None
                   /\ z.status = "delivered" /\ z.count = x.count
                \/ /\ y.rule \in Rules /\ f # None
                   /\ z.status = "pending" /\ z.count = y.count + 1
                   /\ z.due > t
             /\ (y.rule \in Rules /\ f # None /\ y.rule.max # None)
                  => y.count + 1 < y.rule.max
             /\ (LoopsReach /\ y.rule \in Rules /\ f = None /\ y.rule.max # None /\ y.rule.until = None)
                  => y.count + 1 >= y.rule.max
<1>1. /\ y.anchor \in DueTimes /\ t \in Int /\ y.count + 1 \in Nat
      /\ y.rule \in Rules \cup {None}
      /\ x.rule \in Rules \cup {None} /\ x.count \in Nat /\ x.due \in Int
  BY DEF Rows
<1>2. CASE y.rule = None \/ FollowingDue(y, t) = None
  <2>1. Advanced(x, y, t) = [x EXCEPT !.status = "delivered"]
    BY <1>2 DEF Advanced
  <2>2. Advanced(x, y, t) \in Rows
    BY <2>1 DEF Rows
  <2>3. /\ Advanced(x, y, t).rule = x.rule
        /\ Advanced(x, y, t).status = "delivered"
        /\ Advanced(x, y, t).count = x.count
    BY <2>1 DEF Rows
  <2>4. (LoopsReach /\ y.rule \in Rules /\ FollowingDue(y, t) = None
         /\ y.rule.max # None /\ y.rule.until = None) => y.count + 1 >= y.rule.max
    BY <1>1, NextDueFacts DEF FollowingDue
  <2> QED BY <1>2, <2>2, <2>3, <2>4, RemindersAssumption
<1>3. CASE y.rule \in Rules /\ FollowingDue(y, t) # None
  <2>1. /\ FollowingDue(y, t) \in Int /\ FollowingDue(y, t) > t
        /\ y.rule.max # None => y.count + 1 < y.rule.max
    BY <1>1, <1>3, NextDueFacts DEF FollowingDue
  <2>2. y.rule # None
    BY <1>3, RemindersAssumption
  <2>3. Advanced(x, y, t) =
          [x EXCEPT !.status = "pending", !.due = FollowingDue(y, t), !.count = y.count + 1]
    BY <1>3, <2>2 DEF Advanced
  <2>4. Advanced(x, y, t) \in Rows
    BY <1>1, <2>1, <2>3 DEF Rows
  <2>5. /\ Advanced(x, y, t).rule = x.rule
        /\ Advanced(x, y, t).status = "pending"
        /\ Advanced(x, y, t).count = y.count + 1
        /\ Advanced(x, y, t).due = FollowingDue(y, t)
    BY <2>3 DEF Rows
  <2> QED BY <1>3, <2>1, <2>4, <2>5, RemindersAssumption
<1> QED BY <1>1, <1>2, <1>3

LEMMA AdvanceInv == ASSUME NEW r \in Reminders PROVE IInv /\ Advance(r) => IInv'
<1> SUFFICES ASSUME IInv, Advance(r) PROVE IInv'
  OBVIOUS
<1> USE DEF IInv
<1> DEFINE y == batch[r]
           z == Advanced(row[r], y, now)
<1>1. /\ row[r] # None /\ row[r] \in Rows /\ y # None /\ y \in Rows /\ Pending(y)
      /\ now \in 0 .. MaxTime /\ cur = r /\ InHand(r)
  BY RemindersAssumption DEF Advance, Copies, TypeOK, InHand
<1>2. /\ z \in Rows /\ z # None /\ z.rule = row[r].rule
      /\ \/ /\ y.rule = None \/ FollowingDue(y, now) = None
            /\ z.status = "delivered" /\ z.count = row[r].count
         \/ /\ y.rule \in Rules /\ FollowingDue(y, now) # None
            /\ z.status = "pending" /\ z.count = y.count + 1 /\ z.due > now
      /\ (y.rule \in Rules /\ FollowingDue(y, now) # None /\ y.rule.max # None)
           => y.count + 1 < y.rule.max
      /\ (LoopsReach /\ y.rule \in Rules /\ FollowingDue(y, now) = None /\ y.rule.max # None
          /\ y.rule.until = None) => y.count + 1 >= y.rule.max
  <2>1. row[r] \in Rows /\ y \in Rows /\ now \in 0 .. MaxTime
    BY <1>1
  <2> HIDE DEF y
  <2>2. z \in Rows /\ z # None /\ z.rule = row[r].rule
    BY ONLY <2>1, AdvancedFacts
  <2>3. \/ /\ y.rule = None \/ FollowingDue(y, now) = None
           /\ z.status = "delivered" /\ z.count = row[r].count
        \/ /\ y.rule \in Rules /\ FollowingDue(y, now) # None
           /\ z.status = "pending" /\ z.count = y.count + 1 /\ z.due > now
    BY ONLY <2>1, AdvancedFacts
  <2>4. (y.rule \in Rules /\ FollowingDue(y, now) # None /\ y.rule.max # None)
          => y.count + 1 < y.rule.max
    BY ONLY <2>1, AdvancedFacts
  <2>5. (LoopsReach /\ y.rule \in Rules /\ FollowingDue(y, now) = None
         /\ y.rule.max # None /\ y.rule.until = None) => y.count + 1 >= y.rule.max
    BY ONLY <2>1, AdvancedFacts
  <2> QED BY <2>2, <2>3, <2>4, <2>5
<1>3. /\ spc' \in {"idle", "next"} /\ cur' = None /\ now' \in 0 .. MaxTime
      /\ ticker' \in BOOLEAN
      /\ batch' \in [Reminders -> Rows \cup {None}]
      /\ \A q \in Reminders : batch'[q] = None \/ (q # r /\ batch'[q] = batch[q])
  BY LeaveFacts DEF Advance
<1>4. row' = [row EXCEPT ![r] = z]
  BY DEF Advance
<1>5. row'[r] = z /\ \A q \in Reminders : q # r => row'[q] = row[q]
  BY <1>4 DEF TypeOK
<1> HIDE DEF z
<1>6. TypeOK'
  <2>1. row' \in [Reminders -> Rows \cup {None}]
    BY <1>2, <1>4 DEF TypeOK
  <2>2. stale' \subseteq Reminders
    BY DEF Advance, TypeOK, OutdatedBy
  <2> QED BY <2>1, <2>2, <1>3 DEF TypeOK, Advance, callVars
<1>7. Copies'
  BY <1>2, <1>3, <1>5 DEF Copies, Advance, callVars, Pending
<1>8. ASSUME NEW q \in Reminders, q # r PROVE RowInv(q)'
  <2>1. q \in stale' <=> q \in stale
    BY <1>8 DEF Advance, OutdatedBy
  <2>2. ~InHand(q) /\ ~InHand(q)'
    BY <1>1, <1>3, <1>8 DEF InHand
  <2> QED BY <1>3, <1>5, <1>8, <2>1, <2>2
          DEF RowInv, Fresh, Open, Account, Room, Later, Undisturbed, Limited, Pending,
              Advance
<1>9. RowInv(r)'
  <2>1. ~InHand(r)' /\ batch'[r] = None
    BY <1>3 DEF InHand
  <2>2. SUFFICES ASSUME Undisturbed(r)' PROVE Account(r)' /\ Room(r)' /\ Later(r)'
    BY <1>2, <1>5, <2>1 DEF RowInv, Fresh, Open, Account, Room, Later
  <2>3. row[r] = y /\ Undisturbed(r)
    BY <2>2, <1>1 DEF Undisturbed, Advance, OutdatedBy
  <2>4. sends[r] = y.count + lost[r] + 1 /\ y.status = "pending"
        /\ y.count \in Nat /\ lost[r] \in Nat
    BY <1>1, <2>3 DEF RowInv, Account, Pending, TypeOK, Rows
  <2>5. sends' = sends /\ lost' = lost /\ lastAt' = lastAt
    BY DEF Advance
  <2>6. Account(r)'
    BY <1>2, <1>5, <2>1, <2>3, <2>4, <2>5 DEF Account
  <2>7. Room(r)'
    <3>1. Limited(y) => y.rule \in Rules /\ y.count < y.rule.max /\ y.rule.max \in Nat
      BY <1>1, <2>3, RulesFacts DEF RowInv, Room, Limited, Rows
    <3>2. SUFFICES ASSUME Limited(z)
                   PROVE  /\ z.count < z.rule.max
                          /\ (LoopsReach /\ z.status = "delivered" /\ z.rule.until = None)
                               => z.count + 1 >= z.rule.max
      BY <1>5 DEF Room
    <3>3. Limited(y) /\ z.rule = y.rule
      BY <1>2, <2>3, <3>2 DEF Limited
    <3>4. y.rule \in Rules /\ y.rule.max # None /\ y.rule # None
      BY <3>1, <3>3 DEF Limited
    <3> QED BY <1>2, <2>3, <3>1, <3>3, <3>4
  <2>8. Later(r)'
    <3>1. lastAt[r] # None => lastAt[r] = now
      BY <1>1, <2>3 DEF RowInv, Later
    <3> QED BY <1>2, <1>5, <2>1, <2>5, <3>1 DEF Later, Pending
  <2> QED BY <2>6, <2>7, <2>8
<1> QED BY <1>6, <1>7, <1>8, <1>9

LEMMA AdvanceFailedInv ==
  ASSUME NEW r \in Reminders PROVE IInv /\ AdvanceFailed(r) => IInv'
<1> SUFFICES ASSUME IInv, AdvanceFailed(r) PROVE IInv'
  OBVIOUS
<1> USE DEF IInv
<1>1. /\ spc' = "idle" /\ cur' = None /\ now' \in 0 .. MaxTime /\ ticker' \in BOOLEAN
      /\ batch' \in [Reminders -> Rows \cup {None}]
      /\ \A q \in Reminders : batch'[q] = None
  BY RestFacts DEF AdvanceFailed
<1>2. TypeOK'
  <2>1. lost' \in [Reminders -> Nat] /\ lastAt' \in [Reminders -> Nat \cup {None}]
    BY DEF TypeOK, AdvanceFailed
  <2>2. crashes' \in Nat
    BY DEF TypeOK, AdvanceFailed
  <2> QED BY <1>1, <2>1, <2>2 DEF TypeOK, AdvanceFailed, callVars
<1>3. Copies'
  BY <1>1 DEF Copies, AdvanceFailed, callVars
<1>4. /\ lost'[r] = lost[r] + 1 /\ lastAt'[r] = None
      /\ row[r] # None /\ batch[r] # None /\ InHand(r)
  BY RemindersAssumption DEF AdvanceFailed, TypeOK, Copies, InHand
<1>5. ASSUME NEW q \in Reminders, q # r PROVE RowInv(q)'
  <2>1. lost'[q] = lost[q] /\ lastAt'[q] = lastAt[q] /\ ~InHand(q) /\ ~InHand(q)'
    BY <1>1, <1>4, <1>5 DEF AdvanceFailed, TypeOK, InHand
  <2> QED BY <1>1, <2>1 DEF RowInv, Fresh, Open, Account, Room, Later, Undisturbed,
             Limited, Pending, AdvanceFailed
<1>6. RowInv(r)'
  <2>1. row' = row /\ sends' = sends /\ stale' = stale /\ batch'[r] = None /\ ~InHand(r)'
    BY <1>1 DEF AdvanceFailed, InHand
  <2>2. Account(r)'
    <3>1. SUFFICES ASSUME Undisturbed(r)
                   PROVE  sends[r] = row[r].count + (lost[r] + 1) /\ row[r].status # "delivered"
      BY <1>4, <2>1, RemindersAssumption DEF Account, Undisturbed, TypeOK, Rows
    <3>2. row[r].count \in Nat /\ lost[r] \in Nat
      BY <1>4 DEF TypeOK, Rows
    <3> QED BY <1>4, <3>1, <3>2 DEF RowInv, Open, Account
  <2> QED BY <1>4, <2>1, <2>2
          DEF RowInv, Fresh, Open, Room, Later, Undisturbed, Limited
<1> QED BY <1>2, <1>3, <1>5, <1>6

LEMMA CrashInv == IInv /\ Crash => IInv'
<1> SUFFICES ASSUME IInv, Crash PROVE IInv'
  OBVIOUS
<1> USE DEF IInv
<1>1. /\ spc' = "idle" /\ cur' = None /\ now' = 0 /\ ticker' = FALSE /\ tick' = clock
      /\ \A q \in Reminders : batch'[q] = None
      /\ batch' \in [Reminders -> Rows \cup {None}]
      /\ row' = row /\ sends' = sends /\ stale' = stale
      /\ \A c \in Calls : cpc'[c] # "read"
  BY DEF Crash, Nothing, TypeOK
<1>2. spc = "advance" => cur \in Reminders /\ row[cur] # None /\ batch[cur] # None
  BY DEF TypeOK, Copies
<1>3. TypeOK'
  <2>1. lost' \in [Reminders -> Nat] /\ lastAt' \in [Reminders -> Nat \cup {None}]
    <3>1. CASE spc = "advance"
      BY <1>2, <3>1 DEF TypeOK, Crash
    <3>2. CASE spc # "advance"
      BY <3>2 DEF TypeOK, Crash
    <3> QED BY <3>1, <3>2
  <2>2. /\ cpc' \in [Calls -> {"idle", "read", "done"}]
        /\ target' \in [Calls -> Reminders \cup {None}]
        /\ held' \in [Calls -> Rows \cup {None}]
    BY DEF TypeOK, Crash
  <2>3. crashes' \in Nat /\ clock' \in 0 .. MaxTime /\ tick' \in (0 .. MaxTime) \cup {None}
    BY <1>1 DEF TypeOK, Crash
  <2>4. row' \in [Reminders -> Rows \cup {None}] /\ sends' \in [Reminders -> Nat]
        /\ stale' \subseteq Reminders
    BY <1>1 DEF TypeOK
  <2>5. now' \in 0 .. MaxTime
    BY <1>1, RemindersAssumption
  <2> QED BY <1>1, <2>1, <2>2, <2>3, <2>4, <2>5 DEF TypeOK
<1>4. Copies'
  BY <1>1 DEF Copies
<1>5. ASSUME NEW q \in Reminders, InHand(q) PROVE RowInv(q)'
  <2>1. lost'[q] = lost[q] + 1 /\ lastAt'[q] = None /\ row[q] # None /\ batch[q] # None
    BY <1>2, <1>5 DEF Crash, TypeOK, InHand
  <2>2. batch'[q] = None /\ ~InHand(q)'
    BY <1>1 DEF InHand
  <2>3. Account(q)'
    <3>1. SUFFICES ASSUME Undisturbed(q)
                   PROVE  sends[q] = row[q].count + (lost[q] + 1) /\ row[q].status # "delivered"
      BY <1>1, <2>1, <2>2, RemindersAssumption DEF Account, Undisturbed, TypeOK, Rows
    <3>2. row[q].count \in Nat /\ lost[q] \in Nat
      BY <2>1 DEF TypeOK, Rows
    <3> QED BY <1>5, <2>1, <3>1, <3>2 DEF RowInv, Open, Account
  <2> QED BY <1>1, <2>1, <2>2, <2>3
          DEF RowInv, Fresh, Open, Room, Later, Undisturbed, Limited
<1>6. ASSUME NEW q \in Reminders, ~InHand(q) PROVE RowInv(q)'
  <2>1. lost'[q] = lost[q] /\ lastAt'[q] = lastAt[q]
    BY <1>2, <1>6 DEF Crash, TypeOK, InHand
  <2>2. batch'[q] = None /\ ~InHand(q)'
    BY <1>1 DEF InHand
  <2> QED BY <1>1, <1>6, <2>1, <2>2
          DEF RowInv, Fresh, Open, Account, Room, Later, Undisturbed, Limited, Pending
<1> QED BY <1>3, <1>4, <1>5, <1>6

----------------------------------------------------------------------------
(* The tools. *)

LEMMA SetInv ==
  ASSUME NEW c \in Calls, NEW r \in Reminders PROVE IInv /\ Set(c, r) => IInv'
<1> SUFFICES ASSUME IInv, Set(c, r) PROVE IInv'
  OBVIOUS
<1> USE DEF IInv
<1>1. PICK due \in DueTimes, rule \in Rules \cup {None}, mode \in Modes :
        row' = [row EXCEPT ![r] = [status |-> "pending", due |-> due, anchor |-> due,
                                   rule |-> rule, count |-> 0, mode |-> mode]]
  BY DEF Set
<1> DEFINE z == [status |-> "pending", due |-> due, anchor |-> due,
                 rule |-> rule, count |-> 0, mode |-> mode]
<1>2. z \in Rows /\ z # None
  BY RemindersAssumption DEF Rows
<1>3. row'[r] = z /\ \A q \in Reminders : q # r => row'[q] = row[q]
  BY <1>1 DEF TypeOK
<1>4. row[r] = None /\ batch[r] = None /\ cur # r
  BY RemindersAssumption DEF Set, Copies, TypeOK
<1>5. sends[r] = 0 /\ lost[r] = 0 /\ lastAt[r] = None
  BY <1>4 DEF RowInv, Fresh
<1>6. z.status = "pending" /\ z.count = 0 /\ z.rule = rule
  OBVIOUS
<1>7. row' \in [Reminders -> Rows \cup {None}]
  BY <1>1, <1>2 DEF TypeOK
<1> HIDE DEF z
<1>8. TypeOK'
  BY <1>7 DEF TypeOK, Set, tickVars, schedVars, ghostVars
<1>9. Copies'
  BY <1>2, <1>3 DEF Copies, Set, schedVars, Pending, TypeOK
<1>10. ASSUME NEW q \in Reminders, q # r PROVE RowInv(q)'
  BY <1>3, <1>10 DEF RowInv, Fresh, Open, Account, Room, Later, Undisturbed, Limited,
      InHand, Pending, Set, schedVars, ghostVars
<1>11. RowInv(r)'
  <2>1. rule # None /\ rule.max # None => rule.max > 0 /\ rule.max \in Nat
    BY RulesFacts
  <2>2. Room(r)'
    BY <1>3, <1>6, <2>1 DEF Room, Limited
  <2> QED BY <1>2, <1>3, <1>4, <1>5, <1>6, <2>2
          DEF RowInv, Fresh, Open, Account, Later, InHand, Set, schedVars, ghostVars
<1> QED BY <1>8, <1>9, <1>10, <1>11

LEMMA ReadInv ==
  ASSUME NEW c \in Calls, NEW r \in Reminders PROVE IInv /\ Read(c, r) => IInv'
<1> SUFFICES ASSUME IInv, Read(c, r) PROVE IInv'
  OBVIOUS
<1> USE DEF IInv
<1>1. TypeOK'
  BY DEF TypeOK, Read, tickVars, schedVars, ghostVars
<1>2. Copies'
  BY DEF Copies, Read, schedVars, Pending, TypeOK, GetReminder
<1>3. ASSUME NEW q \in Reminders PROVE RowInv(q)'
  BY DEF RowInv, Fresh, Open, Account, Room, Later, Undisturbed, Limited,
      InHand, Pending, Read, schedVars, ghostVars
<1> QED BY <1>1, <1>2, <1>3

LEMMA CancelInv ==
  ASSUME NEW c \in Calls, NEW r \in Reminders PROVE IInv /\ CancelReminder(c, r) => IInv'
<1> SUFFICES ASSUME IInv, CancelReminder(c, r) PROVE IInv'
  OBVIOUS
<1> USE DEF IInv
<1> DEFINE z == [row[r] EXCEPT !.status = "cancelled"]
<1>1. row[r] \in Rows /\ row[r] # None /\ row[r].status = "pending"
  BY DEF CancelReminder, Pending, TypeOK
<1>2. /\ z \in Rows /\ z.status = "cancelled"
      /\ z.count = row[r].count /\ z.rule = row[r].rule
  BY <1>1 DEF Rows
<1>3. z # None
  BY <1>2, RemindersAssumption
<1>4. row' = [row EXCEPT ![r] = z]
  BY DEF CancelReminder
<1>5. row'[r] = z /\ \A q \in Reminders : q # r => row'[q] = row[q]
  BY <1>4 DEF TypeOK
<1>6. row' \in [Reminders -> Rows \cup {None}]
  BY <1>2, <1>4 DEF TypeOK
<1> HIDE DEF z
<1>7. TypeOK'
  BY <1>6 DEF TypeOK, CancelReminder, tickVars, schedVars, ghostVars
<1>8. Copies'
  BY <1>3, <1>5 DEF Copies, CancelReminder, schedVars, Pending, TypeOK
<1>9. ASSUME NEW q \in Reminders, q # r PROVE RowInv(q)'
  BY <1>5, <1>9 DEF RowInv, Fresh, Open, Account, Room, Later, Undisturbed, Limited,
      InHand, Pending, CancelReminder, schedVars, ghostVars
<1>10. RowInv(r)'
  BY <1>1, <1>2, <1>3, <1>5
  DEF RowInv, Fresh, Open, Account, Room, Later, Undisturbed, Limited,
      InHand, Pending, CancelReminder, schedVars, ghostVars
<1> QED BY <1>7, <1>8, <1>9, <1>10

(* What an update writes is open, keeps the count, and leaves room for one *)
(* more delivery.                                                          *)
LEMMA RescheduledFacts ==
  ASSUME TypeOK, NEW x \in Rows, NEW anchor \in DueTimes \cup {x.anchor},
         NEW rule \in Rules \cup {x.rule}
  PROVE  LET due == Rescheduled(anchor, rule, x.count)
         IN  due # None => /\ due \in Int
                           /\ (rule # None /\ rule.max # None) => x.count < rule.max
<1>1. /\ anchor \in DueTimes /\ rule \in Rules \cup {None} /\ x.count \in Nat
      /\ clock - 1 \in Int
  BY RemindersAssumption DEF Rows, TypeOK
<1>2. CASE rule = None
  BY <1>1, <1>2, RemindersAssumption DEF Rescheduled
<1>3. CASE rule # None
  <2>1. rule \in Rules
    BY <1>1, <1>3
  <2>2. Rescheduled(anchor, rule, x.count) = NextDue(anchor, clock - 1, rule, x.count)
    BY <1>3 DEF Rescheduled
  <2> QED BY <1>1, <2>1, <2>2, NextDueFacts
<1> QED BY <1>2, <1>3

LEMMA WriteInv == ASSUME NEW c \in Calls PROVE IInv /\ Write(c) => IInv'
<1> SUFFICES ASSUME IInv, Write(c) PROVE IInv'
  OBVIOUS
<1> USE DEF IInv
<1> DEFINE r == target[c]
           x == held[c]
<1>1. /\ r \in Reminders /\ x # None /\ x \in Rows /\ x.status = "pending" /\ row[r] # None
  BY DEF Write, Copies, Pending, TypeOK
<1>2. PICK anchor \in DueTimes \cup {x.anchor}, rule \in Rules \cup {x.rule}, mode \in Modes :
        LET due == Rescheduled(anchor, rule, x.count)
        IN  IF due = None THEN UNCHANGED <<row, lastAt, stale>>
            ELSE /\ row' = [row EXCEPT ![r] = [x EXCEPT !.anchor = anchor, !.rule = rule,
                                                        !.due = due, !.mode = mode]]
                 /\ lastAt' = [lastAt EXCEPT ![r] = None]
                 /\ stale' = stale \cup OutdatedBy(r, x)
  BY DEF Write
<1> DEFINE due == Rescheduled(anchor, rule, x.count)
           z == [x EXCEPT !.anchor = anchor, !.rule = rule, !.due = due, !.mode = mode]
<1>3. /\ cpc' \in [Calls -> {"idle", "read", "done"}]
      /\ target' \in [Calls -> Reminders \cup {None}]
      /\ held' \in [Calls -> Rows \cup {None}]
      /\ cpc'[c] = "done"
      /\ \A d \in Calls : d # c => /\ cpc'[d] = cpc[d] /\ target'[d] = target[d]
                                   /\ held'[d] = held[d]
  BY DEF Write, TypeOK
<1>4. CASE due = None
  <2>1. row' = row /\ lastAt' = lastAt /\ stale' = stale
    BY <1>2, <1>4
  <2>2. TypeOK'
    BY <1>3, <2>1 DEF TypeOK, Write, tickVars, schedVars
  <2>3. Copies'
    BY <1>3, <2>1 DEF Copies, Write, schedVars, Pending
  <2>4. ASSUME NEW q \in Reminders PROVE RowInv(q)'
    BY <2>1 DEF RowInv, Fresh, Open, Account, Room, Later, Undisturbed, Limited,
        InHand, Pending, Write, schedVars
  <2> QED BY <2>2, <2>3, <2>4
<1>5. CASE due # None
  <2>1. due \in Int /\ (rule # None /\ rule.max # None => x.count < rule.max)
    BY <1>1, <1>5, RescheduledFacts
  <2>2. rule \in Rules \cup {None} /\ anchor \in DueTimes
    BY <1>1, RemindersAssumption DEF Rows
  <2> HIDE DEF due
  <2>3. /\ z \in Rows /\ z.status = "pending" /\ z.count = x.count /\ z.rule = rule
    BY <1>1, <2>1, <2>2 DEF Rows
  <2>4. z # None
    BY <2>3, RemindersAssumption
  <2>5. /\ row' = [row EXCEPT ![r] = z] /\ lastAt' = [lastAt EXCEPT ![r] = None]
        /\ stale' = stale \cup OutdatedBy(r, x)
    BY <1>2, <1>5 DEF due
  <2> HIDE DEF z
  <2>6. /\ row'[r] = z /\ lastAt'[r] = None
        /\ \A q \in Reminders : q # r => /\ row'[q] = row[q] /\ lastAt'[q] = lastAt[q]
                                         /\ q \in stale' <=> q \in stale
    BY <1>1, <2>5 DEF TypeOK, OutdatedBy
  <2>7. /\ row' \in [Reminders -> Rows \cup {None}] /\ stale' \subseteq Reminders
        /\ lastAt' \in [Reminders -> Nat \cup {None}]
    BY <1>1, <2>3, <2>5 DEF TypeOK, OutdatedBy
  <2>8. TypeOK'
    BY <1>3, <2>7 DEF TypeOK, Write, tickVars, schedVars
  <2>9. Copies'
    BY <1>3, <2>4, <2>6 DEF Copies, Write, schedVars, Pending
  <2>10. ASSUME NEW q \in Reminders, q # r PROVE RowInv(q)'
    BY <2>6, <2>10 DEF RowInv, Fresh, Open, Account, Room, Later, Undisturbed, Limited,
        InHand, Pending, Write, schedVars
  <2>11. ASSUME NEW q \in Reminders, q = r PROVE RowInv(q)'
    <3>1. sends' = sends /\ lost' = lost /\ (InHand(q)' <=> InHand(q))
      BY DEF Write, InHand, schedVars
    <3>2. q \notin stale' => row[q] = x /\ q \notin stale
      BY <2>5, <2>11 DEF OutdatedBy
    <3>3. Fresh(q)' /\ Open(q)' /\ Later(q)'
      BY <2>3, <2>4, <2>6, <2>11 DEF Fresh, Open, Later
    <3>4. Account(q)'
      BY <1>1, <2>3, <2>6, <2>11, <3>1, <3>2 DEF RowInv, Account, Undisturbed
    <3>5. Room(q)'
      BY <2>1, <2>3, <2>6, <2>11 DEF Room, Limited
    <3> QED BY <3>3, <3>4, <3>5 DEF RowInv
  <2> QED BY <2>8, <2>9, <2>10, <2>11
<1> QED BY <1>4, <1>5

----------------------------------------------------------------------------
(* The theorems. *)

LEMMA NextInv == IInv /\ [Next]_vars => IInv'
<1> SUFFICES ASSUME IInv, [Next]_vars PROVE IInv'
  OBVIOUS
<1>1. CASE SchedulerStep
  BY <1>1, FetchInv, TakeNextInv, RenderInv, SendInv, AdvanceInv, AdvanceFailedInv
  DEF SchedulerStep
<1>2. ASSUME NEW c \in Calls, ToolStep(c) PROVE IInv'
  BY <1>2, SetInv, ReadInv, WriteInv, CancelInv DEF ToolStep
<1> QED BY <1>1, <1>2, UnchangedInv, PassInv, CrashInv DEF Next

(* In every state of every behaviour the copies are of open rows, and the  *)
(* texts sent are those the rows count, those lost and the one in hand.    *)
THEOREM RemindersInvariant == Spec => []IInv
  BY InitInv, NextInv, PTL DEF Spec

(* Type correctness; the scheduler is at a reminder of its batch exactly   *)
(* while it works on one.                                                  *)
THEOREM RemindersTypeCorrect == Spec => []TypeOK
<1>1. IInv => TypeOK
  BY DEF IInv
<1> QED BY <1>1, RemindersInvariant, PTL

(* A series that nobody wrote from an outdated copy is sent no more often  *)
(* than after_count says, and once more for every advance that was lost.   *)
THEOREM RemindersAtMostMax == Spec => []AtMostMax
<1>1. IInv => AtMostMax
  <2> SUFFICES ASSUME IInv, NEW r \in Reminders, Undisturbed(r), Limited(row[r])
               PROVE  sends[r] <= row[r].rule.max + lost[r]
    BY DEF AtMostMax
  <2>1. /\ row[r].count \in Nat /\ lost[r] \in Nat /\ row[r].rule.max \in Nat
    BY RulesFacts DEF IInv, TypeOK, Undisturbed, Limited, Rows
  <2>2. row[r].count < row[r].rule.max
    BY DEF IInv, RowInv, Room
  <2> QED BY <2>1, <2>2 DEF IInv, RowInv, Account
<1> QED BY <1>1, RemindersInvariant, PTL

(* A row is marked delivered only after it was sent, a series that ends by *)
(* count only after as many deliveries as its rule says: as long as the    *)
(* loops of computeNext reach its next occurrence.                         *)
THEOREM RemindersClosedWhenDone ==
  ASSUME LoopsReach
  PROVE  Spec => []ClosedWhenDone
<1>1. IInv => ClosedWhenDone
  <2> SUFFICES ASSUME IInv, NEW r \in Reminders, Undisturbed(r),
                      row[r].status = "delivered"
               PROVE  /\ sends[r] >= 1
                      /\ (Limited(row[r]) /\ row[r].rule.until = None)
                           => sends[r] >= row[r].rule.max
    BY DEF ClosedWhenDone
  <2>1. row[r].count \in Nat /\ lost[r] \in Nat
    BY DEF IInv, TypeOK, Undisturbed, Rows
  <2>2. Limited(row[r]) => row[r].rule.max \in Nat
    BY RulesFacts DEF IInv, TypeOK, Undisturbed, Limited, Rows
  <2>3. sends[r] = row[r].count + lost[r] + 1
    BY DEF IInv, RowInv, Account
  <2>4. (Limited(row[r]) /\ row[r].rule.until = None)
          => row[r].count + 1 >= row[r].rule.max
    BY DEF IInv, RowInv, Room
  <2> QED BY <2>1, <2>2, <2>3, <2>4
<1> QED BY <1>1, RemindersInvariant, PTL

(* What is about to be sent is due after the tick that delivered the       *)
(* previous occurrence: however late the ticks are, none comes twice.      *)
THEOREM RemindersNoneTwice == Spec => []NoneTwice
<1>1. IInv => NoneTwice
  BY DEF IInv, TypeOK, NoneTwice, RowInv, Later, InHand
<1> QED BY <1>1, RemindersInvariant, PTL

(* A cancelled or delivered row is changed back only by a write from an    *)
(* outdated copy.                                                          *)
THEOREM RemindersFinalUnlessStale == Spec => FinalUnlessStale
<1> DEFINE Final(r) ==
             (row[r] # None /\ row[r].status # "pending" /\ row'[r].status # row[r].status)
               => r \in stale'
<1>1. ASSUME IInv, Next, NEW r \in Reminders,
             row[r] # None, row[r].status # "pending", row'[r] # row[r]
      PROVE  r \in stale'
  <2> USE DEF IInv
  <2>1. CASE Pass \/ Fetch \/ Crash
    BY <2>1, <1>1 DEF Pass, Fetch, Crash
  <2>2. ASSUME NEW q \in Reminders,
               TakeNext(q) \/ Render(q) \/ Send(q) \/ AdvanceFailed(q)
        PROVE  r \in stale'
    BY <2>2, <1>1 DEF TakeNext, Render, Send, AdvanceFailed
  <2>3. ASSUME NEW q \in Reminders, Advance(q) PROVE r \in stale'
    <3>1. q = r /\ batch[r] # None
      BY <1>1, <2>3, RemindersAssumption DEF Advance, TypeOK
    <3>2. row[r] # batch[r]
      BY <1>1, <3>1 DEF Copies, Pending
    <3> QED BY <2>3, <3>1, <3>2 DEF Advance, OutdatedBy
  <2>4. ASSUME NEW c \in Calls, NEW q \in Reminders,
               Set(c, q) \/ Read(c, q) \/ CancelReminder(c, q)
        PROVE  r \in stale'
    <3>1. q # r \/ Read(c, q)
      BY <1>1, <2>4 DEF Set, CancelReminder, Pending
    <3> QED BY <1>1, <2>4, <3>1 DEF Set, Read, CancelReminder, TypeOK
  <2>5. ASSUME NEW c \in Calls, Write(c) PROVE r \in stale'
    <3>1. target[c] = r /\ stale' = stale \cup OutdatedBy(target[c], held[c])
      BY <1>1, <2>5 DEF Write, TypeOK
    <3>2. row[r] # held[c]
      BY <1>1, <2>5 DEF Write, Copies, Pending
    <3> QED BY <3>1, <3>2 DEF OutdatedBy
  <2> QED BY <1>1, <2>1, <2>2, <2>3, <2>4, <2>5 DEF Next, SchedulerStep, ToolStep
<1>2. IInv /\ [Next]_vars => [\A r \in Reminders : Final(r)]_vars
  BY <1>1
<1> QED BY <1>2, RemindersInvariant, PTL DEF Spec, FinalUnlessStale
=============================================================================
