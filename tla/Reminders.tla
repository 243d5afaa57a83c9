----------------------------- MODULE Reminders -----------------------------
(***************************************************************************)
(* Reminders: the table, the scheduler that delivers what is due           *)
(* (scheduler/reminders.go, DeliverDueReminders in memory/pipeline.go) and *)
(* the tools that set, update and cancel (memory/tools.go and              *)
(* memory/reminder_update.go, called by the replies to any messages, on no *)
(* lane).  Both sides read a row, work for a while and write it back: the  *)
(* scheduler by id alone, the update as a whole.  The program may crash;   *)
(* the table survives.                                                     *)
(*                                                                         *)
(* Of a row the text and the prompt are left out.  Rules are any that      *)
(* Validate accepts, in a zone that does not change its clocks, so that    *)
(* the wall times of Recurrence are the scheduler's times; RecurrenceSeries*)
(* has the zones that do.  A variant that no action uses precedes the      *)
(* definition it would break (NotCounted before Advanced).                 *)
(***************************************************************************)
EXTENDS Recurrence

CONSTANTS
  Reminders,  \* reminder ids, each of them new when it is set
  Calls,      \* tool calls
  Rules,      \* recurrence rules
  Modes,      \* "text", "action"
  Limit,      \* rows of one batch (100 in the code)
  Faults,     \* what may fail: "render", "send", "advance"
  MaxTime,    \* where the clock stops: bounds an instance
  DueTimes,   \* the times a user may name: bounds an instance
  MaxCrashes  \* bounds an instance

(* The columns of a row; a row that is not there is None. *)
Rows ==
  [status : {"pending", "delivered", "cancelled"}, due : Int, anchor : DueTimes,
   rule : Rules \cup {None}, count : Nat, mode : Modes]

ASSUME RemindersAssumption ==
  /\ \A rule \in Rules : IsRule(rule) /\ rule.zone.from >= rule.zone.to
  /\ None \notin Rules \cup Rows \cup Reminders
  /\ Modes \subseteq {"text", "action"}
  /\ Limit \in Nat \ {0}
  /\ MaxTime \in Nat
  /\ DueTimes \subseteq Nat
  /\ MaxCrashes \in Nat

VARIABLES
  clock,
  tick,     \* the ticker's channel: a time, or None
  ticker,   \* whether the ticker runs yet
  row,      \* the table: reminder -> row, or None
  (* the scheduler *)
  spc, now,
  batch,    \* what is left of DueReminders' result: reminder -> row, or None
  cur,      \* the reminder it is at
  (* the tool calls; an update holds the row it read *)
  cpc, target, held,
  crashes,
  (* what happened, for the properties: texts sent, advances that got lost,  *)
  (* the tick that delivered last, rows written from an outdated copy        *)
  sends, lost, lastAt, stale

schedVars == <<spc, now, batch, cur>>
tickVars == <<clock, tick, ticker>>
callVars == <<cpc, target, held>>
ghostVars == <<sends, lost, lastAt, stale>>
vars == <<tickVars, row, schedVars, callVars, crashes, ghostVars>>

Nothing == [r \in Reminders |-> None]

Init ==
  /\ clock = 0 /\ tick = 0 /\ ticker = FALSE
  /\ row = Nothing
  /\ spc = "idle" /\ now = 0 /\ batch = Nothing /\ cur = None
  /\ cpc = [c \in Calls |-> "idle"]
  /\ target = [c \in Calls |-> None]
  /\ held = [c \in Calls |-> None]
  /\ crashes = 0
  /\ sends = [r \in Reminders |-> 0]
  /\ lost = [r \in Reminders |-> 0]
  /\ lastAt = Nothing
  /\ stale = {}

Pending(x) == x # None /\ x.status = "pending"

----------------------------------------------------------------------------
(* RunReminders: one run at once, then one per tick; a tick that finds the *)
(* channel full is lost.  A unit of time is an interval of the ticker.     *)

Pass ==
  /\ clock' = IF clock < MaxTime THEN clock + 1 ELSE clock
  /\ tick' = IF ticker /\ tick = None THEN clock' ELSE tick
  /\ UNCHANGED <<ticker, row, schedVars, callVars, crashes, ghostVars>>

(* The run ends, its locals go; the first one starts the ticker. *)
RestAtCurrent ==
  /\ spc' = "idle" /\ now' = 0 /\ batch' = Nothing
  /\ ticker' = TRUE /\ UNCHANGED cur
Rest ==
  /\ spc' = "idle" /\ now' = 0 /\ cur' = None /\ batch' = Nothing
  /\ ticker' = TRUE

(* DueReminders: the pending rows that are due, the oldest of them only. *)
DueAlsoCancelled(x, t) == x # None /\ x.status # "delivered" /\ x.due <= t
Due(x, t) == Pending(x) /\ x.due <= t

Fetch ==
  /\ spc = "idle" /\ tick # None
  /\ tick' = None
  /\ LET due == {r \in Reminders : Due(row[r], tick)}
     IN  \E B \in SUBSET due :
           /\ B = due \/ Cardinality(B) = Limit
           /\ Cardinality(B) <= Limit
           /\ \A b \in B, d \in due \ B : row[b].due <= row[d].due
           /\ IF B = {} THEN Rest
              ELSE /\ now' = tick
                   /\ batch' = [r \in Reminders |-> IF r \in B THEN row[r] ELSE None]
                   /\ spc' = "next"
                   /\ UNCHANGED <<cur, ticker>>
  /\ UNCHANGED <<clock, row, callVars, crashes, ghostVars>>

(* DeliverDueReminders' loop goes on with the oldest row that is left. *)
TakeNext(r) ==
  /\ spc = "next"
  /\ batch[r] # None
  /\ \A q \in Reminders : batch[q] # None => batch[r].due <= batch[q].due
  /\ cur' = r
  /\ spc' = IF batch[r].mode = "action" THEN "render" ELSE "send"
  /\ UNCHANGED <<tickVars, row, now, batch, callVars, crashes, ghostVars>>

(* Done with r: on to the next, or the end of the batch. *)
Leave(r) ==
  LET rest == [batch EXCEPT ![r] = None]
  IN  IF rest = Nothing THEN Rest
      ELSE /\ batch' = rest /\ cur' = None /\ spc' = "next"
           /\ UNCHANGED <<now, ticker>>

(* renderReminderText of an action; a failure skips the reminder, which    *)
(* stays as it is.                                                         *)
SkipsTheBatch(r) == Rest
Skip(r) == Leave(r)

Render(r) ==
  /\ spc = "render" /\ cur = r
  /\ UNCHANGED <<clock, tick, row, callVars, crashes, ghostVars>>
  /\ \/ /\ spc' = "send"
        /\ UNCHANGED <<ticker, now, batch, cur>>
     \/ /\ "render" \in Faults
        /\ Skip(r)

(* send; a failure ends the whole batch. *)
Send(r) ==
  /\ spc = "send" /\ cur = r
  /\ UNCHANGED <<clock, tick, row, callVars, crashes, lost, stale>>
  /\ \/ /\ sends' = [sends EXCEPT ![r] = @ + 1]
        /\ lastAt' = [lastAt EXCEPT ![r] = now]
        /\ spc' = "advance"
        /\ UNCHANGED <<ticker, now, batch, cur>>
     \/ /\ "send" \in Faults
        /\ Rest
        /\ UNCHANGED <<sends, lastAt>>

(* AdvanceReminder writes over whatever the row x is by now, from what was *)
(* read of it, y.                                                          *)
FromItsDueTime(y, t) == NextDue(y.anchor, y.due, y.rule, y.count + 1)
FollowingDue(y, t) == NextDue(y.anchor, t, y.rule, y.count + 1)

NotCounted(x, y, t) ==
  IF y.rule = None \/ FollowingDue(y, t) = None THEN [x EXCEPT !.status = "delivered"]
  ELSE [x EXCEPT !.status = "pending", !.due = FollowingDue(y, t)]
OnlyOnce(x, y, t) == [x EXCEPT !.status = "delivered"]
Advanced(x, y, t) ==
  IF y.rule = None \/ FollowingDue(y, t) = None THEN [x EXCEPT !.status = "delivered"]
  ELSE [x EXCEPT !.status = "pending", !.due = FollowingDue(y, t), !.count = y.count + 1]

OutdatedBy(r, x) == IF row[r] # x THEN {r} ELSE {}

Advance(r) ==
  /\ spc = "advance" /\ cur = r
  /\ row' = [row EXCEPT ![r] = Advanced(@, batch[r], now)]
  /\ stale' = stale \cup OutdatedBy(r, batch[r])
  /\ Leave(r)
  /\ UNCHANGED <<clock, tick, callVars, crashes, sends, lost, lastAt>>

(* The store fails, or the program is ending. *)
AdvanceFailed(r) ==
  /\ spc = "advance" /\ cur = r
  /\ "advance" \in Faults /\ crashes < MaxCrashes
  /\ crashes' = crashes + 1
  /\ lost' = [lost EXCEPT ![r] = @ + 1]
  /\ lastAt' = [lastAt EXCEPT ![r] = None]
  /\ Rest
  /\ UNCHANGED <<clock, tick, row, callVars, sends, stale>>

(* The program is killed and starts again. *)
Crash ==
  /\ crashes < MaxCrashes
  /\ crashes' = crashes + 1
  /\ tick' = clock /\ ticker' = FALSE
  /\ spc' = "idle" /\ now' = 0 /\ cur' = None /\ batch' = Nothing
  /\ cpc' = [c \in Calls |-> IF cpc[c] = "read" THEN "done" ELSE cpc[c]]
  /\ target' = [c \in Calls |-> None]
  /\ held' = [c \in Calls |-> None]
  /\ IF spc = "advance"
     THEN /\ lost' = [lost EXCEPT ![cur] = @ + 1]
          /\ lastAt' = [lastAt EXCEPT ![cur] = None]
     ELSE UNCHANGED <<lost, lastAt>>
  /\ UNCHANGED <<clock, row, sends, stale>>

----------------------------------------------------------------------------
(* The tools. *)

(* setReminder: the time named is the first occurrence, past or not. *)
Set(c, r) ==
  /\ cpc[c] = "idle"
  /\ row[r] = None
  /\ cpc' = [cpc EXCEPT ![c] = "done"]
  /\ \E due \in DueTimes, rule \in Rules \cup {None}, mode \in Modes :
       row' = [row EXCEPT ![r] = [status |-> "pending", due |-> due, anchor |-> due,
                                  rule |-> rule, count |-> 0, mode |-> mode]]
  /\ UNCHANGED <<tickVars, schedVars, target, held, crashes, ghostVars>>

(* GetReminder finds pending rows only. *)
GetReminder(r) == Pending(row[r])

Read(c, r) ==
  /\ cpc[c] = "idle"
  /\ GetReminder(r)
  /\ cpc' = [cpc EXCEPT ![c] = "read"]
  /\ target' = [target EXCEPT ![c] = r]
  /\ held' = [held EXCEPT ![c] = row[r]]
  /\ UNCHANGED <<tickVars, row, schedVars, crashes, ghostVars>>

(* rescheduleReminder *)
Rescheduled(anchor, rule, count) ==
  IF rule = None THEN anchor ELSE NextDue(anchor, clock - 1, rule, count)

(* The whole row is written, from the copy; a rule may be added or changed *)
(* and is never removed; without another occurrence the tool fails.        *)
Write(c) ==
  /\ cpc[c] = "read"
  /\ cpc' = [cpc EXCEPT ![c] = "done"]
  /\ target' = [target EXCEPT ![c] = None]
  /\ held' = [held EXCEPT ![c] = None]
  /\ LET r == target[c]
         x == held[c]
     IN  \E anchor \in DueTimes \cup {x.anchor}, rule \in Rules \cup {x.rule},
            mode \in Modes :
           LET due == Rescheduled(anchor, rule, x.count)
           IN  IF due = None THEN UNCHANGED <<row, lastAt, stale>>
               ELSE /\ row' = [row EXCEPT ![r] = [x EXCEPT !.anchor = anchor, !.rule = rule,
                                                           !.due = due, !.mode = mode]]
                    /\ lastAt' = [lastAt EXCEPT ![r] = None]
                    /\ stale' = stale \cup OutdatedBy(r, x)
  /\ UNCHANGED <<tickVars, schedVars, crashes, sends, lost>>

CancelReminder(c, r) ==
  /\ cpc[c] = "idle"
  /\ Pending(row[r])
  /\ cpc' = [cpc EXCEPT ![c] = "done"]
  /\ row' = [row EXCEPT ![r].status = "cancelled"]
  /\ UNCHANGED <<tickVars, schedVars, target, held, crashes, ghostVars>>

----------------------------------------------------------------------------

SchedulerStep ==
  \/ Fetch
  \/ \E r \in Reminders :
       TakeNext(r) \/ Render(r) \/ Send(r) \/ Advance(r) \/ AdvanceFailed(r)

ToolStep(c) ==
  \/ \E r \in Reminders : Set(c, r) \/ Read(c, r) \/ CancelReminder(c, r)
  \/ Write(c)

Next ==
  \/ Pass
  \/ SchedulerStep
  \/ Crash
  \/ \E c \in Calls : ToolStep(c)

(* Time passes and the scheduler's goroutine runs: its model calls and its *)
(* sends end.                                                              *)
Fairness == WF_vars(Pass) /\ WF_vars(SchedulerStep)

Spec == Init /\ [][Next]_vars
FairSpec == Spec /\ Fairness

----------------------------------------------------------------------------
(* Properties. *)

(* Every variable holds a value of its type; the scheduler is at a         *)
(* reminder of its batch exactly while it works on one.                    *)
TypeOK ==
  /\ clock \in 0 .. MaxTime /\ tick \in (0 .. MaxTime) \cup {None} /\ ticker \in BOOLEAN
  /\ row \in [Reminders -> Rows \cup {None}]
  /\ spc \in {"idle", "next", "render", "send", "advance"}
  /\ now \in 0 .. MaxTime
  /\ batch \in [Reminders -> Rows \cup {None}]
  /\ cur \in Reminders \cup {None}
  /\ spc \in {"render", "send", "advance"} <=> cur # None
  /\ cur # None => batch[cur] # None
  /\ cpc \in [Calls -> {"idle", "read", "done"}]
  /\ target \in [Calls -> Reminders \cup {None}]
  /\ held \in [Calls -> Rows \cup {None}]
  /\ crashes \in Nat
  /\ sends \in [Reminders -> Nat]
  /\ lost \in [Reminders -> Nat]
  /\ lastAt \in [Reminders -> Nat \cup {None}]
  /\ stale \subseteq Reminders

Undisturbed(r) == r \notin stale /\ row[r] # None
Limited(x) == x.rule # None /\ x.rule.max # None

(* after_count, as far as the code keeps it: a series nobody wrote from an *)
(* outdated copy gets no more than its deliveries, and one more for every  *)
(* delivery whose advance was lost.                                        *)
AtMostMax ==
  \A r \in Reminders :
    (Undisturbed(r) /\ Limited(row[r])) => sends[r] <= row[r].rule.max + lost[r]

(* Nothing is closed before its time: a row that is marked delivered was   *)
(* sent, and a series that ends by count as often as its rule says.        *)
ClosedWhenDone ==
  \A r \in Reminders :
    (Undisturbed(r) /\ row[r].status = "delivered") =>
      /\ sends[r] >= 1
      /\ (Limited(row[r]) /\ row[r].rule.until = None) => sends[r] >= row[r].rule.max

(* However late a tick, it delivers a reminder once, the occurrences it    *)
(* missed are skipped and none comes twice, unless an advance was lost or  *)
(* the reminder was updated: what is about to be sent is due after the     *)
(* tick that delivered the previous occurrence.                            *)
NoneTwice ==
  \A r \in Reminders :
    (spc = "send" /\ cur = r /\ Undisturbed(r) /\ lastAt[r] # None) =>
      batch[r].due > lastAt[r]

(* A cancelled or delivered row comes back only by a write from a copy     *)
(* that was outdated.                                                      *)
FinalUnlessStale ==
  [][\A r \in Reminders :
       (row[r] # None /\ row[r].status # "pending" /\ row'[r].status # row[r].status)
         => r \in stale']_vars

(* A text reminder that is due is delivered, cancelled or put off, also    *)
(* when actions before it fail for ever: they do not fill a batch.  A send *)
(* that fails ends the batch, so sends must not fail for ever.             *)
TextDue(r) == Due(row[r], clock) /\ row[r].mode = "text"
SendFails == spc = "send" /\ spc' = "idle" /\ UNCHANGED sends
DueIsServed ==
  []<><<SendFails>>_vars \/ \A r \in Reminders : TextDue(r) ~> ~TextDue(r)

----------------------------------------------------------------------------
(* memory/tools.go:126, "cancel removes the whole series": a cancelled     *)
(* reminder never becomes pending again.                                   *)
CancelSticks ==
  [][\A r \in Reminders :
       (row[r] # None /\ row[r].status = "cancelled") => row'[r].status # "pending"]_vars
============================================================================
