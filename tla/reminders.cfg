SPECIFICATION FairSpec
CONSTANTS
  None = None
  WeeklyHorizon = 0
  Tries = 0
  Reminders = {r1, r2}
  Calls = {c1, c2, c3}
  Rules <- TwiceOnly
  Modes = {"text", "action"}
  Limit = 2
  Faults = {"render", "send", "advance"}
  MaxTime = 2
  DueTimes = {1}
  MaxCrashes = 1
INVARIANTS TypeOK AtMostMax ClosedWhenDone NoneTwice
PROPERTIES FinalUnlessStale DueIsServed
