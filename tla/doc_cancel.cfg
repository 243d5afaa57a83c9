SPECIFICATION Spec
CONSTANTS
  None = None
  WeeklyHorizon = 0
  Tries = 0
  Reminders = {r1}
  Calls = {c1, c2}
  Rules <- Hourly
  Modes = {"text"}
  Limit = 1
  Faults = {}
  MaxTime = 2
  DueTimes = {1}
  MaxCrashes = 0
PROPERTIES CancelSticks
