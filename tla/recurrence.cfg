SPECIFICATION Spec
CONSTANTS
  None = None
  WeeklyHorizon = 60
  Tries = 160
  Rules <- AllRules
  Anchors <- AllAnchors
  Delays <- SomeDelays
  Deliveries = 4
  Horizon = 4000
INVARIANTS OnSchedule NothingSkipped EndIsKept
