SPECIFICATION Spec
CONSTANTS
  None = None
  WeeklyHorizon = 60
  Tries = 60
  Rules <- BiweeklyRules
  Anchors <- AllAnchors
  Delays = {0}
  Deliveries = 4
  Horizon = 4000
INVARIANTS EveryNthWeek
