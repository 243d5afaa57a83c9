SPECIFICATION FairSpec
CONSTANTS
  r1 = r1
  r2 = r2
  i1 = i1
  i2 = i2
  l1 = l1
  Replies = {r1, r2}
  Lists = {l1}
  Items = {i1, i2}
  Titles = {"shopping"}
  Texts = {"milk"}
  Asks <- SomeAsks
  Turns <- SomeTurns
  Faults = {"embed", "blank"}
  ModelFaults = {"request"}
  MaxAttempts <- TwoForOne
  Edited = {r1}
  MaxSteps = 3
  None = None
  Gone = Gone
INVARIANTS TypeOK FoundByContent EveryCallAnswered OneRequestAfterCancel
PROPERTIES EveryReplyEnds
