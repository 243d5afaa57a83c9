SPECIFICATION Spec
CONSTANTS
  m1 = m1
  m2 = m2
  r1 = r1
  r2 = r2
  Messages = {m1}
  Runs = {r1}
  RunMsg <- OneEach
  Edits <- NoEdits
  Deletable = {m1}
  Faults = {}
  None = None
INVARIANTS DeletedIsForgotten
