SPECIFICATION FairSpec
CONSTANTS
  m1 = m1
  m2 = m2
  r1 = r1
  r2 = r2
  Messages = {m1}
  Runs = {r1}
  RunMsg <- OneEach
  Edits <- EditedTwice
  Deletable = {m1}
  Faults = {"prepare", "reply", "send", "memory", "delete"}
  None = None
INVARIANTS TypeOK AnswersCurrentText DeletionSticks StatesForgotten
PROPERTIES StoredMovesForward AllWorkEnds
