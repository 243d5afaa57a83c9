SPECIFICATION StuckBackgroundSpec
CONSTANTS
  c1 = c1
  c2 = c2
  c3 = c3
  chatA = chatA
  Calls = {c1, c2, c3}
  Chats = {chatA}
  NoChat = NoChat
  None = None
  Cap = 1
  DestsOf <- CrowdedBackground
INVARIANTS TypeOK Exclusive HonestOutcome
PROPERTIES ImplementsSerialLanes PrepareReturns CancelledCallReturns EveryCallReturns LanesKeepGoing
