SPECIFICATION Spec
CONSTANTS
  None = None
  m1 = m1
  m2 = m2
  o1 = o1
  m3 = m3
  ann = ann
  bob = bob
  bot = bot
  A = A
  B = B
  Messages = {m1, m2, o1, m3}
  ChatOf <- TwoChats
  SentAt <- Times
  Sender <- Writers
  ReplyTo <- Answers
  OwnReply <- BotAnswers
  Edits <- OneEdit
  Self = bot
  Deletable = {m1}
  Limit = 1
  MaxRow = 3
  MaxTopics = 2
  Answered = {m1}
  Failing = {m1}
  Located = {ann}
  MaxLocations = 1
INVARIANTS TypeOK VectorOfItsMessage TopicOfItsChat
PROPERTIES LostOnlyToARace KeepsLatest
CHECK_DEADLOCK FALSE
