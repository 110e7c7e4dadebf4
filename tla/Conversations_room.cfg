SPECIFICATION Spec
CONSTANTS
  None = None
  Bot = bot
  Users = {alice}
  Strangers = {bob}
  TopKinds = {"chat", "prefixed", "command", "image", "audio"}
  RelatedKinds = {"chat", "audio"}
  MaxEvents = 3
  MaxTopLevel = 1
  MaxBacklog = 1
  MaxUnreadable = 1
  Reserved = 1
  MaxContext = 8
INVARIANTS
  AnswersWhoAddressesIt
  ConversationIsWhole
  RequestIsRecentTurns
CHECK_DEADLOCK FALSE
