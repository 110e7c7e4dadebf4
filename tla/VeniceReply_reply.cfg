SPECIFICATION ReplySpec
CONSTANTS
  None = None
  Nil = Nil
  MaxFaults = 2
  VeniceAgents <- MCVeniceAgents
INVARIANTS
  OnlyRefusedFieldsAreDropped
  OneOutcome
  ProgressIsWithdrawn
  AnswerReachesRoom
  SpeechIsOfTheAnswer
PROPERTIES
  RefusalIsLearnedOnce
  NoticeNeverFollowsOutcome
  HandlerEnds
CHECK_DEADLOCK FALSE
