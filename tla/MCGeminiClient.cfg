SPECIFICATION FairSpec
CONSTANTS
  Calls        = {c1, c2}
  MaxAttempts  = 4
  AnswerTokens = {1}
INVARIANTS
  TypeOK
  UsageIsAnswers
PROPERTIES
  EveryCallEnds
  QueuesAreFair
CHECK_DEADLOCK FALSE
