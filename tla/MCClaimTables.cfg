SPECIFICATION FairSpec
CONSTANTS
  Writers     = {w1, w2}
  State       = {"INFO_PENDING", "TRIAGE"}
  RemindAfter = 1
  RemindEvery = 1
  MaxClock    = 3
  MaxIds      = 3
INVARIANTS
  TypeOK
  IdsFollowCommits
  TimelineIsCausal
  RemindersSpaced
PROPERTIES
  OverdueIsReminded
  ImplementsClaimLog
CHECK_DEADLOCK FALSE
