SPECIFICATION Spec
CONSTANTS
  Policies       <- MCPolicies
  Notices        <- MCNotices
  Histories      <- MCHistories
  Determinations <- MCDeterminations
  Documents      <- MCDocuments
  Estimate       = 2000
  Class          <- MCClass
  Config         <- DefaultConfig
  MaxReplans     = 2
INVARIANTS
  LostDuplicateCheckIsCapped
CHECK_DEADLOCK FALSE
