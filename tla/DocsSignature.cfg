SPECIFICATION Spec
CONSTANTS
  Slots           = {t1, t2}
  Config          <- DefaultConfig
  Grounded        = TRUE
  Dashboard       = TRUE
  Readings        <- MCReadings
  Classifications <- MCClassifications
  Investigations  <- MCFewInvestigations
  TokenCosts      = {1}
  TokenBudget     = 9
  MaxReplans      = 1
  Uploads         <- MCUploads
  ModifiedAmounts = {1000}
  MaxResumes      = 2
  MaxCrashes      = 0
INVARIANTS
  TierOrSignature
CHECK_DEADLOCK FALSE
