SPECIFICATION Spec
CONSTANTS
  Slots           = {t1, t2}
  Config          <- DefaultConfig
  Grounded        = TRUE
  Dashboard       = TRUE
  Readings        <- MCReadings
  Classifications <- MCClassifications
  Investigations  <- MCFewInvestigations
  TokenCosts      = {1}
  TokenBudget     = 9
  MaxReplans      = 1
  Uploads         <- MCUploads
  ModifiedAmounts = {0, 1000}
  MaxResumes      = 2
  MaxCrashes      = 1
INVARIANTS
  TypeOK
  StateIsProjection
  DisbursementsAreRouted
  ApprovalBeforeAwait
CHECK_DEADLOCK FALSE
SYMMETRY SlotSymmetry
