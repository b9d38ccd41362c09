SPECIFICATION FairSpec
CONSTANTS
  Slots           = {t1}
  Config          <- DefaultConfig
  Grounded        = TRUE
  Dashboard       = FALSE
  Readings        <- MCReadings
  Classifications <- MCClassifications
  Investigations  <- MCInvestigations
  TokenCosts      = {1, 9}
  TokenBudget     = 9
  MaxReplans      = 1
  Uploads         <- MCUploads
  ModifiedAmounts = {0, 1000}
  MaxResumes      = 3
  MaxCrashes      = 1
INVARIANTS
  SignedPayments
  DeniedClaimsAreNotPaid
  RowShowsRail
  RejectionHolds
  ReplansBounded
  RestsWhereItWaits
PROPERTIES
  RecordedPaymentIsFinal
  ClosedIsFinal
  ReceivedClaimsSettle
  CallsAreServed
CHECK_DEADLOCK FALSE
