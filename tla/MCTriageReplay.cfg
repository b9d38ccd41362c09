SPECIFICATION Spec
CONSTANTS
  Extractions     <- MCExtractions
  Determinations  <- MCDeterminations
  Lookups         <- MCLookups
  Classifications <- MCClassifications
  Amounts         <- MCAmounts
  Signals         <- MCSignals
  Uploads         <- MCUploads
  Configs         <- MCConfigs
INVARIANTS
  TypeOK
  AutoPaidIsClean
PROPERTIES
  WorseEvidenceNeverEases
  CeilingOnlyAdmits
CHECK_DEADLOCK FALSE
