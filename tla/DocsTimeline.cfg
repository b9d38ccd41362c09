SPECIFICATION Spec
CONSTANTS
  Writers     = {w1, w2}
  State       = {"INFO_PENDING", "TRIAGE"}
  RemindAfter = 1
  RemindEvery = 1
  MaxClock    = 3
  MaxIds      = 3
INVARIANT TimelineEndsAtRow
CHECK_DEADLOCK FALSE
