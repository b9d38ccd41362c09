SPECIFICATION Spec
CONSTANTS
  t1 = t1
  t2 = t2
  t3 = t3
  a = a
  b = b
  query = query
  Calls      = {c1, c2, c3}
  Tasks      <- MCTasks
  Claims     <- MCClaims
  Subject    <- MCSubject
  Args       <- MCArgs
  Requests   <- MCRequests
  MaxCrashes = 1
SYMMETRY Symmetry
INVARIANTS
  TypeOK
  AnsweredIsFindable
  RepeatsDoNotAct
  CachedIsOwn
  EffectsAreGuarded
CHECK_DEADLOCK FALSE
