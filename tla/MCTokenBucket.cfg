SPECIFICATION FairSpec
CONSTANTS
  Callers = {c1, c2, c3}
  Rate    = 3
  Cost    = 2
  Early   = 1
INVARIANTS
  TypeOK
  WindowBounded
PROPERTIES
  ImplementsCallQueue
