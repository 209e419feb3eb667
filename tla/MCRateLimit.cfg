CONSTANTS
  Threads = {t1, t2}
  Limit = 3
  Window = 4
  MaxTime = 8
SYMMETRY Symmetry
SPECIFICATION Spec
INVARIANTS
  TypeOK
  WindowBound
PROPERTIES
  RetryAfterIsEnough
CHECK_DEADLOCK FALSE
