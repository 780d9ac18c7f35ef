SPECIFICATION Spec
CONSTANTS
  Callers = {c1, c2}
  Parts = 2
  Ttl = 2
  Nothing = Nothing
  MaxNow = 5
  MaxStepBack = 1
  MaxStepForward = 0
  MaxRestarts = 1
PROPERTIES CachedForTtl
CHECK_DEADLOCK TRUE
