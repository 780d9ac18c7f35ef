SPECIFICATION FairSpec
CONSTANTS
  Callers = {c1, c2}
  Parts = 2
  Ttl = 2
  Nothing = Nothing
  MaxNow = 4
  MaxStepBack = 1
  MaxStepForward = 1
  MaxRestarts = 1
INVARIANTS TypeOK AgeToldShortByClockOnly
PROPERTIES Refines FetchesSpaced CallersAnswered
CHECK_DEADLOCK TRUE
