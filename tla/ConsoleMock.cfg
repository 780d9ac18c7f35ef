SPECIFICATION Spec
CONSTANTS
  Ids = {r1, r2}
  Existing = {r1}
  SeedId = seed
  OtherSections = {"System"}
  None = None
  MaxSent = 4
  MaxExpiries = 1
INVARIANTS NeverFallsBack
CHECK_DEADLOCK FALSE
