SPECIFICATION FairSpec
CONSTANTS
  Ids = {r1, r2}
  Existing = {r1}
  SeedId = seed
  OtherSections = {"System"}
  None = None
  MaxSent = 5
  MaxExpiries = 1
INVARIANTS TypeOK PartialDeleteReconciled OneOperationPerForm QuietListIsCurrent
PROPERTIES RowLeavesOnlyIfGone NothingHangs
CHECK_DEADLOCK FALSE
