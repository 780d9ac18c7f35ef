SPECIFICATION Spec
CONSTANTS
  Configurations <- MCConfigurations
  Internal = "internal"
  None = None
  MaxChanges = 2
INVARIANTS TypeOK SnapshotWasThere NothingLastingMissed WholeRoutersStayWhole
