SPECIFICATION Spec
CONSTANTS
  Routes = {r1, r2}
  Workers = {w1}
  Ids = {1, 2, 3}
  Zones = {z1}
  Types = {"CNAME"}
  ValidTypes = {"CNAME"}
  Names <- MCNames
  Canon <- MCCanon
  Bodies = {"b1", "b2"}
  Inputs <- SmallInputs
  PageSize = 1
  Serialized = TRUE
  Foreign <- OneForeign
  External = External
  Nil = Nil
  z1 = z1
  z2 = z2
  Calls = {"ensure", "delete"}
  MaxOps = 1
  MaxFaults <- OnlyCancel
SYMMETRY Interchangeable
INVARIANTS PersistenceFailureNeverOrphans
CHECK_DEADLOCK FALSE
