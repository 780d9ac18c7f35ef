SPECIFICATION Spec
CONSTANTS
  Routes = {r1, r2}
  Workers = {w1, w2}
  Ids = {1, 2, 3}
  Zones = {z1}
  Types = {"CNAME"}
  ValidTypes = {"CNAME"}
  Names <- MCNames
  Canon <- MCCanon
  Bodies = {"b1", "b2"}
  Inputs <- OneName
  PageSize = 2
  Serialized = FALSE
  Foreign <- OneForeign
  External = External
  Nil = Nil
  z1 = z1
  z2 = z2
  Calls = {"ensure", "delete", "list"}
  MaxOps = 4
  MaxFaults <- TwoInstanceFaults
SYMMETRY Interchangeable
INVARIANTS IdsAreOwn NoOrphan ListedManagedIsOwn
PROPERTIES ExternalUntouched DeleteOkMeansGone
CHECK_DEADLOCK FALSE
