SPECIFICATION FairSpec
CONSTANTS
  Routes = {r1, r2}
  Workers = {w1, w2}
  Ids = {1, 2, 3}
  Zones = {z1, z2}
  Types = {"CNAME", "TXT"}
  ValidTypes = {"CNAME"}
  Names <- MCNames
  Canon <- MCCanon
  Bodies = {"b1", "b2"}
  Inputs <- WideInputs
  PageSize = 1
  Serialized = TRUE
  Foreign <- OneForeign
  External = External
  Nil = Nil
  z1 = z1
  z2 = z2
  Calls = {"ensure", "delete", "check", "has", "list"}
  MaxOps = 2
  MaxFaults <- ReadFaults
PROPERTIES CallsReturn
CHECK_DEADLOCK FALSE
