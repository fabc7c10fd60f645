SPECIFICATION Spec
CONSTANTS
  g = g
  Unit = {u1, u2}
  Floor = {g}
  FloorOf <- OneFloor
  Lead = {l1}
  Proc = {p1, p2}
  MaxRes = 1
  MaxTen = 1
  MaxOcc = 3
  MaxNow = 1
  MaxMaint = 1
  Ops = {"create", "movein", "dispatch", "complete", "legacy", "transfer", "moveout", "patch", "retire", "public", "otpfail", "cancel", "delete", "orphans", "floor"}
  None = None
SYMMETRY Symmetric
INVARIANTS OneAllocationPerTenancy MovedOutOnce TenantsKeepUnit
CHECK_DEADLOCK FALSE
