SPECIFICATION Spec
CONSTANTS
  g = g
  Unit = {u1}
  Floor = {g}
  FloorOf <- OneFloor
  Lead = {}
  Proc = {p1, p2}
  MaxRes = 1
  MaxTen = 1
  MaxOcc = 1
  MaxNow = 0
  MaxMaint = 1
  Ops = {"create", "movein", "dispatch", "complete", "legacy", "notice", "moveout"}
  None = None
SYMMETRY Symmetric
INVARIANTS MovedOutOnce
CHECK_DEADLOCK FALSE
