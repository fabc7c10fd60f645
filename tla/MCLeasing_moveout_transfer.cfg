SPECIFICATION Spec
CONSTANTS
  g = g
  Unit = {u1, u2}
  Floor = {g}
  FloorOf <- OneFloor
  Lead = {}
  Proc = {p1, p2}
  MaxRes = 1
  MaxTen = 1
  MaxOcc = 2
  MaxNow = 0
  MaxMaint = 1
  Ops = {"movein", "dispatch", "complete", "legacy", "transfer", "moveout"}
  None = None
SYMMETRY Symmetric
INVARIANTS OccupiedIsUsed
CHECK_DEADLOCK FALSE
