SPECIFICATION Spec
CONSTANTS
  g = g
  Unit = {u1}
  Floor = {g}
  FloorOf <- OneFloor
  Lead = {}
  Proc = {p1, p2}
  MaxRes = 2
  MaxTen = 1
  MaxOcc = 1
  MaxNow = 1
  MaxMaint = 1
  Ops = {"create", "cancel", "expire"}
  None = None
SYMMETRY Symmetric
INVARIANTS HoldBacked
CHECK_DEADLOCK FALSE
