SPECIFICATION Spec
CONSTANTS
  g = g
  Unit = {u1}
  Floor = {g}
  FloorOf <- OneFloor
  Lead = {l1}
  Proc = {p1, p2}
  MaxRes = 2
  MaxTen = 2
  MaxOcc = 2
  MaxNow = 2
  MaxMaint = 1
  Ops = {"create", "offline", "public", "verify", "renew", "extend", "expire", "sweep", "sign", "movein", "handover", "floor", "moveout", "edit", "complete", "dispatch", "notice", "maintenance"}
  None = None
SYMMETRY Symmetric
INVARIANTS UnitBacked LeadBacked SignedSurvivesSweep ConversionStands
PROPERTIES FloorGate AllocationSpec
CHECK_DEADLOCK FALSE
