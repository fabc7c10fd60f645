SPECIFICATION Spec
CONSTANTS
  Account = {a1}
  Clerk = {c1, c2}
  Screen = {s1}
  Worker = {w1}
  Refresher = {k1}
  MaxMonth = 1
  MaxPlan = 1
  MaxPay = 1
  MaxAdj = 1
  MaxRun = 1
  MaxAmount = 1
  Ops = {"online", "REFUND", "record", "lateReject"}
  None = None
SYMMETRY Symmetric
INVARIANT HoldBacksRefund
CHECK_DEADLOCK FALSE
