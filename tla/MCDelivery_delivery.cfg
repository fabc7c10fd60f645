SPECIFICATION Spec
CONSTANTS
  Sms = {s}
  WhatsApp = {w}
  Email = {e1, e2}
  Policy = {g1}
  Account = {a}
  Staff = {c1, c2}
  Proc = {p1, p2}
  MaxDay = 2
  MaxText = 2
  None = None
SYMMETRY Symmetric
INVARIANTS TruthTold ReportsInAnyOrder RetriedOnlyFailed
PROPERTIES OutboxSpec UncertainHoldsSchedule ClaimedAsSanctioned
CHECK_DEADLOCK FALSE
