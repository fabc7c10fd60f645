SPECIFICATION Spec
CONSTANTS
  Account = {a1}
  Clerk = {c1, c2}
  Screen = {s1}
  Worker = {w1}
  Refresher = {k1, k2}
  MaxMonth = 1
  MaxPlan = 1
  MaxPay = 1
  MaxAdj = 2
  MaxRun = 2
  MaxAmount = 2
  Ops = {"plan", "bill", "legacy", "receipt", "online", "CREDIT", "WRITE_OFF", "REVERSAL", "REFUND", "record", "debit", "lapse", "report"}
  None = None
SYMMETRY Symmetric
INVARIANTS BooksAgree RefundWithinPayment HoldBacksRefund OneDecision OutcomeHonest
PROPERTIES ReviewedFigures AskedIsOwed BankSpec
CHECK_DEADLOCK FALSE
