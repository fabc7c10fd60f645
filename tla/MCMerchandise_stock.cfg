SPECIFICATION Spec
CONSTANTS
  Product = {box}
  MaxOrder = 2
  Package = {k1}
  Baskets <- SingleBaskets
  PackageLines <- OneOfEach
  Delivery = {d1}
  Batch = 1
  PerTick = 1
  Ops = {"test", "cancel", "checkout", "fulfil", "move", "expire"}
  Damaged = {}
  InitialStock = 1
  MaxStock = 2
  MaxNow = 1
  MaxFaults = 1
INVARIANTS TypeOK StockAccounted HeldInStock MoneyAccounted InboxHonest
PROPERTIES NoResurrection
CHECK_DEADLOCK FALSE
