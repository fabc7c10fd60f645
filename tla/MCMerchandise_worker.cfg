SPECIFICATION FairSpec
CONSTANTS
  Product = {box}
  MaxOrder = 2
  Package = {}
  Baskets <- SingleBaskets
  PackageLines <- OneOfEach
  Delivery = {d1}
  Batch = 1
  PerTick = 1
  Ops = {"checkout", "worker"}
  Damaged = {1}
  InitialStock = 2
  MaxStock = 2
  MaxNow = 1
  MaxFaults = 1
PROPERTIES ReleasedEventually PostedEventually BrokenIsReported
CHECK_DEADLOCK FALSE
