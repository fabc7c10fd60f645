SPECIFICATION SmallFairSpec
CONSTANTS
  Booking = {b}
  Person = {p1, p2, p3}
  Host <- OneHost
  Staff = {s1}
  Page = {front, back}
  Run = {r1}
  Batch = 1
  MaxPeople = 2
  Quotas <- Mixed
  None = None
INVARIANTS TypeOK ApprovedWasSeen IntentStands HandedOverWasIdentified PeopleBounded
PROPERTIES KeptUntilDue HeartbeatMeansClean ErasedEventually
CHECK_DEADLOCK FALSE
