SPECIFICATION SmallSpec
CONSTANTS
  Booking = {b}
  Person = {}
  Host <- OneHost
  Staff = {s1}
  Page = {front}
  Run = {r1}
  Batch = 1
  MaxPeople = 1
  Quotas <- OnePhoto
  None = None
PROPERTIES PhotoKeptWhileRenting
CHECK_DEADLOCK FALSE
