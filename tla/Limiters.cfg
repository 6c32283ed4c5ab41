SPECIFICATION LimitersSpec
CONSTANTS
  c1 = c1
  q1 = q1
  q2 = q2
  Clients <- MC_Clients
  Reqs <- MC_Reqs
  Second = 3
  Rate = 5
  Capacity = 5
  MaxTime = 8
  Interval = 4
  WindowRate = 2
  SlidingRate = 3
  Grain = 2
  WindowTime = 13
  Limit = 2
  Window = 1
  Faults = TRUE
  MaxCount = 4
  LastRequest = 6
SYMMETRY Symmetry
INVARIANTS
  TypesOK
  RateBound
  BurstBound
PROPERTIES
  RetryIsExact
  RetriesAreExact
  NeverLockedOut
CHECK_DEADLOCK FALSE
