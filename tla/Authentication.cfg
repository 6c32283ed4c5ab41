SPECIFICATION Spec
CONSTANTS
  u1 = u1
  q1 = q1
  q2 = q2
  q3 = q3
  Users <- MC_Users
  Reqs <- MC_Reqs
  UserExpTime = 2
  TokenExp = 4
  Timeout = 1
  MaxTime = 6
  Faults = {"redis"}
SYMMETRY Symmetry
INVARIANTS
  TypeOK
  StaleBound
PROPERTY
  CacheNeverRefuses
CHECK_DEADLOCK FALSE
