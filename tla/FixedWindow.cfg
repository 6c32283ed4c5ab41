SPECIFICATION GoroutinesSpec
CONSTANTS
  c1 = c1
  Clients <- MC_Clients
  Limit = 2
  Window = 3
  LastRequest = 8
  Conns <- MC_Conns
  Grace = 2
INVARIANTS
  TypeOK
  OneResetPerEntry
  BurstBound
  CutOnlyAfterGrace
PROPERTIES
  QuotaSpec
  RefusedGetsWindow
  SignalEnds
CHECK_DEADLOCK FALSE
