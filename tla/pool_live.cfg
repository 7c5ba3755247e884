SPECIFICATION LiveSpec
CONSTANTS
  a = a
  b = b
  t = t
  c1 = c1
  c2 = c2
  x = x
  y = y
  Devices <- TwoDevices
  Temporary <- OnlyTemporary
  Conns <- OneConn
  Names <- OneName
  Nil = Nil
  Ops <- FollowLive
  StaleAfter = 1
  Retention = 1
  MaxPending = 1
  MaxQueue = 1
  MaxRestarts = 1
  AsyncServices = TRUE
  InitFaults <- EarlyFault
PROPERTIES
  DepartedTempRemoved
  AbandonedRelationEnds
