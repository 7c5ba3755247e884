SPECIFICATION Spec
CONSTANTS
  a = a
  b = b
  t = t
  c1 = c1
  c2 = c2
  x = x
  y = y
  Devices <- TwoOrdinary
  Temporary <- NoDevice
  Conns <- OneConn
  Names <- OneName
  Nil = Nil
  Ops <- JoinOps
  StaleAfter = 1
  Retention = 2
  MaxPending = 2
  MaxQueue = 1
  MaxRestarts = 0
  AsyncServices = FALSE
  InitFaults <- NoFault
PROPERTIES
  OnlineMemberKept
