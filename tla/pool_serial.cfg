SPECIFICATION Spec
CONSTANTS
  a = a
  b = b
  t = t
  c1 = c1
  c2 = c2
  x = x
  y = y
  Devices <- TwoDevices
  Temporary <- OnlyTemporary
  Conns <- TwoConns
  Names <- TwoNames
  Nil = Nil
  Ops <- AllOps
  StaleAfter = 2
  Retention = 2
  MaxPending = 2
  MaxQueue = 2
  MaxRestarts = 1
  AsyncServices = FALSE
  InitFaults <- AnyFault
SYMMETRY NameSymmetry
INVARIANTS
  NoMutualFollow
  FollowedTargetOnline
  NoZombieConnection
  BannedOffline
