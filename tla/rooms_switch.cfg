SPECIFICATION Spec
CONSTANTS
    Devices <- TwoDevices
    Temporary <- NoDevice
    Legacy <- TwoRooms
    Names <- OneName
    Contents <- OneContent
    Ops <- SwitchingOps
    Pool = pool
    Nil = nil
    n1 = n1
    n2 = n2
    c1 = c1
    c2 = c2
    r1 = r1
    r2 = r2
    PageSizes = {1}
    MaxRevision = 2
    MaxClientRevision = 1
    AsyncServices = TRUE
    Faults = TRUE
INVARIANT SnapshotInMemberRoom
INVARIANT HearsOwnRoom
