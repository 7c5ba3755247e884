SPECIFICATION Spec
CONSTANTS
    Devices <- TwoDevices
    Temporary <- OneTemporary
    Legacy <- OneRoom
    Names <- TwoNames
    Contents <- TwoContents
    Ops <- SharingOps
    Pool = pool
    Nil = nil
    n1 = n1
    n2 = n2
    c1 = c1
    c2 = c2
    r1 = r1
    r2 = r2
    PageSizes = {1}
    MaxRevision = 4
    MaxClientRevision = 2
    AsyncServices = TRUE
    Faults = FALSE
PROPERTY PageIsCurrent
INVARIANT LatestChangeTold
INVARIANT PagesInOrder
PROPERTY RevisionsToldIncrease
