SPECIFICATION Spec
CHECK_DEADLOCK FALSE
CONSTANTS
    Queries <- OneQuery
    Comparisons <- OneQuery
    Uploads <- TwoUploads
    Joins <- OneJoin
    Renames <- None_
    Leaves <- None_
    Registrations <- None_
    Topics <- OneTopic
    None = None
    Rejoin = Rejoin
    q1 = q1
    j1 = j1
    r1 = r1
    l1 = l1
    g1 = g1
    t1 = t1
    MaxCommands = 2
    MaxAcks = 2
    MaxInbound = 2
    MaxResults = 2
    MaxGeneration = 2
INVARIANT ReservationsExact
INVARIANT RoomForResults
INVARIANT UploadsInOrder
INVARIANT NewestSnapshotKept
PROPERTY RejoinOnce
PROPERTY KeepsPromise
