SPECIFICATION Spec
CHECK_DEADLOCK FALSE
CONSTANTS
    Queries <- None_
    Comparisons <- None_
    Uploads <- None_
    Joins <- OneJoin
    Renames <- OneRename
    Leaves <- None_
    Registrations <- None_
    Topics <- OneTopic
    None = None
    Rejoin = Rejoin
    q1 = q1
    j1 = j1
    r1 = r1
    l1 = l1
    g1 = g1
    t1 = t1
    MaxCommands = 2
    MaxAcks = 2
    MaxInbound = 2
    MaxResults = 2
    MaxGeneration = 2
INVARIANT RememberedNameNewest
