SPECIFICATION Spec
CHECK_DEADLOCK FALSE
CONSTANTS
    None = None
    Invalid = {}
    MaxEdits = 2
    MaxMoves = 4
PROPERTY RemoteStateNotProposed
