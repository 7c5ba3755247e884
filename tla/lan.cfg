SPECIFICATION Spec
CHECK_DEADLOCK FALSE
CONSTANTS
    None = None
    MaxEdits = 2
    Invalid = {1}
    MaxMoves = 4
INVARIANT KeysOnlyWhileShown
INVARIANT ProposalsOwed
INVARIANT Converged
