SPECIFICATION FairSpec
CONSTANTS
  Names = {a, b}
  None = None
  MaxCommands = 3
  MaxFaults = 3
INVARIANT ConfirmedIsMember
INVARIANT SavedNameGranted
PROPERTY JoiningEnds
CHECK_DEADLOCK FALSE
