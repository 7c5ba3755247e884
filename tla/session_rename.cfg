SPECIFICATION Spec
CONSTANTS
  Names = {a, b}
  None = None
  MaxCommands = 3
  MaxFaults = 3
INVARIANT RenamingUnderWay
CHECK_DEADLOCK FALSE
