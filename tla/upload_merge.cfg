\* A synchronisation that brings recent events along, and its undoing.
SPECIFICATION Spec
CONSTANTS
  States = {s0, s1}
  Invalid = {}
  None = None
  MaxEdits = 3
  MaxRevision = 3
  MaxFaults = 0
INVARIANT UndoOffered
CHECK_DEADLOCK FALSE
