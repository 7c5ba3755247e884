\* A synchronisation, a kill recorded during it, and its undoing.
SPECIFICATION Spec
CONSTANTS
  States = {s0, s1}
  Invalid = {}
  None = None
  MaxEdits = 3
  MaxRevision = 3
  MaxFaults = 0
PROPERTY UndoKeepsNewRecords
CHECK_DEADLOCK FALSE
