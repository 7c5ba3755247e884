SPECIFICATION Spec
CONSTANTS
  Entries = {a, b}
  None = None
  MaxEdits = 1
  MaxArrivals = 0
  MaxFaults = 0
  MaxStarts = 0
INVARIANT EvidenceFlushedAlways
CHECK_DEADLOCK FALSE
