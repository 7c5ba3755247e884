SPECIFICATION Spec
CONSTANTS
  Entries = {a, b}
  None = None
  MaxEdits = 3
  MaxArrivals = 0
  MaxFaults = 0
  MaxStarts = 0
INVARIANT DeletedForGood
CHECK_DEADLOCK FALSE
