SPECIFICATION Spec
CONSTANTS
  Entries = {a, b}
  None = None
  MaxEdits = 2
  MaxArrivals = 1
  MaxFaults = 1
  MaxStarts = 1
INVARIANT ViewIsLibrary
INVARIANT RememberedEvidenceStored
INVARIANT DeletedStaysDeleted
INVARIANT AcceptedEvidenceFlushed
PROPERTY NothingUnseenRemoved
SYMMETRY Symmetry
CHECK_DEADLOCK FALSE
