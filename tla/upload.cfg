\* Two states made here, one of them not fit for the server, three changes,
\* two numbers and one fault.  The bounds use everything up.
SPECIFICATION FairSpec
CONSTANTS
  States = {s0, s1}
  Invalid = {s1}
  None = None
  MaxEdits = 3
  MaxRevision = 2
  MaxFaults = 1
INVARIANT CleanMeansStored
INVARIANT NumbersGrow
INVARIANT NoKillPassedOff
PROPERTY UploadsEnd
CHECK_DEADLOCK FALSE
