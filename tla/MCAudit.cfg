SPECIFICATION Spec
CONSTANTS
  Sessions = {first, second}
  Events = {call, decided}
  MaxEntries = 2
  MaxNames = 2
  Overlap = FALSE
  DiskFaults = {FALSE, TRUE}
SYMMETRY Interchangeable
INVARIANTS
  StrictMeansComplete
  HonestHistory
  FlushedSurvive
CHECK_DEADLOCK FALSE
