SPECIFICATION LiveSpec
CONSTANTS
  Callers = {drift, gap}
  Prior <- MixedDefaults
  AgentStops = TRUE
  PanicAt = {"banner", "isolate", "kill-procs", "lock", "finalize", "shutdown"}
INVARIANTS
  LadderIsTrue
  RestoreIsExact
PROPERTIES
  EvidenceFirst
  TripAborts
CHECK_DEADLOCK FALSE
