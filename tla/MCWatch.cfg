SPECIFICATION WatchSpec
CONSTANTS
  maxAge = 1
  Configs <- MCConfigs
INVARIANTS
  AlarmsAreTrue
PROPERTIES
  StallIsReported
  NothingIsMissed
CHECK_DEADLOCK FALSE
