SPECIFICATION FairSpec
CONSTANTS
  Calls = {call, other, kill}
  Ungranted = {other}
  KillCalls = {kill}
INVARIANTS
  TypeOK
  FailClosed
  BoundedAlways
  AckIsTrue
PROPERTIES
  SessionEnds
CHECK_DEADLOCK FALSE
