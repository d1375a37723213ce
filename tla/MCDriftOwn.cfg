SPECIFICATION DriftSpec
CONSTANTS
  Surfaces = {"tools", "prompts"}
  Manifest <- One
  HarnessTools <- Kill
  Ids = {1}
  StringIds = {1}
  MaxRequests = 1
  MaxChanges = 0
CHECK_DEADLOCK FALSE
INVARIANTS
  OwnToolsAreNoDrift
