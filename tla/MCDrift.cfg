SPECIFICATION DriftSpec
CONSTANTS
  Surfaces = {"tools", "prompts"}
  Manifest <- EmptyOrTwo
  HarnessTools <- Kill
  Ids = {1}
  StringIds = {1}
  MaxRequests = 2
  MaxChanges = 1
PROPERTIES
  AttributedRight
  DriftIsReported
  NothingStaysUnseen
CHECK_DEADLOCK FALSE
