SPECIFICATION FairSpec
CONSTANTS
  Callers = {pump, push}
  Deadlined = {push}
  MaxRequests = 2
  MinProtocolVersion = 1
  MaxProtocolVersion = 1
  Versions = {0, 2}
INVARIANTS
  TypeOK
  SessionIsAuthentic
  RequestGetsOwnAnswer
  SinkReadyForSend
PROPERTIES
  CallersEnd
CHECK_DEADLOCK FALSE
