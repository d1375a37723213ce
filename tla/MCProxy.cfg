SPECIFICATION FairSpec
CONSTANTS
  Client <- ReservedAndPlain
  Lister <- Colliding
  Injectors = {t1}
  MaxInject = 1
INVARIANTS
  TypeOK
  InjectGetsOwnAnswer
  SinkReadyForSend
  FaithfulPipe
PROPERTIES
  ImplementsRelay
  InjectEndsAfterClose
CHECK_DEADLOCK FALSE
