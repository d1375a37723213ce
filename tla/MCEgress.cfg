SPECIFICATION Spec
CONSTANTS
  DefaultPorts <- MCDefault
  Label <- MCLabel
  ToASCII <- MCToASCII
  Requests = {r1, r2}
  Hosts <- MCHosts
  Ports = {0, 8443}
  Layers <- MCLayers
  OriginLists <- MCOrigins
  Tokens = {TRUE}
  Answers <- MCAnswers
  maxTrackedDeniedHosts = 1
INVARIANTS
  ReachIsExact
  CountsAreFaithful
PROPERTIES
  TunnelEnds
CHECK_DEADLOCK FALSE
