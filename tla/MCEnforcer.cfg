SPECIFICATION Spec
CONSTANTS
  BlockNames <- MCBlock
  ProxyRule = "allow-proxy"
  Exceptions <- MCExceptions
  Foreign = {"core"}
  UserDefaults <- MCDefaults
  MaxSessions = 3
  MaxCrashes = 2
  MaxFails = 1
INVARIANTS
  BlockIsRecoverable
  StartUndoesCrash
  GivenBack
CHECK_DEADLOCK FALSE
