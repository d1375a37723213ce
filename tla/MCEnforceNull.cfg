SPECIFICATION Spec
CONSTANTS
  Index <- MCIndex
  Sessions <- MCSessions
  Epoch = 3
  MaxEval = 1
  Timeout = 2
  PollInterval = 1
INVARIANT
  NoConstraintDodged
CHECK_DEADLOCK FALSE
