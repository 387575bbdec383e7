SPECIFICATION Spec
CONSTANTS
  Call = {c1}
  MaxRetries = 1
  Timeout = 20
  Deadline = 60
  Answer <- MCAnswer
INVARIANT NeverBlocksDelivery
CHECK_DEADLOCK FALSE
