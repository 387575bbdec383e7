SPECIFICATION Spec
CONSTANTS
  Call = {c1, c2}
  MaxRetries = 1
  Timeout = 20
  Deadline = 60
  Answer <- MCAnswer
INVARIANTS
  DeadlineLeft
  StructuredIsHonest

  
CHECK_DEADLOCK FALSE
