SPECIFICATION Spec
CONSTANTS
  b1 = b1
  b2 = b2
  r1 = r1
  NoItem = NoItem
  MaxTime = 5
  Attempt <- MCAttempt
  attOf <- MCAttOf
  Config <- MCConfig
  FirstConfig <- MCFirst
  NoTenant = NoTenant
  Day = 2
  Lag = 1
SYMMETRY Symmetry
INVARIANTS
  OneLeafPerWindow
  MarkerIsExplained
PROPERTY NoLeafOnceRefused
CHECK_DEADLOCK FALSE
