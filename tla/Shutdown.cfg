SPECIFICATION ShutdownSpec
CONSTANTS
  Alert <- MCAlert
  MaxGroupSetting = 2
  NoBucket = NoBucket
  Enabled = TRUE
INVARIANTS
  CleanExitLossIsExplained
PROPERTY
  ShutdownTerminates
CHECK_DEADLOCK FALSE
