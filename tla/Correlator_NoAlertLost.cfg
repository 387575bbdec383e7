SPECIFICATION SafeSpec
CONSTANTS
  Alert <- MCAlertFour
  MaxGroupSetting = 2
  NoBucket = NoBucket
INVARIANT NoAlertLost
CHECK_DEADLOCK FALSE
