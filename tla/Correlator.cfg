SPECIFICATION Spec
CONSTANTS
  Alert <- MCAlertFour
  MaxGroupSetting = 2
  NoBucket = NoBucket
INVARIANTS
  FlushedAtMostOnce
  OnlyFullGroupsDisplaced
  MappedBucketHasFlusher
PROPERTIES
  TakenGroupsAreFrozen
  ImplementsGrouping
  EveryAlertFlushed
CHECK_DEADLOCK FALSE
