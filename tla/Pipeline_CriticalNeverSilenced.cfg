SPECIFICATION Spec
CONSTANTS
  Job <- MCCritical
  groupOf <- MCGroupOf
  rules <- MCRules
  notifiers <- MCNotifiers
  allowed = {}
  similar <- MCSimilar
  Together <- MCCriticalTogether
  Clicked = {}
  None = None
INVARIANT CriticalNeverSilenced
CHECK_DEADLOCK FALSE
