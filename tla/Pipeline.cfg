SPECIFICATION Spec
CONSTANTS
  Job <- MCJob
  groupOf <- MCGroupOf
  rules <- MCRules
  notifiers <- MCNotifiers
  allowed = {}
  similar <- MCSimilar
  Together <- MCTogether
  Clicked <- MCClicked
  None = None
INVARIANTS
  EveryReceiverTried
  AnalysisBelongs
  NoSilenceFromCriticalGroup
  
PROPERTY EveryJobEnds
CHECK_DEADLOCK FALSE
