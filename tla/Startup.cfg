SPECIFICATION StartupSpec
CONSTANTS
  MaxVersion = 5
  Bad <- MCBad
  Coarse = FALSE
  Empty = Empty
  Handshake <- MCHandshake
  Preload = Preload
  MaxPair = 3
  Partial = Partial
  NoPair = NoPair
  Scenario <- MCScenario
  receiversOf <- MCReceiversOf
INVARIANTS
  
  NoMissedUpdate
  ServesAsConfigured
  ValidatedOnce
PROPERTIES
  ChangeTakesEffect
  
  EventuallyServes
CHECK_DEADLOCK FALSE
