SPECIFICATION TransportSpec
CONSTANTS
  NoItem = NoItem
  MaxTime = 6
  Request <- MCRequest
  reqOf <- MCReqOf
  WindowSetting = 2
  DefaultWindow = 3
  Lag = 1
  msgOf <- MCMsgOf
  Sent <- MCSent
  Cluster <- MCCluster
  Kid <- MCKid
  Scenario <- MCScenario
  BadTime = BadTime
  BadNonce = BadNonce
  NoCert = NoCert
  NoSig = NoSig
  NoIdentity = NoIdentity
  NoURI = NoURI
INVARIANTS
  NonceSpacing
  AcceptedOnce
  OnlyAuthenticSpendsNonce
  
  
PROPERTIES
  ReusedMeansUsed
  TransportsAgree
CHECK_DEADLOCK FALSE
