SPECIFICATION FairSpec
CONSTANTS
  TimeoutMax = 1
  CntMod = 2
  DevMax = 11
  PiscValid = 2
  TmsValid = 1
CHECK_DEADLOCK FALSE
PROPERTY DeadPeerTakeover
