SPECIFICATION Spec
CONSTANTS
  TimeoutMax = 2
  CntMod = 3
  DevMax = 11
  PiscValid = 2
  TmsValid = 1
CHECK_DEADLOCK FALSE
INVARIANT RegistryNeverFull
