SPECIFICATION FairSpec
CONSTANTS
  TimeoutMax = 2
  CntMod = 3
  DevMax = 14
  PiscValid = 2
  TmsValid = 1
CHECK_DEADLOCK FALSE
INVARIANT TypeOK
INVARIANT FlagFollowsType
INVARIANT Survival
INVARIANT ViewTracksPeer
INVARIANT ErrorMeansSilence
PROPERTY DemotionNeedsPeerKey
PROPERTY PromotionNeedsReason
PROPERTY DeadPeerIsNoticed
PROPERTY SerialTakeover
