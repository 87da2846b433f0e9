SPECIFICATION FairSpec
CONSTANTS
  Lists <- MCLists
  Priority <- MCPriority
  MaxPackets = 1
  RingMax = 1
  InboxMax = 1
CHECK_DEADLOCK FALSE
PROPERTY StartPlays
