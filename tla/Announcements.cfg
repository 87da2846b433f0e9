SPECIFICATION FairSpec
CONSTANTS
  Lists <- MCLists
  Priority <- MCPriority
  MaxPackets = 2
  RingMax = 1
  InboxMax = 1
CHECK_DEADLOCK FALSE
INVARIANT TypeOK
INVARIANT FilesInStep
INVARIANT NothingLeftBehind
INVARIANT StopSilences
INVARIANT IndexInList
PROPERTY AnnouncementEnds
PROPERTY ImplementsAnnouncer
