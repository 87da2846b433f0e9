SPECIFICATION FairSpec
CONSTANTS
  Timers <- MCTimers
  Period <- MCPeriod
  Frames <- MCFrames
  Lag = 1
  None = None
  Writers = {"train", "udp"}
  Reader = "udp"
  Sizes <- MCSizes
  Capacity = 2
  Chunk = 2
  Half = 4
  Lengths = {0, 1, 4, 7}
  Texts = {0, 1}
CHECK_DEADLOCK FALSE
INVARIANT TypeOK
INVARIANT EarliestFirst
INVARIANT Watched
INVARIANT ReadKeepsRoom
PROPERTY CountKept
PROPERTY ImplementsQueue
PROPERTY TimersRecur
PROPERTY FramesLeave
