SPECIFICATION FairSpec
CONSTANTS
  InboxMax = 2
  Frames <- MCFrames
  Lengths <- MCLengths
CHECK_DEADLOCK FALSE
INVARIANT TypeOK
INVARIANT OncePerRise
INVARIANT StationsCurrent
INVARIANT DirectionCurrent
INVARIANT StopComesNext
PROPERTY StopIsHeard
