SPECIFICATION Spec
CONSTANTS
  InboxMax = 2
  PairMax = 1
  UdpRequests <- MCUdpRequests
  MayFail = {"train", "udp"}
CHECK_DEADLOCK FALSE
INVARIANT TypeOK
INVARIANT NobodyMissing
INVARIANT RequestFollowsKey
INVARIANT SleepsForAReason
INVARIANT EdgeNotForgotten
PROPERTY MainStarts
PROPERTY CallFollowsKey
