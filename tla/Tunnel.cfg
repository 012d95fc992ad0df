SPECIFICATION FairTunnelSpec
CONSTANTS
  c1 = c1
  c2 = c2
  c3 = c3
  CONNS = {c1, c2, c3}
  TICKETS <- Tickets
  SCENARIOS <- Scenarios
  QUEUE = 2
  FRAMES = 2
  LAST = 1
  NONE = NONE
CHECK_DEADLOCK FALSE
INVARIANTS
  BucketsAreLive
  OpenIsRegistered
  FramesStayInBucket
  FramesInOrder
  TunnelsAreRegistered
PROPERTIES
  ReplayIsRefused
  TunnelsEnd
