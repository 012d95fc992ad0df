SPECIFICATION NativeSpec
CONSTANTS
  USERS = {u1, u2}
  GAMES = {g1}
  ROOMS = {r1}
  NULL = NULL
  ROOM = r1
  HOST = u1
  GUEST = u2
  GAME = g1
  TUNNELLED = TRUE
  LOSSES = 2
CHECK_DEADLOCK FALSE
CONSTRAINT TwoMishaps
INVARIANTS
  FinishedMatchIsOver
  FailedLaunchLeavesNothing
  RecordedLaunchEnds
  LeftRoomIsOver
