SPECIFICATION Spec
CONSTANTS
  USERS = {u1, u2}
  GAMES = {g1}
  ROOMS = {r1, r2, r3}
  NULL = NULL
SYMMETRY Symmetry
CONSTRAINTS NoLeftovers TwoRivalsOrContinued
INVARIANTS
  OneOfEach
  ChallengingRoomAwaitsAnswer
  ClosedRoomIsSettled
