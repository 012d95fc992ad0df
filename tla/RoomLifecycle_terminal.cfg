SPECIFICATION Spec
CONSTANTS
  USERS = {u1, u2}
  GAMES = {g1}
  ROOMS = {r1}
  NULL = NULL
PROPERTY TerminalRoomsStay
