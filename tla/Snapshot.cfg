SPECIFICATION SnapshotSpec
CONSTANTS
  USERS = {u1, u2}
  GAMES = {g1}
  ROOMS = {r1}
  FINGERPRINTS = {f1}
  NULL = NULL
  ROOM = r1
  REVISIONS = 5
  RESUMES = 0
SYMMETRY Symmetry
CONSTRAINT InSetup
CHECK_DEADLOCK FALSE
PROPERTY StaleRevisionsAreIgnored
