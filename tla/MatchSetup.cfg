SPECIFICATION SetupSpec
CONSTANTS
  USERS = {u1, u2}
  GAMES = {g1}
  ROOMS = {r1}
  FINGERPRINTS = {f1, f2}
  NULL = NULL
SYMMETRY Symmetry
CONSTRAINT InSetup
INVARIANTS
  BarrierIsConsented
PROPERTIES
  GrantNeedsConsent
