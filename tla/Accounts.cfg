SPECIFICATION FairAccountsSpec
CONSTANTS
  a = a
  b = b
  c1 = c1
  c2 = c2
  c3 = c3
  r1 = r1
  r2 = r2
  r3 = r3
  r4 = r4
  USERS = {a, b}
  CONNS = {c1, c2, c3}
  OWNER <- Owner
  QUEUE = 2
  NONE = NONE
  REQUESTS = {r1, r2, r3, r4}
  PLANS <- Plans
  LIMIT <- Limit
  WINDOW = 1
  MAX_TRACKED_KEYS = 3
  WORKERS = 2
  PERMITS = 1
  LAST = 1
CHECK_DEADLOCK FALSE
INVARIANTS
  HubIsLive
  OpenIsRegistered
  SignedInByPassword
  AccountsHaveSessions
PROPERTIES
  LimitedForCause
  ToldConnectionsEnd
  RequestsEnd
