SPECIFICATION FairSpec
CONSTANTS
  USERS = {u1, u2, u3}
  GAMES = {g1}
  ROOMS = {r1}
  NULL = NULL
INVARIANTS
  MatchNeedsBothProcesses
  TwoSeats
  OutcomeMatchesPlay
  AcceptedChallengeIsSeated
PROPERTIES
  OutcomeIsFinal
  EveryRoomCloses
  EveryChallengeIsSettled
