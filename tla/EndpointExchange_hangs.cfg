SPECIFICATION FairSpec
CONSTANTS
  RETRIES = 0
  SENDS = 1
  LOSSES = 0
CHECK_DEADLOCK FALSE
PROPERTIES
  ExchangeCompletes
