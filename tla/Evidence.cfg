SPECIFICATION EvidenceFairSpec
CONSTANTS
  FRAMES = 2
  ATTEMPTS = 1
  REPEATS = 1
  LOSSES = 2
  MINIMUM = 1
  NONE = NONE
CHECK_DEADLOCK FALSE
ACTION_CONSTRAINT ProbeFirst
INVARIANTS
  RecordedPairVerifies
  AggregatesFollowSummary
PROPERTIES
  ReceiptIsVerified
  KeepsPromise
  EvidenceArrives
  ReceiptArrives
  ProbesFinish
