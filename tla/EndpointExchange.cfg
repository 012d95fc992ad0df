SPECIFICATION Spec
CONSTANTS
  RETRIES = 1
  SENDS = 1
  LOSSES = 1
CHECK_DEADLOCK FALSE
INVARIANTS
  EndpointIsBacked
  ReportIsCurrent
  ReportsAgree
