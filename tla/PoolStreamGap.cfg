CONSTANTS
  N = 1
  Requests = {r1}
  AutoClose = FALSE
  InitAttempts = 1
  MaxFailures = 2
  MaxAttempts = 1
SPECIFICATION Spec
PROPERTIES
  StreamKeepsSession
CHECK_DEADLOCK FALSE
