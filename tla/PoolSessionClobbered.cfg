CONSTANTS
  N = 1
  Requests = {r1}
  AutoClose = TRUE
  InitAttempts = 1
  MaxFailures = 2
  MaxAttempts = 1
SPECIFICATION Spec
PROPERTIES
  SessionSurvivesScope
CHECK_DEADLOCK FALSE
