CONSTANTS
  N = 2
  Requests = {r1}
  AutoClose = FALSE
  InitAttempts = 1
  MaxFailures = 1
  MaxAttempts = 2
SPECIFICATION Spec
INVARIANTS
  NoConcurrentRestart
  RetiredLeftAlone
  RunningHasSession
  ShutdownSettled
PROPERTIES
  RestartOnlyDown
  SessionSurvivesScope
CHECK_DEADLOCK FALSE
