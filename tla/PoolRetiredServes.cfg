CONSTANTS
  N = 2
  Requests = {r1}
  AutoClose = FALSE
  InitAttempts = 1
  MaxFailures = 2
  MaxAttempts = 1
SPECIFICATION Spec
INVARIANTS
  RetiredReadsFalse
CHECK_DEADLOCK FALSE
