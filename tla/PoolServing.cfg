CONSTANTS
  N = 1
  Requests = {r1, r2}
  AutoClose = TRUE
  InitAttempts = 2
  MaxFailures = 2
  MaxAttempts = 1
SPECIFICATION FairSpec
INVARIANTS
  TypeOK
  ActiveCountsScopes
PROPERTIES
  Revived
  NoCloseUnderScope
CHECK_DEADLOCK FALSE
