CONSTANTS
  c1 = c1
  r1 = r1
  r2 = r2
  x = x
  y = y
  z = z
  Nothing = Nothing
  Order <- MCOrder
  Threads <- MCThreads
  FuzzyOf <- MCFuzzyOf
  LegacyKeys <- MCNone
  Chats <- MCChats
  Owner <- MCOwner
  Scopes <- MCScopes
  Tags <- MCNone
  Ttl = 1
  Retention = 2
  MaxAge = 2
  MaxRetries = 2
  Requests = {r1}
  Modes <- MCModes
  Orderly <- MCTemporary
  Settled = TRUE
  MaxSessions = 2
SPECIFICATION FairFlowSpec
INVARIANTS
  TypeOK
PROPERTIES
  Settles
  StagedIsUnreferenced
