CONSTANTS
  c1 = c1
  r1 = r1
  r2 = r2
  x = x
  y = y
  z = z
  Nothing = Nothing
  Order <- MCOrder
  Threads <- MCThreads
  FuzzyOf <- MCFuzzyOf
  LegacyKeys <- MCNone
  Chats <- MCThreeChats
  Owner <- MCThreeOwner
  Scopes <- MCScopes
  Tags <- MCNone
  Ttl = 1
  Retention = 0
  MaxAge = 1
  MaxRetries = 1
  Requests = {r1}
  Modes <- MCTemporary
  Orderly <- MCNone
  Settled = TRUE
  MaxSessions = 2
SPECIFICATION FlowSpec
INVARIANT
  ContextKept
