CONSTANTS
  c1 = c1
  c2 = c2
  t1 = t1
  t2 = t2
  old = old
  x = x
  y = y
  Nothing = Nothing
  Threads <- MCThreads
  FuzzyOf <- MCFuzzyOf
  LegacyKeys <- MCLegacyKeys
  Chats <- MCChats
  Order <- MCTwoClients
  Owner <- MCTwoOwners
  Scopes <- MCScopes
  Tags <- MCAuto
  Ttl = 1
  Retention = 1
  MaxAge = 1
  MaxRetries = 1
SPECIFICATION RotatedSpec
INVARIANTS
  IndexesAgree
PROPERTIES
  PromiseKept
