\* Two events, up to three publications, one retry, a cache of one entry.
SPECIFICATION Spec
CONSTANTS
  k1 = k1
  k2 = k2
  Subscriptions = 2
  Keys = {k1, k2}
  Interest <- MCInterest
  MaxPublished = 3
  MaxSentinels = 2
  CacheSize = 1
  MaxRetries = 1
INVARIANTS
  TypeOK
  OwedInOrder
  JoinCountsWork
  OncePerWindow
PROPERTIES
  KeepsContract
  EverythingSettled
  StopReturns
\* Lost workers and the bounds on publications and sentinels let the bus halt.
CHECK_DEADLOCK FALSE
