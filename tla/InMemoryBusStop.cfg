\* stop() against handlers that still publish.
SPECIFICATION QuietSpec
CONSTANTS
  k1 = k1
  k2 = k2
  Subscriptions = 2
  Keys = {k1, k2}
  Interest <- MCInterest
  MaxPublished = 3
  MaxSentinels = 2
  CacheSize = 1
  MaxRetries = 1
INVARIANT
  StopDrains
