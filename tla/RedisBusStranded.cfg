\* Delivery at least once, over one fault.
SPECIFICATION RedisSpec
CONSTANTS
  w1 = w1
  b1 = b1
  t1 = t1
  k1 = k1
  Replicas = {w1}
  Bindings = {b1}
  Types = {t1}
  Subscribed <- MCSubscribed
  Keys = {k1}
  TypeOf <- MCTypeOf
  Malformed = {}
  Count = 2
  MaxLen = 2
  MaxPublished = 1
  MaxFaults = 1
  CacheSize = 1
  MaxRetries = 1
PROPERTY
  Redelivered
CHECK_DEADLOCK FALSE
