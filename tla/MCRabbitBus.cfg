\* One queue per subscription; two callbacks at once; a process ends once.
SPECIFICATION Spec
CONSTANTS
  a = a
  b = b
  c1 = c1
  c2 = c2
  k1 = k1
  k2 = k2
  Agents = {a, b}
  Subscriptions = {c1, c2}
  AgentOf <- TwoAgents
  Keys = {k1}
  Interest <- Same
  Prefetch = 2
  MaxPublished = 1
  MaxDowns = 1
  CacheSize = 1
  MaxRetries = 1
INVARIANTS
  TypeOK
  AtLeastOnce
PROPERTY
  EverythingSettled
\* Everything may be settled with no publication left.
CHECK_DEADLOCK FALSE
