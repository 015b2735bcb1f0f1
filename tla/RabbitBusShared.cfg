\* Two subscriptions of one agent share the queue of its name.
SPECIFICATION Spec
CONSTANTS
  a = a
  b = b
  c1 = c1
  c2 = c2
  k1 = k1
  k2 = k2
  Agents = {a, b}
  Subscriptions = {c1, c2}
  AgentOf <- OneAgent
  Keys = {k1, k2}
  Interest <- Disjoint
  Prefetch = 1
  MaxPublished = 1
  MaxDowns = 0
  CacheSize = 1
  MaxRetries = 1
INVARIANT
  AtLeastOnce
\* Everything may be settled with no publication left.
CHECK_DEADLOCK FALSE
