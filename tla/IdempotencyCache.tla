-------------------------- MODULE IdempotencyCache --------------------------
(***************************************************************************)
(* messaging/bus.py: the IdempotencyCache of the configured size every     *)
(* transport keeps per subscription, beside its RetryPolicy.               *)
(***************************************************************************)
EXTENDS LruCache, RetryPolicy

CONSTANT CacheSize  \* idempotency_cache_size

\* IdempotencyCache.__init__ rejects a size below 1.
ASSUME CacheAssumption == CacheSize \in Nat \ {0} /\ MaxRetries \in Nat

\* Mutant: the newest entry is evicted.
TrimNewest(cache) == IF Len(cache) > CacheSize THEN SubSeq(cache, 1, CacheSize) ELSE cache

Trim(cache) == IF Len(cache) > CacheSize THEN Tail(cache) ELSE cache

Add(cache, k) == Trim(Touch(cache, k))
=============================================================================
