------------------------------ MODULE LruCache ------------------------------
(***************************************************************************)
(* messaging/bus.py: what the LRU IdempotencyCache does with a key, on a   *)
(* sequence of distinct keys, the least recently used first.               *)
(***************************************************************************)
EXTENDS Integers, SequencesExt

Seen(cache, k) == \E i \in 1..Len(cache) : cache[i] = k

\* The key becomes the most recently used one.
Touch(cache, k) ==
  IF Seen(cache, k)
  THEN Append(RemoveAt(cache, CHOOSE i \in 1..Len(cache) : cache[i] = k), k)
  ELSE Append(cache, k)
=============================================================================
