-------------------------- MODULE RabbitBus_proofs --------------------------
(***************************************************************************)
(* Theorems about RabbitBus, for any agents, subscriptions, events and     *)
(* settings: its types, and that delivery is at least once when every      *)
(* subscription has a queue of its own.                                    *)
(***************************************************************************)
EXTENDS RabbitBus, SequenceLemmas

-----------------------------------------------------------------------------
(***************************************************************************)
(* The inductive invariant.                                                *)
(***************************************************************************)

\* No copy is republished beyond the last retry.
RetriesBounded ==
  /\ \A a \in Agents, k \in Keys : ready[a][<<k, MaxRetries + 1>>] = 0
  /\ \A c \in Subscriptions, s \in Slots : At(c, s, "backoff") => slot[c][s].retries < MaxRetries

\* A message in hand is a message.
HoldsMessage == \A c \in Subscriptions, s \in Slots : ~At(c, s, "free") => slot[c][s].key \in Keys

\* A subscription is owed events it has bound, once its queue exists.
OwedIsBound ==
  \A c \in Subscriptions : \A k \in owed[c] : bound[AgentOf[c]] /\ k \in Interest[c]

\* What a cache knows and its subscription wants, its handler has served.
CachedIsServed ==
  \A c \in Subscriptions, k \in Keys : Seen(cache[c], k) /\ k \in Interest[c] => k \in handled[c]

IInv ==
  /\ TypeOK
  /\ RetriesBounded
  /\ HoldsMessage
  /\ OwedIsBound
  /\ CachedIsServed

\* Every subscription has a queue of its own (no two share a consumer_name).
OneQueueEach == \A c, d \in Subscriptions : AgentOf[c] = AgentOf[d] => c = d

Messages == [key : Keys \cup {"none"}, retries : 0..MaxRetries, stage : Stages]

-----------------------------------------------------------------------------
(***************************************************************************)
(* What one slot takes leaves the others alone.                            *)
(***************************************************************************)
LEMMA SlotFacts ==
  ASSUME TypeOK, NEW c \in Subscriptions, NEW s \in Slots, NEW r \in Messages,
         slot' = [slot EXCEPT ![c][s] = r]
  PROVE  /\ slot' \in [Subscriptions -> [Slots -> Messages]]
         /\ \A d \in Subscriptions, t \in Slots :
              slot'[d][t] = IF d = c /\ t = s THEN r ELSE slot[d][t]
<1> DEFINE M == Messages
<1>1. slot \in [Subscriptions -> [Slots -> M]] /\ r \in M
  BY DEF TypeOK, Messages
<1> HIDE DEF M
<1>2. /\ slot' \in [Subscriptions -> [Slots -> M]]
      /\ \A d \in Subscriptions, t \in Slots :
           slot'[d][t] = IF d = c /\ t = s THEN r ELSE slot[d][t]
  BY <1>1
<1> QED
  BY <1>2 DEF M

(***************************************************************************)
(* The same for a callback that goes on with its message.                  *)
(***************************************************************************)
LEMMA StageFacts ==
  ASSUME TypeOK, NEW c \in Subscriptions, NEW s \in Slots, NEW stage \in Stages,
         GoesTo(c, s, stage)
  PROVE  /\ slot' \in [Subscriptions -> [Slots -> Messages]]
         /\ slot[c][s] \in Messages
         /\ slot'[c][s] = [key |-> slot[c][s].key, retries |-> slot[c][s].retries, stage |-> stage]
         /\ \A d \in Subscriptions, t \in Slots : d # c \/ t # s => slot'[d][t] = slot[d][t]
<1> DEFINE r == [key |-> slot[c][s].key, retries |-> slot[c][s].retries, stage |-> stage]
<1>1. slot[c][s] \in Messages
  BY DEF TypeOK, Messages
<1>2. r \in Messages
  BY <1>1 DEF Messages
<1>3. r = [slot[c][s] EXCEPT !.stage = stage]
  BY <1>1 DEF Messages
<1>4. slot' = [slot EXCEPT ![c][s] = r]
  BY <1>3 DEF GoesTo
<1> HIDE DEF r
<1>5. /\ slot' \in [Subscriptions -> [Slots -> Messages]]
      /\ \A d \in Subscriptions, t \in Slots :
           slot'[d][t] = IF d = c /\ t = s THEN r ELSE slot[d][t]
  BY <1>2, <1>4, SlotFacts
<1> QED
  BY <1>1, <1>5 DEF r

(***************************************************************************)
(* A routed message is ready once more in the queues that want it, and     *)
(* nothing becomes less.                                                   *)
(***************************************************************************)
LEMMA RoutedFacts ==
  ASSUME TypeOK, NEW m \in Copies, Routed(m)
  PROVE  /\ ready' \in [Agents -> [Copies -> Nat]]
         /\ \A a \in Agents, n \in Copies :
              /\ ready[a][n] <= ready'[a][n]
              /\ n # m => ready'[a][n] = ready[a][n]
         /\ \A a \in Agents : bound[a] /\ Wants(a, m[1]) => ready'[a][m] > 0
<1>1. ready \in [Agents -> [Copies -> Nat]]
  BY DEF TypeOK
<1>2. \A a \in Agents : ready'[a] = IF bound[a] /\ Wants(a, m[1])
                                    THEN [ready[a] EXCEPT ![m] = @ + 1] ELSE ready[a]
  BY DEF Routed
<1>3. \A a \in Agents : ready'[a] \in [Copies -> Nat]
  <2> TAKE a \in Agents
  <2> DEFINE old == ready[a]
  <2>1. old \in [Copies -> Nat]
    BY <1>1
  <2>2. ready'[a] = [old EXCEPT ![m] = @ + 1] \/ ready'[a] = old
    BY <1>2
  <2> HIDE DEF old
  <2>3. [old EXCEPT ![m] = @ + 1] \in [Copies -> Nat]
    BY <2>1
  <2> QED BY <2>1, <2>2, <2>3
<1>4. ready' \in [Agents -> [Copies -> Nat]]
  BY <1>3 DEF Routed
<1>5. \A a \in Agents, n \in Copies :
        ready'[a][n] = IF bound[a] /\ Wants(a, m[1]) /\ n = m THEN ready[a][n] + 1 ELSE ready[a][n]
  <2> TAKE a \in Agents, n \in Copies
  <2> DEFINE old == ready[a]
  <2>1. old \in [Copies -> Nat]
    BY <1>1
  <2>2. ready'[a] = IF bound[a] /\ Wants(a, m[1]) THEN [old EXCEPT ![m] = @ + 1] ELSE old
    BY <1>2
  <2> HIDE DEF old
  <2>3. [old EXCEPT ![m] = @ + 1][n] = IF n = m THEN old[n] + 1 ELSE old[n]
    BY <2>1
  <2>4. ready'[a][n] = IF bound[a] /\ Wants(a, m[1]) /\ n = m THEN old[n] + 1 ELSE old[n]
    BY <2>2, <2>3
  <2> QED BY <2>4 DEF old
<1>6. \A a \in Agents, n \in Copies : ready[a][n] \in Nat
  BY <1>1
<1> QED
  BY <1>4, <1>5, <1>6

(***************************************************************************)
(* What a process had not acknowledged is counted.                         *)
(***************************************************************************)
LEMMA UnacknowledgedFacts ==
  ASSUME NEW a \in Agents, NEW m \in Copies
  PROVE  /\ Cardinality(Unacknowledged(a, m)) \in Nat
         /\ Cardinality(Unacknowledged(a, m)) = 0 <=> Unacknowledged(a, m) = {}
<1>1. IsFiniteSet(SubscriptionsOf(a))
  BY RabbitAssumption, FS_Subset DEF SubscriptionsOf
<1>2. IsFiniteSet(Slots)
  BY RabbitAssumption, FS_Interval DEF Slots
<1>3. IsFiniteSet(SubscriptionsOf(a) \X Slots)
  BY <1>1, <1>2, FS_Product
<1>4. Unacknowledged(a, m) \subseteq SubscriptionsOf(a) \X Slots
  BY DEF Unacknowledged
<1>5. IsFiniteSet(Unacknowledged(a, m))
  BY <1>3, <1>4, FS_Subset
<1> QED
  BY <1>5, FS_CardinalityType, FS_EmptySet

-----------------------------------------------------------------------------
(***************************************************************************)
(* The invariant is kept by a callback that goes on with its message, or   *)
(* takes or drops one.                                                     *)
(***************************************************************************)
LEMMA SlotMoveIInv ==
  ASSUME IInv, NEW c \in Subscriptions, NEW s \in Slots, NEW r \in Messages,
         slot' = [slot EXCEPT ![c][s] = r],
         r.stage # "free" => r.key \in Keys,
         r.stage = "backoff" => r.retries < MaxRetries,
         ready' \in [Agents -> [Copies -> Nat]],
         \A a \in Agents, k \in Keys : ready'[a][<<k, MaxRetries + 1>>] = 0,
         cache' \in [Subscriptions -> Seq(Keys)],
         dead' \in [Agents -> SUBSET Keys],
         handled' \in [Subscriptions -> SUBSET Keys],
         CachedIsServed',
         UNCHANGED <<consumers, owed, published, downs>>
  PROVE  IInv'
<1> USE DEF IInv
<1>1. /\ slot' \in [Subscriptions -> [Slots -> Messages]]
      /\ \A d \in Subscriptions, t \in Slots :
           slot'[d][t] = IF d = c /\ t = s THEN r ELSE slot[d][t]
  BY SlotFacts
<1>2. TypeOK'
  <2>1. slot' \in [Subscriptions -> [Slots ->
          [key : Keys \cup {"none"}, retries : 0..MaxRetries, stage : Stages]]]
    BY <1>1 DEF Messages
  <2>2. /\ up' = up /\ bound' = bound /\ owed' = owed /\ published' = published /\ downs' = downs
    BY DEF consumers
  <2> QED BY <2>1, <2>2 DEF TypeOK
<1>3. RetriesBounded'
  BY <1>1 DEF RetriesBounded, At
<1>4. HoldsMessage'
  BY <1>1 DEF HoldsMessage, At
<1>5. OwedIsBound'
  BY DEF OwedIsBound, consumers
<1> QED
  BY <1>2, <1>3, <1>4, <1>5

(***************************************************************************)
(* What was true of ready, cache, dead and handled stays true of what does *)
(* not change.                                                             *)
(***************************************************************************)
LEMMA KeptFacts ==
  ASSUME IInv
  PROVE  /\ ready \in [Agents -> [Copies -> Nat]]
         /\ \A a \in Agents, k \in Keys : ready[a][<<k, MaxRetries + 1>>] = 0
         /\ cache \in [Subscriptions -> Seq(Keys)]
         /\ dead \in [Agents -> SUBSET Keys]
         /\ handled \in [Subscriptions -> SUBSET Keys]
         /\ AgentOf \in [Subscriptions -> Agents]
         /\ UNCHANGED <<cache, handled>> => CachedIsServed'
  BY RabbitAssumption DEF IInv, TypeOK, RetriesBounded, CachedIsServed

(***************************************************************************)
(* A message in hand, and the record a callback goes on with.              *)
(***************************************************************************)
LEMMA HandFacts ==
  ASSUME IInv, NEW c \in Subscriptions, NEW s \in Slots, ~At(c, s, "free")
  PROVE  /\ slot[c][s] \in Messages
         /\ slot[c][s].key \in Keys
         /\ slot[c][s].retries \in 0..MaxRetries
         /\ MaxRetries \in Nat
         /\ \A stage \in Stages :
              LET r == [slot[c][s] EXCEPT !.stage = stage] IN
                /\ r \in Messages /\ r.key = slot[c][s].key
                /\ r.retries = slot[c][s].retries /\ r.stage = stage
                /\ GoesTo(c, s, stage) => slot' = [slot EXCEPT ![c][s] = r]
<1>1. slot[c][s] \in Messages
  BY DEF IInv, TypeOK, Messages
<1> QED
  BY <1>1, CacheAssumption DEF IInv, HoldsMessage, Messages, GoesTo

-----------------------------------------------------------------------------
(***************************************************************************)
(* At first nothing is bound, ready, in hand or known.                     *)
(***************************************************************************)
LEMMA InitIInv == Init => IInv
<1> SUFFICES ASSUME Init PROVE IInv
  OBVIOUS
<1>1. Free \in [key : Keys \cup {"none"}, retries : 0..MaxRetries, stage : Stages]
  BY CacheAssumption DEF Free, Stages
<1>2. TypeOK
  BY <1>1 DEF Init, TypeOK
<1>3. RetriesBounded
  BY CacheAssumption DEF Init, RetriesBounded, At, Free, Copies
<1>4. HoldsMessage /\ OwedIsBound /\ CachedIsServed
  BY DEF Init, HoldsMessage, OwedIsBound, CachedIsServed, At, Free, Seen
<1> QED
  BY <1>2, <1>3, <1>4 DEF IInv

(***************************************************************************)
(* A publication is owed to those whose queue is bound for it.             *)
(***************************************************************************)
LEMMA PublishIInv ==
  ASSUME IInv, NEW k \in Keys, Publish(k)
  PROVE  IInv'
<1> USE DEF IInv
<1>1. /\ published' = published + 1 /\ Routed(<<k, 0>>)
      /\ owed' = [c \in Subscriptions |->
                    IF bound[AgentOf[c]] /\ k \in Interest[c] THEN owed[c] \cup {k} ELSE owed[c]]
      /\ UNCHANGED <<up, bound, slot, cache, dead, handled, downs>>
  BY DEF Publish, consumers
<1>2. <<k, 0>> \in Copies /\ MaxRetries \in Nat
  BY CacheAssumption DEF Copies
<1>3. /\ ready' \in [Agents -> [Copies -> Nat]]
      /\ \A a \in Agents, n \in Copies : n # <<k, 0>> => ready'[a][n] = ready[a][n]
  BY <1>1, <1>2, RoutedFacts
<1>4. owed' \in [Subscriptions -> SUBSET Keys]
  BY <1>1 DEF TypeOK
<1>5. TypeOK'
  BY <1>1, <1>3, <1>4 DEF TypeOK
<1>6. RetriesBounded'
  <2>1. \A other \in Keys : <<other, MaxRetries + 1>> \in Copies /\ <<other, MaxRetries + 1>> # <<k, 0>>
    BY <1>2 DEF Copies
  <2> QED BY <1>1, <1>3, <2>1 DEF RetriesBounded, At
<1>7. HoldsMessage' /\ OwedIsBound' /\ CachedIsServed'
  BY <1>1 DEF HoldsMessage, OwedIsBound, CachedIsServed, At
<1> QED
  BY <1>5, <1>6, <1>7

(***************************************************************************)
(* A process that starts binds its queue.                                  *)
(***************************************************************************)
LEMMA StartIInv ==
  ASSUME IInv, NEW a \in Agents, Start(a)
  PROVE  IInv'
<1> USE DEF IInv, Start, history
<1>1. TypeOK'
  BY DEF TypeOK
<1>2. RetriesBounded' /\ HoldsMessage' /\ CachedIsServed'
  BY DEF RetriesBounded, HoldsMessage, CachedIsServed, At
<1>3. OwedIsBound'
  BY RabbitAssumption DEF OwedIsBound, TypeOK
<1> QED BY <1>1, <1>2, <1>3

(***************************************************************************)
(* A process that ends gives its messages back.                            *)
(***************************************************************************)
LEMMA DownFacts ==
  ASSUME IInv, NEW a \in Agents, Down(a)
  PROVE  /\ ready' \in [Agents -> [Copies -> Nat]]
         /\ \A b \in Agents, m \in Copies :
              ready'[b][m] = IF b = a THEN ready[a][m] + Cardinality(Unacknowledged(a, m)) ELSE ready[b][m]
         /\ \A c \in Subscriptions :
              /\ slot'[c] = IF AgentOf[c] = a THEN [s \in Slots |-> Free] ELSE slot[c]
              /\ cache'[c] = IF AgentOf[c] = a THEN <<>> ELSE cache[c]
         /\ UNCHANGED <<bound, dead, owed, handled, published>>
<1> DEFINE more == [m \in Copies |-> ready[a][m] + Cardinality(Unacknowledged(a, m))]
<1>1. ready \in [Agents -> [Copies -> Nat]]
  BY DEF IInv, TypeOK
<1>2. ready' = [ready EXCEPT ![a] = more]
  BY DEF Down
<1>3. more \in [Copies -> Nat]
  BY <1>1, UnacknowledgedFacts
<1>4. \A m \in Copies : more[m] = ready[a][m] + Cardinality(Unacknowledged(a, m))
  OBVIOUS
<1> HIDE DEF more
<1>5. ready' \in [Agents -> [Copies -> Nat]]
  BY <1>1, <1>2, <1>3
<1>6. \A b \in Agents : ready'[b] = IF b = a THEN more ELSE ready[b]
  BY <1>1, <1>2
<1> QED
  BY <1>4, <1>5, <1>6 DEF Down

LEMMA DownIInv ==
  ASSUME IInv, NEW a \in Agents, Down(a)
  PROVE  IInv'
<1> USE DEF IInv
<1>1. /\ ready' \in [Agents -> [Copies -> Nat]]
      /\ \A b \in Agents, m \in Copies :
           ready'[b][m] = IF b = a THEN ready[a][m] + Cardinality(Unacknowledged(a, m)) ELSE ready[b][m]
      /\ \A c \in Subscriptions :
           /\ slot'[c] = IF AgentOf[c] = a THEN [s \in Slots |-> Free] ELSE slot[c]
           /\ cache'[c] = IF AgentOf[c] = a THEN <<>> ELSE cache[c]
      /\ UNCHANGED <<bound, dead, owed, handled, published>>
  BY DownFacts
<1>2. \A c \in Subscriptions, s \in Slots : slot'[c][s] = IF AgentOf[c] = a THEN Free ELSE slot[c][s]
  BY <1>1
<1>3. Free \in [key : Keys \cup {"none"}, retries : 0..MaxRetries, stage : Stages]
  BY CacheAssumption DEF Free, Stages
<1>4. TypeOK'
  <2>1. up' \in [Agents -> BOOLEAN] /\ downs' \in Nat
    BY DEF Down, TypeOK
  <2>2. slot' \in [Subscriptions -> [Slots -> Messages]]
    <3>1. [s \in Slots |-> Free] \in [Slots -> Messages]
      BY <1>3 DEF Messages
    <3>2. slot \in [Subscriptions -> [Slots -> Messages]]
      BY DEF TypeOK, Messages
    <3> DEFINE empty == [s \in Slots |-> Free]
               rows  == [Slots -> Messages]
    <3> HIDE DEF empty, rows
    <3>3. empty \in rows /\ slot \in [Subscriptions -> rows]
      BY <3>1, <3>2 DEF empty, rows
    <3>4. slot' = [c \in Subscriptions |-> IF AgentOf[c] = a THEN empty ELSE slot[c]]
      BY DEF Down, empty
    <3>5. slot' \in [Subscriptions -> rows]
      BY <3>3, <3>4
    <3> QED BY <3>5 DEF rows
  <2>3. cache' \in [Subscriptions -> Seq(Keys)]
    BY DEF Down, TypeOK
  <2> QED BY <1>1, <2>1, <2>2, <2>3 DEF TypeOK, Messages
<1>5. RetriesBounded'
  <2>1. \A m \in Copies : m[2] = MaxRetries + 1 => Unacknowledged(a, m) = {}
    <3>1. \A c \in SubscriptionsOf(a), s \in Slots : slot[c][s].retries \in 0..MaxRetries
      BY DEF TypeOK, SubscriptionsOf
    <3>2. \A m \in Copies, at \in SubscriptionsOf(a) \X Slots :
            m[2] = MaxRetries + 1 => <<slot[at[1]][at[2]].key, slot[at[1]][at[2]].retries>> # m
      BY <3>1, CacheAssumption
    <3> QED BY <3>2 DEF Unacknowledged
  <2>2. \A k \in Keys : <<k, MaxRetries + 1>> \in Copies
    BY CacheAssumption DEF Copies
  <2>3. \A b \in Agents, k \in Keys : ready'[b][<<k, MaxRetries + 1>>] = 0
    <3> TAKE b \in Agents, k \in Keys
    <3> DEFINE m == <<k, MaxRetries + 1>>
    <3>1. m \in Copies /\ m[2] = MaxRetries + 1
      BY <2>2
    <3> HIDE DEF m
    <3>2. Cardinality(Unacknowledged(a, m)) = 0
      BY <2>1, <3>1, UnacknowledgedFacts
    <3>3. ready[b][m] = 0 /\ ready[a][m] = 0
      BY DEF RetriesBounded, m
    <3>4. ready'[b][m] = 0
      BY <1>1, <3>1, <3>2, <3>3
    <3> QED BY <3>4 DEF m
  <2> QED BY <1>2, <2>3 DEF RetriesBounded, At, Free
<1>6. HoldsMessage'
  BY <1>2 DEF HoldsMessage, At, Free
<1>7. OwedIsBound'
  BY <1>1 DEF OwedIsBound
<1>8. CachedIsServed'
  BY <1>1 DEF CachedIsServed, Seen
<1> QED
  BY <1>4, <1>5, <1>6, <1>7, <1>8

-----------------------------------------------------------------------------
(***************************************************************************)
(* A delivery: a known event is acknowledged at once.                      *)
(***************************************************************************)
LEMMA DeliverFacts ==
  ASSUME IInv, NEW c \in Subscriptions, NEW s \in Slots, NEW m \in Copies, Deliver(c, s, m)
  PROVE  /\ m = <<m[1], m[2]>> /\ m[1] \in Keys /\ m[2] \in 0..MaxRetries
         /\ ready' \in [Agents -> [Copies -> Nat]]
         /\ \A a \in Agents, n \in Copies :
              ready'[a][n] = IF a = AgentOf[c] /\ n = m THEN ready[a][n] - 1 ELSE ready[a][n]
<1> USE DEF IInv
<1> DEFINE b == AgentOf[c]
<1>1. b \in Agents
  BY RabbitAssumption
<1>2. ready' = [ready EXCEPT ![b][m] = @ - 1] /\ ready[b][m] > 0
  BY DEF Deliver
<1> HIDE DEF b
<1>3. m = <<m[1], m[2]>> /\ m[1] \in Keys /\ m[2] \in 0..MaxRetries + 1
  BY DEF Copies
<1>4. m[2] # MaxRetries + 1
  <2> SUFFICES ASSUME m[2] = MaxRetries + 1 PROVE FALSE
    OBVIOUS
  <2>1. ready[b][m] = 0
    BY <1>1, <1>3 DEF RetriesBounded
  <2> QED BY <1>2, <2>1
<1>5. m[2] \in 0..MaxRetries
  BY <1>3, <1>4, CacheAssumption
<1>6. ready \in [Agents -> [Copies -> Nat]]
  BY DEF TypeOK
<1>7. ready[b][m] \in Nat /\ ready[b][m] - 1 \in Nat
  BY <1>1, <1>2, <1>6
<1>8. /\ ready' \in [Agents -> [Copies -> Nat]]
      /\ \A a \in Agents, n \in Copies :
           ready'[a][n] = IF a = b /\ n = m THEN ready[a][n] - 1 ELSE ready[a][n]
  <2> DEFINE less == ready[b][m] - 1
  <2>1. ready' = [ready EXCEPT ![b][m] = less] /\ less \in Nat
    BY <1>2, <1>7
  <2> HIDE DEF less
  <2>2. /\ ready' \in [Agents -> [Copies -> Nat]]
        /\ \A a \in Agents, n \in Copies :
             ready'[a][n] = IF a = b /\ n = m THEN less ELSE ready[a][n]
    BY <1>1, <1>6, <2>1
  <2> QED BY <2>2 DEF less
<1> QED
  BY <1>3, <1>5, <1>8 DEF b

LEMMA DeliverIInv ==
  ASSUME IInv, NEW c \in Subscriptions, NEW s \in Slots, NEW m \in Copies, Deliver(c, s, m)
  PROVE  IInv'
<1> DEFINE known == Seen(cache[c], m[1])
           r     == [key |-> m[1], retries |-> m[2], stage |-> IF known THEN "acking" ELSE "handling"]
<1>1. /\ m[1] \in Keys /\ m[2] \in 0..MaxRetries
      /\ ready' \in [Agents -> [Copies -> Nat]]
      /\ \A a \in Agents, n \in Copies :
           ready'[a][n] = IF a = AgentOf[c] /\ n = m THEN ready[a][n] - 1 ELSE ready[a][n]
  BY DeliverFacts
<1>2. /\ slot' = [slot EXCEPT ![c][s] = r]
      /\ cache' = IF known THEN [cache EXCEPT ![c] = Touch(@, m[1])] ELSE cache
      /\ UNCHANGED <<consumers, dead, owed, handled, published, downs>>
  BY DEF Deliver, history
<1>3. r \in Messages /\ r.key \in Keys /\ r.stage # "backoff"
  BY <1>1 DEF Messages, Stages
<1>4. \A a \in Agents, k \in Keys : ready'[a][<<k, MaxRetries + 1>>] = 0
  <2>1. \A k \in Keys : <<k, MaxRetries + 1>> \in Copies /\ <<k, MaxRetries + 1>> # m
    BY <1>1, CacheAssumption DEF Copies
  <2> QED BY <1>1, <2>1, KeptFacts
<1>5. /\ cache' \in [Subscriptions -> Seq(Keys)]
      /\ \A d \in Subscriptions, k \in Keys : Seen(cache'[d], k) => Seen(cache[d], k)
  <2>1. CASE known
    <3> DEFINE new == Touch(cache[c], m[1])
    <3>1. cache[c] \in Seq(Keys)
      BY KeptFacts
    <3>2. new \in Seq(Keys) /\ \A other : Seen(new, other) => other = m[1] \/ Seen(cache[c], other)
      BY <1>1, <3>1, TouchProps
    <3>3. cache' = [cache EXCEPT ![c] = new]
      BY <1>2, <2>1
    <3> HIDE DEF new
    <3>4. /\ cache' \in [Subscriptions -> Seq(Keys)]
          /\ \A d \in Subscriptions : cache'[d] = IF d = c THEN new ELSE cache[d]
      BY <3>2, <3>3, KeptFacts
    <3> QED BY <2>1, <3>2, <3>4
  <2>2. CASE ~known
    BY <1>2, <2>2, KeptFacts
  <2> QED BY <2>1, <2>2
<1>6. CachedIsServed'
  BY <1>2, <1>5 DEF IInv, CachedIsServed
<1>7. dead' \in [Agents -> SUBSET Keys] /\ handled' \in [Subscriptions -> SUBSET Keys]
  BY <1>2, KeptFacts
<1> HIDE DEF r
<1> QED
  BY <1>1, <1>2, <1>3, <1>4, <1>5, <1>6, <1>7, SlotMoveIInv

(***************************************************************************)
(* The handler returns: the event is remembered, and served if wanted.     *)
(***************************************************************************)
LEMMA HandlerReturnsIInv ==
  ASSUME IInv, NEW c \in Subscriptions, NEW s \in Slots, HandlerReturns(c, s)
  PROVE  IInv'
<1> DEFINE k == slot[c][s].key
           r == [slot[c][s] EXCEPT !.stage = "acking"]
<1>1. ~At(c, s, "free") /\ GoesTo(c, s, "acking")
  BY DEF HandlerReturns, At
<1>2. /\ k \in Keys /\ r \in Messages /\ r.key = k /\ r.stage = "acking"
      /\ slot' = [slot EXCEPT ![c][s] = r]
  <2>1. "acking" \in Stages
    BY DEF Stages
  <2> QED BY <1>1, <2>1, HandFacts
<1>3. /\ cache' = [cache EXCEPT ![c] = Add(@, k)]
      /\ handled' = [handled EXCEPT ![c] = @ \cup ({k} \cap Interest[c])]
      /\ UNCHANGED <<consumers, ready, dead, owed, published, downs>>
  BY DEF HandlerReturns
<1> HIDE DEF k, r
<1>4. /\ cache' \in [Subscriptions -> Seq(Keys)]
      /\ \A d \in Subscriptions : \A j \in Keys :
           Seen(cache'[d], j) => Seen(cache[d], j) \/ (d = c /\ j = k)
  <2> DEFINE new == Add(cache[c], k)
  <2>1. cache[c] \in Seq(Keys)
    BY KeptFacts
  <2>2. new \in Seq(Keys) /\ \A other : Seen(new, other) => other = k \/ Seen(cache[c], other)
    <3>1. new = Evicted(Touch(cache[c], k), CacheSize) /\ CacheSize \in Nat \ {0}
      BY CacheAssumption DEF Add, Trim, Evicted
    <3> HIDE DEF new
    <3> QED BY <1>2, <2>1, <3>1, AddProps
  <2>3. cache' = [cache EXCEPT ![c] = new]
    BY <1>3
  <2> HIDE DEF new
  <2>4. /\ cache' \in [Subscriptions -> Seq(Keys)]
        /\ \A d \in Subscriptions : cache'[d] = IF d = c THEN new ELSE cache[d]
    BY <2>2, <2>3, KeptFacts
  <2> QED BY <2>2, <2>4
<1>5. /\ handled' \in [Subscriptions -> SUBSET Keys]
      /\ \A d \in Subscriptions : handled[d] \subseteq handled'[d]
      /\ k \in Interest[c] => k \in handled'[c]
  BY <1>2, <1>3, KeptFacts
<1>6. CachedIsServed'
  BY <1>4, <1>5 DEF IInv, CachedIsServed
<1>7. /\ ready' \in [Agents -> [Copies -> Nat]]
      /\ \A a \in Agents, j \in Keys : ready'[a][<<j, MaxRetries + 1>>] = 0
      /\ dead' \in [Agents -> SUBSET Keys]
  BY <1>3, KeptFacts
<1> QED
  BY <1>2, <1>3, <1>4, <1>5, <1>6, <1>7, SlotMoveIInv

(***************************************************************************)
(* The handler raises: a retry waits only while retries are left.          *)
(***************************************************************************)
LEMMA HandlerRaisesIInv ==
  ASSUME IInv, NEW c \in Subscriptions, NEW s \in Slots, HandlerRaises(c, s)
  PROVE  IInv'
<1> DEFINE next == IF ShouldRetry(slot[c][s].retries) THEN "backoff" ELSE "parking"
           r    == [slot[c][s] EXCEPT !.stage = next]
<1>1. /\ ~At(c, s, "free") /\ GoesTo(c, s, next)
      /\ UNCHANGED <<consumers, ready, cache, dead, owed, handled, published, downs>>
  BY DEF HandlerRaises, At, history
<1>2. next \in Stages /\ (next = "backoff" => slot[c][s].retries < MaxRetries)
  BY DEF Stages, ShouldRetry
<1> HIDE DEF next
<1>3. /\ r \in Messages /\ r.key \in Keys
      /\ r.retries = slot[c][s].retries /\ r.stage = next
      /\ slot' = [slot EXCEPT ![c][s] = r]
  BY <1>1, <1>2, HandFacts
<1> HIDE DEF r
<1>4. CachedIsServed'
  BY <1>1, KeptFacts
<1>5. /\ ready' \in [Agents -> [Copies -> Nat]]
      /\ \A a \in Agents, j \in Keys : ready'[a][<<j, MaxRetries + 1>>] = 0
      /\ cache' \in [Subscriptions -> Seq(Keys)]
      /\ dead' \in [Agents -> SUBSET Keys]
      /\ handled' \in [Subscriptions -> SUBSET Keys]
  BY <1>1, KeptFacts
<1> QED
  BY <1>1, <1>2, <1>3, <1>4, <1>5, SlotMoveIInv

(***************************************************************************)
(* A retry is published with its count raised, to all who want the event.  *)
(***************************************************************************)
LEMMA RepublishIInv ==
  ASSUME IInv, NEW c \in Subscriptions, NEW s \in Slots, Republish(c, s)
  PROVE  IInv'
<1> DEFINE r == [slot[c][s] EXCEPT !.stage = "acking"]
           m == <<slot[c][s].key, slot[c][s].retries + 1>>
<1>1. /\ ~At(c, s, "free") /\ At(c, s, "backoff") /\ GoesTo(c, s, "acking") /\ Routed(m)
      /\ UNCHANGED <<consumers, cache, dead, owed, handled, published, downs>>
  BY DEF Republish, At, history
<1>2. /\ r \in Messages /\ r.key \in Keys /\ r.stage = "acking"
      /\ slot' = [slot EXCEPT ![c][s] = r]
      /\ slot[c][s].key \in Keys /\ slot[c][s].retries \in 0..MaxRetries /\ MaxRetries \in Nat
  <2>1. "acking" \in Stages
    BY DEF Stages
  <2> QED BY <1>1, <2>1, HandFacts
<1>3. slot[c][s].retries < MaxRetries
  BY <1>1 DEF IInv, RetriesBounded
<1>4. m \in Copies /\ m[2] <= MaxRetries
  BY <1>2, <1>3 DEF Copies
<1> HIDE DEF r, m
<1>5. /\ ready' \in [Agents -> [Copies -> Nat]]
      /\ \A a \in Agents, n \in Copies : n # m => ready'[a][n] = ready[a][n]
  BY <1>1, <1>4, RoutedFacts DEF IInv
<1>6. \A a \in Agents, j \in Keys : ready'[a][<<j, MaxRetries + 1>>] = 0
  <2>1. \A j \in Keys : <<j, MaxRetries + 1>> \in Copies /\ <<j, MaxRetries + 1>> # m
    BY <1>2, <1>4 DEF Copies
  <2> QED BY <1>5, <2>1, KeptFacts
<1>7. /\ CachedIsServed'
      /\ cache' \in [Subscriptions -> Seq(Keys)]
      /\ dead' \in [Agents -> SUBSET Keys]
      /\ handled' \in [Subscriptions -> SUBSET Keys]
  BY <1>1, KeptFacts
<1> QED
  BY <1>1, <1>2, <1>5, <1>6, <1>7, SlotMoveIInv

(***************************************************************************)
(* A message is dead-lettered, by the callback or by its rejection, or     *)
(* acknowledged.                                                           *)
(***************************************************************************)
LEMMA EndIInv ==
  ASSUME IInv, NEW c \in Subscriptions, NEW s \in Slots,
         Park(c, s) \/ Reject(c, s) \/ Ack(c, s)
  PROVE  IInv'
<1>1. /\ ~At(c, s, "free")
      /\ GoesTo(c, s, "acking") \/ slot' = [slot EXCEPT ![c][s] = Free]
      /\ \/ UNCHANGED dead
         \/ dead' = [dead EXCEPT ![AgentOf[c]] = @ \cup {slot[c][s].key}]
      /\ UNCHANGED <<consumers, ready, cache, owed, handled, published, downs>>
  BY DEF Park, Reject, Ack, At, history
<1>2. PICK r \in Messages : /\ slot' = [slot EXCEPT ![c][s] = r]
                            /\ r.stage # "free" => r.key \in Keys
                            /\ r.stage # "backoff"
  <2>1. CASE GoesTo(c, s, "acking")
    <3> DEFINE r == [slot[c][s] EXCEPT !.stage = "acking"]
    <3>0. ~At(c, s, "free") /\ "acking" \in Stages
      BY <1>1 DEF Stages
    <3>1. /\ r \in Messages /\ r.key \in Keys /\ r.stage = "acking"
          /\ slot' = [slot EXCEPT ![c][s] = r]
      BY <2>1, <3>0, HandFacts
    <3> QED BY <3>1
  <2>2. CASE slot' = [slot EXCEPT ![c][s] = Free]
    <3>1. Free \in Messages /\ Free.stage = "free"
      BY CacheAssumption DEF Free, Messages, Stages
    <3> QED BY <2>2, <3>1
  <2> QED BY <1>1, <2>1, <2>2
<1>3. dead' \in [Agents -> SUBSET Keys]
  <2> DEFINE k == slot[c][s].key
  <2>1. k \in Keys
    BY <1>1, HandFacts
  <2>2. UNCHANGED dead \/ dead' = [dead EXCEPT ![AgentOf[c]] = @ \cup {k}]
    BY <1>1
  <2> HIDE DEF k
  <2>3. CASE UNCHANGED dead
    BY <2>3, KeptFacts
  <2>4. CASE dead' = [dead EXCEPT ![AgentOf[c]] = @ \cup {k}]
    <3>1. dead \in [Agents -> SUBSET Keys] /\ AgentOf[c] \in Agents
      BY KeptFacts
    <3> QED BY <2>1, <2>4, <3>1
  <2> QED BY <2>2, <2>3, <2>4
<1>4. /\ CachedIsServed'
      /\ ready' \in [Agents -> [Copies -> Nat]]
      /\ \A a \in Agents, j \in Keys : ready'[a][<<j, MaxRetries + 1>>] = 0
      /\ cache' \in [Subscriptions -> Seq(Keys)]
      /\ handled' \in [Subscriptions -> SUBSET Keys]
  BY <1>1, KeptFacts
<1> QED
  BY <1>1, <1>2, <1>3, <1>4, SlotMoveIInv

-----------------------------------------------------------------------------
(***************************************************************************)
(* The invariant is inductive.                                             *)
(***************************************************************************)
LEMMA NextIInv == IInv /\ [Next]_vars => IInv'
<1> SUFFICES ASSUME IInv, [Next]_vars PROVE IInv'
  OBVIOUS
<1>1. CASE \E k \in Keys : Publish(k)
  BY <1>1, PublishIInv
<1>2. CASE \E a \in Agents : Start(a)
  BY <1>2, StartIInv
<1>3. CASE \E a \in Agents : Down(a)
  BY <1>3, DownIInv
<1>4. CASE \E c \in Subscriptions, s \in Slots : Callback(c, s)
  BY <1>4, DeliverIInv, HandlerReturnsIInv, HandlerRaisesIInv, RepublishIInv, EndIInv DEF Callback
<1>5. CASE UNCHANGED vars
  <2> USE <1>5 DEF IInv, vars, consumers, history
  <2>1. TypeOK'
    BY DEF TypeOK
  <2>2. RetriesBounded' /\ HoldsMessage' /\ OwedIsBound' /\ CachedIsServed'
    BY DEF RetriesBounded, HoldsMessage, OwedIsBound, CachedIsServed, At
  <2> QED BY <2>1, <2>2
<1> QED
  BY <1>1, <1>2, <1>3, <1>4, <1>5 DEF Next

-----------------------------------------------------------------------------
InCallback == {"handling", "backoff", "parking"}

(***************************************************************************)
(* A step of one slot that takes nothing from a queue leaves every event   *)
(* on its way but the one in that slot.                                    *)
(***************************************************************************)
LEMMA OthersOnTheirWay ==
  ASSUME IInv, IInv', NEW c \in Subscriptions, NEW s \in Slots,
         \A d \in Subscriptions, t \in Slots : d # c \/ t # s => slot'[d][t] = slot[d][t],
         NEW a \in Agents, NEW k \in Keys, OnItsWay(a, k),
         \A n \in Copies : n[1] = k => ready[a][n] <= ready'[a][n]
  PROVE  \/ OnItsWay(a, k)'
         \/ AgentOf[c] = a /\ slot[c][s].key = k /\ slot[c][s].stage \in InCallback
<1>1. CASE \E m \in Copies : m[1] = k /\ ready[a][m] > 0
  <2>1. PICK m \in Copies : m[1] = k /\ ready[a][m] > 0
    BY <1>1
  <2>2. ready[a][m] \in Nat /\ ready'[a][m] \in Nat
    BY DEF IInv, TypeOK
  <2> QED BY <2>1, <2>2 DEF OnItsWay
<1>2. CASE \E d \in SubscriptionsOf(a), t \in Slots :
             slot[d][t].key = k /\ slot[d][t].stage \in {"handling", "backoff", "parking"}
  BY <1>2 DEF OnItsWay, SubscriptionsOf, InCallback
<1> QED
  BY <1>1, <1>2 DEF OnItsWay

(***************************************************************************)
(* A callback owes nobody anything new, and serves only by returning.      *)
(***************************************************************************)
LEMMA CallbackOwes ==
  ASSUME NEW c \in Subscriptions, NEW s \in Slots, Callback(c, s)
  PROVE  UNCHANGED owed /\ (HandlerReturns(c, s) \/ UNCHANGED handled)
<1>1. CASE \E m \in Copies : Deliver(c, s, m)
  BY <1>1 DEF Deliver, history
<1>2. CASE HandlerReturns(c, s)
  BY <1>2 DEF HandlerReturns
<1>3. CASE HandlerRaises(c, s) \/ Republish(c, s)
  BY <1>3 DEF HandlerRaises, Republish, history
<1>4. CASE Park(c, s) \/ Reject(c, s) \/ Ack(c, s)
  BY <1>4 DEF Park, Reject, Ack, history
<1> QED
  BY <1>1, <1>2, <1>3, <1>4 DEF Callback

(***************************************************************************)
(* What is settled stays settled.                                          *)
(***************************************************************************)
LEMMA SettledStays ==
  ASSUME IInv, [Next]_vars, NEW c \in Subscriptions, NEW k, Settled(c, k)
  PROVE  Settled(c, k)'
<1>1. AgentOf[c] \in Agents /\ dead \in [Agents -> SUBSET Keys] /\ handled \in [Subscriptions -> SUBSET Keys]
  BY RabbitAssumption DEF IInv, TypeOK
<1>2. handled[c] \subseteq handled'[c]
  <2>1. CASE \E d \in Subscriptions, s \in Slots : HandlerReturns(d, s)
    BY <1>1, <2>1 DEF HandlerReturns
  <2>2. CASE UNCHANGED handled
    BY <2>2
  <2>3. CASE \E a \in Agents : Start(a) \/ Down(a)
    BY <2>2, <2>3 DEF Start, Down, history
  <2>4. CASE \E d \in Subscriptions, s \in Slots : Callback(d, s)
    BY <2>1, <2>2, <2>4, CallbackOwes
  <2>5. CASE (\E j \in Keys : Publish(j)) \/ UNCHANGED vars
    BY <2>2, <2>5 DEF Publish, vars, history
  <2> QED BY <2>3, <2>4, <2>5 DEF Next
<1>3. dead[AgentOf[c]] \subseteq dead'[AgentOf[c]]
  <2>1. CASE \E d \in Subscriptions, s \in Slots : Park(d, s) \/ Reject(d, s)
    <3>1. PICK d \in Subscriptions, s \in Slots : dead' = [dead EXCEPT ![AgentOf[d]] = @ \cup {slot[d][s].key}]
      BY <2>1 DEF Park, Reject
    <3> QED BY <1>1, <3>1
  <2>2. CASE UNCHANGED dead
    BY <2>2
  <2> QED BY <2>1, <2>2 DEF Next, Callback, Publish, Start, Down, Deliver, HandlerReturns, HandlerRaises,
                            Republish, Ack, vars
<1> QED
  BY <1>2, <1>3 DEF Settled

-----------------------------------------------------------------------------
(***************************************************************************)
(* Every step of a callback keeps what is owed on its way, or settles it.  *)
(***************************************************************************)
LEMMA DeliverKeeps ==
  ASSUME IInv, IInv', OneQueueEach, NEW d \in Subscriptions, NEW k \in owed[d],
         OnItsWay(AgentOf[d], k),
         NEW c \in Subscriptions, NEW s \in Slots, NEW m \in Copies, Deliver(c, s, m)
  PROVE  Settled(d, k)' \/ OnItsWay(AgentOf[d], k)'
<1> DEFINE a == AgentOf[d]
<1>0. a \in Agents /\ k \in Keys /\ k \in Interest[d]
  BY RabbitAssumption DEF IInv, TypeOK, OwedIsBound
<1>1. \A b \in Agents, n \in Copies :
        ready'[b][n] = IF b = AgentOf[c] /\ n = m THEN ready[b][n] - 1 ELSE ready[b][n]
  BY DeliverFacts
<1> DEFINE known == Seen(cache[c], m[1])
           r     == [key |-> m[1], retries |-> m[2], stage |-> IF known THEN "acking" ELSE "handling"]
<1>2. /\ At(c, s, "free") /\ slot' = [slot EXCEPT ![c][s] = r]
      /\ UNCHANGED handled
  BY DEF Deliver, history
<1>3. r \in Messages
  BY DeliverFacts DEF Messages, Stages
<1>4. \A e \in Subscriptions, t \in Slots :
        slot'[e][t] = IF e = c /\ t = s THEN r ELSE slot[e][t]
  <2> HIDE DEF r
  <2> QED BY <1>2, <1>3, SlotFacts DEF IInv
<1>5. CASE a = AgentOf[c] /\ m[1] = k
  <2>1. d = c
    BY <1>5 DEF OneQueueEach
  <2>2. CASE known
    <3>1. k \in handled[d]
      BY <1>0, <1>5, <2>1, <2>2 DEF IInv, CachedIsServed
    <3> QED BY <1>2, <3>1 DEF Settled
  <2>3. CASE ~known
    <3>1. slot'[c][s].key = k /\ slot'[c][s].stage = "handling"
      BY <1>4, <1>5, <2>3
    <3> QED BY <2>1, <3>1 DEF OnItsWay, SubscriptionsOf
  <2> QED BY <2>2, <2>3
<1>6. CASE ~(a = AgentOf[c] /\ m[1] = k)
  <2>1. \A n \in Copies : n[1] = k => ready[a][n] <= ready'[a][n]
    <3> TAKE n \in Copies
    <3> HAVE n[1] = k
    <3>1. ready'[a][n] = ready[a][n] /\ ready[a][n] \in Nat
      BY <1>0, <1>1, <1>6 DEF IInv, TypeOK
    <3> QED BY <3>1
  <2>2. slot[c][s].stage \notin InCallback
    BY <1>2 DEF At, InCallback
  <2> QED BY <1>0, <1>4, <2>1, <2>2, OthersOnTheirWay
<1> QED
  BY <1>5, <1>6

LEMMA CallbackKeeps ==
  ASSUME IInv, IInv', OneQueueEach, NEW d \in Subscriptions, NEW k \in owed[d],
         OnItsWay(AgentOf[d], k),
         NEW c \in Subscriptions, NEW s \in Slots,
         \/ HandlerReturns(c, s) \/ HandlerRaises(c, s) \/ Republish(c, s)
         \/ Park(c, s) \/ Reject(c, s) \/ Ack(c, s)
  PROVE  Settled(d, k)' \/ OnItsWay(AgentOf[d], k)'
<1> DEFINE a == AgentOf[d]
<1>0. /\ a \in Agents /\ k \in Keys /\ k \in Interest[d] /\ bound[a]
      /\ ready \in [Agents -> [Copies -> Nat]]
      /\ dead \in [Agents -> SUBSET Keys]
      /\ handled \in [Subscriptions -> SUBSET Keys]
  BY RabbitAssumption DEF IInv, TypeOK, OwedIsBound
<1>1. ~At(c, s, "free")
  BY DEF HandlerReturns, HandlerRaises, Republish, Park, Reject, Ack, At
<1>2. /\ slot[c][s].key \in Keys /\ slot[c][s].retries \in 0..MaxRetries
      /\ \A stage \in Stages : GoesTo(c, s, stage) =>
           /\ slot'[c][s].key = slot[c][s].key /\ slot'[c][s].stage = stage
           /\ \A e \in Subscriptions, t \in Slots : e # c \/ t # s => slot'[e][t] = slot[e][t]
  <2>1. slot[c][s].key \in Keys /\ slot[c][s].retries \in 0..MaxRetries
    BY <1>1, HandFacts
  <2>2. ASSUME NEW stage \in Stages, GoesTo(c, s, stage)
        PROVE  /\ slot'[c][s].key = slot[c][s].key /\ slot'[c][s].stage = stage
               /\ \A e \in Subscriptions, t \in Slots : e # c \/ t # s => slot'[e][t] = slot[e][t]
    <3>1. /\ slot'[c][s] = [key |-> slot[c][s].key, retries |-> slot[c][s].retries, stage |-> stage]
          /\ \A e \in Subscriptions, t \in Slots : e # c \/ t # s => slot'[e][t] = slot[e][t]
      BY <2>2, StageFacts DEF IInv
    <3> QED BY <3>1
  <2> QED BY <2>1, <2>2
<1>3. \A e \in Subscriptions, t \in Slots : e # c \/ t # s => slot'[e][t] = slot[e][t]
  <2>1. CASE slot' = [slot EXCEPT ![c][s] = Free]
    <3>1. Free \in Messages
      BY CacheAssumption DEF Free, Messages, Stages
    <3> QED BY <2>1, <3>1, SlotFacts DEF IInv
  <2>2. CASE \E stage \in Stages : GoesTo(c, s, stage)
    BY <1>2, <2>2
  <2> QED
    BY <2>1, <2>2 DEF HandlerReturns, HandlerRaises, Republish, Park, Reject, Ack, Stages
<1>4. \A n \in Copies : ready[a][n] <= ready'[a][n]
  <2>1. CASE UNCHANGED ready
    BY <1>0, <2>1
  <2>2. CASE Republish(c, s)
    <3> DEFINE m == <<slot[c][s].key, slot[c][s].retries + 1>>
    <3>1. m \in Copies /\ Routed(m)
      BY <1>2, <2>2, CacheAssumption DEF Republish, Copies
    <3> HIDE DEF m
    <3> QED BY <1>0, <3>1, RoutedFacts DEF IInv
  <2> QED BY <2>1, <2>2 DEF HandlerReturns, HandlerRaises, Park, Reject, Ack
<1>5. CASE a = AgentOf[c] /\ slot[c][s].key = k /\ slot[c][s].stage \in InCallback
  <2>0. d = c
    BY <1>5 DEF OneQueueEach
  <2>1. CASE HandlerReturns(c, s)
    <3>1. handled' = [handled EXCEPT ![c] = @ \cup ({k} \cap Interest[c])]
      BY <1>5, <2>1 DEF HandlerReturns
    <3>2. k \in handled'[d]
      BY <1>0, <2>0, <3>1
    <3> QED BY <3>2 DEF Settled
  <2>2. CASE HandlerRaises(c, s)
    <3>1. \E stage \in {"backoff", "parking"} : GoesTo(c, s, stage)
      BY <2>2 DEF HandlerRaises
    <3>2. slot'[c][s].key = k /\ slot'[c][s].stage \in {"backoff", "parking"}
      BY <1>2, <1>5, <3>1 DEF Stages
    <3> QED BY <2>0, <3>2 DEF OnItsWay, SubscriptionsOf
  <2>3. CASE Republish(c, s)
    <3> DEFINE m == <<slot[c][s].key, slot[c][s].retries + 1>>
    <3>1. m \in Copies /\ Routed(m) /\ m[1] = k
      BY <1>2, <1>5, <2>3, CacheAssumption DEF Republish, Copies
    <3> HIDE DEF m
    <3>2. Wants(a, m[1])
      BY <1>0, <3>1 DEF Wants, SubscriptionsOf
    <3>3. ready'[a][m] > 0
      BY <1>0, <3>1, <3>2, RoutedFacts DEF IInv
    <3> QED BY <3>1, <3>3 DEF OnItsWay
  <2>4. CASE Park(c, s) \/ Reject(c, s)
    <3>1. dead' = [dead EXCEPT ![a] = @ \cup {k}]
      BY <1>5, <2>4 DEF Park, Reject
    <3>2. k \in dead'[a]
      BY <1>0, <3>1
    <3> QED BY <3>2 DEF Settled
  <2>5. CASE Ack(c, s)
    BY <1>5, <2>5 DEF Ack, At, InCallback
  <2> QED BY <2>1, <2>2, <2>3, <2>4, <2>5
<1> QED
  BY <1>0, <1>3, <1>4, <1>5, OthersOnTheirWay

-----------------------------------------------------------------------------
(***************************************************************************)
(* An event in a callback of a process that ends is ready again.           *)
(***************************************************************************)
LEMMA DownKeeps ==
  ASSUME IInv, NEW d \in Subscriptions, NEW k \in owed[d], OnItsWay(AgentOf[d], k),
         NEW a \in Agents, Down(a)
  PROVE  OnItsWay(AgentOf[d], k)'
<1> DEFINE b == AgentOf[d]
<1>0. b \in Agents /\ ready \in [Agents -> [Copies -> Nat]] /\ MaxRetries \in Nat /\ k \in Keys
  BY RabbitAssumption, CacheAssumption DEF IInv, TypeOK
<1>1. /\ \A n \in Copies :
           ready'[b][n] = IF b = a THEN ready[b][n] + Cardinality(Unacknowledged(a, n)) ELSE ready[b][n]
      /\ \A c \in Subscriptions : AgentOf[c] # a => slot'[c] = slot[c]
  BY <1>0, DownFacts
<1>2. CASE \E m \in Copies : m[1] = k /\ ready[b][m] > 0
  <2>1. PICK m \in Copies : m[1] = k /\ ready[b][m] > 0
    BY <1>2
  <2>2. ready'[b][m] > 0
    BY <1>0, <1>1, <2>1, UnacknowledgedFacts
  <2> QED BY <2>1, <2>2 DEF OnItsWay
<1>3. CASE \E c \in SubscriptionsOf(b), s \in Slots :
             slot[c][s].key = k /\ slot[c][s].stage \in {"handling", "backoff", "parking"}
  <2>1. PICK c \in SubscriptionsOf(b), s \in Slots :
               slot[c][s].key = k /\ slot[c][s].stage \in {"handling", "backoff", "parking"}
    BY <1>3
  <2>2. c \in Subscriptions /\ AgentOf[c] = b
    BY <2>1 DEF SubscriptionsOf
  <2>3. CASE b # a
    BY <1>1, <2>1, <2>2, <2>3 DEF OnItsWay
  <2>4. CASE b = a
    <3> DEFINE m == <<k, slot[c][s].retries>>
    <3>1. slot[c][s].retries \in 0..MaxRetries
      BY <2>2 DEF IInv, TypeOK
    <3>2. m \in Copies /\ m[1] = k
      BY <1>0, <3>1 DEF Copies
    <3>3. <<c, s>> \in Unacknowledged(a, m)
      BY <2>1, <2>4 DEF Unacknowledged
    <3> HIDE DEF m
    <3>4. ready[b][m] \in Nat /\ Cardinality(Unacknowledged(a, m)) \in Nat \ {0}
      BY <1>0, <3>2, <3>3, UnacknowledgedFacts
    <3>5. ready'[b][m] > 0
      BY <1>1, <2>4, <3>2, <3>4
    <3> QED BY <3>2, <3>5 DEF OnItsWay
  <2> QED BY <2>3, <2>4
<1> QED
  BY <1>2, <1>3 DEF OnItsWay

(***************************************************************************)
(* A publication owes an event only to those in whose queues it is ready.  *)
(***************************************************************************)
LEMMA PublishKeeps ==
  ASSUME IInv, AtLeastOnce, NEW j \in Keys, Publish(j)
  PROVE  AtLeastOnce'
<1>1. <<j, 0>> \in Copies
  BY CacheAssumption DEF Copies
<1>2. /\ Routed(<<j, 0>>) /\ UNCHANGED <<slot, dead, handled>>
      /\ owed' = [c \in Subscriptions |->
                    IF bound[AgentOf[c]] /\ j \in Interest[c] THEN owed[c] \cup {j} ELSE owed[c]]
  BY DEF Publish
<1>3. /\ ready' \in [Agents -> [Copies -> Nat]]
      /\ \A a \in Agents, n \in Copies : ready[a][n] <= ready'[a][n]
      /\ \A a \in Agents : bound[a] /\ Wants(a, j) => ready'[a][<<j, 0>>] > 0
  BY <1>1, <1>2, RoutedFacts DEF IInv
<1> SUFFICES ASSUME NEW d \in Subscriptions, NEW k \in owed'[d]
             PROVE  Settled(d, k)' \/ OnItsWay(AgentOf[d], k)'
  BY DEF AtLeastOnce
<1>4. AgentOf[d] \in Agents /\ ready \in [Agents -> [Copies -> Nat]]
  BY RabbitAssumption DEF IInv, TypeOK
<1>5. CASE k \in owed[d]
  <2>1. CASE Settled(d, k)
    BY <1>2, <2>1 DEF Settled
  <2>2. CASE OnItsWay(AgentOf[d], k)
    <3>1. \A m \in Copies : ready[AgentOf[d]][m] > 0 => ready'[AgentOf[d]][m] > 0
      BY <1>3, <1>4
    <3> QED BY <1>2, <2>2, <3>1 DEF OnItsWay
  <2> QED BY <1>5, <2>1, <2>2 DEF AtLeastOnce
<1>6. CASE k \notin owed[d]
  <2>1. k = j /\ bound[AgentOf[d]] /\ j \in Interest[d]
    BY <1>2, <1>6
  <2>2. ready'[AgentOf[d]][<<k, 0>>] > 0
    BY <1>3, <1>4, <2>1 DEF Wants, SubscriptionsOf
  <2> QED BY <1>1, <2>1, <2>2 DEF OnItsWay
<1> QED
  BY <1>5, <1>6

(***************************************************************************)
(* Delivery at least once is kept by every step.                           *)
(***************************************************************************)
LEMMA NextAtLeastOnce ==
  IInv /\ OneQueueEach /\ AtLeastOnce /\ [Next]_vars => AtLeastOnce'
<1> SUFFICES ASSUME IInv, OneQueueEach, AtLeastOnce, [Next]_vars PROVE AtLeastOnce'
  OBVIOUS
<1>0. IInv'
  BY NextIInv
<1>1. CASE \E k \in Keys : Publish(k)
  BY <1>1, PublishKeeps
<1>2. CASE UNCHANGED owed
  <2> SUFFICES ASSUME NEW d \in Subscriptions, NEW k \in owed[d]
               PROVE  Settled(d, k)' \/ OnItsWay(AgentOf[d], k)'
    BY <1>2 DEF AtLeastOnce
  <2>1. CASE Settled(d, k)
    BY <2>1, SettledStays
  <2>2. CASE OnItsWay(AgentOf[d], k)
    <3>1. CASE \E a \in Agents : Start(a)
      BY <2>2, <3>1 DEF Start, OnItsWay
    <3>2. CASE \E a \in Agents : Down(a)
      BY <2>2, <3>2, DownKeeps
    <3>3. CASE \E c \in Subscriptions, s \in Slots : Callback(c, s)
      BY <1>0, <2>2, <3>3, DeliverKeeps, CallbackKeeps DEF Callback
    <3>4. CASE UNCHANGED vars
      BY <2>2, <3>4 DEF vars, OnItsWay
    <3>5. CASE \E j \in Keys : Publish(j)
      BY <1>1, <1>2, <3>5, PublishKeeps DEF AtLeastOnce
    <3> QED BY <3>1, <3>2, <3>3, <3>4, <3>5 DEF Next
  <2> QED BY <2>1, <2>2 DEF AtLeastOnce
<1>3. UNCHANGED owed \/ \E k \in Keys : Publish(k)
  <2>1. CASE \E a \in Agents : Start(a) \/ Down(a)
    BY <2>1 DEF Start, Down, history
  <2>2. CASE \E c \in Subscriptions, s \in Slots : Callback(c, s)
    BY <2>2, CallbackOwes
  <2>3. CASE UNCHANGED vars
    BY <2>3 DEF vars, history
  <2> QED BY <2>1, <2>2, <2>3 DEF Next
<1> QED
  BY <1>1, <1>2, <1>3

-----------------------------------------------------------------------------
(***************************************************************************)
(* Every variable keeps its type; no message is retried beyond the last    *)
(* retry, although it may be republished to queues it did not come from.   *)
(***************************************************************************)
THEOREM TypeCorrect == Spec => []TypeOK
<1>1. Init => IInv
  BY InitIInv
<1>2. IInv /\ [Next]_vars => IInv'
  BY NextIInv
<1>3. IInv => TypeOK
  BY DEF IInv
<1> QED
  BY <1>1, <1>2, <1>3, PTL DEF Spec

(***************************************************************************)
(* Delivery is at least once, through failures, republication, rejection   *)
(* and the end of processes, if every subscription has its own queue.      *)
(* (Without that it is not: the run rabbit_shared_queue.)                  *)
(***************************************************************************)
THEOREM DeliveredAtLeastOnce == OneQueueEach /\ Spec => []AtLeastOnce
<1> DEFINE Inv == IInv /\ OneQueueEach /\ AtLeastOnce
<1>1. Init => AtLeastOnce
  BY DEF Init, AtLeastOnce
<1>2. OneQueueEach /\ Init => Inv
  BY <1>1, InitIInv
<1>3. Inv /\ [Next]_vars => Inv'
  BY NextIInv, NextAtLeastOnce DEF OneQueueEach
<1>4. Inv => AtLeastOnce
  OBVIOUS
<1> HIDE DEF Inv
<1> QED
  BY <1>2, <1>3, <1>4, PTL DEF Spec
=============================================================================
