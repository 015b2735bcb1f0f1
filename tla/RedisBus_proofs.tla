--------------------------- MODULE RedisBus_proofs ---------------------------
(***************************************************************************)
(* Theorems about RedisBus, for any processes, subscriptions, events and   *)
(* settings: what an acknowledgement means, what may be lost and why.      *)
(***************************************************************************)
EXTENDS RedisBus, SequenceLemmas

-----------------------------------------------------------------------------
(***************************************************************************)
(* The inductive invariant.                                                *)
(***************************************************************************)

\* A stream holds events of its type only.
LogTyped == \A t \in Types : \A i \in 1..Len(log[t]) : TypeOf[log[t][i]] = t

\* A group was given entries that exist, and missed some that were trimmed.
GroupsInLog ==
  \A g \in Groups : /\ cursor[g] <= Len(log[g[2]])
                    /\ \A i \in missed[g] : 1 <= i /\ i <= trimmed[g[2]]

\* A read loop has a batch exactly while it works on one, of entries given out.
BatchInHand ==
  \A w \in Replicas, g \in Groups :
    /\ \A i \in DOMAIN batch[w][g] : 1 <= batch[w][g][i] /\ batch[w][g][i] <= cursor[g]
    /\ stage[w][g] \in InBatch <=> batch[w][g] # <<>>

\* The cache knows only events that the group of their type has handled.
CachedIsHandled ==
  \A w \in Replicas, g \in Groups, k \in Keys :
    Seen(cache[w][g[1]], k) /\ TypeOf[k] = g[2] => k \in handled[g]

\* An acknowledgement is on its way only for an entry that is settled.
AckingIsSettled ==
  \A w \in Replicas, g \in Groups :
    stage[w][g] = "acking" => Settled(g, Head(batch[w][g]))

IInv ==
  /\ RedisTypeOK
  /\ LogTyped
  /\ GroupsInLog
  /\ BatchInHand
  /\ CachedIsHandled
  /\ AckingIsSettled
  /\ AcknowledgedIsSettled
  /\ NothingVanishes

-----------------------------------------------------------------------------
(***************************************************************************)
(* A group is a subscription and one of the types.                         *)
(***************************************************************************)
LEMMA GroupFacts ==
  ASSUME NEW g \in Groups
  PROVE  g[1] \in Bindings /\ g[2] \in Types /\ g = <<g[1], g[2]>>
  BY DEF Groups

(***************************************************************************)
(* The batch of a read loop is a sequence of entry numbers.                *)
(***************************************************************************)
LEMMA BatchTyped ==
  ASSUME RedisTypeOK, NEW w \in Replicas, NEW g \in Groups
  PROVE  /\ batch[w][g] \in Seq(Nat)
         /\ DOMAIN batch[w][g] = 1..Len(batch[w][g])
         /\ \A i \in DOMAIN batch[w][g] : batch[w][g][i] \in Nat
<1>1. batch[w][g] \in Seq(Nat)
  BY DEF RedisTypeOK
<1> QED
  BY <1>1, LenProperties, ElementOfSeq

(***************************************************************************)
(* The elements of a sequence are its head and those of its tail.          *)
(***************************************************************************)
LEMMA ElementsOfTail ==
  ASSUME NEW S, NEW s \in Seq(S), s # <<>>
  PROVE  Elements(s) = {Head(s)} \cup Elements(Tail(s))
<1>1. /\ Len(s) \in Nat \ {0} /\ Head(s) = s[1]
      /\ Tail(s) \in Seq(S) /\ Len(Tail(s)) = Len(s) - 1
      /\ \A i \in 1..Len(Tail(s)) : Tail(s)[i] = s[i + 1]
      /\ DOMAIN s = 1..Len(s) /\ DOMAIN Tail(s) = 1..(Len(s) - 1)
  BY HeadTailProperties, LenProperties, EmptySeq
<1>2. ASSUME NEW x \in Elements(s)
      PROVE  x = Head(s) \/ x \in Elements(Tail(s))
  <2>1. PICK i \in 1..Len(s) : x = s[i]
    BY <1>1, <1>2 DEF Elements
  <2>2. CASE i = 1
    BY <1>1, <2>1, <2>2
  <2>3. CASE i # 1
    <3>1. i - 1 \in 1..(Len(s) - 1) /\ Tail(s)[i - 1] = x
      BY <1>1, <2>1, <2>3
    <3> QED BY <1>1, <3>1 DEF Elements
  <2> QED BY <2>2, <2>3
<1>3. Head(s) \in Elements(s)
  BY <1>1 DEF Elements
<1>4. ASSUME NEW x \in Elements(Tail(s)) PROVE x \in Elements(s)
  <2>1. PICK i \in 1..(Len(s) - 1) : x = Tail(s)[i]
    BY <1>1, <1>4 DEF Elements
  <2>2. i + 1 \in 1..Len(s) /\ s[i + 1] = x
    BY <1>1, <2>1
  <2> QED BY <1>1, <2>2 DEF Elements
<1> QED
  BY <1>2, <1>3, <1>4

-----------------------------------------------------------------------------
(***************************************************************************)
(* What a read loop does when it goes on with the entries of b: it changes *)
(* nothing of the others, handles the first one unless it is malformed or  *)
(* known, and no cache learns a key.                                       *)
(***************************************************************************)
LEMMA GoesOnProps ==
  ASSUME RedisTypeOK, LogTyped, NEW w \in Replicas, NEW g \in Groups, NEW b \in Seq(Nat),
         \A i \in DOMAIN b : b[i] \in 1..Len(log[g[2]]),
         GoesOn(w, g, b)
  PROVE  /\ batch' \in [Replicas -> [Groups -> Seq(Nat)]]
         /\ batch' = [batch EXCEPT ![w][g] = b]
         /\ attempt' \in [Replicas -> [Groups -> 0..MaxRetries]]
         /\ stage' \in [Replicas -> [Groups -> Stages]]
         /\ stage' = [stage EXCEPT ![w][g] = stage'[w][g]]
         /\ stage'[w][g] \in InBatch <=> b # <<>>
         /\ stage'[w][g] = "acking" => Seen(cache[w][g[1]], Entry(g, Head(b)))
         /\ cache' \in [Replicas -> [Bindings -> Seq(Keys)]]
         /\ \A v \in Replicas, c \in Bindings, k \in Keys :
              Seen(cache'[v][c], k) => Seen(cache[v][c], k)
<1>0. g[1] \in Bindings /\ g[2] \in Types
  BY GroupFacts
<1> DEFINE k == Entry(g, Head(b))
           known == b # <<>> /\ k \notin Malformed /\ Seen(cache[w][g[1]], k)
           next == IF b = <<>> THEN "reading"
                   ELSE IF k \in Malformed THEN "parking"
                   ELSE IF known THEN "acking" ELSE "handling"
<1>1. /\ batch' = [batch EXCEPT ![w][g] = b]
      /\ attempt' = [attempt EXCEPT ![w][g] = 0]
      /\ stage' = [stage EXCEPT ![w][g] = next]
      /\ cache' = IF known THEN [cache EXCEPT ![w][g[1]] = Touch(@, k)] ELSE cache
  BY Zenon DEF GoesOn
<1>2. batch' \in [Replicas -> [Groups -> Seq(Nat)]]
  BY <1>1 DEF RedisTypeOK
<1>3. attempt' \in [Replicas -> [Groups -> 0..MaxRetries]]
  BY <1>1, CacheAssumption DEF RedisTypeOK
<1>4. next \in Stages /\ (next \in InBatch <=> b # <<>>) /\ (next = "acking" => known)
  BY DEF Stages, InBatch
<1> HIDE DEF next
<1>5. stage' \in [Replicas -> [Groups -> Stages]] /\ stage'[w][g] = next
  BY <1>1, <1>4 DEF RedisTypeOK
<1>6. known => k \in Keys
  <2> SUFFICES ASSUME b # <<>> PROVE k \in Keys
    OBVIOUS
  <2>1. 1 \in DOMAIN b /\ Head(b) = b[1]
    BY EmptySeq, LenProperties
  <2> QED
    BY <1>0, <2>1 DEF RedisTypeOK, Entry
<1> HIDE DEF k
<1>7. /\ cache' \in [Replicas -> [Bindings -> Seq(Keys)]]
      /\ \A v \in Replicas, c \in Bindings, other \in Keys :
           Seen(cache'[v][c], other) => Seen(cache[v][c], other)
  <2>1. CASE known
    <3>1. cache[w][g[1]] \in Seq(Keys)
      BY <1>0 DEF RedisTypeOK
    <3>2. /\ Touch(cache[w][g[1]], k) \in Seq(Keys)
          /\ \A other : Seen(Touch(cache[w][g[1]], k), other) => other = k \/ Seen(cache[w][g[1]], other)
      BY <1>6, <2>1, <3>1, TouchProps
    <3>3. cache' = [cache EXCEPT ![w][g[1]] = Touch(cache[w][g[1]], k)]
      BY <1>1, <2>1
    <3>4. cache' \in [Replicas -> [Bindings -> Seq(Keys)]]
      BY <1>0, <3>2, <3>3 DEF RedisTypeOK
    <3>5. \A v \in Replicas, c \in Bindings :
            cache'[v][c] = IF v = w /\ c = g[1] THEN Touch(cache[w][g[1]], k) ELSE cache[v][c]
      BY <1>0, <3>3 DEF RedisTypeOK
    <3> QED BY <2>1, <3>2, <3>4, <3>5
  <2>2. CASE ~known
    BY <1>1, <2>2 DEF RedisTypeOK
  <2> QED BY <2>1, <2>2
<1> QED
  BY <1>1, <1>2, <1>3, <1>4, <1>5, <1>7 DEF k

-----------------------------------------------------------------------------
(***************************************************************************)
(* Before anything was started or published the invariant holds.           *)
(***************************************************************************)
LEMMA InitIInv == RedisInit => IInv
<1> SUFFICES ASSUME RedisInit PROVE IInv
  OBVIOUS
<1>1. RedisTypeOK
  <2>1. 0 \in 0..MaxRetries
    BY CacheAssumption
  <2>2. \A w \in Replicas, g \in Groups : stage[w][g] \in Stages
    BY DEF RedisInit, Stages
  <2> QED BY <2>1, RedisAssumption DEF RedisInit, RedisTypeOK, Stages
<1>2. LogTyped /\ GroupsInLog
  BY GroupFacts DEF RedisInit, LogTyped, GroupsInLog
<1>3. BatchInHand /\ AckingIsSettled
  BY DEF RedisInit, BatchInHand, AckingIsSettled, InBatch
<1>4. CachedIsHandled
  BY GroupFacts DEF RedisInit, CachedIsHandled, Seen
<1>5. AcknowledgedIsSettled /\ NothingVanishes
  BY DEF RedisInit, AcknowledgedIsSettled, NothingVanishes, Owed
<1> QED
  BY <1>1, <1>2, <1>3, <1>4, <1>5 DEF IInv

-----------------------------------------------------------------------------
(***************************************************************************)
(* Publication: what is in a stream stays where it is.                     *)
(***************************************************************************)
LEMMA PublishIInv ==
  ASSUME IInv, NEW k \in Keys, Publish(k)
  PROVE  IInv'
<1> USE DEF IInv
<1> DEFINE t == TypeOf[k]
<1>0. t \in Types /\ log[t] \in Seq(Keys)
  BY RedisAssumption DEF RedisTypeOK
<1>1. /\ log' = [log EXCEPT ![t] = Append(log[t], k)]
      /\ UNCHANGED <<up, readers, groups, past>>
  BY DEF Publish
<1>2. PICK n \in 0..(MaxPublished + 1) : TrimTo(t, n) /\ trimmed' = [trimmed EXCEPT ![t] = n]
  BY DEF Publish
<1> HIDE DEF t
<1>3. /\ log' \in [Types -> Seq(Keys)]
      /\ \A u \in Types : /\ Len(log'[u]) = IF u = t THEN Len(log[u]) + 1 ELSE Len(log[u])
                          /\ \A i \in 1..Len(log[u]) : log'[u][i] = log[u][i]
                          /\ DOMAIN log[u] = 1..Len(log[u]) /\ DOMAIN log'[u] = 1..Len(log'[u])
      /\ log'[t][Len(log[t]) + 1] = k
  BY <1>0, <1>1 DEF RedisTypeOK
<1>4. /\ trimmed' \in [Types -> Nat]
      /\ \A u \in Types : trimmed[u] <= trimmed'[u]
  <2>1. trimmed' = [trimmed EXCEPT ![t] = n] /\ n \in Nat /\ MaxLen \in Nat \ {0}
    BY <1>2, RedisAssumption
  <2>2. trimmed' \in [Types -> Nat] /\ \A u \in Types : trimmed'[u] = IF u = t THEN n ELSE trimmed[u]
    BY <1>0, <2>1 DEF RedisTypeOK
  <2>3. trimmed[t] \in Nat /\ Len(log[t]) \in Nat /\ Len(log'[t]) = Len(log[t]) + 1
    BY <1>0, <1>3, LenProperties DEF RedisTypeOK
  <2>4. trimmed[t] <= n
    BY <1>2, <2>1, <2>3 DEF TrimTo
  <2>5. \A u \in Types : trimmed[u] \in Nat
    BY DEF RedisTypeOK
  <2> QED BY <1>0, <2>2, <2>4, <2>5
<1>5. RedisTypeOK'
  BY <1>1, <1>3, <1>4 DEF RedisTypeOK, readers, groups, past
<1>6. LogTyped'
  BY <1>3 DEF LogTyped, RedisTypeOK, t
<1>7. GroupsInLog'
  BY <1>1, <1>3, <1>4, GroupFacts DEF GroupsInLog, RedisTypeOK, groups, past
<1>8. BatchInHand'
  BY <1>1 DEF BatchInHand, readers, groups
<1>9. CachedIsHandled'
  BY <1>1 DEF CachedIsHandled, readers, past
<1>10. \A g \in Groups : \A i : Settled(g, i) => Settled(g, i)'
  BY <1>1, <1>3, GroupFacts DEF Settled, Entry, RedisTypeOK, past
<1>11. AckingIsSettled'
  BY <1>1, <1>10 DEF AckingIsSettled, readers
<1>12. \A g \in Groups : \A i \in Owed(g)' : i <= cursor'[g] => i \in Owed(g) /\ i <= cursor[g]
  BY <1>1, <1>3, GroupFacts DEF Owed, GroupsInLog, RedisTypeOK, groups, past
<1>13. AcknowledgedIsSettled'
  BY <1>1, <1>10, <1>12 DEF AcknowledgedIsSettled, groups, past
<1>14. NothingVanishes'
  BY <1>1, <1>10, <1>12 DEF NothingVanishes, InHand, groups, past, readers
<1> QED
  BY <1>5, <1>6, <1>7, <1>8, <1>9, <1>11, <1>13, <1>14

(***************************************************************************)
(* Starting a process, and one of its read loops.                          *)
(***************************************************************************)
LEMMA StartIInv ==
  ASSUME IInv, NEW w \in Replicas, StartBus(w)
  PROVE  IInv'
<1> USE DEF IInv, StartBus, readers, streams, groups, past
<1>1. RedisTypeOK'
  BY DEF RedisTypeOK
<1>2. LogTyped' /\ GroupsInLog' /\ BatchInHand' /\ CachedIsHandled'
  BY DEF LogTyped, GroupsInLog, BatchInHand, CachedIsHandled
<1>3. AckingIsSettled' /\ AcknowledgedIsSettled' /\ NothingVanishes'
  BY DEF AckingIsSettled, AcknowledgedIsSettled, NothingVanishes, Settled, Entry, Owed, InHand
<1> QED BY <1>1, <1>2, <1>3

(***************************************************************************)
(* A group that is made is owed nothing yet; one that exists keeps its     *)
(* place (start).                                                          *)
(***************************************************************************)
LEMMA BindIInv ==
  ASSUME IInv, NEW w \in Replicas, NEW g \in Groups, Bind(w, g)
  PROVE  IInv'
<1> USE DEF IInv
<1>0. g[2] \in Types /\ Len(log[g[2]]) \in Nat
  BY GroupFacts, LenProperties DEF RedisTypeOK
<1>1. /\ stage[w][g] = "none"
      /\ stage' = [stage EXCEPT ![w][g] = "reading"]
      /\ UNCHANGED <<up, batch, attempt, cache, log, trimmed, pending, handled, dead, stranded,
                     missed, faults>>
  BY DEF Bind, streams
<1>2. \/ UNCHANGED <<created, cursor, born>>
      \/ /\ created' = [created EXCEPT ![g] = TRUE]
         /\ cursor' = [cursor EXCEPT ![g] = Len(log[g[2]])]
         /\ born' = [born EXCEPT ![g] = Len(log[g[2]])]
  BY DEF Bind
<1>3. RedisTypeOK'
  <2>1. stage' \in [Replicas -> [Groups -> Stages]]
    BY <1>1 DEF RedisTypeOK, Stages
  <2>2. created' \in [Groups -> BOOLEAN] /\ cursor' \in [Groups -> Nat] /\ born' \in [Groups -> Nat]
    <3> DEFINE end == Len(log[g[2]])
    <3>1. CASE UNCHANGED <<created, cursor, born>>
      BY <3>1 DEF RedisTypeOK
    <3>2. CASE /\ created' = [created EXCEPT ![g] = TRUE]
               /\ cursor' = [cursor EXCEPT ![g] = end]
               /\ born' = [born EXCEPT ![g] = end]
      <4>1. end \in Nat
        BY <1>0
      <4> HIDE DEF end
      <4> QED BY <3>2, <4>1 DEF RedisTypeOK
    <3> QED BY <1>2, <3>1, <3>2
  <2> QED BY <1>1, <2>1, <2>2 DEF RedisTypeOK
<1>4. \A h \in Groups : /\ cursor[h] <= cursor'[h]
                        /\ cursor'[h] <= Len(log[h[2]])
                        /\ h # g => Owed(h)' = Owed(h) /\ cursor'[h] = cursor[h]
                        /\ (Owed(h)' = Owed(h) /\ cursor'[h] = cursor[h]) \/ Owed(h)' = {}
  <2> TAKE h \in Groups
  <2>0. h[2] \in Types /\ Len(log[h[2]]) \in Nat /\ cursor[h] \in Nat /\ cursor[h] <= Len(log[h[2]])
    BY GroupFacts, LenProperties DEF RedisTypeOK, GroupsInLog
  <2>1. CASE UNCHANGED <<created, cursor, born>>
    BY <1>1, <2>0, <2>1 DEF Owed
  <2>2. CASE /\ created' = [created EXCEPT ![g] = TRUE]
             /\ cursor' = [cursor EXCEPT ![g] = Len(log[g[2]])]
             /\ born' = [born EXCEPT ![g] = Len(log[g[2]])]
    <3>1. CASE h = g
      <4>1. cursor'[h] = Len(log[h[2]])
        BY <2>2, <3>1 DEF RedisTypeOK
      <4>2. born'[h] = Len(log[h[2]]) /\ log' = log
        BY <1>1, <2>2, <3>1 DEF RedisTypeOK
      <4>3. Owed(h)' = {}
        BY <2>0, <4>1, <4>2 DEF Owed
      <4> QED BY <2>0, <3>1, <4>1, <4>3
    <3>2. CASE h # g
      <4>1. created'[h] = created[h] /\ cursor'[h] = cursor[h] /\ born'[h] = born[h]
        BY <2>2, <3>2 DEF RedisTypeOK
      <4>2. Owed(h)' = Owed(h)
        BY <1>1, <4>1 DEF Owed
      <4> QED BY <2>0, <4>1, <4>2
    <3> QED BY <3>1, <3>2
  <2> QED BY <1>2, <2>1, <2>2
<1>5. LogTyped'
  BY <1>1 DEF LogTyped
<1>6. GroupsInLog'
  BY <1>1, <1>4 DEF GroupsInLog
<1>7. BatchInHand'
  <2>1. \A v \in Replicas, h \in Groups :
          stage'[v][h] = IF v = w /\ h = g THEN "reading" ELSE stage[v][h]
    BY <1>1 DEF RedisTypeOK
  <2>2. \A v \in Replicas, h \in Groups : stage'[v][h] \in InBatch <=> stage[v][h] \in InBatch
    BY <1>1, <2>1 DEF InBatch
  <2>3. \A v \in Replicas, h \in Groups : \A i \in DOMAIN batch[v][h] :
          1 <= batch[v][h][i] /\ batch[v][h][i] <= cursor'[h]
    <3> TAKE v \in Replicas, h \in Groups
    <3> TAKE i \in DOMAIN batch[v][h]
    <3>1. batch[v][h][i] \in Nat /\ cursor[h] \in Nat /\ cursor'[h] \in Nat
      BY <1>3, BatchTyped DEF RedisTypeOK
    <3> QED BY <1>4, <3>1 DEF BatchInHand
  <2> QED BY <1>1, <2>2, <2>3 DEF BatchInHand
<1>8. CachedIsHandled'
  BY <1>1 DEF CachedIsHandled
<1>9. AckingIsSettled'
  BY <1>1 DEF AckingIsSettled, Settled, Entry, RedisTypeOK
<1>10. AcknowledgedIsSettled' /\ NothingVanishes'
  BY <1>1, <1>4 DEF AcknowledgedIsSettled, NothingVanishes, Settled, Entry, InHand
<1> QED
  BY <1>3, <1>5, <1>6, <1>7, <1>8, <1>9, <1>10

-----------------------------------------------------------------------------
(***************************************************************************)
(* The steps of a read loop that stay with its entry.                      *)
(***************************************************************************)
LEMMA StageFacts ==
  ASSUME RedisTypeOK, NEW w \in Replicas, NEW g \in Groups, NEW to \in Stages, Goes(w, g, to)
  PROVE  /\ stage' \in [Replicas -> [Groups -> Stages]]
         /\ \A v \in Replicas, h \in Groups :
              stage'[v][h] = IF v = w /\ h = g THEN to ELSE stage[v][h]
  BY DEF RedisTypeOK, Goes

(***************************************************************************)
(* A read loop that only changes its stage, not to an acknowledgement.     *)
(***************************************************************************)
LEMMA StageMoveIInv ==
  ASSUME IInv, NEW w \in Replicas, NEW g \in Groups, NEW to \in InBatch \ {"acking"},
         stage[w][g] \in InBatch, Goes(w, g, to),
         attempt' \in [Replicas -> [Groups -> 0..MaxRetries]],
         UNCHANGED <<up, batch, cache, streams, groups, past>>
  PROVE  IInv'
<1> USE DEF IInv, streams, groups, past
<1>1. /\ stage' \in [Replicas -> [Groups -> Stages]]
      /\ \A v \in Replicas, h \in Groups :
           stage'[v][h] = IF v = w /\ h = g THEN to ELSE stage[v][h]
  <2>1. to \in Stages
    BY DEF InBatch, Stages
  <2> QED BY <2>1, StageFacts
<1>2. RedisTypeOK'
  BY <1>1 DEF RedisTypeOK
<1>3. LogTyped' /\ GroupsInLog' /\ CachedIsHandled'
  BY DEF LogTyped, GroupsInLog, CachedIsHandled
<1>4. BatchInHand'
  BY <1>1 DEF BatchInHand
<1>5. AckingIsSettled'
  BY <1>1 DEF AckingIsSettled, Settled, Entry
<1>6. AcknowledgedIsSettled' /\ NothingVanishes'
  BY DEF AcknowledgedIsSettled, NothingVanishes, Settled, Entry, Owed, InHand
<1> QED
  BY <1>2, <1>3, <1>4, <1>5, <1>6

(***************************************************************************)
(* A failed attempt, the wait after it and the giving up (_handle).        *)
(***************************************************************************)
LEMMA RetryIInv ==
  ASSUME IInv, NEW w \in Replicas, NEW g \in Groups, Retry(w, g) \/ Again(w, g) \/ GiveUp(w, g)
  PROVE  IInv'
<1>1. CASE Retry(w, g)
  <2>1. attempt[w][g] \in 0..MaxRetries /\ attempt[w][g] < MaxRetries
    BY <1>1 DEF Retry, ShouldRetry, IInv, RedisTypeOK
  <2>2. attempt' \in [Replicas -> [Groups -> 0..MaxRetries]]
    BY <1>1, <2>1, CacheAssumption DEF Retry, IInv, RedisTypeOK
  <2> QED
    BY <1>1, <2>2, StageMoveIInv DEF Retry, InBatch
<1>2. CASE Again(w, g)
  BY <1>2, StageMoveIInv DEF Again, InBatch, IInv, RedisTypeOK
<1>3. CASE GiveUp(w, g)
  BY <1>3, StageMoveIInv DEF GiveUp, InBatch, IInv, RedisTypeOK
<1> QED
  BY <1>1, <1>2, <1>3

(***************************************************************************)
(* The entry at hand.                                                      *)
(***************************************************************************)
LEMMA CurrentFacts ==
  ASSUME IInv, NEW w \in Replicas, NEW g \in Groups, stage[w][g] \in InBatch
  PROVE  /\ batch[w][g] # <<>>
         /\ Head(batch[w][g]) \in DOMAIN log[g[2]]
         /\ Head(batch[w][g]) <= cursor[g]
         /\ Current(w, g) \in Keys
         /\ TypeOf[Current(w, g)] = g[2]
<1> USE DEF IInv
<1>1. batch[w][g] # <<>> /\ batch[w][g] \in Seq(Nat)
  BY BatchTyped DEF BatchInHand
<1>2. 1 \in DOMAIN batch[w][g] /\ Head(batch[w][g]) = batch[w][g][1]
  BY <1>1, EmptySeq, LenProperties
<1>3. /\ batch[w][g][1] \in Nat /\ 1 <= batch[w][g][1] /\ batch[w][g][1] <= cursor[g]
  BY <1>2, BatchTyped DEF BatchInHand
<1>4. g[2] \in Types /\ log[g[2]] \in Seq(Keys) /\ cursor[g] \in Nat /\ cursor[g] <= Len(log[g[2]])
  BY GroupFacts DEF RedisTypeOK, GroupsInLog
<1>5. batch[w][g][1] \in 1..Len(log[g[2]]) /\ DOMAIN log[g[2]] = 1..Len(log[g[2]])
  BY <1>3, <1>4, LenProperties
<1>6. Current(w, g) = log[g[2]][batch[w][g][1]]
  BY <1>2 DEF Current, Entry
<1> QED
  BY <1>1, <1>2, <1>3, <1>4, <1>5, <1>6, ElementOfSeq DEF LogTyped

(***************************************************************************)
(* A success and a dead letter settle the entry at hand.                   *)
(***************************************************************************)
LEMMA SucceedIInv ==
  ASSUME IInv, NEW w \in Replicas, NEW g \in Groups, Succeed(w, g)
  PROVE  IInv'
<1> USE DEF IInv, streams, groups
<1> DEFINE k == Current(w, g)
           i == Head(batch[w][g])
<1>1. /\ stage[w][g] = "handling" /\ stage[w][g] \in InBatch
      /\ Goes(w, g, "acking")
      /\ cache' = [cache EXCEPT ![w][g[1]] = Add(@, k)]
      /\ handled' = [handled EXCEPT ![g] = @ \cup {k}]
      /\ UNCHANGED <<up, batch, attempt, log, trimmed, created, cursor, pending, born, dead, stranded, missed, faults>>
  BY DEF Succeed, InBatch
<1>2. i \in DOMAIN log[g[2]] /\ k \in Keys /\ TypeOf[k] = g[2] /\ k = Entry(g, i)
  BY <1>1, CurrentFacts DEF Current
<1>3. /\ stage' \in [Replicas -> [Groups -> Stages]]
      /\ \A v \in Replicas, h \in Groups :
           stage'[v][h] = IF v = w /\ h = g THEN "acking" ELSE stage[v][h]
  <2>1. "acking" \in Stages
    BY DEF Stages
  <2> QED BY <1>1, <2>1, StageFacts
<1>4. g[1] \in Bindings /\ cache[w][g[1]] \in Seq(Keys)
  BY GroupFacts DEF RedisTypeOK
<1> HIDE DEF k, i
<1>5. /\ Add(cache[w][g[1]], k) \in Seq(Keys)
      /\ \A other : Seen(Add(cache[w][g[1]], k), other) => other = k \/ Seen(cache[w][g[1]], other)
  <2>1. /\ Add(cache[w][g[1]], k) = Evicted(Touch(cache[w][g[1]], k), CacheSize)
        /\ CacheSize \in Nat \ {0}
    BY CacheAssumption DEF Add, Trim, Evicted
  <2> DEFINE old == cache[w][g[1]]
             new == Add(old, k)
  <2>2. new = Evicted(Touch(old, k), CacheSize) /\ old \in Seq(Keys) /\ k \in Keys
    BY <1>2, <1>4, <2>1
  <2>3. new \in Seq(Keys) /\ \A other : Seen(new, other) => other = k \/ Seen(old, other)
    <3> HIDE DEF old, new
    <3> QED BY <2>1, <2>2, AddProps
  <2> QED BY <2>3
<1>6. /\ cache' \in [Replicas -> [Bindings -> Seq(Keys)]]
      /\ \A v \in Replicas, c \in Bindings :
           cache'[v][c] = IF v = w /\ c = g[1] THEN Add(cache[w][g[1]], k) ELSE cache[v][c]
  BY <1>1, <1>4, <1>5 DEF RedisTypeOK
<1>7. /\ handled' \in [Groups -> SUBSET Keys]
      /\ \A h \in Groups : handled'[h] = IF h = g THEN handled[g] \cup {k} ELSE handled[h]
  BY <1>1, <1>2 DEF RedisTypeOK
<1>8. RedisTypeOK'
  BY <1>1, <1>3, <1>6, <1>7 DEF RedisTypeOK
<1>9. LogTyped' /\ GroupsInLog'
  BY <1>1 DEF LogTyped, GroupsInLog
<1>10. BatchInHand'
  BY <1>1, <1>3 DEF BatchInHand, InBatch
<1>11. CachedIsHandled'
  <2> SUFFICES ASSUME NEW v \in Replicas, NEW h \in Groups, NEW other \in Keys,
                      Seen(cache'[v][h[1]], other), TypeOf[other] = h[2]
               PROVE  other \in handled'[h]
    BY DEF CachedIsHandled
  <2>1. h[1] \in Bindings
    BY GroupFacts
  <2>2. CASE other \in handled[h]
    BY <1>7, <2>2
  <2>3. CASE other \notin handled[h]
    <3>0. ~Seen(cache[v][h[1]], other)
      BY <2>3 DEF CachedIsHandled
    <3>1. v = w /\ h[1] = g[1] /\ other = k
      BY <1>5, <1>6, <2>1, <3>0
    <3>2. h = g
      BY <1>2, <3>1, GroupFacts
    <3> QED BY <1>7, <3>1, <3>2
  <2> QED BY <2>2, <2>3
<1>12. \A h \in Groups : \A j : Settled(h, j) => Settled(h, j)'
  BY <1>1, <1>7 DEF Settled, Entry
<1>13. Settled(g, Head(batch[w][g]))'
  BY <1>1, <1>2, <1>7 DEF Settled, Entry, k, i
<1>14. AckingIsSettled'
  BY <1>1, <1>3, <1>12, <1>13 DEF AckingIsSettled
<1>15. AcknowledgedIsSettled' /\ NothingVanishes'
  BY <1>1, <1>12 DEF AcknowledgedIsSettled, NothingVanishes, Owed, InHand
<1> QED
  BY <1>8, <1>9, <1>10, <1>11, <1>14, <1>15

(***************************************************************************)
(* A dead letter settles the entry at hand (_to_dlq).                      *)
(***************************************************************************)
LEMMA ParkIInv ==
  ASSUME IInv, NEW w \in Replicas, NEW g \in Groups, Park(w, g)
  PROVE  IInv'
<1> USE DEF IInv, streams, groups
<1>1. /\ stage[w][g] \in InBatch
      /\ Goes(w, g, "acking")
      /\ dead' = [dead EXCEPT ![g] = @ \cup {Current(w, g)}]
      /\ UNCHANGED <<up, batch, attempt, cache, log, trimmed, created, cursor, pending, born,
                     handled, stranded, missed, faults>>
  BY DEF Park, InBatch
<1>2. Head(batch[w][g]) \in DOMAIN log[g[2]] /\ Current(w, g) \in Keys
  BY <1>1, CurrentFacts
<1>3. /\ stage' \in [Replicas -> [Groups -> Stages]]
      /\ \A v \in Replicas, h \in Groups :
           stage'[v][h] = IF v = w /\ h = g THEN "acking" ELSE stage[v][h]
  <2>1. "acking" \in Stages
    BY DEF Stages
  <2> QED BY <1>1, <2>1, StageFacts
<1>4. /\ dead' \in [Groups -> SUBSET Keys]
      /\ \A h \in Groups : dead'[h] = IF h = g THEN dead[g] \cup {Current(w, g)} ELSE dead[h]
  BY <1>1, <1>2 DEF RedisTypeOK
<1>5. RedisTypeOK'
  BY <1>1, <1>3, <1>4 DEF RedisTypeOK
<1>6. LogTyped' /\ GroupsInLog' /\ CachedIsHandled'
  BY <1>1 DEF LogTyped, GroupsInLog, CachedIsHandled
<1>7. BatchInHand'
  BY <1>1, <1>3 DEF BatchInHand, InBatch
<1>8. \A h \in Groups : \A j : Settled(h, j) => Settled(h, j)'
  BY <1>1, <1>4 DEF Settled, Entry
<1>9. Settled(g, Head(batch[w][g]))'
  BY <1>1, <1>2, <1>4 DEF Settled, Entry, Current
<1>10. AckingIsSettled'
  BY <1>1, <1>3, <1>8, <1>9 DEF AckingIsSettled
<1>11. AcknowledgedIsSettled' /\ NothingVanishes'
  BY <1>1, <1>8 DEF AcknowledgedIsSettled, NothingVanishes, Owed, InHand
<1> QED
  BY <1>5, <1>6, <1>7, <1>10, <1>11

-----------------------------------------------------------------------------
(***************************************************************************)
(* What Redis gives out, read or lost.                                     *)
(***************************************************************************)
LEMMA DeliveredFacts ==
  ASSUME IInv, NEW g \in Groups, Oldest(g) <= Len(log[g[2]])
  PROVE  /\ Oldest(g) \in Nat /\ Newest(g) \in Nat
         /\ cursor[g] < Oldest(g) /\ Oldest(g) <= Newest(g) /\ Newest(g) <= Len(log[g[2]])
         /\ Oldest(g) = cursor[g] + 1 \/ Oldest(g) = trimmed[g[2]] + 1
         /\ Delivered(g) \in Seq(Nat) /\ Delivered(g) # <<>>
         /\ Elements(Delivered(g)) = Oldest(g)..Newest(g)
         /\ \A i \in DOMAIN Delivered(g) : Delivered(g)[i] \in Oldest(g)..Newest(g)
<1> USE DEF IInv
<1>1. g[2] \in Types /\ Len(log[g[2]]) \in Nat /\ trimmed[g[2]] \in Nat /\ cursor[g] \in Nat
      /\ cursor[g] <= Len(log[g[2]])
  BY GroupFacts, LenProperties DEF RedisTypeOK, GroupsInLog
<1>2. /\ Oldest(g) \in Nat /\ cursor[g] < Oldest(g)
      /\ Oldest(g) = cursor[g] + 1 \/ Oldest(g) = trimmed[g[2]] + 1
  BY <1>1 DEF Oldest
<1>3. Newest(g) \in Nat /\ Oldest(g) <= Newest(g) /\ Newest(g) <= Len(log[g[2]])
  BY <1>1, <1>2, RedisAssumption DEF Newest
<1> DEFINE n == Newest(g) + 1 - Oldest(g)
<1>4. n \in Nat \ {0}
  BY <1>2, <1>3
<1>5. Delivered(g) = [i \in 1..n |-> Oldest(g) + i - 1]
  BY DEF Delivered
<1>6. /\ DOMAIN Delivered(g) = 1..n
      /\ \A i \in 1..n : Delivered(g)[i] = Oldest(g) + i - 1
  BY <1>5
<1>7. \A i \in 1..n : Oldest(g) + i - 1 \in Oldest(g)..Newest(g) /\ Oldest(g) + i - 1 \in Nat
  BY <1>2, <1>3
<1>8. Delivered(g) \in [1..n -> Nat]
  BY <1>5, <1>7
<1>9. Delivered(g) \in Seq(Nat)
  BY <1>4, <1>8, SeqDef
<1>10. Delivered(g) # <<>>
  BY <1>4, <1>6, <1>9, LenProperties, EmptySeq
<1>11. Elements(Delivered(g)) = Oldest(g)..Newest(g)
  <2>1. \A x \in Oldest(g)..Newest(g) : x - Oldest(g) + 1 \in 1..n /\ x = Oldest(g) + (x - Oldest(g) + 1) - 1
    BY <1>2, <1>3
  <2>2. \A x \in Oldest(g)..Newest(g) : x \in Elements(Delivered(g))
    BY <1>6, <2>1 DEF Elements
  <2>3. \A x \in Elements(Delivered(g)) : x \in Oldest(g)..Newest(g)
    BY <1>6, <1>7 DEF Elements
  <2> QED BY <2>2, <2>3
<1> QED
  BY <1>2, <1>3, <1>6, <1>7, <1>9, <1>10, <1>11

(***************************************************************************)
(* A read moves the group past the entries it gives out, which are pending *)
(* now, and past those trimmed before.                                     *)
(***************************************************************************)
LEMMA GiveOutFacts ==
  ASSUME IInv, NEW w \in Replicas, NEW g \in Groups, GiveOut(w, g),
         UNCHANGED <<log, trimmed, born, handled, dead>>
  PROVE  /\ cursor' \in [Groups -> Nat] /\ cursor' = [cursor EXCEPT ![g] = Newest(g)]
         /\ pending' \in [Groups -> SUBSET Nat]
         /\ missed' \in [Groups -> SUBSET Nat]
         /\ GroupsInLog'
         /\ AcknowledgedIsSettled'
         /\ \A h \in Groups : /\ cursor[h] <= cursor'[h]
                              /\ missed[h] \subseteq missed'[h]
                              /\ Owed(h)' = Owed(h)
                              /\ \A i : Settled(h, i)' = Settled(h, i)
                              /\ h # g => cursor'[h] = cursor[h]
         /\ \A i \in Owed(g) : i <= cursor'[g] =>
              \/ i <= cursor[g]
              \/ i \in missed'[g]
              \/ i \in Elements(Delivered(g))
<1> USE DEF IInv
<1>1. /\ cursor' = [cursor EXCEPT ![g] = Newest(g)]
      /\ pending' = [pending EXCEPT ![g] = @ \cup Elements(Delivered(g))]
      /\ missed' = [missed EXCEPT ![g] = @ \cup (cursor[g] + 1)..(Oldest(g) - 1)]
      /\ UNCHANGED created
      /\ Oldest(g) <= Len(log[g[2]])
  BY DEF GiveOut
<1>2. /\ Oldest(g) \in Nat /\ Newest(g) \in Nat /\ cursor[g] \in Nat
      /\ cursor[g] < Oldest(g) /\ Oldest(g) <= Newest(g) /\ Newest(g) <= Len(log[g[2]])
      /\ Oldest(g) = cursor[g] + 1 \/ Oldest(g) = trimmed[g[2]] + 1
      /\ Elements(Delivered(g)) = Oldest(g)..Newest(g)
  BY <1>1, DeliveredFacts DEF RedisTypeOK
<1>3. /\ cursor' \in [Groups -> Nat]
      /\ \A h \in Groups : cursor'[h] = IF h = g THEN Newest(g) ELSE cursor[h]
  BY <1>1, <1>2 DEF RedisTypeOK
<1>4. /\ pending' \in [Groups -> SUBSET Nat]
      /\ \A h \in Groups : pending'[h] = IF h = g THEN pending[g] \cup Oldest(g)..Newest(g) ELSE pending[h]
  <2>1. Oldest(g)..Newest(g) \subseteq Nat
    BY <1>2
  <2> QED BY <1>1, <1>2, <2>1 DEF RedisTypeOK
<1>5. /\ missed' \in [Groups -> SUBSET Nat]
      /\ \A h \in Groups : missed'[h] = IF h = g THEN missed[g] \cup (cursor[g] + 1)..(Oldest(g) - 1) ELSE missed[h]
  <2>1. (cursor[g] + 1)..(Oldest(g) - 1) \subseteq Nat
    BY <1>2
  <2> QED BY <1>1, <2>1 DEF RedisTypeOK
<1>6. \A h \in Groups : /\ cursor[h] <= cursor'[h]
                        /\ missed[h] \subseteq missed'[h]
                        /\ Owed(h)' = Owed(h)
                        /\ \A i : Settled(h, i)' = Settled(h, i)
                        /\ h # g => cursor'[h] = cursor[h]
  <2> TAKE h \in Groups
  <2>1. cursor[h] \in Nat
    BY DEF RedisTypeOK
  <2>2. Owed(h)' = Owed(h) /\ \A i : Settled(h, i)' = Settled(h, i)
    BY <1>1 DEF Owed, Settled, Entry
  <2> QED BY <1>2, <1>3, <1>5, <2>1, <2>2
<1>7. GroupsInLog'
  <2> SUFFICES ASSUME NEW h \in Groups
               PROVE  /\ cursor'[h] <= Len(log[h[2]])
                      /\ \A i \in missed'[h] : 1 <= i /\ i <= trimmed[h[2]]
    BY DEF GroupsInLog
  <2>1. trimmed[g[2]] \in Nat
    BY GroupFacts DEF RedisTypeOK
  <2>2. CASE h # g
    BY <1>3, <1>5, <2>2 DEF GroupsInLog
  <2>3. CASE h = g
    <3>1. cursor'[g] <= Len(log[g[2]]) /\ missed[g] \subseteq Nat
      BY <1>2, <1>3 DEF RedisTypeOK
    <3>2. \A i \in (cursor[g] + 1)..(Oldest(g) - 1) : 1 <= i /\ i <= trimmed[g[2]]
      BY <1>2, <2>1
    <3>3. \A i \in missed[g] : 1 <= i /\ i <= trimmed[g[2]]
      BY DEF GroupsInLog
    <3>4. \A i \in missed'[g] : 1 <= i /\ i <= trimmed[g[2]]
      BY <1>5, <3>2, <3>3
    <3> QED BY <2>3, <3>1, <3>4
  <2> QED BY <2>2, <2>3
<1>8. \A i \in Owed(g) : i <= cursor'[g] =>
        \/ i <= cursor[g]
        \/ i \in missed'[g]
        \/ i \in Oldest(g)..Newest(g)
  <2>1. \A i \in Owed(g) : i \in Int
    BY DEF Owed
  <2> QED BY <1>2, <1>3, <1>5, <2>1
<1>9. AcknowledgedIsSettled'
  <2> SUFFICES ASSUME NEW h \in Groups, NEW i \in Owed(h), i <= cursor'[h], i \notin pending'[h]
               PROVE  Settled(h, i) \/ i \in missed'[h]
    BY <1>6 DEF AcknowledgedIsSettled
  <2>1. CASE h = g
    BY <1>4, <1>6, <1>8, <2>1 DEF AcknowledgedIsSettled
  <2>2. CASE h # g
    BY <1>3, <1>4, <1>6, <2>2 DEF AcknowledgedIsSettled
  <2> QED BY <2>1, <2>2
<1> QED
  BY <1>1, <1>2, <1>3, <1>4, <1>5, <1>6, <1>7, <1>8, <1>9

(***************************************************************************)
(* A read that is answered: what was given out is the batch of the loop.   *)
(***************************************************************************)
LEMMA ReadIInv ==
  ASSUME IInv, NEW w \in Replicas, NEW g \in Groups, Read(w, g)
  PROVE  IInv'
<1> USE DEF IInv
<1>1. /\ GiveOut(w, g) /\ GoesOn(w, g, Delivered(g)) /\ stage[w][g] = "reading"
      /\ Oldest(g) <= Len(log[g[2]]) /\ UNCHANGED created
      /\ UNCHANGED <<up, log, trimmed, born, handled, dead, stranded, faults>>
  BY DEF Read, GiveOut, streams
<1>2. /\ Oldest(g) \in Nat /\ Newest(g) \in Nat /\ cursor[g] < Oldest(g)
      /\ Newest(g) <= Len(log[g[2]])
      /\ Delivered(g) \in Seq(Nat) /\ Delivered(g) # <<>>
      /\ \A i \in DOMAIN Delivered(g) : Delivered(g)[i] \in Oldest(g)..Newest(g)
  BY <1>1, DeliveredFacts
<1>3. /\ cursor' \in [Groups -> Nat] /\ cursor' = [cursor EXCEPT ![g] = Newest(g)]
      /\ pending' \in [Groups -> SUBSET Nat]
      /\ missed' \in [Groups -> SUBSET Nat]
      /\ GroupsInLog'
      /\ AcknowledgedIsSettled'
      /\ \A h \in Groups : /\ cursor[h] <= cursor'[h]
                           /\ missed[h] \subseteq missed'[h]
                           /\ Owed(h)' = Owed(h)
                           /\ \A i : Settled(h, i)' = Settled(h, i)
                           /\ h # g => cursor'[h] = cursor[h]
      /\ \A i \in Owed(g) : i <= cursor'[g] =>
           \/ i <= cursor[g]
           \/ i \in missed'[g]
           \/ i \in Elements(Delivered(g))
  BY <1>1, GiveOutFacts
<1>4. \A i \in DOMAIN Delivered(g) : Delivered(g)[i] \in 1..Len(log[g[2]])
  <2>1. Len(log[g[2]]) \in Nat /\ cursor[g] \in Nat
    BY GroupFacts, LenProperties DEF RedisTypeOK
  <2> QED BY <1>2, <2>1
<1>5. /\ batch' \in [Replicas -> [Groups -> Seq(Nat)]]
      /\ batch' = [batch EXCEPT ![w][g] = Delivered(g)]
      /\ attempt' \in [Replicas -> [Groups -> 0..MaxRetries]]
      /\ stage' \in [Replicas -> [Groups -> Stages]]
      /\ stage' = [stage EXCEPT ![w][g] = stage'[w][g]]
      /\ stage'[w][g] \in InBatch <=> Delivered(g) # <<>>
      /\ stage'[w][g] = "acking" => Seen(cache[w][g[1]], Entry(g, Head(Delivered(g))))
      /\ cache' \in [Replicas -> [Bindings -> Seq(Keys)]]
      /\ \A v \in Replicas, c \in Bindings, k \in Keys :
           Seen(cache'[v][c], k) => Seen(cache[v][c], k)
  BY <1>1, <1>2, <1>4, GoesOnProps
<1>6. \A v \in Replicas, h \in Groups :
        /\ batch'[v][h] = IF v = w /\ h = g THEN Delivered(g) ELSE batch[v][h]
        /\ (v # w \/ h # g) => stage'[v][h] = stage[v][h]
  <2>1. \A v \in Replicas, h \in Groups :
          batch'[v][h] = IF v = w /\ h = g THEN Delivered(g) ELSE batch[v][h]
    BY <1>5 DEF RedisTypeOK
  <2>2. \A v \in Replicas, h \in Groups : (v # w \/ h # g) => stage'[v][h] = stage[v][h]
    <3> DEFINE to == stage'[w][g]
    <3>1. stage' = [stage EXCEPT ![w][g] = to]
      BY <1>5
    <3> HIDE DEF to
    <3> QED BY <3>1 DEF RedisTypeOK
  <2> QED BY <2>1, <2>2
<1>7. RedisTypeOK'
  BY <1>1, <1>3, <1>5 DEF RedisTypeOK
<1>8. LogTyped'
  BY <1>1 DEF LogTyped
<1>9. BatchInHand'
  <2> SUFFICES ASSUME NEW v \in Replicas, NEW h \in Groups
               PROVE  /\ \A i \in DOMAIN batch'[v][h] : 1 <= batch'[v][h][i] /\ batch'[v][h][i] <= cursor'[h]
                      /\ stage'[v][h] \in InBatch <=> batch'[v][h] # <<>>
    BY DEF BatchInHand
  <2>1. CASE v = w /\ h = g
    <3>1. cursor'[g] = Newest(g) /\ cursor[g] \in Nat
      BY <1>3 DEF RedisTypeOK
    <3> QED BY <1>2, <1>5, <1>6, <2>1, <3>1
  <2>2. CASE v # w \/ h # g
    <3>1. /\ cursor[h] \in Nat /\ cursor'[h] \in Nat
          /\ \A i \in DOMAIN batch[v][h] : batch[v][h][i] \in Nat
      BY <1>3, BatchTyped DEF RedisTypeOK
    <3> QED BY <1>3, <1>6, <2>2, <3>1 DEF BatchInHand
  <2> QED BY <2>1, <2>2
<1>10. CachedIsHandled'
  BY <1>1, <1>5, GroupFacts DEF CachedIsHandled
<1>11. AckingIsSettled'
  <2> SUFFICES ASSUME NEW v \in Replicas, NEW h \in Groups, stage'[v][h] = "acking"
               PROVE  Settled(h, Head(batch'[v][h]))
    BY <1>1 DEF AckingIsSettled, Settled, Entry
  <2>1. CASE v = w /\ h = g
    <3> DEFINE i == Head(Delivered(g))
    <3>1. 1 \in DOMAIN Delivered(g) /\ i = Delivered(g)[1]
      BY <1>2, EmptySeq, LenProperties
    <3>2. i \in 1..Len(log[g[2]]) /\ log[g[2]] \in Seq(Keys) /\ g[2] \in Types
      BY <1>4, <3>1, GroupFacts DEF RedisTypeOK
    <3>3. Entry(g, i) \in Keys /\ TypeOf[Entry(g, i)] = g[2] /\ i \in DOMAIN log[g[2]]
      BY <3>2, LenProperties, ElementOfSeq DEF Entry, LogTyped
    <3>4. Entry(g, i) \in handled[g]
      BY <1>5, <2>1, <3>3 DEF CachedIsHandled
    <3> QED BY <1>6, <2>1, <3>3, <3>4 DEF Settled
  <2>2. CASE v # w \/ h # g
    BY <1>6, <2>2 DEF AckingIsSettled
  <2> QED BY <2>1, <2>2
<1>12. NothingVanishes'
  <2> SUFFICES ASSUME NEW h \in Groups, NEW i \in Owed(h), i <= cursor'[h]
               PROVE  Settled(h, i) \/ InHand(h, i)' \/ i \in stranded[h] \/ i \in missed'[h]
    BY <1>1, <1>3 DEF NothingVanishes
  <2>1. batch[w][g] = <<>>
    BY <1>1 DEF BatchInHand, InBatch
  <2>2. ASSUME InHand(h, i) PROVE InHand(h, i)'
    <3>1. PICK v \in Replicas : i \in Elements(batch[v][h])
      BY <2>2 DEF InHand
    <3>2. v # w \/ h # g
      BY <2>1, <3>1 DEF Elements
    <3> QED BY <1>6, <3>1, <3>2 DEF InHand
  <2>3. CASE i <= cursor[h]
    BY <1>3, <2>2, <2>3 DEF NothingVanishes
  <2>4. CASE ~(i <= cursor[h])
    <3>1. h = g
      BY <1>3, <2>4
    <3>2. CASE i \in Elements(Delivered(g))
      BY <1>6, <3>1, <3>2 DEF InHand
    <3> QED BY <1>3, <2>4, <3>1, <3>2
  <2> QED BY <2>3, <2>4
<1> QED
  BY <1>3, <1>7, <1>8, <1>9, <1>10, <1>11, <1>12

(***************************************************************************)
(* A reply that is lost: what was given out is stranded.                   *)
(***************************************************************************)
LEMMA ReadReplyLostIInv ==
  ASSUME IInv, NEW w \in Replicas, NEW g \in Groups, ReadReplyLost(w, g)
  PROVE  IInv'
<1> USE DEF IInv
<1>1. /\ GiveOut(w, g) /\ Oldest(g) <= Len(log[g[2]]) /\ UNCHANGED created
      /\ stranded' = [stranded EXCEPT ![g] = @ \cup Elements(Delivered(g))]
      /\ UNCHANGED <<up, stage, batch, attempt, cache, log, trimmed, born, handled, dead>>
      /\ faults' = faults + 1
  BY DEF ReadReplyLost, GiveOut, Strand, Fault, streams, readers
<1>2. /\ Elements(Delivered(g)) = Oldest(g)..Newest(g)
      /\ Oldest(g) \in Nat /\ Newest(g) \in Nat
  BY <1>1, DeliveredFacts
<1>3. /\ cursor' \in [Groups -> Nat]
      /\ pending' \in [Groups -> SUBSET Nat]
      /\ missed' \in [Groups -> SUBSET Nat]
      /\ GroupsInLog'
      /\ AcknowledgedIsSettled'
      /\ \A h \in Groups : /\ cursor[h] <= cursor'[h]
                           /\ missed[h] \subseteq missed'[h]
                           /\ Owed(h)' = Owed(h)
                           /\ \A i : Settled(h, i)' = Settled(h, i)
                           /\ h # g => cursor'[h] = cursor[h]
      /\ \A i \in Owed(g) : i <= cursor'[g] =>
           \/ i <= cursor[g]
           \/ i \in missed'[g]
           \/ i \in Elements(Delivered(g))
  BY <1>1, GiveOutFacts
<1>4. /\ stranded' \in [Groups -> SUBSET Nat]
      /\ \A h \in Groups : stranded[h] \subseteq stranded'[h]
      /\ Elements(Delivered(g)) \subseteq stranded'[g]
  <2> DEFINE lost == Elements(Delivered(g))
  <2>1. lost \subseteq Nat
    BY <1>2
  <2>2. stranded' = [stranded EXCEPT ![g] = @ \cup lost]
    BY <1>1
  <2> HIDE DEF lost
  <2>3. /\ stranded' \in [Groups -> SUBSET Nat]
        /\ \A h \in Groups : stranded[h] \subseteq stranded'[h]
        /\ lost \subseteq stranded'[g]
    BY <2>1, <2>2 DEF RedisTypeOK
  <2> QED BY <2>3 DEF lost
<1>5. RedisTypeOK'
  BY <1>1, <1>3, <1>4 DEF RedisTypeOK
<1>6. LogTyped' /\ CachedIsHandled'
  BY <1>1 DEF LogTyped, CachedIsHandled
<1>7. BatchInHand'
  <2>1. \A v \in Replicas, h \in Groups : \A i \in DOMAIN batch[v][h] :
          1 <= batch[v][h][i] /\ batch[v][h][i] <= cursor'[h]
    <3> TAKE v \in Replicas, h \in Groups
    <3> TAKE i \in DOMAIN batch[v][h]
    <3>1. batch[v][h][i] \in Nat /\ cursor[h] \in Nat /\ cursor'[h] \in Nat
      BY <1>3, BatchTyped DEF RedisTypeOK
    <3> QED BY <1>3, <3>1 DEF BatchInHand
  <2> QED BY <1>1, <2>1 DEF BatchInHand
<1>8. AckingIsSettled'
  BY <1>1, <1>3 DEF AckingIsSettled
<1>9. NothingVanishes'
  <2> SUFFICES ASSUME NEW h \in Groups, NEW i \in Owed(h), i <= cursor'[h]
               PROVE  Settled(h, i) \/ InHand(h, i) \/ i \in stranded'[h] \/ i \in missed'[h]
    BY <1>1, <1>3 DEF NothingVanishes, InHand
  <2>1. CASE i <= cursor[h]
    BY <1>3, <1>4, <2>1 DEF NothingVanishes
  <2>2. CASE ~(i <= cursor[h])
    BY <1>3, <1>4, <2>2
  <2> QED BY <2>1, <2>2
<1> QED
  BY <1>3, <1>5, <1>6, <1>7, <1>8, <1>9

-----------------------------------------------------------------------------
(***************************************************************************)
(* The end of a process: its caches are gone, its batches are stranded.    *)
(***************************************************************************)
LEMMA DownIInv ==
  ASSUME IInv, NEW w \in Replicas, Down(w)
  PROVE  IInv'
<1> USE DEF IInv
<1>1. /\ up' = [up EXCEPT ![w] = FALSE]
      /\ stage' = [stage EXCEPT ![w] = [g \in Groups |-> "none"]]
      /\ batch' = [batch EXCEPT ![w] = [g \in Groups |-> <<>>]]
      /\ attempt' = [attempt EXCEPT ![w] = [g \in Groups |-> 0]]
      /\ cache' = [cache EXCEPT ![w] = [b \in Bindings |-> <<>>]]
      /\ stranded' = [g \in Groups |-> stranded[g] \cup Elements(batch[w][g])]
      /\ faults' = faults + 1
      /\ UNCHANGED <<log, trimmed, created, cursor, pending, born, handled, dead, missed>>
  BY DEF Down, Fault, streams, groups
<1>2. \A v \in Replicas, g \in Groups :
        /\ stage'[v][g] = IF v = w THEN "none" ELSE stage[v][g]
        /\ batch'[v][g] = IF v = w THEN <<>> ELSE batch[v][g]
        /\ cache'[v][g[1]] = IF v = w THEN <<>> ELSE cache[v][g[1]]
  BY <1>1, GroupFacts DEF RedisTypeOK
<1>3. \A g \in Groups : Elements(batch[w][g]) \subseteq Nat
  BY BatchTyped DEF Elements
<1>4. RedisTypeOK'
  <2>1. up' \in [Replicas -> BOOLEAN] /\ faults' \in Nat
    BY <1>1 DEF RedisTypeOK
  <2>2. stage' \in [Replicas -> [Groups -> Stages]]
    <3>1. [g \in Groups |-> "none"] \in [Groups -> Stages]
      BY DEF Stages
    <3> QED BY <1>1, <3>1 DEF RedisTypeOK
  <2>3. batch' \in [Replicas -> [Groups -> Seq(Nat)]]
    <3>1. [g \in Groups |-> <<>>] \in [Groups -> Seq(Nat)]
      OBVIOUS
    <3> QED BY <1>1, <3>1 DEF RedisTypeOK
  <2>4. attempt' \in [Replicas -> [Groups -> 0..MaxRetries]]
    <3>1. [g \in Groups |-> 0] \in [Groups -> 0..MaxRetries]
      BY CacheAssumption
    <3> QED BY <1>1, <3>1 DEF RedisTypeOK
  <2>5. cache' \in [Replicas -> [Bindings -> Seq(Keys)]]
    <3>1. [b \in Bindings |-> <<>>] \in [Bindings -> Seq(Keys)]
      OBVIOUS
    <3> QED BY <1>1, <3>1 DEF RedisTypeOK
  <2>6. stranded' \in [Groups -> SUBSET Nat]
    BY <1>1, <1>3 DEF RedisTypeOK
  <2> QED BY <1>1, <2>1, <2>2, <2>3, <2>4, <2>5, <2>6 DEF RedisTypeOK
<1>5. LogTyped' /\ GroupsInLog' /\ AcknowledgedIsSettled'
  BY <1>1 DEF LogTyped, GroupsInLog, AcknowledgedIsSettled, Owed, Settled, Entry
<1>6. BatchInHand'
  BY <1>1, <1>2 DEF BatchInHand, InBatch
<1>7. CachedIsHandled'
  BY <1>1, <1>2 DEF CachedIsHandled, Seen
<1>8. AckingIsSettled'
  BY <1>1, <1>2 DEF AckingIsSettled, Settled, Entry
<1>9. NothingVanishes'
  <2> SUFFICES ASSUME NEW g \in Groups, NEW i \in Owed(g), i <= cursor[g]
               PROVE  Settled(g, i) \/ InHand(g, i)' \/ i \in stranded'[g] \/ i \in missed[g]
    BY <1>1 DEF NothingVanishes, Owed, Settled, Entry
  <2>1. InHand(g, i) => InHand(g, i)' \/ i \in stranded'[g]
    BY <1>1, <1>2 DEF InHand
  <2>2. i \in stranded[g] => i \in stranded'[g]
    BY <1>1
  <2> QED BY <2>1, <2>2 DEF NothingVanishes
<1> QED
  BY <1>4, <1>5, <1>6, <1>7, <1>8, <1>9

(***************************************************************************)
(* Taking the entry being acknowledged off the pending list is safe: it is *)
(* settled.                                                                *)
(***************************************************************************)
LEMMA AcknowledgeFacts ==
  ASSUME IInv, NEW w \in Replicas, NEW g \in Groups, stage[w][g] = "acking",
         pending' = [pending EXCEPT ![g] = @ \ {Head(batch[w][g])}],
         UNCHANGED <<log, created, cursor, born, handled, missed>>,
         \A h \in Groups : dead[h] \subseteq dead'[h]
  PROVE  pending' \in [Groups -> SUBSET Nat] /\ AcknowledgedIsSettled'
<1> USE DEF IInv
<1> DEFINE i == Head(batch[w][g])
<1>1. Settled(g, i)
  BY DEF AckingIsSettled
<1> HIDE DEF i
<1>2. /\ pending' \in [Groups -> SUBSET Nat]
      /\ \A h \in Groups : pending'[h] = IF h = g THEN pending[g] \ {i} ELSE pending[h]
  BY DEF RedisTypeOK, i
<1>3. \A h \in Groups : \A j : Settled(h, j) => Settled(h, j)'
  BY DEF Settled, Entry
<1>4. AcknowledgedIsSettled'
  BY <1>1, <1>2, <1>3 DEF AcknowledgedIsSettled, Owed
<1> QED
  BY <1>2, <1>4

(***************************************************************************)
(* An acknowledgement, and the rest of the batch.                          *)
(***************************************************************************)
LEMMA AckIInv ==
  ASSUME IInv, NEW w \in Replicas, NEW g \in Groups, Ack(w, g)
  PROVE  IInv'
<1> USE DEF IInv
<1> DEFINE b    == batch[w][g]
           rest == Tail(b)
<1>1. /\ stage[w][g] = "acking"
      /\ pending' = [pending EXCEPT ![g] = @ \ {Head(b)}]
      /\ GoesOn(w, g, rest)
      /\ UNCHANGED <<up, log, trimmed, created, cursor, born, handled, dead, stranded, missed, faults>>
  BY DEF Ack, streams, past
<1>2. /\ b \in Seq(Nat) /\ b # <<>>
      /\ Settled(g, Head(b))
  BY <1>1, BatchTyped DEF BatchInHand, AckingIsSettled, InBatch
<1>3. /\ rest \in Seq(Nat) /\ DOMAIN rest = 1..(Len(b) - 1)
      /\ DOMAIN b = 1..Len(b) /\ Len(b) \in Nat \ {0}
      /\ \A j \in DOMAIN rest : rest[j] = b[j + 1]
  BY <1>2, HeadTailProperties, LenProperties, EmptySeq
<1>4. \A j \in DOMAIN rest : rest[j] \in Nat /\ 1 <= rest[j] /\ rest[j] <= cursor[g]
  BY <1>3, BatchTyped DEF BatchInHand
<1>5. /\ g[2] \in Types /\ log[g[2]] \in Seq(Keys) /\ Len(log[g[2]]) \in Nat
      /\ cursor[g] \in Nat /\ cursor[g] <= Len(log[g[2]])
      /\ DOMAIN log[g[2]] = 1..Len(log[g[2]])
  BY GroupFacts, LenProperties DEF RedisTypeOK, GroupsInLog
<1>6. \A j \in DOMAIN rest : rest[j] \in 1..Len(log[g[2]])
  BY <1>4, <1>5
<1>7. Elements(b) = {Head(b)} \cup Elements(rest)
  BY <1>2, ElementsOfTail
<1> HIDE DEF rest
<1>8. /\ batch' \in [Replicas -> [Groups -> Seq(Nat)]]
      /\ batch' = [batch EXCEPT ![w][g] = rest]
      /\ attempt' \in [Replicas -> [Groups -> 0..MaxRetries]]
      /\ stage' \in [Replicas -> [Groups -> Stages]]
      /\ stage' = [stage EXCEPT ![w][g] = stage'[w][g]]
      /\ stage'[w][g] \in InBatch <=> rest # <<>>
      /\ stage'[w][g] = "acking" => Seen(cache[w][g[1]], Entry(g, Head(rest)))
      /\ cache' \in [Replicas -> [Bindings -> Seq(Keys)]]
      /\ \A v \in Replicas, c \in Bindings, k \in Keys :
           Seen(cache'[v][c], k) => Seen(cache[v][c], k)
  BY <1>1, <1>3, <1>6, GoesOnProps
<1>9. \A v \in Replicas, h \in Groups :
        /\ batch'[v][h] = IF v = w /\ h = g THEN rest ELSE batch[v][h]
        /\ (v # w \/ h # g) => stage'[v][h] = stage[v][h]
  <2>1. \A v \in Replicas, h \in Groups :
          batch'[v][h] = IF v = w /\ h = g THEN rest ELSE batch[v][h]
    BY <1>8 DEF RedisTypeOK
  <2>2. \A v \in Replicas, h \in Groups : (v # w \/ h # g) => stage'[v][h] = stage[v][h]
    <3> DEFINE to == stage'[w][g]
    <3>1. stage' = [stage EXCEPT ![w][g] = to]
      BY <1>8
    <3> HIDE DEF to
    <3> QED BY <3>1 DEF RedisTypeOK
  <2> QED BY <2>1, <2>2
<1>10. pending' \in [Groups -> SUBSET Nat] /\ AcknowledgedIsSettled'
  BY <1>1, AcknowledgeFacts
<1>11. RedisTypeOK'
  BY <1>1, <1>8, <1>10 DEF RedisTypeOK
<1>12. LogTyped' /\ GroupsInLog'
  BY <1>1 DEF LogTyped, GroupsInLog
<1>13. BatchInHand'
  <2> SUFFICES ASSUME NEW v \in Replicas, NEW h \in Groups
               PROVE  /\ \A i \in DOMAIN batch'[v][h] : 1 <= batch'[v][h][i] /\ batch'[v][h][i] <= cursor[h]
                      /\ stage'[v][h] \in InBatch <=> batch'[v][h] # <<>>
    BY <1>1 DEF BatchInHand
  <2>1. CASE v = w /\ h = g
    BY <1>4, <1>8, <1>9, <2>1
  <2>2. CASE v # w \/ h # g
    BY <1>9, <2>2 DEF BatchInHand
  <2> QED BY <2>1, <2>2
<1>14. CachedIsHandled'
  BY <1>1, <1>8, GroupFacts DEF CachedIsHandled
<1>15. AckingIsSettled'
  <2> SUFFICES ASSUME NEW v \in Replicas, NEW h \in Groups, stage'[v][h] = "acking"
               PROVE  Settled(h, Head(batch'[v][h]))
    BY <1>1 DEF AckingIsSettled, Settled, Entry
  <2>1. CASE v = w /\ h = g
    <3> DEFINE i == Head(rest)
    <3>0. rest # <<>>
      BY <1>8, <2>1 DEF InBatch
    <3>1. 1 \in DOMAIN rest /\ i = rest[1]
      BY <1>3, <3>0, EmptySeq, LenProperties
    <3>2. Entry(g, i) \in Keys /\ TypeOf[Entry(g, i)] = g[2] /\ i \in DOMAIN log[g[2]]
      BY <1>5, <1>6, <3>1, ElementOfSeq DEF Entry, LogTyped
    <3>3. Entry(g, i) \in handled[g]
      BY <1>8, <2>1, <3>2 DEF CachedIsHandled
    <3> QED BY <1>9, <2>1, <3>2, <3>3 DEF Settled
  <2>2. CASE v # w \/ h # g
    BY <1>9, <2>2 DEF AckingIsSettled
  <2> QED BY <2>1, <2>2
<1>16. NothingVanishes'
  <2> SUFFICES ASSUME NEW h \in Groups, NEW i \in Owed(h), i <= cursor[h]
               PROVE  Settled(h, i) \/ InHand(h, i)' \/ i \in stranded[h] \/ i \in missed[h]
    BY <1>1 DEF NothingVanishes, Owed, Settled, Entry
  <2>1. ASSUME InHand(h, i) PROVE InHand(h, i)' \/ Settled(h, i)
    <3>1. PICK v \in Replicas : i \in Elements(batch[v][h])
      BY <2>1 DEF InHand
    <3>2. CASE v = w /\ h = g
      BY <1>2, <1>7, <1>9, <3>1, <3>2 DEF InHand
    <3>3. CASE v # w \/ h # g
      BY <1>9, <3>1, <3>3 DEF InHand
    <3> QED BY <3>2, <3>3
  <2> QED BY <2>1 DEF NothingVanishes
<1> QED
  BY <1>10, <1>11, <1>12, <1>13, <1>14, <1>15, <1>16

-----------------------------------------------------------------------------
(***************************************************************************)
(* A failed command ends the read loop: the rest of its batch is stranded. *)
(***************************************************************************)
LEMMA CommandFailsIInv ==
  ASSUME IInv, NEW w \in Replicas, NEW g \in Groups, CommandFails(w, g)
  PROVE  IInv'
<1> USE DEF IInv
<1>1. /\ stage[w][g] \in InBatch
      /\ stage' = [stage EXCEPT ![w][g] = "ended"]
      /\ batch' = [batch EXCEPT ![w][g] = <<>>]
      /\ attempt' = [attempt EXCEPT ![w][g] = 0]
      /\ stranded' = [stranded EXCEPT ![g] = @ \cup Elements(batch[w][g])]
      /\ faults' = faults + 1
      /\ UNCHANGED <<up, cache, log, trimmed, created, cursor, born, handled, missed>>
  BY DEF CommandFails, Fault, Strand, Goes, InBatch, streams
<1>2. \/ UNCHANGED <<pending, dead>>
      \/ /\ stage[w][g] = "acking"
         /\ pending' = [pending EXCEPT ![g] = @ \ {Head(batch[w][g])}]
         /\ UNCHANGED dead
      \/ /\ dead' = [dead EXCEPT ![g] = @ \cup {Current(w, g)}]
         /\ UNCHANGED pending
  BY DEF CommandFails
<1>3. \A v \in Replicas, h \in Groups :
        /\ stage'[v][h] = IF v = w /\ h = g THEN "ended" ELSE stage[v][h]
        /\ batch'[v][h] = IF v = w /\ h = g THEN <<>> ELSE batch[v][h]
  BY <1>1 DEF RedisTypeOK
<1>4. /\ stranded' \in [Groups -> SUBSET Nat]
      /\ \A h \in Groups : stranded[h] \subseteq stranded'[h]
      /\ Elements(batch[w][g]) \subseteq stranded'[g]
  <2> DEFINE lost == Elements(batch[w][g])
  <2>1. lost \subseteq Nat
    BY BatchTyped DEF Elements
  <2>2. stranded' = [stranded EXCEPT ![g] = @ \cup lost]
    BY <1>1
  <2> HIDE DEF lost
  <2>3. /\ stranded' \in [Groups -> SUBSET Nat]
        /\ \A h \in Groups : stranded[h] \subseteq stranded'[h]
        /\ lost \subseteq stranded'[g]
    BY <2>1, <2>2 DEF RedisTypeOK
  <2> QED BY <2>3 DEF lost
<1>5. dead' \in [Groups -> SUBSET Keys] /\ \A h \in Groups : dead[h] \subseteq dead'[h]
  <2>1. Current(w, g) \in Keys
    BY <1>1, CurrentFacts
  <2>2. CASE UNCHANGED dead
    BY <2>2 DEF RedisTypeOK
  <2>3. CASE dead' = [dead EXCEPT ![g] = @ \cup {Current(w, g)}]
    <3> DEFINE k == Current(w, g)
    <3>1. k \in Keys /\ dead' = [dead EXCEPT ![g] = @ \cup {k}]
      BY <2>1, <2>3
    <3> HIDE DEF k
    <3> QED BY <3>1 DEF RedisTypeOK
  <2> QED BY <1>2, <2>2, <2>3
<1>6. \A h \in Groups : \A i : Settled(h, i) => Settled(h, i)'
  BY <1>1, <1>5 DEF Settled, Entry
<1>7. pending' \in [Groups -> SUBSET Nat] /\ AcknowledgedIsSettled'
  <2>1. CASE UNCHANGED pending
    BY <1>1, <1>6, <2>1 DEF RedisTypeOK, AcknowledgedIsSettled, Owed
  <2>2. CASE /\ stage[w][g] = "acking"
             /\ pending' = [pending EXCEPT ![g] = @ \ {Head(batch[w][g])}]
    BY <1>1, <1>5, <2>2, AcknowledgeFacts
  <2> QED BY <1>2, <2>1, <2>2
<1>8. RedisTypeOK'
  <2>1. stage' \in [Replicas -> [Groups -> Stages]]
    BY <1>1 DEF RedisTypeOK, Stages
  <2>2. batch' \in [Replicas -> [Groups -> Seq(Nat)]] /\ faults' \in Nat
    BY <1>1 DEF RedisTypeOK
  <2>3. attempt' \in [Replicas -> [Groups -> 0..MaxRetries]]
    BY <1>1, CacheAssumption DEF RedisTypeOK
  <2> QED BY <1>1, <1>4, <1>5, <1>7, <2>1, <2>2, <2>3 DEF RedisTypeOK
<1>9. LogTyped' /\ GroupsInLog' /\ CachedIsHandled'
  BY <1>1 DEF LogTyped, GroupsInLog, CachedIsHandled
<1>10. BatchInHand'
  BY <1>1, <1>3 DEF BatchInHand, InBatch
<1>11. AckingIsSettled'
  BY <1>1, <1>3, <1>6 DEF AckingIsSettled
<1>12. NothingVanishes'
  <2> SUFFICES ASSUME NEW h \in Groups, NEW i \in Owed(h), i <= cursor[h]
               PROVE  Settled(h, i)' \/ InHand(h, i)' \/ i \in stranded'[h] \/ i \in missed[h]
    BY <1>1 DEF NothingVanishes, Owed
  <2>1. InHand(h, i) => InHand(h, i)' \/ i \in stranded'[h]
    BY <1>3, <1>4 DEF InHand
  <2> QED BY <1>4, <1>6, <2>1 DEF NothingVanishes
<1> QED
  BY <1>7, <1>8, <1>9, <1>10, <1>11, <1>12

-----------------------------------------------------------------------------
(***************************************************************************)
(* The invariant is inductive.                                             *)
(***************************************************************************)
LEMMA NextIInv == IInv /\ [RedisNext]_redisVars => IInv'
<1> SUFFICES ASSUME IInv, [RedisNext]_redisVars PROVE IInv'
  OBVIOUS
<1>1. CASE \E k \in Keys : Publish(k)
  BY <1>1, PublishIInv
<1>2. CASE \E w \in Replicas : StartBus(w) \/ Down(w)
  BY <1>2, StartIInv, DownIInv
<1>3. CASE \E w \in Replicas, g \in Groups : Bind(w, g)
  BY <1>3, BindIInv
<1>4. CASE \E w \in Replicas, g \in Groups : ReadLoop(w, g)
  BY <1>4, ReadIInv, SucceedIInv, RetryIInv, ParkIInv, AckIInv DEF ReadLoop
<1>5. CASE \E w \in Replicas, g \in Groups : ReadReplyLost(w, g) \/ CommandFails(w, g)
  BY <1>5, ReadReplyLostIInv, CommandFailsIInv
<1>6. CASE UNCHANGED redisVars
  <2> USE <1>6 DEF IInv, redisVars, readers, streams, groups, past
  <2>1. RedisTypeOK'
    BY DEF RedisTypeOK
  <2>2. LogTyped' /\ GroupsInLog' /\ BatchInHand' /\ CachedIsHandled'
    BY DEF LogTyped, GroupsInLog, BatchInHand, CachedIsHandled
  <2>3. AckingIsSettled' /\ AcknowledgedIsSettled' /\ NothingVanishes'
    BY DEF AckingIsSettled, AcknowledgedIsSettled, NothingVanishes, Settled, Entry, Owed, InHand
  <2> QED BY <2>1, <2>2, <2>3
<1> QED
  BY <1>1, <1>2, <1>3, <1>4, <1>5, <1>6 DEF RedisNext

(***************************************************************************)
(* The invariant holds in every state of every behaviour.                  *)
(***************************************************************************)
LEMMA AlwaysIInv == RedisSpec => []IInv
<1>1. RedisInit => IInv
  BY InitIInv
<1>2. IInv /\ [RedisNext]_redisVars => IInv'
  BY NextIInv
<1> QED
  BY <1>1, <1>2, PTL DEF RedisSpec

(***************************************************************************)
(* Every variable keeps its type.                                          *)
(***************************************************************************)
THEOREM TypeCorrect == RedisSpec => []RedisTypeOK
<1>1. IInv => RedisTypeOK
  BY DEF IInv
<1> QED
  BY <1>1, AlwaysIInv, PTL

(***************************************************************************)
(* An xack never precedes its reason: what a group no longer has pending   *)
(* was handled, dead-lettered or trimmed unread, whatever processes end,   *)
(* replies get lost and commands fail (_read_loop, _handle).               *)
(***************************************************************************)
THEOREM AcknowledgementHasReason == RedisSpec => []AcknowledgedIsSettled
<1>1. IInv => AcknowledgedIsSettled
  BY DEF IInv
<1> QED
  BY <1>1, AlwaysIInv, PTL

(***************************************************************************)
(* An entry given out is settled, in the hands of a running read loop, or  *)
(* was taken from one by a fault (_read_loop, _handle, stop).              *)
(***************************************************************************)
THEOREM OnlyFaultsStrand == RedisSpec => []NothingVanishes
<1>1. IInv => NothingVanishes
  BY DEF IInv
<1> QED
  BY <1>1, AlwaysIInv, PTL
=============================================================================
