------------------------------ MODULE RedisBus ------------------------------
(***************************************************************************)
(* messaging/redis_streams.py: the event bus over Redis Streams.  Every    *)
(* event type is a stream; a subscription reads each of its types in a     *)
(* task of its own, through the consumer group named after the             *)
(* subscription.  A read loop asks for entries nobody of its group was     *)
(* given yet, handles them one by one with retries in place, and           *)
(* acknowledges each.                                                      *)
(*                                                                         *)
(* Redis (external) keeps, per group, the last entry it gave out and the   *)
(* list of those given out and not acknowledged, and trims a stream when   *)
(* something is added.  A publication goes through in one step; whoever    *)
(* publishes does so through a bus that has been started.                  *)
(*                                                                         *)
(* Replicas are processes with the same subscriptions and different        *)
(* consumer_ids ("load balancing").                                        *)
(***************************************************************************)
EXTENDS IdempotencyCache, FiniteSets

CONSTANTS Replicas,
          Bindings,      \* the subscriptions, by consumer_name
          Types,         \* the event types, one stream each
          Subscribed,    \* Subscribed[b]: the types _resolve_types gives for b
          Keys,          \* the events
          TypeOf,        \* TypeOf[k]: the type of event k
          Malformed,     \* the events that do not deserialize
          Count,         \* the most entries one xreadgroup returns
          MaxLen,        \* RedisSettings.stream_maxlen
          MaxPublished,  \* bound: publications
          MaxFaults      \* bound: lost replies, failed commands, processes that end

ASSUME RedisAssumption ==
  /\ Subscribed \in [Bindings -> SUBSET Types]
  /\ TypeOf \in [Keys -> Types]
  /\ Malformed \subseteq Keys
  /\ Count \in Nat \ {0}
  /\ MaxLen \in Nat \ {0}
  /\ MaxPublished \in Nat
  /\ MaxFaults \in Nat

Groups == {g \in Bindings \X Types : g[2] \in Subscribed[g[1]]}

VARIABLES
  up,         \* per worker, its bus has been started (_running)
  stage,      \* stage[w][g]: where the read loop of w for group g is (Stages)
  batch,      \* stage[w][g]: the entries of the last read still to be done
  attempt,    \* attempt[w][g]: _handle's local attempt
  cache,      \* cache[w][b]: the IdempotencyCache of w's binding b
  log,        \* per type, every event ever added to its stream
  trimmed,    \* per type, how many of the oldest entries Redis has removed
  created,    \* per group, whether it exists
  cursor,     \* per group, the last entry given out
  pending,    \* per group, the entries given out and not acknowledged
  born,       \* history: per group, the last entry before it was created
  handled,    \* history: per group, the events its handler has returned from
  dead,       \* history: per group, the events it wrote to the dead-letter stream
  stranded,   \* history: per group, the entries a fault took from their reader
  missed,     \* history: per group, the entries trimmed before they were read
  faults      \* history: how many faults there were

readers   == <<stage, batch, attempt, cache>>
groups    == <<created, cursor, pending>>
streams   == <<log, trimmed>>
past      == <<born, handled, dead, stranded, missed, faults>>
redisVars == <<up, readers, streams, groups, past>>

(***************************************************************************)
(* none       no task                                                      *)
(* reading    awaits xreadgroup                                            *)
(* handling   awaits the handler                                           *)
(* backoff    sleeps before the next attempt                               *)
(* parking    awaits the write to the dead-letter stream                   *)
(* acking     awaits xack                                                  *)
(* ended      the task ended with the exception of one of the last two     *)
(***************************************************************************)
Stages == {"none", "reading", "handling", "backoff", "parking", "acking", "ended"}
InBatch == {"handling", "backoff", "parking", "acking"}

Entry(g, i)   == log[g[2]][i]
Current(w, g) == Entry(g, Head(batch[w][g]))
Elements(s)   == {s[i] : i \in DOMAIN s}

RedisInit ==
  /\ up = [w \in Replicas |-> FALSE]
  /\ stage = [w \in Replicas |-> [g \in Groups |-> "none"]]
  /\ batch = [w \in Replicas |-> [g \in Groups |-> <<>>]]
  /\ attempt = [w \in Replicas |-> [g \in Groups |-> 0]]
  /\ cache = [w \in Replicas |-> [b \in Bindings |-> <<>>]]
  /\ log = [t \in Types |-> <<>>]
  /\ trimmed = [t \in Types |-> 0]
  /\ created = [g \in Groups |-> FALSE]
  /\ cursor = [g \in Groups |-> 0]
  /\ pending = [g \in Groups |-> {}]
  /\ born = [g \in Groups |-> 0]
  /\ handled = [g \in Groups |-> {}]
  /\ dead = [g \in Groups |-> {}]
  /\ stranded = [g \in Groups |-> {}]
  /\ missed = [g \in Groups |-> {}]
  /\ faults = 0

-----------------------------------------------------------------------------
\* XADD MAXLEN ~: Redis may keep more than MaxLen entries, never fewer.
TrimTo(t, n) == n = trimmed[t] \/ n \in trimmed[t]..(Len(log[t]) + 1 - MaxLen)

\* publish(event)
Publish(k) ==
  LET t == TypeOf[k] IN
  /\ Len(log[t]) < MaxPublished
  /\ log' = [log EXCEPT ![t] = Append(@, k)]
  /\ \E n \in 0..(MaxPublished + 1) : TrimTo(t, n) /\ trimmed' = [trimmed EXCEPT ![t] = n]
  /\ UNCHANGED <<up, readers, groups, past>>

\* start() up to its first await.
StartBus(w) ==
  /\ ~up[w]
  /\ up' = [up EXCEPT ![w] = TRUE]
  /\ UNCHANGED <<readers, streams, groups, past>>

\* Mutant: BUSYGROUP, the error for a group that exists, ends start().
BindNewOnly(w, g) ==
  /\ up[w]
  /\ stage[w][g] = "none"
  /\ ~created[g]
  /\ stage' = [stage EXCEPT ![w][g] = "reading"]
  /\ created' = [created EXCEPT ![g] = TRUE]
  /\ cursor' = [cursor EXCEPT ![g] = Len(log[g[2]])]
  /\ born' = [born EXCEPT ![g] = Len(log[g[2]])]
  /\ UNCHANGED <<up, batch, attempt, cache, streams, pending, handled, dead, stranded,
                 missed, faults>>

\* start() for one group: it is created at the end of its stream unless it
\* exists, and its read loop is made.  The order of the groups is left open.
Bind(w, g) ==
  /\ up[w]
  /\ stage[w][g] = "none"
  /\ stage' = [stage EXCEPT ![w][g] = "reading"]
  /\ IF created[g]
     THEN UNCHANGED <<created, cursor, born>>
     ELSE /\ created' = [created EXCEPT ![g] = TRUE]
          /\ cursor' = [cursor EXCEPT ![g] = Len(log[g[2]])]
          /\ born' = [born EXCEPT ![g] = Len(log[g[2]])]
  /\ UNCHANGED <<up, batch, attempt, cache, streams, pending, handled, dead, stranded,
                 missed, faults>>

-----------------------------------------------------------------------------
\* A fault that takes the entries lost from whoever was to handle them.
Fault == faults < MaxFaults /\ faults' = faults + 1
Strand(g, lost) == stranded' = [stranded EXCEPT ![g] = @ \cup lost]

(***************************************************************************)
(* The process ends, by a crash or by stop(), which cancels every loop at  *)
(* the await it is in; a new one starts with empty caches.                 *)
(***************************************************************************)
Down(w) ==
  /\ up[w]
  /\ Fault
  /\ up' = [up EXCEPT ![w] = FALSE]
  /\ stage' = [stage EXCEPT ![w] = [g \in Groups |-> "none"]]
  /\ batch' = [batch EXCEPT ![w] = [g \in Groups |-> <<>>]]
  /\ attempt' = [attempt EXCEPT ![w] = [g \in Groups |-> 0]]
  /\ cache' = [cache EXCEPT ![w] = [b \in Bindings |-> <<>>]]
  /\ stranded' = [g \in Groups |-> stranded[g] \cup Elements(batch[w][g])]
  /\ UNCHANGED <<streams, groups, born, handled, dead, missed>>

\* _read_loop goes on with the entries of b: _handle up to its first await.
GoesOn(w, g, b) ==
  LET k     == Entry(g, Head(b))
      known == b # <<>> /\ k \notin Malformed /\ Seen(cache[w][g[1]], k)
  IN  /\ batch' = [batch EXCEPT ![w][g] = b]
      /\ attempt' = [attempt EXCEPT ![w][g] = 0]
      /\ stage' = [stage EXCEPT ![w][g] =
                     IF b = <<>> THEN "reading"
                     ELSE IF k \in Malformed THEN "parking"
                     ELSE IF known THEN "acking" ELSE "handling"]
      /\ cache' = IF known THEN [cache EXCEPT ![w][g[1]] = Touch(@, k)] ELSE cache

\* xreadgroup ">": the oldest entries that exist and that the group was not given.
Oldest(g)    == 1 + (IF trimmed[g[2]] > cursor[g] THEN trimmed[g[2]] ELSE cursor[g])
Newest(g)    == LET end == Oldest(g) + Count - 1 IN IF end < Len(log[g[2]]) THEN end ELSE Len(log[g[2]])
Delivered(g) == [i \in 1..(Newest(g) + 1 - Oldest(g)) |-> Oldest(g) + i - 1]

GiveOut(w, g) ==
  /\ stage[w][g] = "reading"
  /\ Oldest(g) <= Len(log[g[2]])
  /\ cursor' = [cursor EXCEPT ![g] = Newest(g)]
  /\ pending' = [pending EXCEPT ![g] = @ \cup Elements(Delivered(g))]
  /\ missed' = [missed EXCEPT ![g] = @ \cup (cursor[g] + 1)..(Oldest(g) - 1)]
  /\ UNCHANGED created

\* Mutant: the last entry of a reply is overlooked.
ReadAllButOne(w, g) ==
  /\ GiveOut(w, g)
  /\ GoesOn(w, g, SubSeq(Delivered(g), 1, Len(Delivered(g)) - 1))
  /\ UNCHANGED <<up, streams, born, handled, dead, stranded, faults>>

Read(w, g) ==
  /\ GiveOut(w, g)
  /\ GoesOn(w, g, Delivered(g))
  /\ UNCHANGED <<up, streams, born, handled, dead, stranded, faults>>

\* The connection breaks after the server has served the read: the loop logs
\* it, sleeps and asks for new entries.
ReadReplyLost(w, g) ==
  /\ GiveOut(w, g)
  /\ Fault
  /\ Strand(g, Elements(Delivered(g)))
  /\ UNCHANGED <<up, readers, streams, born, handled, dead>>

Goes(w, g, to) == stage' = [stage EXCEPT ![w][g] = to]

\* The handler returns.
Succeed(w, g) ==
  /\ stage[w][g] = "handling"
  /\ Goes(w, g, "acking")
  /\ cache' = [cache EXCEPT ![w][g[1]] = Add(@, Current(w, g))]
  /\ handled' = [handled EXCEPT ![g] = @ \cup {Current(w, g)}]
  /\ UNCHANGED <<up, batch, attempt, streams, groups, born, dead, stranded, missed, faults>>

\* The handler raises and may be tried again.
Retry(w, g) ==
  /\ stage[w][g] = "handling"
  /\ ShouldRetry(attempt[w][g])
  /\ attempt' = [attempt EXCEPT ![w][g] = @ + 1]
  /\ Goes(w, g, "backoff")
  /\ UNCHANGED <<up, batch, cache, streams, groups, past>>

Again(w, g) ==
  /\ stage[w][g] = "backoff"
  /\ Goes(w, g, "handling")
  /\ UNCHANGED <<up, batch, attempt, cache, streams, groups, past>>

\* Mutant: an entry that was given up is acknowledged but not dead-lettered.
AckUnparked(w, g) ==
  /\ stage[w][g] = "handling"
  /\ ~ShouldRetry(attempt[w][g])
  /\ Goes(w, g, "acking")
  /\ UNCHANGED <<up, batch, attempt, cache, streams, groups, past>>

\* The handler raises for the last time.
GiveUp(w, g) ==
  /\ stage[w][g] = "handling"
  /\ ~ShouldRetry(attempt[w][g])
  /\ Goes(w, g, "parking")
  /\ UNCHANGED <<up, batch, attempt, cache, streams, groups, past>>

\* _to_dlq
Park(w, g) ==
  /\ stage[w][g] = "parking"
  /\ Goes(w, g, "acking")
  /\ dead' = [dead EXCEPT ![g] = @ \cup {Current(w, g)}]
  /\ UNCHANGED <<up, batch, attempt, cache, streams, groups, born, handled, stranded, missed, faults>>

\* xack; the loop goes on with the next entry of its batch.
Ack(w, g) ==
  /\ stage[w][g] = "acking"
  /\ pending' = [pending EXCEPT ![g] = @ \ {Head(batch[w][g])}]
  /\ GoesOn(w, g, Tail(batch[w][g]))
  /\ UNCHANGED <<up, streams, created, cursor, past>>

(***************************************************************************)
(* Redis fails the write to the dead-letter stream or the xack, having     *)
(* executed it or not.  Neither is inside the try of _read_loop: the task  *)
(* of the loop ends, with the rest of its batch.                           *)
(***************************************************************************)
CommandFails(w, g) ==
  /\ stage[w][g] \in {"parking", "acking"}
  /\ Fault
  /\ Goes(w, g, "ended")
  /\ batch' = [batch EXCEPT ![w][g] = <<>>]
  /\ attempt' = [attempt EXCEPT ![w][g] = 0]
  /\ Strand(g, Elements(batch[w][g]))
  /\ \/ UNCHANGED <<pending, dead>>
     \/ /\ stage[w][g] = "acking"
        /\ pending' = [pending EXCEPT ![g] = @ \ {Head(batch[w][g])}]
        /\ UNCHANGED dead
     \/ /\ stage[w][g] = "parking"
        /\ dead' = [dead EXCEPT ![g] = @ \cup {Current(w, g)}]
        /\ UNCHANGED pending
  /\ UNCHANGED <<up, cache, streams, created, cursor, born, handled, missed>>

ReadLoop(w, g) ==
  \/ Read(w, g)
  \/ Succeed(w, g)
  \/ Retry(w, g)
  \/ Again(w, g)
  \/ GiveUp(w, g)
  \/ Park(w, g)
  \/ Ack(w, g)

RedisNext ==
  \/ \E k \in Keys : Publish(k)
  \/ \E w \in Replicas : StartBus(w) \/ Down(w)
  \/ \E w \in Replicas, g \in Groups :
       Bind(w, g) \/ ReadLoop(w, g) \/ ReadReplyLost(w, g) \/ CommandFails(w, g)

(***************************************************************************)
(* A process that ended is started again (docker-compose), Redis answers,  *)
(* handlers return or raise.                                               *)
(***************************************************************************)
RedisFairness ==
  \A w \in Replicas :
    /\ WF_redisVars(StartBus(w))
    /\ \A g \in Groups : WF_redisVars(Bind(w, g)) /\ WF_redisVars(ReadLoop(w, g))

RedisSpec == RedisInit /\ [][RedisNext]_redisVars /\ RedisFairness

-----------------------------------------------------------------------------
RedisTypeOK ==
  /\ up \in [Replicas -> BOOLEAN]
  /\ stage \in [Replicas -> [Groups -> Stages]]
  /\ batch \in [Replicas -> [Groups -> Seq(Nat)]]
  /\ attempt \in [Replicas -> [Groups -> 0..MaxRetries]]
  /\ cache \in [Replicas -> [Bindings -> Seq(Keys)]]
  /\ log \in [Types -> Seq(Keys)]
  /\ trimmed \in [Types -> Nat]
  /\ created \in [Groups -> BOOLEAN]
  /\ cursor \in [Groups -> Nat]
  /\ pending \in [Groups -> SUBSET Nat]
  /\ born \in [Groups -> Nat]
  /\ handled \in [Groups -> SUBSET Keys]
  /\ dead \in [Groups -> SUBSET Keys]
  /\ stranded \in [Groups -> SUBSET Nat]
  /\ missed \in [Groups -> SUBSET Nat]
  /\ faults \in Nat

\* The entries owed to group g: those added after it was created.
Owed(g)       == IF created[g] THEN (born[g] + 1)..Len(log[g[2]]) ELSE {}
Settled(g, i) == i \in DOMAIN log[g[2]] /\ Entry(g, i) \in handled[g] \cup dead[g]
InHand(g, i)  == \E w \in Replicas : i \in Elements(batch[w][g])

(***************************************************************************)
(* An entry that is no longer on its group's pending list was served or    *)
(* dead-lettered (or trimmed unread): an acknowledgement never precedes    *)
(* its reason, so whatever a fault cost can still be found on the list,    *)
(* although nothing in the code looks there.                               *)
(***************************************************************************)
AcknowledgedIsSettled ==
  \A g \in Groups : \A i \in Owed(g) :
    i <= cursor[g] /\ i \notin pending[g] => Settled(g, i) \/ i \in missed[g]

(***************************************************************************)
(* Without a fault nothing is lost: an entry that was read is served,      *)
(* dead-lettered, in the hands of a running loop, or was taken from its    *)
(* reader by a lost reply, a failed command or the end of the process.     *)
(***************************************************************************)
NothingVanishes ==
  \A g \in Groups : \A i \in Owed(g) :
    i <= cursor[g] =>
      Settled(g, i) \/ InHand(g, i) \/ i \in stranded[g] \/ i \in missed[g]

(***************************************************************************)
(* A group always catches up: a time comes when all that is owed to it was *)
(* served, dead-lettered, or taken by a fault or the trimming, unless its  *)
(* read loops have all ended with an exception (nothing makes a loop again *)
(* while its process lives).  What a loop leaves to the others of its      *)
(* group, or to a later process, is read in the end.                       *)
(***************************************************************************)
NobodyReads(g) == \A w \in Replicas : stage[w][g] = "ended"

EverythingRead ==
  \A g \in Groups :
    []<>(\/ NobodyReads(g)
         \/ \A i \in Owed(g) : Settled(g, i) \/ i \in stranded[g] \cup missed[g])

(***************************************************************************)
(* Delivery at least once: what a fault, be it an ordinary stop(), took    *)
(* from its reader is delivered again, and so served or dead-lettered in   *)
(* the end.  That is the contract of messaging/bus.py; the code does not   *)
(* keep it, for it never asks for what is pending.                         *)
(***************************************************************************)
Redelivered ==
  \A g \in Groups, i \in 1..MaxPublished : i \in stranded[g] ~> Settled(g, i)
=============================================================================
