------------------------------ MODULE RabbitBus ------------------------------
(***************************************************************************)
(* messaging/rabbitmq.py: the event bus over a topic exchange.  Every      *)
(* subscription consumes from the durable queue named after its            *)
(* consumer_name, with up to prefetch_count callbacks running at once; an  *)
(* event that failed is published again, to the whole exchange, and the    *)
(* message is acknowledged when its callback ends.                         *)
(*                                                                         *)
(* The broker (external) keeps a queue's messages until they are           *)
(* acknowledged, hands the unacknowledged ones of a lost connection out    *)
(* again, and routes a rejected one to the dead-letter queue.  The order   *)
(* of a queue is left open: redelivery and concurrent callbacks change it. *)
(*                                                                         *)
(* A message is a key and the retry_count of its envelope.                 *)
(***************************************************************************)
EXTENDS IdempotencyCache, FiniteSets

CONSTANTS Agents,        \* the consumer names: one process and one queue each
          Subscriptions,
          AgentOf,       \* AgentOf[c]: the consumer_name of subscription c
          Keys,          \* the events
          Interest,      \* Interest[c]: the events c has bound
          Prefetch,      \* RabbitMqSettings.prefetch_count
          MaxPublished,  \* bound: publications
          MaxDowns       \* bound: processes that end

ASSUME RabbitAssumption ==
  /\ IsFiniteSet(Subscriptions)
  /\ AgentOf \in [Subscriptions -> Agents]
  /\ Interest \in [Subscriptions -> SUBSET Keys]
  /\ Prefetch \in Nat \ {0}
  /\ MaxPublished \in Nat
  /\ MaxDowns \in Nat

Slots  == 1..Prefetch
Copies == Keys \X (0..MaxRetries + 1)  \* the last retry_count is never reached (TypeOK)

(***************************************************************************)
(* free      no message                                                    *)
(* handling  awaits the handler                                            *)
(* backoff   sleeps, then awaits the publication of the retry              *)
(* parking   awaits the publication to the dead-letter exchange            *)
(* acking    the callback is over, the acknowledgement is on its way       *)
(***************************************************************************)
Stages == {"free", "handling", "backoff", "parking", "acking"}

VARIABLES
  up,         \* per agent, the bus of its process consumes (_running)
  bound,      \* per agent, its queue exists and is bound
  ready,      \* per agent, how many of each message its queue holds ready
  slot,       \* slot[c][s]: a message c has not acknowledged, in the first free slot
  cache,      \* per subscription, its IdempotencyCache
  dead,       \* per agent, the keys in its dead-letter queue
  owed,       \* history: per subscription, the events published to it
  handled,    \* history: per subscription, the events its handler has served
  published,  \* history: how many publications there were
  downs       \* history: how many processes ended

consumers == <<up, bound>>
history   == <<owed, handled, published, downs>>
vars      == <<consumers, ready, slot, cache, dead, history>>

Free == [key |-> "none", retries |-> 0, stage |-> "free"]

SubscriptionsOf(a) == {c \in Subscriptions : AgentOf[c] = a}
Wants(a, k) == \E c \in SubscriptionsOf(a) : k \in Interest[c]

Init ==
  /\ up = [a \in Agents |-> FALSE]
  /\ bound = [a \in Agents |-> FALSE]
  /\ ready = [a \in Agents |-> [m \in Copies |-> 0]]
  /\ slot = [c \in Subscriptions |-> [s \in Slots |-> Free]]
  /\ cache = [c \in Subscriptions |-> <<>>]
  /\ dead = [a \in Agents |-> {}]
  /\ owed = [c \in Subscriptions |-> {}]
  /\ handled = [c \in Subscriptions |-> {}]
  /\ published = 0
  /\ downs = 0

-----------------------------------------------------------------------------
\* The exchange routes a message to every bound queue with a matching binding.
Routed(m) ==
  ready' = [a \in Agents |->
              IF bound[a] /\ Wants(a, m[1]) THEN [ready[a] EXCEPT ![m] = @ + 1] ELSE ready[a]]

\* publish(event), by a process whose bus has started.
Publish(k) ==
  /\ published < MaxPublished
  /\ published' = published + 1
  /\ Routed(<<k, 0>>)
  /\ owed' = [c \in Subscriptions |->
                IF bound[AgentOf[c]] /\ k \in Interest[c] THEN owed[c] \cup {k} ELSE owed[c]]
  /\ UNCHANGED <<consumers, slot, cache, dead, handled, downs>>

\* start(): every subscription declares its queue, binds it and consumes.
Start(a) ==
  /\ ~up[a]
  /\ up' = [up EXCEPT ![a] = TRUE]
  /\ bound' = [bound EXCEPT ![a] = TRUE]
  /\ UNCHANGED <<ready, slot, cache, dead, history>>

(***************************************************************************)
(* The process of agent a ends, by stop() or by a crash; a new one starts  *)
(* with an empty cache, and the broker requeues what was not acknowledged. *)
(***************************************************************************)
Unacknowledged(a, m) ==
  {at \in SubscriptionsOf(a) \X Slots :
     LET held == slot[at[1]][at[2]]
     IN  held.stage # "free" /\ <<held.key, held.retries>> = m}

Down(a) ==
  /\ up[a]
  /\ downs < MaxDowns
  /\ downs' = downs + 1
  /\ up' = [up EXCEPT ![a] = FALSE]
  /\ ready' = [ready EXCEPT ![a] = [m \in Copies |-> @[m] + Cardinality(Unacknowledged(a, m))]]
  /\ slot' = [c \in Subscriptions |->
                IF AgentOf[c] = a THEN [s \in Slots |-> Free] ELSE slot[c]]
  /\ cache' = [c \in Subscriptions |-> IF AgentOf[c] = a THEN <<>> ELSE cache[c]]
  /\ UNCHANGED <<bound, dead, owed, handled, published>>

-----------------------------------------------------------------------------
At(c, s, stage) == slot[c][s].stage = stage

GoesTo(c, s, stage) == slot' = [slot EXCEPT ![c][s].stage = stage]

\* The broker delivers; _handle_message checks the cache or calls the handler.
Deliver(c, s, m) ==
  /\ up[AgentOf[c]]
  /\ At(c, s, "free") /\ \A t \in 1..(s - 1) : ~At(c, t, "free")
  /\ ready[AgentOf[c]][m] > 0
  /\ ready' = [ready EXCEPT ![AgentOf[c]][m] = @ - 1]
  /\ LET known == Seen(cache[c], m[1]) IN
       /\ slot' = [slot EXCEPT ![c][s] =
                     [key |-> m[1], retries |-> m[2],
                      stage |-> IF known THEN "acking" ELSE "handling"]]
       /\ cache' = IF known THEN [cache EXCEPT ![c] = Touch(@, m[1])] ELSE cache
  /\ UNCHANGED <<consumers, dead, history>>

\* The handler returns.  A handler given an event of another subscription of
\* its agent returns at once (the isinstance guards), without having served it.
HandlerReturns(c, s) ==
  /\ At(c, s, "handling")
  /\ cache' = [cache EXCEPT ![c] = Add(@, slot[c][s].key)]
  /\ handled' = [handled EXCEPT ![c] = @ \cup ({slot[c][s].key} \cap Interest[c])]
  /\ GoesTo(c, s, "acking")
  /\ UNCHANGED <<consumers, ready, dead, owed, published, downs>>

\* The handler raises: _on_handler_failure up to its first await.
HandlerRaises(c, s) ==
  /\ At(c, s, "handling")
  /\ slot[c][s].key \in Interest[c]
  /\ GoesTo(c, s, IF ShouldRetry(slot[c][s].retries) THEN "backoff" ELSE "parking")
  /\ UNCHANGED <<consumers, ready, cache, dead, history>>

\* Mutant: the retry is counted but not published.
RepublishNothing(c, s) ==
  /\ At(c, s, "backoff")
  /\ GoesTo(c, s, "acking")
  /\ UNCHANGED <<consumers, ready, cache, dead, history>>

\* _republish: to every queue bound for the event, not to this one alone.
Republish(c, s) ==
  /\ At(c, s, "backoff")
  /\ Routed(<<slot[c][s].key, slot[c][s].retries + 1>>)
  /\ GoesTo(c, s, "acking")
  /\ UNCHANGED <<consumers, cache, dead, history>>

\* Mutant: the exhausted retry count is not noticed by the callback.
ParkForever(c, s) ==
  /\ At(c, s, "parking")
  /\ GoesTo(c, s, "handling")
  /\ UNCHANGED <<consumers, ready, cache, dead, history>>

\* _to_dlq
Park(c, s) ==
  /\ At(c, s, "parking")
  /\ dead' = [dead EXCEPT ![AgentOf[c]] = @ \cup {slot[c][s].key}]
  /\ GoesTo(c, s, "acking")
  /\ UNCHANGED <<consumers, ready, cache, history>>

\* Publishing the retry or the dead letter raises: message.process rejects the
\* message without requeueing, and the broker dead-letters it.
Reject(c, s) ==
  /\ slot[c][s].stage \in {"backoff", "parking"}
  /\ dead' = [dead EXCEPT ![AgentOf[c]] = @ \cup {slot[c][s].key}]
  /\ slot' = [slot EXCEPT ![c][s] = Free]
  /\ UNCHANGED <<consumers, ready, cache, history>>

\* message.process acknowledges.
Ack(c, s) ==
  /\ At(c, s, "acking")
  /\ slot' = [slot EXCEPT ![c][s] = Free]
  /\ UNCHANGED <<consumers, ready, cache, dead, history>>

Callback(c, s) ==
  \/ \E m \in Copies : Deliver(c, s, m)
  \/ HandlerReturns(c, s)
  \/ HandlerRaises(c, s)
  \/ Republish(c, s)
  \/ Park(c, s)
  \/ Reject(c, s)
  \/ Ack(c, s)

Next ==
  \/ \E k \in Keys : Publish(k)
  \/ \E a \in Agents : Start(a)
  \/ \E a \in Agents : Down(a)
  \/ \E c \in Subscriptions, s \in Slots : Callback(c, s)

(***************************************************************************)
(* A process that ended is started again (docker-compose), the broker      *)
(* delivers while a consumer has room, callbacks and handlers end.         *)
(***************************************************************************)
Fairness ==
  /\ \A a \in Agents : WF_vars(Start(a))
  /\ \A c \in Subscriptions, s \in Slots : WF_vars(Callback(c, s))

Spec == Init /\ [][Next]_vars /\ Fairness

-----------------------------------------------------------------------------
TypeOK ==
  /\ up \in [Agents -> BOOLEAN]
  /\ bound \in [Agents -> BOOLEAN]
  /\ ready \in [Agents -> [Copies -> Nat]]
  /\ slot \in [Subscriptions -> [Slots ->
       [key : Keys \cup {"none"}, retries : 0..MaxRetries, stage : Stages]]]
  /\ cache \in [Subscriptions -> Seq(Keys)]
  /\ dead \in [Agents -> SUBSET Keys]
  /\ owed \in [Subscriptions -> SUBSET Keys]
  /\ handled \in [Subscriptions -> SUBSET Keys]
  /\ published \in Nat
  /\ downs \in Nat

\* The event is still on its way to agent a: ready, or in an unfinished callback.
OnItsWay(a, k) ==
  \/ \E m \in Copies : m[1] = k /\ ready[a][m] > 0
  \/ \E c \in SubscriptionsOf(a), s \in Slots :
       slot[c][s].key = k /\ slot[c][s].stage \in {"handling", "backoff", "parking"}

Settled(c, k) == k \in handled[c] \cup dead[AgentOf[c]]

(***************************************************************************)
(* "Publish event to all interested subscribers (at-least-once)", of       *)
(* messaging/bus.py: an event published to a subscription has been served  *)
(* by its handler, is in its dead-letter queue, or is on its way, through  *)
(* failures, retries by republication, rejections and crashes.             *)
(***************************************************************************)
AtLeastOnce ==
  \A c \in Subscriptions : \A k \in owed[c] : Settled(c, k) \/ OnItsWay(AgentOf[c], k)

(***************************************************************************)
(* In the end every event is served or dead-lettered: republication        *)
(* carries a retry_count that only grows, so it cannot go round for ever   *)
(* between subscribers that fail.                                          *)
(***************************************************************************)
EverythingSettled ==
  \A c \in Subscriptions, k \in Keys : k \in owed[c] ~> Settled(c, k)

(***************************************************************************)
(* A redelivered message "is processed at most once within the cache       *)
(* window" (messaging/bus.py): no two callbacks of a subscription are in   *)
(* the handler with the same event.                                        *)
(***************************************************************************)
NeverTwiceAtOnce ==
  \A c \in Subscriptions, s, t \in Slots :
    s # t /\ At(c, s, "handling") /\ At(c, t, "handling") => slot[c][s].key # slot[c][t].key
=============================================================================
