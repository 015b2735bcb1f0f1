----------------------------- MODULE InMemoryBus -----------------------------
(***************************************************************************)
(* messaging/inmemory.py: the in-process event bus.  Every subscription    *)
(* has an asyncio queue and a worker task that takes one envelope at a     *)
(* time, runs the handler, retries it in place and dead-letters it when    *)
(* the retries are used up.  A worker gives up control only where it       *)
(* awaits: on its queue, in its handler, in the back-off sleep and in the  *)
(* dead-letter handler; each stretch between two awaits is one action.     *)
(*                                                                         *)
(* Subscriptions are made in the constructors of the agents, before the    *)
(* bus is started, so their set is fixed.  An event is its idempotency     *)
(* key; publishing a key again is a duplicate.                             *)
(***************************************************************************)
EXTENDS IdempotencyCache, Subsequence, FiniteSets

CONSTANTS Subscriptions,  \* how many: they are numbered in subscription order
          Keys,           \* the events
          Interest,       \* Interest[c]: the events Subscription.matches
          MaxPublished,   \* bound: publications
          MaxSentinels    \* bound: sentinels in one queue (a failed worker takes none)

Consumers == 1..Subscriptions

Sentinel == "sentinel"   \* the None that ends a worker
Nothing  == "nothing"

ASSUME BusAssumption ==
  /\ Subscriptions \in Nat \ {0}
  /\ Sentinel \notin Keys /\ Nothing \notin Keys
  /\ Interest \in [Consumers -> SUBSET Keys]
  /\ MaxPublished \in Nat
  /\ MaxSentinels \in Nat

VARIABLES
  running,      \* _running
  stopper,      \* the worker stop() awaits, 0 when no stop() is under way
  queue,        \* per worker, its asyncio.Queue: keys and shutdown sentinels
  unfinished,   \* per worker, the queue's count of puts without task_done
  task,         \* per worker, where its task is (Tasks)
  busy,         \* per worker, the envelope it is processing
  attempt,      \* per worker, _process's local attempt, 0 outside _process
  cache,        \* per worker, its IdempotencyCache
  deadLetters,  \* per worker, the keys on its dead_letters list
  published,    \* history: how many publications there were
  due,          \* history: per worker, the keys put in its queue and not settled
  handled,      \* history: per worker, the keys its handler returned from
  newer         \* history: newer[c][k], the keys c recorded since it recorded k

lifecycle == <<running, stopper>>
mail      == <<queue, unfinished>>
work      == <<task, busy, attempt>>
record    == <<cache, handled, newer>>
ledger    == <<published, due>>
vars      == <<lifecycle, mail, work, record, deadLetters, ledger>>

(***************************************************************************)
(* none       no task                                                      *)
(* waiting    awaits queue.get()                                           *)
(* handling   awaits the subscription's handler                            *)
(* backoff    sleeps before the next attempt                               *)
(* parking    awaits the dead-letter handler                               *)
(* exited     took the sentinel and returned                               *)
(* failed     ended with the exception of the dead-letter handler          *)
(***************************************************************************)
Tasks      == {"none", "waiting", "handling", "backoff", "parking", "exited", "failed"}
Processing == {"handling", "backoff", "parking"}

Init ==
  /\ running = FALSE
  /\ queue = [c \in Consumers |-> <<>>]
  /\ unfinished = [c \in Consumers |-> 0]
  /\ task = [c \in Consumers |-> "none"]
  /\ busy = [c \in Consumers |-> Nothing]
  /\ attempt = [c \in Consumers |-> 0]
  /\ cache = [c \in Consumers |-> <<>>]
  /\ deadLetters = [c \in Consumers |-> {}]
  /\ stopper = 0
  /\ published = 0
  /\ due = [c \in Consumers |-> <<>>]
  /\ handled = [c \in Consumers |-> {}]
  /\ newer = [c \in Consumers |-> [k \in Keys |-> {}]]

-----------------------------------------------------------------------------
(***************************************************************************)
(* publish(event), by anyone at any time: the bus may be stopped (the      *)
(* queues buffer) and a handler may publish what another one caused.       *)
(***************************************************************************)
Publish(k) ==
  /\ published < MaxPublished
  /\ published' = published + 1
  /\ queue' = [c \in Consumers |->
                 IF k \in Interest[c] THEN Append(queue[c], k) ELSE queue[c]]
  /\ unfinished' = [c \in Consumers |->
                      IF k \in Interest[c] THEN unfinished[c] + 1 ELSE unfinished[c]]
  /\ due' = [c \in Consumers |->
               IF k \in Interest[c] THEN Append(due[c], k) ELSE due[c]]
  /\ UNCHANGED <<lifecycle, work, record, deadLetters>>

\* start(): a task for every worker that has none.  Nobody starts the bus
\* while stop() is awaited (fleet.py, agents/base.py, EventBus.__aexit__).
Start ==
  /\ ~running
  /\ stopper = 0
  /\ running' = TRUE
  /\ task' = [c \in Consumers |-> IF task[c] = "none" THEN "waiting" ELSE task[c]]
  /\ UNCHANGED <<stopper, mail, busy, attempt, record, deadLetters, ledger>>

\* A sentinel goes behind whatever is queued for the workers of the set woken.
Sentinels(woken) ==
  /\ queue' = [c \in Consumers |->
                 IF c \in woken THEN Append(queue[c], Sentinel) ELSE queue[c]]
  /\ unfinished' = [c \in Consumers |->
                      IF c \in woken THEN unfinished[c] + 1 ELSE unfinished[c]]

\* Mutant: stop() wakes only the first worker.
StopFirstOnly ==
  /\ running
  /\ running' = FALSE
  /\ Sentinels({1})
  /\ stopper' = 1
  /\ UNCHANGED <<work, record, deadLetters, ledger>>

\* stop() up to its first await.
Stop ==
  /\ running
  /\ \A c \in Consumers : Len(SelectSeq(queue[c], LAMBDA m : m = Sentinel)) < MaxSentinels
  /\ running' = FALSE
  /\ Sentinels(Consumers)
  /\ stopper' = 1
  /\ UNCHANGED <<work, record, deadLetters, ledger>>

\* Mutant: stop() does not forget the tasks it has awaited.
StopKeepsTasks ==
  /\ stopper # 0
  /\ task[stopper] \in {"none", "exited", "failed"}
  /\ stopper' = IF stopper = Subscriptions \/ task[stopper] = "failed" THEN 0 ELSE stopper + 1
  /\ UNCHANGED <<running, mail, work, record, deadLetters, ledger>>

\* stop() gets the result of the worker it awaits, and goes on to the next;
\* the exception of a failed one ends stop() with the later ones not awaited.
StopAwaits ==
  /\ stopper # 0
  /\ task[stopper] \in {"none", "exited", "failed"}
  /\ IF task[stopper] = "failed"
     THEN stopper' = 0 /\ UNCHANGED task
     ELSE /\ stopper' = IF stopper = Subscriptions THEN 0 ELSE stopper + 1
          /\ task' = [task EXCEPT ![stopper] = "none"]
  /\ UNCHANGED <<running, mail, busy, attempt, record, deadLetters, ledger>>

-----------------------------------------------------------------------------
\* Worker c goes on with (or without: Nothing) an envelope.
Goes(c, state, k, tries) ==
  /\ task' = [task EXCEPT ![c] = state]
  /\ busy' = [busy EXCEPT ![c] = k]
  /\ attempt' = [attempt EXCEPT ![c] = tries]

\* queue.task_done()
TaskDone(c) == unfinished' = [unfinished EXCEPT ![c] = @ - 1]

\* History: an envelope of c is settled; c has handled or met again key k.
Settled(c) == due' = [due EXCEPT ![c] = Tail(@)] /\ UNCHANGED published
Recorded(c, k) ==
  newer' = [newer EXCEPT ![c] = [other \in Keys |->
              IF other = k \/ other \notin handled[c] THEN {} ELSE @[other] \cup {k}]]

\* _run_worker gets what is at the head of the queue.
Takes(c, k) ==
  /\ task[c] = "waiting"
  /\ queue[c] # <<>>
  /\ Head(queue[c]) = k
  /\ queue' = [queue EXCEPT ![c] = Tail(@)]

\* It is the shutdown sentinel.
Exit(c) ==
  /\ Takes(c, Sentinel)
  /\ TaskDone(c)
  /\ task' = [task EXCEPT ![c] = "exited"]
  /\ UNCHANGED <<lifecycle, busy, attempt, record, deadLetters, ledger>>

\* Mutant: the early return for a duplicate misses task_done().
DeduplicateUncounted(c, k) ==
  /\ Takes(c, k)
  /\ Seen(cache[c], k)
  /\ cache' = [cache EXCEPT ![c] = Touch(@, k)]
  /\ Settled(c)
  /\ Recorded(c, k)
  /\ UNCHANGED <<lifecycle, unfinished, work, handled, deadLetters>>

\* _process: the key is in the cache.
Deduplicate(c, k) ==
  /\ Takes(c, k)
  /\ Seen(cache[c], k)
  /\ cache' = [cache EXCEPT ![c] = Touch(@, k)]
  /\ TaskDone(c)
  /\ Settled(c)
  /\ Recorded(c, k)
  /\ UNCHANGED <<lifecycle, work, handled, deadLetters>>

\* _process: the handler is called.
Handle(c, k) ==
  /\ Takes(c, k)
  /\ ~Seen(cache[c], k)
  /\ Goes(c, "handling", k, 0)
  /\ UNCHANGED <<lifecycle, unfinished, record, deadLetters, ledger>>

\* The handler returns.
Succeed(c) ==
  /\ task[c] = "handling"
  /\ Goes(c, "waiting", Nothing, 0)
  /\ cache' = [cache EXCEPT ![c] = Add(@, busy[c])]
  /\ TaskDone(c)
  /\ Settled(c)
  /\ handled' = [handled EXCEPT ![c] = @ \cup {busy[c]}]
  /\ Recorded(c, busy[c])
  /\ UNCHANGED <<lifecycle, queue, deadLetters>>

\* Mutant: a failed event goes back to the end of the queue, as on a broker.
RetryByRequeue(c) ==
  /\ task[c] = "handling"
  /\ ShouldRetry(attempt[c])
  /\ Goes(c, "waiting", Nothing, 0)
  /\ queue' = [queue EXCEPT ![c] = Append(@, busy[c])]
  /\ UNCHANGED <<lifecycle, unfinished, record, deadLetters, ledger>>

\* The handler raises and may be tried again: the worker sleeps.
Retry(c) ==
  /\ task[c] = "handling"
  /\ ShouldRetry(attempt[c])
  /\ Goes(c, "backoff", busy[c], attempt[c] + 1)
  /\ UNCHANGED <<lifecycle, mail, record, deadLetters, ledger>>

\* The back-off sleep is over.
Again(c) ==
  /\ task[c] = "backoff"
  /\ Goes(c, "handling", busy[c], attempt[c])
  /\ UNCHANGED <<lifecycle, mail, record, deadLetters, ledger>>

\* Mutant: an event whose retries are used up is dropped.
DropIt(c) ==
  /\ task[c] = "handling"
  /\ ~ShouldRetry(attempt[c])
  /\ Goes(c, "parking", busy[c], attempt[c])
  /\ Settled(c)
  /\ UNCHANGED <<lifecycle, mail, record, deadLetters>>

\* The handler raises for the last time: _dead_letter up to its await.
DeadLetter(c) ==
  /\ task[c] = "handling"
  /\ ~ShouldRetry(attempt[c])
  /\ Goes(c, "parking", busy[c], attempt[c])
  /\ deadLetters' = [deadLetters EXCEPT ![c] = @ \cup {busy[c]}]
  /\ Settled(c)
  /\ UNCHANGED <<lifecycle, mail, record>>

\* The dead-letter handler returns (or there is none), or raises: nothing
\* catches that, and the worker's task ends.
Park(c) ==
  /\ task[c] = "parking"
  /\ \E end \in {"waiting", "failed"} : Goes(c, end, Nothing, 0)
  /\ TaskDone(c)
  /\ UNCHANGED <<lifecycle, queue, record, deadLetters, ledger>>

Work(c) ==
  \/ Exit(c)
  \/ \E k \in Keys : Deduplicate(c, k)
  \/ \E k \in Keys : Handle(c, k)
  \/ Succeed(c)
  \/ Retry(c)
  \/ Again(c)
  \/ DeadLetter(c)
  \/ Park(c)

Next ==
  \/ \E k \in Keys : Publish(k)
  \/ Start
  \/ Stop
  \/ StopAwaits
  \/ \E c \in Consumers : Work(c)

(***************************************************************************)
(* The event loop resumes every task that can go on, handlers return or    *)
(* raise, and stop() is a task like the others.                            *)
(***************************************************************************)
Fairness == (\A c \in Consumers : WF_vars(Work(c))) /\ WF_vars(StopAwaits)

Spec == Init /\ [][Next]_vars /\ Fairness

(***************************************************************************)
(* The same bus when the outside publishes only while it runs; handlers    *)
(* publish as long as they are executing.                                  *)
(***************************************************************************)
Expected == running \/ \E c \in Consumers : task[c] = "handling"
QuietSpec == Init /\ [][Next /\ (published' # published => Expected)]_vars

-----------------------------------------------------------------------------
TypeOK ==
  /\ running \in BOOLEAN
  /\ stopper \in 0..Subscriptions
  /\ queue \in [Consumers -> Seq(Keys \cup {Sentinel})]
  /\ unfinished \in [Consumers -> Nat]
  /\ task \in [Consumers -> Tasks]
  /\ busy \in [Consumers -> Keys \cup {Nothing}]
  /\ attempt \in [Consumers -> 0..MaxRetries]
  /\ cache \in [Consumers -> Seq(Keys)]
  /\ deadLetters \in [Consumers -> SUBSET Keys]
  /\ published \in Nat
  /\ due \in [Consumers -> Seq(Keys)]
  /\ handled \in [Consumers -> SUBSET Keys]
  /\ newer \in [Consumers -> [Keys -> SUBSET Keys]]

(***************************************************************************)
(* What is owed to a consumer: the envelope it is trying, then the queue.  *)
(* A dead-lettered envelope is settled as soon as it is on the list.       *)
(***************************************************************************)
Trying(c)   == IF task[c] \in {"handling", "backoff"} THEN <<busy[c]>> ELSE <<>>
Messages(q) == Subsequence(q, Keys)
OwedTo(c)   == Trying(c) \o Messages(queue[c])

(***************************************************************************)
(* Each consumer settles its events one at a time in the order they were   *)
(* published, with none lost or added on the way: retries happen in place, *)
(* and stop, restart and duplicates do not reorder the rest.  The decision *)
(* agent relies on it (prediction and state of one tick, in order).        *)
(***************************************************************************)
OwedInOrder == \A c \in Consumers : due[c] = OwedTo(c)

(***************************************************************************)
(* The counter queue.join() waits on: it is zero exactly when nothing is   *)
(* queued or in process, on every path out of _process, also for a worker  *)
(* that failed (join() would return too early, or never).                  *)
(***************************************************************************)
JoinCountsWork ==
  \A c \in Consumers :
    unfinished[c] = Len(queue[c]) + (IF task[c] \in Processing THEN 1 ELSE 0)

(***************************************************************************)
(* "processed at most once within the cache window" (IdempotencyCache): a  *)
(* handler that has returned from an event is called with it again only if *)
(* its subscription has met CacheSize other events since it last met it.   *)
(***************************************************************************)
OncePerWindow ==
  \A c \in Consumers, k \in Keys :
    k \in handled[c] /\ Trying(c) = <<k>>
      => \E others \in SUBSET newer[c][k] : Cardinality(others) = CacheSize

(***************************************************************************)
(* The bus keeps the delivery contract of the port: whatever is published  *)
(* is settled in one of the three ways the contract has, across stop,      *)
(* restart and failure of a worker.                                        *)
(***************************************************************************)
Copies(s, k) == Cardinality({i \in 1..Len(s) : s[i] = k})
Contract == INSTANCE EventDelivery WITH
  owed <- [c \in Consumers |-> [k \in Keys |-> Copies(OwedTo(c), k)]],
  dead <- deadLetters
KeepsContract == Contract!Spec

(***************************************************************************)
(* While the bus runs, every event is settled in the end: no event waits   *)
(* for ever behind one that fails.  A worker lost to an exception of the   *)
(* dead-letter handler ends this.                                          *)
(***************************************************************************)
WorkerLost == \E c \in Consumers : task[c] = "failed"
EverythingSettled ==
  \A c \in Consumers : running /\ due[c] # <<>> ~> due[c] = <<>> \/ ~running \/ WorkerLost

(***************************************************************************)
(* stop() comes to an end, whatever is queued and however handlers fail.   *)
(***************************************************************************)
StopReturns == stopper # 0 ~> stopper = 0

(***************************************************************************)
(* "Always stop() to drain" (messaging/bus.py): when stop() has returned,  *)
(* no event is left in a queue, provided no outsider published after it    *)
(* was called (QuietSpec).                                                 *)
(***************************************************************************)
StopDrains ==
  ~running /\ stopper = 0 /\ ~WorkerLost => \A c \in Consumers : queue[c] = <<>>
=============================================================================
