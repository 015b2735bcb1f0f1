# Formal model of Sentinel AI Control Room

Sentinel drives a two-phase traffic signal from perception: agents exchange
events over a bus, a decision agent expresses intent, and a signal controller
turns intent into a safe sequence of aspects. This directory holds TLA+ models
of that system, TLC configurations, and theorems checked by TLAPS. Source paths
are relative to `src/libs/sentinel/` unless they start with `src/`.

## Inventory

| Component | State it keeps | Operations | Correct when |
|---|---|---|---|
| Phase machine, safety envelope (`control/phase.py`) | phase, elapsed, next axis | `step(dt, request)` | minimum green, clearance between conflicting greens, alternation, bounded waits |
| Signal controller (`signal_control/agent.py`) | machine, desired axis, current signal, loop task | start, stop, tick, decision handler | lamps keep the promise above under any decisions; the bus knows the phase on the lamps |
| Event bus port (`messaging/bus.py`) | LRU cache of handled keys | publish, subscribe, start, stop | at-least-once, at most once within the cache window, dead letters after the retries |
| In-memory bus (`messaging/inmemory.py`) | queue, worker, cache, dead letters per subscription | publish, start, stop, join, worker loop | contract of the port, in order; join and stop end |
| RabbitMQ bus (`messaging/rabbitmq.py`) | queues of the broker, callbacks, caches | publish, delivery, retry by republication, dead letter | contract of the port across crashes |
| Redis Streams bus (`messaging/redis_streams.py`) | streams, groups and pending lists in Redis, read loops | publish, read loop, acknowledge | contract of the port across crashes |
| Base agent (`agents/base.py`) | status, heartbeat task | start, stop, heartbeat loop | heartbeats stop with the agent |
| Orchestrator (`orchestrator/agent.py`) | mode, reason, health per agent, watchdog | heartbeat and state handlers, watchdog | degraded exactly while confidence is low; every mode change announced; stale agents found |
| Decision agent (`decision/`) | last forecast, time since green per axis | state and prediction handlers | no axis starved; no thrashing |
| Prediction, memory, incident, explainability agents | windows, counters, debounce table, last forecast | one or two handlers each | each event counted once; an incident raised again after the debounce |
| Dashboard (`dashboard/`) | read model | eight subscriptions | the last value of each kind, a bounded log |
| Fleet (`fleet.py`) | agents, bus, twin | start, stop, simulated loop | every tick uses the decision of its own state; stop stops everything |
| Composable services (`services/`) | two controllers, last signal, active incidents | one handler each | legal phase sequence across failover |
| Simulation (`simulation/`) | analytical twin, controllers, SUMO bridge | reset, step, decide | controllers keep the phase machine's promise |
| Perception (`perception/`) | tracks, stopped time, last state | tracker, pipeline and worker per frame | identities and stopped times survive missed frames |
| Contracts, settings, observability, gateway, front ends, scripts | none, or read-only views | | |

Interaction: `state.updated` goes to prediction, decision, memory, incident,
orchestrator and dashboard; `prediction.updated` to decision and explainability;
`decision.made` to the signal controller and explainability; `signal.changed`,
incidents, baselines, modes and heartbeats to the dashboard and the
orchestrator. Each agent subscribes in its constructor, before the bus starts.
The shipped fleet (`src/services/api_gateway/main.py`, `fleet.py`) runs on the
in-memory bus; the broker transports implement the same port.

Hard behaviour: everything runs on one event loop, so a handler is atomic up to
its next `await` and anything may happen there; publications of a broker
transport can raise; the buses retry, deduplicate, redeliver and reorder;
processes are restarted over lamps that kept their last aspect. `PROJECT.json`
lists the hazards at their lines, with the property that covers each.

## Modules

| Module | Models | Relation |
|---|---|---|
| `Signals` | axes, phases, lookup tables | extended by all signal modules |
| `PhaseMachine` | `PhaseStateMachine` as a function on a record; `SafetyEnvelope._LEGAL` | used by `SignalController`, `FleetLoop`, `ClosedLoop` |
| `SafeIntersection` | abstract: what the road is promised | implemented by `SignalController` |
| `SignalController` | `SignalControllerAgent` and its loop, plus a restarting process | |
| `EventDelivery` | abstract: the delivery contract of the port | implemented by `InMemoryBus` |
| `RetryPolicy` | the bound on retries | extended by the buses, `Monitoring` and `ClosedLoop` |
| `LruCache`, `IdempotencyCache` | the LRU sequence of keys; the bounded cache | extended by the buses |
| `InMemoryBus`, `MCInMemoryBus` | in-memory bus and its instance | |
| `RabbitBus`, `MCRabbitBus` | RabbitMQ bus with the broker as environment, and its instances | |
| `RedisBus`, `MCRedisBus` | Redis Streams bus with Redis as environment; one process and one event | |
| `TrafficMemory`, `IncidentDetection`, `ServiceIncidents`, `Forecaster`, `Orchestrator`, `Dashboard` | one agent each, as operators on its own variables | extended by `Monitoring` |
| `Monitoring` | the agents that watch, over a transport whose publications fail | composes the six above |
| `FleetLoop` | `build_fleet`, `run_simulated_loop`, the gateway's shutdown, the demonstration's loop | composes `PhaseMachine`, `Dashboard` and the agents' queues |
| `TrafficTwin`, `SumoBridge` | the two environments | extended by `ClosedLoop` |
| `SimulationControllers`, `DecisionPolicy` | the benchmark's controllers; the decision agent's policy | extended by `ClosedLoop` |
| `ClosedLoop` | environment and controller, tick by tick | composes the four above |
| `Perception` | tracker, movement, density, pipeline and worker of one approach | |
| `MCRoadside` | the instance of `SignalController`, `Monitoring` and `RedisBus` | extends the three, which share no variable |
| `MCTraffic` | the instance of `ClosedLoop` and `Perception` | extends the two, which share no variable |
| `Subsequence` | the elements of a sequence that are in a set, as a recursive function | extended by `InMemoryBus`, `IncidentDetection`, `ServiceIncidents`, `TrafficTwin` |
| `ClosedLoop_proofs`, `FleetLoop_proofs`, `InMemoryBus_proofs`, `Monitoring_proofs`, `RabbitBus_proofs`, `RedisBus_proofs` | theorems | each extends its module |
| `Roadside_proofs` | theorems about the controller of the lamps and about the camera's perception | extends `SignalController` and `Perception`, which share nothing |
| `SequenceLemmas` | lemmas on filtered sequences, the LRU cache, sums, and induction | extended by the proofs that need them |

### Signal controller

`fsm`, `desired`, `signal` are `_fsm`, `_desired_axis`, `_signal`; `shown` is
what `SignalActuator.apply` was last given; `violations` the counter of the
envelope. `loop` says where the control loop is: `tick()` is one action up to
its `await` on the publication of `signal.changed`, and the publication returns
(`PublishDone`), raises (`PublishFails`) or is cancelled (`Stop`) in a step of
its own. `OnDecision` takes a command for any phase at any time, so the results
hold for every policy. The clocks `held`, `wait` and `asked` are history:
they count the `dt` the controller was ticked with, which is the only time the
code knows. `TypeOK` says nothing about time; the bounds are the properties.

* `KeepsPromise`: refinement of `SafeIntersection`. The aspect per axis is
  computed from `shown`. The abstract module knows no phases, no next axis and
  no requests, only durations.
* `ClearanceBeforeGreen`, `WaitBounded` (bound `MaxWait`), `IntentServedInTime`
  (bound `MaxAsk`): the two bounds are exact for the values in the cfg; with either
  lowered by one TLC finds a violation. A limit is overshot by up to one tick
  less a unit, and an all-red of zero still lasts one tick.
* `AnnouncedWhenReady`: announcement and lamps agree whenever the loop sleeps,
  through start, cancellation and failure. It says nothing of a dead loop: a
  publication that raises ends the loop, the lamps stay as they are, and
  `stop()` then raises before it clears the task. `loop = "dead"` is final:
  `start()` announces the frozen phase once more (`StartDead`) and makes no loop.
* `EachAxisServed`: under weak fairness of the tick and of the awaited
  publication, as the loop sleeps for a fixed interval and re-arms.

`controller_restart` shows the one gap: a new process drives the lamps to
`initial_axis` green whatever they show.

Bounds: `MinGreen` 2, `MaxGreen` 4, `YellowTime` 2, `AllRedTime` 1, ticks of 1
or 2. The green window has a point strictly inside it, the yellow is longer
than the shortest tick, and a tick of 2 overshoots each limit. There are no
other bounds: `wait` and `asked` stop one past `MaxWait` and `MaxAsk` (`UpTo`),
which only a broken controller can reach; the lemma `RunningClocks` proves it.
The theorems cover all other values.

### In-memory bus

One worker per subscription; its `task` says which `await` it is in. `Publish`
may happen in any state, from outside or from a handler. The cache is the real
LRU sequence. `Start` is not called while `stop()` is awaited: the bus has one
owner (`fleet.py`), which awaits both.

* `KeepsContract`: refinement of `EventDelivery`: what is owed to a consumer is
  the envelope it is trying and its queue, and an envelope leaves only as
  handled, recognised or dead-lettered.
* `OwedInOrder`: per subscription, order of publication is kept.
* `JoinCountsWork`: the counter `join()` waits on.
* `OncePerWindow`: an event handled before is handled again only if `CacheSize`
  other events were met in between.
* `EverythingSettled`, `StopReturns`: under weak fairness of each worker and of
  `stop()`, since the event loop resumes what is ready and handlers return or
  raise. `EverythingSettled` excludes a worker lost to a dead-letter handler.

Bounds (`MaxPublished` 3, `MaxSentinels` 2, two events, a cache of one, one
retry, two subscriptions with different interests): enough for a duplicate after an
eviction, for events in front of and behind a sentinel, for a stop that fails
half way and a restart after it. Deadlock is not checked: with publications
used up and a worker lost, nothing need happen.

`inmemory_stop` restricts outside publications to the time the bus runs
(`QuietSpec`) and shows that `stop()` does not drain what handlers publish
while it waits.

### RabbitMQ bus

The broker is environment: `ready` counts copies per queue, without order, as
redelivery and concurrent callbacks reorder them anyway; unacknowledged
messages come back when a process ends. A callback sits in a slot, of which a
subscription has `Prefetch`. `Down` is a crash or a stop: no caller starts the
same bus object again, so the new process has an empty cache.

* `AtLeastOnce`: everything published to a subscription is served,
  dead-lettered or on its way. It holds with one queue per subscription
  (`rabbit_bus`) and fails when two subscriptions of one agent share the queue
  of their `consumer_name` (`rabbit_shared_queue`), as those of the decision
  agent, the orchestrator and the dashboard do.
* `EverythingSettled`: weak fairness of callbacks and of the restart of a
  process (`src/deploy/docker-compose.yml`), with finitely many crashes.
* `NeverTwiceAtOnce` fails (`rabbit_twice`): the duplicate check precedes the
  handler, the recording follows it, and retries go to every interested queue.

Bounds: one publication whose retries multiply, two callbacks at once, one
retry, one process that ends. `Copies` has a `retry_count` above the limit, which `TypeOK`
shows is not reached.

### Redis Streams bus

Redis is environment: per group the last entry given out (`cursor`) and the
entries given out and not acknowledged (`pending`); `XADD` may trim a stream,
down to `MaxLen` entries. A group is a subscription and an event type; two
processes may share it, as consumers with ids of their own. Each await of
a read loop is a stage. A publication is one step: no property depends on when
it returns. `faults` bounds what takes an entry from its reader: a process that
ends (`stop()` cancels the loops, so it loses a batch as a crash does), a reply
that is lost, a command that fails.

* `AcknowledgedIsSettled`, `NothingVanishes`: what is not pending was served or
  dead-lettered, and what was read is settled, in a batch, or was taken by a
  fault. Those last entries stay in the pending list, which no code reads again.
* `EverythingRead`: under weak fairness of start, binding and read loops, a group
  always catches up: all it is owed is settled, except through faults, trimming, or
  when every read loop of the group has ended with an exception. An event published before the
  group exists is not owed (`born`). It excuses exactly what a fault took, which
  the documents do not:
* `Redelivered` fails (`redis_stranded`): an entry that was given out and not
  handled would be asked for again. The read loop asks for `>` only, so a lost
  reply, a crash or an ordinary `stop()` leaves it pending for ever.

Bounds: two processes, one group, an undecodable event, three publications with
`MaxLen` 2 and replies of up to 2 entries, so that batches are left half done and the cursor
is overtaken by the trimming; one fault at any point. `redis_stranded` needs only one
process and one event.

### Monitoring

The transport is seen from the handlers: a reader takes the states in order,
its handler returns or raises because a publication failed, and is run again up to
`MaxRetries` times. Heartbeats are delayed, repeated and reordered, up to
`MaxDelay`. Ages replace timestamps; averages are kept as total and number, the
forecaster's line as integers over a denominator.

* `CountedOnce`: a state counts twice in baseline or trend only after a retry.
* `ForecastSound`: whatever times the states carry (a reset twin turns them
  back), samples are in order, the line satisfies the normal equations of least squares, the
  forecast is not negative and a constant queue is forecast constant.
* `ReportedOnce`, `EpisodeToldOnce`: the two incident detectors. The debounce,
  and the active key, are recorded before the publication: a failed publication
  loses the incident, and nothing else does.
* `DashboardShowsMode`: the dashboard's mode is the orchestrator's, except when
  the publication of the last change failed: the retry finds the mode set.
* `HealthIsTrue`: if an interval and twice the delay fit in `stale_after_s`
  (`MonitoringAssumption`; nothing in `OrchestratorSettings` says so, its
  defaults do), a beating agent is never marked, and a silent one is
  within `stale_after_s` and one check. A heartbeat loop ends for good when a
  publication fails; the agent is then marked while it still works.

Readers that share nothing but the feed are deployed apart (`deployed`):
memory, incident detection, orchestrator and dashboard; the incident service;
the prediction agent. With an agent monitored one state is enough. Bounds:
three states (four for a reader alone), which fill the window and overflow it,
two failed publications with one retry: a retry that succeeds and one that gives up.

### Fleet loop

`loop` and `joining` say where `run_simulated_loop` is; the queues are those of
the in-memory bus in the order of the subscriptions, without failing handlers.
Which worker runs next is open. Only the explainability agent suspends inside
its handler (`narrating`). `Cancel` is the gateway's shutdown. The deployment
`demo` is the loop of `src/scripts/demo_agents_loop.py`.

* `TicksOnLatest`: at each tick the intent in force was decided on the state
  just published, and memory, forecast and dashboard are up to date. Three joins
  suffice for the chain state, forecast/decision, explanation in this order of subscriptions.
* `ActuatedFirst` fails (`fleet_explained`): the narrator would be at work on the
  decision of a round only once the signal was ticked with it, as the docstring of the
  explainability agent says. The loop joins the narrator's queue first.
* `ForecastCurrent`: a decision uses the forecast of its state or of the one before.
* `LampsKnown`: twin, dashboard and lamps agree; the twin differs only between
  a reset at the horizon and the next tick.
* `NeverHangs`: weak fairness of the workers and of the loop, none of the
  narrator: the timeout alone ends the wait. (A narrator that stalls delays the tick
  by up to that timeout.)

Bounds: three rounds with a horizon of two, so that a reset falls between rounds.
The run ends there (deadlock is not checked).

### Closed loop

One step is one control tick. `pilot` is chosen at the start: `FixedTimerController`,
`AdaptiveController`, the decision agent's utility policy with the signal
controller's machine, the composable services, or the adaptive controller over
SUMO. Arrivals, emergencies, forecasts, trust in perception and failed
publications are any.

* `ServedWithinCycle`: an axis waits for at most a cycle, and a queue moves as
  often, if the minimum green lets a vehicle cross (the capacity carried
  over is lost at the end of a green). With the services it is twice that, and once and a tick more
  for each decision lost or retried: the controllers stand still in turn.
* `EmergencyServed`: a vehicle on one axis waits for clearances and a minimum green at most.
* `JumpsOnlyAtFailover`: lamps change along `Legal`, except when the services
  change the controller or their machine is ahead of a decision that was not
  published; SUMO's lamps are the commanded ones, although its program runs on
  by itself. That needs `ProgramCoversSettings`: nothing ties the durations
  written by `build_network.py` to the settings; the defaults of both agree.
* `NeverJumps` fails (`services_jump`): without those exceptions, which are what the
  documents promise, the composable services break it, by a failover or by a
  publication that fails; which one TLC finds first may differ.

Bounds: an approach per axis, queues of up to 2, one lost decision, greens of 2 to 4,
clearances of 1, a vehicle per two ticks of green. From a starvation limit
of 5 on, `max_green_s` ends a green no later than starvation does; with 4, the least the
settings allow, starvation always comes first and the longest waits would not occur.

### Perception

An approach is a line of cells; overlap of boxes falls with distance, so a
threshold of IoU is a `Reach`. The association is the greedy one with its tie
breaks; the detections come in any order. A frame may miss vehicles, fail
before tracking (`DropFrame`) or after it (`DropTracked`); the
worker then publishes its last state again.

* `CountsMatch`: a fresh state counts vehicles of its own frame, each once, and
  none is left out that was seen `min_hits` times in a row.
* `WaitIsOwn`: no stopped time is inherited from another vehicle. It excepts
  tracks that bridge a failed frame, which may be taken over unseen.

Bounds: two alike vehicles (symmetry), seven cells, three tracks, three faults,
stopped times counted up to `MaxStopped` 2.

## Runs

| Run | Expected | Shows |
|---|---|---|
| `roadside` | pass | the controller keeps the promise, bounds and announcements; counting, reporting, mode and health under failed publications; on Redis nothing is acknowledged unserved |
| `controller_restart` | violation of `ClearanceBeforeGreen` | restart over live lamps |
| `inmemory_bus` | pass | contract, order, join counter, liveness of the in-memory bus |
| `inmemory_stop` | violation of `StopDrains` | events left behind by `stop()` |
| `rabbit_bus` | pass | nothing lost with one queue per subscription |
| `rabbit_shared_queue` | violation of `AtLeastOnce` | events lost between subscriptions of one agent |
| `rabbit_twice` | violation of `NeverTwiceAtOnce` | one event in the handler twice |
| `redis_stranded` | violation of `Redelivered` | an entry given out and lost is never asked for again |
| `fleet_loop` | pass | three joins drain the chain; lamps, twin, dashboard agree |
| `fleet_explained` | violation of `ActuatedFirst` | the explanation comes before the actuation |
| `traffic` | pass | bounded waits and legal lamps under five pilots; counts and stopped times under missed and failed frames |
| `services_jump` | violation of `NeverJumps` | the services skip a clearance |

Two of the passing runs put parts side by side that share no variable:
`MCRoadside` the signal controller, the monitoring agents and the Redis bus,
`MCTraffic` the twin and the camera. A variable `subject`, chosen at the start,
says which of them a behaviour is about; its steps are those of that part, and
the others stay in an initial state. So the behaviours checked are those of each
part alone, with one set of bounds, and the product of the parts is never
built. The fairness of each part is required only of the behaviours about it.
Deadlock is not checked in them, because publications, states, frames and
faults are bounded.

Run one with `tlc -config <cfg> <module>`, as listed in `PROJECT.json`. Each
property of a passing run has a mutated definition next to the original one
(comments starting with "Mutant") with which TLC finds it violated.

## Proofs

`Roadside_proofs` proves of `SignalController`, for all settings that
`SettingsAssumption` and `ControllerAssumption` allow (the validators of
`DecisionSettings`, a positive tick bound, either initial axis):
`TypeCorrect`, `ClearanceIsKept`, `WaitIsBounded`, `IntentIsServedInTime`,
`AnnouncedIsShown`, `EnvelopeIsSilent` and `Refinement`.

They follow from one inductive invariant, `IInv`. The properties are not
inductive by themselves: that a wait is bounded after a tick depends on how
long the current phase has lasted, which phase it is, and whose turn is next.
`IInv` adds, as named conjuncts, that the lamps and the history clocks run with
the machine (`InStep`), that the elapsed time of a phase is below its longest
duration (`InPhase`), for each phase an interval for the wait of either axis and
for the time an intent has stood, in terms of the time elapsed (`WaitInv`,
`AskInv`), and which phase is in flight or announced at each point of the loop
(`AnnounceInv`). With it each action is checked conjunct by conjunct; only
`Tick` needs the arithmetic, split by the kind of phase. `IInv` was first checked by TLC. `Refinement` maps each tick to
`Hold`, `EndGreen`, `EndYellow`, `StartGreen` and every other action to a
stutter, under `IInv`.

`SequenceLemmas` has the lemmas about the LRU cache that the buses share:
touching a key makes it the last one and keeps the order of the others;
adding one keeps the cache within its size, and a key that is evicted was
followed by as many different others as the cache holds (the cardinality of an
injective sequence). It also has what filtering a sequence returns: its elements, how it goes through `Append` and `Tail`, and that it
repeats nothing that the sequence does not repeat. The induction theorems of the library take an operator as
a parameter, which the provers cannot instantiate. These lemmas do the induction
over a set instead (`SetInduction`): a set of naturals that is not empty has a least element.

`InMemoryBus_proofs`: `JoinIsExact` from the counts alone (`MailInv`).
`OnceInTheWindow` from `WindowInv`: the cache is a sequence of distinct keys; a
key that was handled is in it and all that follows it there was met later, or it
was evicted and `CacheSize` others were met since; and a worker tries an event
only while its cache does not know it, because nobody else writes that cache.
`TypeCorrect`, `InOrder` and `Refinement` rest on what the queues hold: sentinels
and keys, the keys in the order of publication, with what is in hand in front.
`Refinement` maps a publication to the contract's `Publish`, a worker's last step
with an envelope to `Settle`, and every other step to a stutter; filtering the
sentinels out of the queues gives the contract's queues, which is where
`SequenceLemmas` is needed. `BusAssumption` says that a sentinel is not a key.

`RabbitBus_proofs`: `TypeCorrect` says that no copy is republished beyond the
last retry (`RetriesBounded`). `DeliveredAtLeastOnce` assumes that every
subscription has a queue of its own (`OneQueueEach`), which the code does not
ensure: the decision agent, the orchestrator and the dashboard make several
subscriptions under one `consumer_name`, and there the run
`rabbit_shared_queue` finds the property violated. The argument adds that an
event is owed only to a bound queue that wants it (`OwedIsBound`), so that a
republication comes back to it, and that a wanted event in a cache was served
(`CachedIsServed`), so that dropping a duplicate loses nothing. It needs
finitely many subscriptions, to count what the broker requeues.

`RedisBus_proofs` proves the three invariants of `RedisBus`, for any number of
processes, groups and faults, from an inductive `IInv`: a read loop holds a
batch exactly while it works on one, of entries given out (`BatchInHand`); a
cache knows only events that the group of their type handled
(`CachedIsHandled`: the cache is shared by the loops of a subscription, one per
type, so this needs that a stream holds one type only, `LogTyped`); an
acknowledgement is on its way only for a settled entry (`AckingIsSettled`).

`Monitoring_proofs`, for any number of agents, states, failures and sizes of
the windows, from named invariants of one reader each:
* `DashboardIsRight`: what is on its way to the dashboard ends with the
  orchestrator's mode, unless the publication of the last change failed (`DashboardInv`).
* `HealthIsRight`: every heartbeat an agent owes was sent at most an interval
  ago and is known or on its way within the delay (`Covered`), so that what the
  watchdog knows is no older than the sum (`PulseInv`); that the sum fits
  in `stale_after_s` is part of `MonitoringAssumption`.
* `CountedAtMostOnce`: no state in a history is ahead of its reader, and the one
  its reader is at is in it only if it was tried before (`WindowInv`, `HistoryInv`).
* `ForecastIsSound`, of which `TimeStandsOrGoesOn` is the first part. The line's sums are
  those of the library's `SumFunction`, a fold. `SequenceLemmas` shows by induction over
  the subsets of the indices what such a sum is (`SumTable`), that it is
  linear (`SumLinear`), and that the spread of the times is positive unless all are one
  (`SumOfSquares`, a case of Cauchy-Schwarz). The residuals are linear in the samples,
  so the normal equations are an identity of five sums (`NormalEquations`); a constant
  queue makes the numerator of the slope zero (`ConstantQueue`), and what is forecast is cut off at
  zero (`PredictedSound`).
* `ReportedOnceAndSoon`: the debounce table has the time of the last report,
  which was published or lost (`RaisedInv`).
* `ToldOncePerEpisode`: a key is active exactly during an episode that the
  service was told of (`EpisodeInv`).

`FleetLoop_proofs` proves all four invariants of `FleetLoop`, for any horizon,
durations, number of rounds and order of the workers, in the fleet and in the
demonstration. `TicksOnLatest` speaks of the moment of the tick only; `IInv` says
of every moment of a round what has been done of it. A queue holds the event of
this round or nothing (`QueueInv`), so whether an event has been made can be read
off the queue of the agent that makes it (`Made`). An agent that has taken its
event has the data of this round, and until then that of the round before
(`AgentInv`, `NarratorInv`, `DashboardInv`, `DemoInv`). The joins that have
returned leave nothing behind them, because an event's maker comes before its
readers in the order of the subscriptions (`LoopInv`); the demonstration's probes
come first, so their queues count only from the second round of joins on. A worker's step
changes one thing taken (`WorkQueues`); every other step but a publication
leaves all queues but the signals' alone (`SignallingFacts`). TLC checked `IInv`
before it was proved.

`ClosedLoop_proofs` proves the four properties of `ClosedLoop`, for all
durations, approaches, traffic, forecasts and retries and for any number of lost decisions, under
what the constants are assumed to be: the validators of the settings, and for
SUMO's lamps `ProgramCoversSettings`, which the code does not ensure. None of
them is inductive: what is left of a wait depends on the machine's phase and on
how old it is. Time is counted in ticks throughout (`Ceiling`, `TicksFacts`: an
interval of `t` ends with the tick that reaches it), so that a machine's phase is so many ticks
old (`Timed`), a tick of any controller lets it age or ends it (`StepTurns`), and no
green stands against a request once it has lasted `min_green_s` (`Moves`). `Going` adds
up, from an axis's point of view, the phases since its green at their longest and the
age of the present one: it grows with every tick until the green comes
(`GoingGrows`) and is at most a cycle (`GoingBound`). `IInv` then says
* `WaitInv`: a wait is at most what the commanding machine has going; with the
  services, where one machine stands still, the sum of both, and a cycle and a
  tick more for every lost decision. That a handler that is retried leaves its
  machine in step is an induction over the runs (`AdaptiveAfterFacts`, `FixedAfterFacts`);
* `StuckInv`: a queue that stands under its green lacks capacity, which grows with
  every tick of green up to a crossing; while it has none, it stood before the green;
* `AlarmInv`: an emergency urges the other axis's green to end, which is then no older than
  `min_green_s`, so `Going` with that green bounds the wait (`EmergencyIsServed`);
* `Follows`, `ProgramHolds`: the twin shows the commanded phase, and SUMO's program
  has at least the time left that the machine may stay in it (`LampsJumpOnlyAtFailover`).

While `WaitsAreBounded` was prepared, an earlier bound for the services, of one cycle for a
lost decision, turned out to be too small by a tick: a decision that is not published leaves the lamps as
they are for that tick, and its machine goes on by as many seconds as it was retried.

`Roadside_proofs` also proves the two properties of `Perception`, for any number of
vehicles, tracks, missed detections and failed frames, from `PerceptionInv`: vehicles keep
their distance (`SpacedRoad`); the analyzer knows exactly the confirmed tracks, and a
track that moves has no stopped time (`AnalyzerTyped`); a vehicle seen in the last frame
is followed by a track that was matched in it, which is where the vehicle is, and a track
the analyzer knows follows such a vehicle unless it bridges a failed frame
(`SeenIsFollowed`). TLC checked it before it was proved. The model chooses the greedy
matching by its description, so the first thing to prove is that there is one: any
strict order on finitely many pairs has a worst pair (`WorstOne`), and the greedy
choice of the others can be extended by it (`GreedyChoice`, an induction over the
number of pairs). Then a track takes one detection and a detection one
track (`MatchesFacts`), new ids are new and without gaps (`NewIds`), and each track is matched,
created or missed (`TrackedCases`).
* `CountsOnlySeen`: confirmed tracks map one to one into the vehicles seen, so
  nothing is counted twice. This needs no assumption.
* `CountsAreRight` (`CountsMatch`) assumes `VehiclesTrackable`: `min_hits` is at most 2 (its
  default), a vehicle stays within the tracker's reach from one frame to the next,
  and is nearer to its old place than any other. Then its detection goes to a track there was
  (`NearestIsMatched`), its own or another, which is confirmed with it. Each
  part is needed: with `MinHits` 3, with `Gap` no more than twice `TopSpeed`, or with `Reach`
  below `TopSpeed`, TLC finds a vehicle left out. With three hits to go, a tentative track
  left behind by one vehicle may take the detection of another, which then counts as
  seen less often than it was.
* `StoppedTimeIsOwn` (`WaitIsOwn`) assumes `VehiclesTellable`: where a vehicle was lost, another
  appears so far off that the jump counts as moving, or is beyond the reach
  (`OthersAreFar`), which also takes a region longer than that, as vehicles leave at one end and
  enter at the other. With a region of `Length` 2 TLC finds a stopped time inherited.

The assumptions speak of the traffic and the camera's frame rate, which the code takes as
they are; the run's constants satisfy them. The theorems about the controller use none of them.

Only model-checked: liveness (`EachAxisServed`, the two `EverythingSettled`,
`StopReturns`, `EverythingRead`, `NeverHangs`), which is beyond the prover. Every other
property of a passing run is stated by a theorem. No module here uses `RECURSIVE`.

## Observations

What the models show of the code and no document contradicts, or only a comment:

* Composable services (see `services_jump`): a decision that is retried advances
  the machine again. They decide as if every state were a second after the last
  (`dt=1.0`): a feed at 10 Hz shortens clearances tenfold. The model takes both
  as equal. The actuator's elapsed time is always 0.
* `FixedTimerController` asks for a switch before the time of its tick has
  passed; `AdaptiveController` counts yellow as service and hardly ever meets its
  starvation rule, as `max_green_s` ends a green first.
* With the defaults `StalledVehicleRule` cannot fire: it wants a green of 90 s.
* The twin's carried capacity grows while a green is empty, so a later queue
  starts at once.
* At the horizon the twin is reset but neither the phase machine nor the
  prediction's history is.
* A lost mode change, a lost incident, a state counted twice, and a heartbeat
  loop that ends all have one cause: state is changed before a publication that may raise.
* The worker publishes its last state again, as a new one and with its old
  confidence, for as long as the detector fails, and counts it as processed; a
  publication that fails is not caught although `run` says that it never raises.
* Frames without detections have full confidence.
* Redis: a failing `xack` ends the read loop of a bus that still counts as running.
* A signal controller whose loop died keeps its lamps in their phase for good.
* A missed detection makes a track lose the stopped time it had.

## Not modelled

Delays and sums for the benchmark's KPIs; pedestrians, vehicle classes and
confidences of perception; `AgentService`'s filter and heartbeat and
`ExplanationAgent` of the services; undecodable RabbitMQ messages; the log
buffer, rendering and HTTP views of the dashboard; schemas and serialisation; detector,
video and SUMO's traffic, which are external; texts, logging, metrics, and the scripts
that render documents. They hold no state that the properties here depend on.

Of what is modelled, these branches are left out: a reconnection of
`connect_robust` that keeps the RabbitMQ process and its caches (a lost
connection ends the process); `xgroup_create` failing with anything but
BUSYGROUP, and a Redis `stop()` that raises the exception of a loop that ended;
the baseline changing between the two rules of the incident agent; detections
that first appear in the middle of an approach; a publication of the perception
worker that fails and ends `run()`.
