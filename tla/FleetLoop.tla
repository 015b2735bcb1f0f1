------------------------------ MODULE FleetLoop ------------------------------
(***************************************************************************)
(* fleet.py: the agents of one intersection on the in-memory bus, and the  *)
(* loop that drives them: publish the twin's state, drain the bus, tick    *)
(* the signal controller, step the twin.                                   *)
(*                                                                         *)
(* The bus is the one of InMemoryBus without failing handlers: a queue per *)
(* subscription, in the order build_fleet subscribes, and a worker on each *)
(* that handles one event at a time.  No handler suspends but the          *)
(* explainability agent's, which waits for a narrator in another thread.   *)
(* Which worker runs next is left open; asyncio's order is one of the      *)
(* possible ones.                                                          *)
(*                                                                         *)
(* An event is a tuple that starts with the round of the loop it stems     *)
(* from; a decision also carries the axis it asks for, which is any axis.  *)
(* The demonstration of scripts/demo_agents_loop.py drives four of the     *)
(* agents by a loop of its own, with two probes and a view.                *)
(*                                                                         *)
(* Incident detection and the orchestrator read the same states as traffic *)
(* memory and change nothing the loop reads; Monitoring models them.       *)
(***************************************************************************)
EXTENDS PhaseMachine, Dashboard, Sequences, SequencesExt

CONSTANTS Dt,         \* SimConfig.dt_s
          TotalSteps, \* SimConfig.total_steps
          MaxRounds   \* bound: rounds of the loop

ASSUME LoopAssumption ==
  Dt \in Nat \ {0} /\ TotalSteps \in Nat \ {0} /\ MaxRounds \in Nat \ {0}

VARIABLES
  deployment,  \* which of the two loops runs: "fleet" or "demo"
  loop,        \* where run_simulated_loop (or run_pipeline) is
  joining,     \* the queue its join() waits for, counted over the three rounds
  round,       \* the states published
  step,        \* its local of that name
  twin,        \* the twin's phase
  queue,       \* per subscription, its queue; the head stays until it is handled
  remembered,  \* traffic memory: the states of its window
  forecast,    \* the decision agent's _forecast
  narratorForecast, \* the explainability agent's _forecast
  narrating,   \* whether the explainability agent waits for its narrator
  desired,     \* the signal controller's _desired_axis
  machine,     \* its phase machine
  probed,      \* demo: the last of latest_decision, the lengths of both lists
  view,        \* demo: decision and signal of the DemoView
  intent,      \* history: the last decision
  basis,       \* history: the round of the forecast it was based on
  obeyed       \* history: the decision _desired_axis comes from

control == <<desired, machine, obeyed>>
decided == <<forecast, intent, basis>>
narrator == <<narratorForecast, narrating>>
driver  == <<deployment, loop, joining, round, step, twin>>
demo    == <<probed, view>>
agents  == <<remembered, decided, narrator, control, demo, snapshot>>
vars    == <<driver, queue, agents>>

\* What each subscription reads, in the order of _register calls in build_fleet
\* and in run_pipeline.
DemoSubscriptions ==
  << <<"probe", "decision">>, <<"probe", "forecast">>,
     <<"memory", "state">>, <<"prediction", "state">>,
     <<"decision", "state">>, <<"decision", "forecast">>, <<"signal", "decision">> >>

FleetSubscriptions ==
  << <<"memory", "state">>, <<"prediction", "state">>,
     <<"decision", "state">>, <<"decision", "forecast">>,
     <<"signal", "decision">>,
     <<"explainability", "decision">>, <<"explainability", "forecast">>,
     <<"dashboard", "state">>, <<"dashboard", "decision">>, <<"dashboard", "signal">>,
     <<"dashboard", "forecast">>, <<"dashboard", "explanation">> >>

Subscriptions == IF deployment = "demo" THEN DemoSubscriptions ELSE FleetSubscriptions

Workers == Range(Subscriptions)

\* The queues when `self` (or Nobody) is done with its head and publishes an
\* event or nothing.  bus.stop puts a sentinel at the end of every queue: what
\* is published from then on is behind it and never read.
Nobody  == <<>>
NoEvent == <<"none", Nothing>>

Handled(self, event) ==
  [c \in Workers |->
     (IF c = self THEN Tail(queue[c]) ELSE queue[c])
       \o (IF c[2] = event[1] /\ loop # "stopping" THEN <<event[2]>> ELSE <<>>)]

FirstSignal == <<0, GreenFor(NorthSouth)>>

\* After Fleet.start: the signal controller has announced its signal.  The
\* demonstration starts the bus but none of its agents.
Init ==
  /\ deployment \in {"fleet", "demo"}
  /\ probed = [decision |-> Nothing, decisions |-> 0, forecasts |-> 0]
  /\ view = [decision |-> Nothing, signal |-> Nothing]
  /\ loop = "publish" /\ joining = 0 /\ round = 0 /\ step = 0
  /\ twin = GreenFor(NorthSouth)
  /\ queue = [c \in Workers |-> IF c[2] = "signal" THEN <<FirstSignal>> ELSE <<>>]
  /\ remembered = <<>>
  /\ forecast = 0 /\ narratorForecast = 0 /\ narrating = FALSE
  /\ desired = NorthSouth /\ machine = StartedAt(NorthSouth)
  /\ intent = Nothing /\ basis = 0 /\ obeyed = Nothing
  /\ DashboardInit

-----------------------------------------------------------------------------
\* The loop, between two points at which it can be suspended.
PublishState ==
  /\ loop = "publish"
  /\ round < MaxRounds
  /\ round' = round + 1
  /\ queue' = Handled(Nobody, <<"state", <<round + 1>> >>)
  /\ loop' = "join" /\ joining' = 1
  /\ UNCHANGED <<deployment, step, twin, agents>>

Joins == 3

JoinedQueue == Subscriptions[((joining - 1) % Len(Subscriptions)) + 1]

\* Mutant: the event a worker is busy with is not waited for.
HeadTaken == queue[JoinedQueue] = <<>> \/ (JoinedQueue = <<"explainability", "decision">> /\ narrating)

\* Queue.join() returns.
Drained == queue[JoinedQueue] = <<>>

Join ==
  /\ loop = "join"
  /\ Drained
  /\ IF joining = Joins * Len(Subscriptions)
     THEN loop' = "tick" /\ joining' = 0
     ELSE loop' = "join" /\ joining' = joining + 1
  /\ UNCHANGED <<deployment, round, step, twin, queue, agents>>

\* Mutant: only greens are announced.
AnnouncedGreens(before, after) ==
  IF before # after /\ IsGreen(after) THEN <<"signal", <<round, after>> >> ELSE NoEvent

\* SignalControllerAgent.tick announces a phase that changed.
Announced(before, after) == IF before # after THEN <<"signal", <<round, after>> >> ELSE NoEvent

\* Mutant: one step more than the horizon has.
PastHorizon == step + 1 > TotalSteps

AtHorizon == step + 1 >= TotalSteps

\* Mutant: the twin is stepped with the signal from before the tick.
TwinBehind(before, after) == IF AtHorizon THEN GreenFor(NorthSouth) ELSE before

\* AnalyticalTrafficEnvironment.step, or reset at the horizon.
TwinAfter(before, after) == IF AtHorizon THEN GreenFor(NorthSouth) ELSE after

\* signal_controller.tick and env.step: neither suspends.
Tick ==
  LET request == AxisOf(machine.phase) \notin {desired, NoAxis}
      after   == Step(machine, Dt, request)
  IN
  /\ deployment = "fleet" /\ loop = "tick"
  /\ machine' = after
  /\ queue' = Handled(Nobody, Announced(machine.phase, after.phase))
  /\ twin' = TwinAfter(machine.phase, after.phase)
  /\ step' = IF AtHorizon THEN 0 ELSE step + 1
  /\ loop' = "sleep"
  /\ UNCHANGED <<deployment, joining, round, remembered, decided, narrator, desired, obeyed, demo,
                 snapshot>>

\* Mutant: the view is updated before the signal is ticked.
ViewBefore(before, after) == [decision |-> probed.decision, signal |-> before]

\* DemoView.update
Viewed(before, after) == [decision |-> probed.decision, signal |-> after]

\* The same for run_pipeline, which goes on at once and ends after TotalSteps.
DemoTick ==
  LET request == AxisOf(machine.phase) \notin {desired, NoAxis}
      after   == Step(machine, Dt, request)
  IN
  /\ deployment = "demo" /\ loop = "tick"
  /\ machine' = after
  /\ queue' = Handled(Nobody, Announced(machine.phase, after.phase))
  /\ twin' = after.phase
  /\ view' = Viewed(machine.phase, after.phase)
  /\ IF step + 1 = TotalSteps THEN loop' = "stopping" /\ UNCHANGED step
                              ELSE loop' = "publish" /\ step' = step + 1
  /\ UNCHANGED <<deployment, joining, round, remembered, decided, narrator, desired, obeyed, probed,
                 snapshot>>

Wake ==
  /\ loop = "sleep"
  /\ loop' = "publish"
  /\ UNCHANGED <<deployment, joining, round, step, twin, queue, agents>>

\* The gateway's _shutdown cancels the loop where it is suspended, in a join
\* or in its sleep, and only then stops the agents and the bus, which puts a
\* sentinel at the end of every queue.
Cancel ==
  /\ deployment = "fleet"
  /\ \/ loop = "sleep"
     \/ loop = "join" /\ ~Drained
  /\ loop' = "cancelled"
  /\ UNCHANGED <<deployment, joining, round, step, twin, queue, agents>>

StopBus ==
  /\ loop = "cancelled"
  /\ loop' = "stopping"
  /\ UNCHANGED <<deployment, joining, round, step, twin, queue, agents>>

\* bus.stop has awaited every worker.
Stopped ==
  /\ loop = "stopping"
  /\ \A c \in Workers : queue[c] = <<>>
  /\ loop' = "stopped"
  /\ UNCHANGED <<deployment, joining, round, step, twin, queue, agents>>

-----------------------------------------------------------------------------
\* The workers.
Has(c)    == c \in Workers /\ queue[c] # <<>>
Number(c) == Head(queue[c])[1]

\* TrafficMemoryAgent._on_state (the baseline it may publish is in Monitoring).
Remember ==
  LET c == <<"memory", "state">> IN
  /\ Has(c)
  /\ remembered' = Append(remembered, Number(c))
  /\ queue' = Handled(c, NoEvent)
  /\ UNCHANGED <<driver, demo, decided, narrator, control, snapshot>>

\* PredictionAgent._on_state
Predict ==
  LET c == <<"prediction", "state">> IN
  /\ Has(c)
  /\ queue' = Handled(c, <<"forecast", Head(queue[c])>>)
  /\ UNCHANGED <<driver, demo, remembered, decided, narrator, control, snapshot>>

\* Mutant: the first forecast is kept.
KeepFirst(n) == forecast' = IF forecast = 0 THEN n ELSE forecast

Take(n) == forecast' = n

\* DecisionAgent._on_prediction
LearnForecast ==
  LET c == <<"decision", "forecast">> IN
  /\ Has(c)
  /\ Take(Number(c))
  /\ queue' = Handled(c, NoEvent)
  /\ UNCHANGED <<driver, demo, remembered, intent, basis, narrator, control, snapshot>>

\* DecisionAgent._on_state: the forecast at hand is used, whichever it is.
Decide(axis) ==
  LET c == <<"decision", "state">> IN
  /\ Has(c)
  /\ intent' = <<Number(c), axis>>
  /\ basis' = forecast
  /\ queue' = Handled(c, <<"decision", intent'>>)
  /\ UNCHANGED <<driver, demo, remembered, forecast, narrator, control, snapshot>>

\* SignalControllerAgent._on_decision
Obey ==
  LET c == <<"signal", "decision">> IN
  /\ Has(c)
  /\ desired' = Head(queue[c])[2]
  /\ obeyed' = Head(queue[c])
  /\ queue' = Handled(c, NoEvent)
  /\ UNCHANGED <<driver, demo, remembered, decided, narrator, machine, snapshot>>

\* ExplainabilityAgent._on_prediction
NoteForecast ==
  LET c == <<"explainability", "forecast">> IN
  /\ Has(c)
  /\ narratorForecast' = Number(c)
  /\ queue' = Handled(c, NoEvent)
  /\ UNCHANGED <<driver, demo, remembered, decided, narrating, control, snapshot>>

\* ExplainabilityAgent._on_decision up to its await.
StartNarrating ==
  LET c == <<"explainability", "decision">> IN
  /\ Has(c) /\ ~narrating
  /\ narrating' = TRUE
  /\ UNCHANGED <<driver, demo, queue, remembered, decided, narratorForecast, control, snapshot>>

\* Mutant: nothing is published when the narrator is too late.
ExplainedInTime(n, inTime) == IF inTime THEN <<"explanation", <<n>> >> ELSE NoEvent

Explained(n, inTime) == <<"explanation", <<n>> >>

Explain(inTime) ==
  LET c == <<"explainability", "decision">> IN
  /\ narrating
  /\ narrating' = FALSE
  /\ queue' = Handled(c, Explained(Number(c), inTime))
  /\ UNCHANGED <<driver, demo, remembered, decided, narratorForecast, control, snapshot>>

\* The narrator answers, or never does.
Narrate == Explain(TRUE)

\* Mutant: nothing bounds the wait for the narrator.
WaitForever == FALSE /\ UNCHANGED vars

\* wait_for runs into timeout_s, or the narrator fails: the template is used.
FallBack == Explain(FALSE)

\* DashboardAgent._on_event
Show(field) ==
  LET c == <<"dashboard", field>> IN
  /\ Has(c)
  /\ OnEvent(field, Head(queue[c]))
  /\ queue' = Handled(c, NoEvent)
  /\ UNCHANGED <<driver, demo, remembered, decided, narrator, control>>

\* track_decision and track_forecast of run_pipeline.
ProbeDecision ==
  LET c == <<"probe", "decision">> IN
  /\ Has(c)
  /\ probed' = [probed EXCEPT !.decision = Head(queue[c]), !.decisions = @ + 1]
  /\ queue' = Handled(c, NoEvent)
  /\ UNCHANGED <<driver, remembered, decided, narrator, control, snapshot, view>>

ProbeForecast ==
  LET c == <<"probe", "forecast">> IN
  /\ Has(c)
  /\ probed' = [probed EXCEPT !.forecasts = @ + 1]
  /\ queue' = Handled(c, NoEvent)
  /\ UNCHANGED <<driver, remembered, decided, narrator, control, snapshot, view>>

Shown == {"state", "decision", "signal", "forecast", "explanation"}

Work ==
  \/ Remember \/ Predict \/ LearnForecast \/ \E axis \in Axes : Decide(axis)
  \/ Obey \/ NoteForecast \/ StartNarrating \/ FallBack
  \/ \E field \in Shown : Show(field)
  \/ ProbeDecision \/ ProbeForecast

Drive == PublishState \/ Join \/ Tick \/ DemoTick \/ Wake \/ StopBus \/ Stopped

Next == Drive \/ Cancel \/ Work \/ Narrate

\* The event loop runs every task that can run, and a timeout fires; nothing
\* makes the narrator answer or the gateway shut down.
Spec == Init /\ [][Next]_vars /\ WF_vars(Drive) /\ WF_vars(Work)

-----------------------------------------------------------------------------
TypeOK ==
  /\ loop \in {"publish", "join", "tick", "sleep", "cancelled", "stopping", "stopped"}
  /\ joining \in 0..(Joins * Len(Subscriptions))
  /\ round \in 0..MaxRounds /\ step \in 0..(TotalSteps - 1)
  /\ twin \in Phases
  /\ forecast \in 0..round /\ narratorForecast \in 0..round /\ basis \in 0..round
  /\ desired \in Axes /\ machine \in Machine
  /\ {intent, obeyed} \subseteq {Nothing} \cup ((1..round) \X Axes)
  /\ narrating \in BOOLEAN

(***************************************************************************)
(* When the signal is ticked, everything that follows from the state just  *)
(* published has been done: the intent the phase machine gets is the one   *)
(* decided on that state, and memory, decision agent and dashboard are up  *)
(* to date, an explanation included, as are the probes of the demo.        *)
(***************************************************************************)
TicksOnLatest ==
  loop = "tick" =>
    /\ obeyed = intent /\ intent[1] = round
    /\ forecast = round
    /\ remembered = [n \in 1..round |-> n]
    /\ deployment = "fleet" =>
         /\ \A field \in Shown \ {"signal"} : snapshot[field][1] = round
         /\ snapshot.signal[2] = machine.phase
    /\ deployment = "demo" =>
         probed = [decision |-> intent, decisions |-> round, forecasts |-> round]

(***************************************************************************)
(* The agent that explains a decision only sees it when the signal         *)
(* controller has acted on it, in the tick that ends its round.  That is   *)
(* what explainability/agent.py says; the code has the joins, and so the   *)
(* tick, wait for the explanation, as TicksOnLatest shows.                 *)
(***************************************************************************)
ActuatedFirst ==
  narrating /\ loop \in {"join", "tick"} => Number(<<"explainability", "decision">>) < round

(***************************************************************************)
(* The forecast behind a decision is that of the same state or of the one  *)
(* before, although prediction and decision race on separate queues, and   *)
(* the forecast cited in an explanation is no further behind.              *)
(***************************************************************************)
ForecastCurrent ==
  /\ basis >= intent[1] - 1
  /\ narrating => narratorForecast >= Number(<<"explainability", "decision">>) - 1

(***************************************************************************)
(* Twin and dashboard know what the lamps show.  The twin has their phase  *)
(* except from a reset to the next tick: a cancellation never falls        *)
(* between the signal's tick and the twin's step.  The last signal event   *)
(* shown or queued carries it, also while the bus stops.  The demo's view  *)
(* shows, after every step, what the lamps do and the last decision made.  *)
(***************************************************************************)
LampsKnown ==
  LET pending == queue[<<"dashboard", "signal">>] IN
  /\ twin # machine.phase => step = 0 /\ deployment = "fleet"
  /\ deployment = "demo" /\ round > 0 /\ loop \in {"publish", "stopping", "stopped"} =>
       view = [decision |-> intent, signal |-> machine.phase]
  /\ deployment = "fleet" =>
       machine.phase = IF pending = <<>> THEN snapshot.signal[2] ELSE Last(pending)[2]

(***************************************************************************)
(* Every state that is published gets its tick of the signal controller,   *)
(* however late the narrator is, unless the loop is cancelled; and a       *)
(* shutdown ends, wherever it found the loop and the workers.              *)
(***************************************************************************)
NeverHangs ==
  /\ loop = "join" ~> loop \in {"tick", "cancelled"}
  /\ loop = "cancelled" ~> loop = "stopped"
=============================================================================
