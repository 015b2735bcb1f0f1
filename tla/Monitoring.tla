----------------------------- MODULE Monitoring -----------------------------
(***************************************************************************)
(* The agents that watch the intersection, on a broker whose publications  *)
(* may fail: traffic memory, incident detection and the orchestrator read  *)
(* the feed of states, the memory's baselines go to incident detection,    *)
(* mode changes to the dashboard, and the heartbeats of agents/base.py to  *)
(* the orchestrator.                                                       *)
(*                                                                         *)
(* The transport is seen from the handlers: each reader takes the states   *)
(* in order, a handler that raises is run again up to MaxRetries times,    *)
(* and then its event is dead-lettered.  The prediction agent and the      *)
(* incident service of services/agents.py share nothing with the others    *)
(* but the feed, and are deployed by themselves.  Heartbeats may be        *)
(* delayed by up to MaxDelay, repeated and reordered (rabbitmq.py under    *)
(* redelivery).                                                            *)
(***************************************************************************)
EXTENDS TrafficMemory, IncidentDetection, ServiceIncidents, Forecaster, Orchestrator, Dashboard,
        RetryPolicy, FiniteSets

CONSTANTS Scenes,        \* the states the feed is made of, at time 0
          Interval,      \* heartbeat_interval_s
          MaxDelay,      \* the transport's longest delay of a heartbeat
          MaxStates,     \* bound: states, if no agent is monitored
          MaxAlone,      \* bound: states, for a reader deployed by itself
          MaxMonitored,  \* bound: states, if one is
          MaxFailures    \* bound: publications that fail

(***************************************************************************)
(* OrchestratorSettings relates none of these; its defaults leave room for *)
(* a delay of one interval.  Twice the delay, because a heartbeat may be   *)
(* overtaken by the next one and take its place.                           *)
(***************************************************************************)
ASSUME MonitoringAssumption ==
  /\ Interval \in Nat \ {0} /\ MaxDelay \in Nat
  /\ Interval + 2 * MaxDelay <= StaleAfter
  /\ {MaxRetries, MaxStates, MaxAlone, MaxMonitored, MaxFailures} \subseteq Nat
  /\ Range(Approaches) \subseteq DOMAIN AxisOfLane
  /\ Scenes \subseteq
       [lanes : [DOMAIN AxisOfLane -> [vehicles : Nat, moving : Nat, emergency : BOOLEAN, jam : BOOLEAN]],
        axis : Axes \cup {NoAxis}, elapsed : Nat, confident : BOOLEAN, at : Nat]

VARIABLES
  feed,        \* the states published so far
  next,        \* per reader, the state it is to handle
  deployed,    \* the readers there are
  raised,     \* per reader, how often its handler has raised on that state
  baselines,   \* the baselines on their way to incident detection
  modes,       \* the mode changes on their way to the dashboard
  monitored,   \* the agents that are ever started
  beating,     \* per agent, its heartbeat loop: "off", "on" or "dead"
  slept,       \* per agent, how long its loop has slept
  underway,    \* the heartbeats on their way: agent and age
  failures,    \* history: publications that failed
  retried,     \* history: the readers and states whose handler ever raised
  deadLetters, \* history: the readers and states given up
  lostMode,    \* history: the last mode change could not be published
  fired,       \* history: what the rules found in the states handled
  reported,    \* history: the incidents published, with the time of their state
  dropped,     \* history: the incidents whose publication failed, likewise
  notices,     \* history: what the service reported or failed to: key, state, success
  upFor,       \* history: per agent, for how long its loop has been on
  quiet        \* history: per agent, the time since its last heartbeat

intake   == <<feed, next, raised, failures, retried, deadLetters>>
incidentHistory == <<fired, reported, dropped>>
service  == <<deployed, activeKeys, notices, predictor>>
pulse    == <<monitored, beating, slept, underway, upFor, quiet>>
monitoringVars ==
  <<intake, memory, incident, orchestrator, snapshot, baselines, modes, incidentHistory, service,
    lostMode, pulse>>

Agency  == {"memory", "incident", "orchestrator"}
Readers == Agency \cup {"service", "prediction"}

MonitoringInit ==
  /\ MemoryInit /\ IncidentInit /\ OrchestratorInit /\ DashboardInit
  /\ feed = <<>>
  /\ next = [c \in Readers |-> 1]
  /\ raised = [c \in Readers |-> 0]
  /\ baselines = <<>> /\ modes = <<>>
  /\ beating = [a \in Agents |-> "off"]
  /\ slept = [a \in Agents |-> 0]
  /\ underway = {}
  /\ failures = 0 /\ retried = {} /\ deadLetters = {}
  /\ lostMode = FALSE
  /\ fired = {} /\ reported = {} /\ dropped = {}
  /\ deployed \in {Agency, {"service"}, {"prediction"}}
  /\ ServiceIncidentInit /\ notices = <<>> /\ PredictorInit
  /\ monitored \in IF deployed = Agency THEN SUBSET Agents ELSE {{}}
  /\ upFor = [a \in Agents |-> 0]
  /\ quiet = [a \in Agents |-> MaxAge]

-----------------------------------------------------------------------------
\* Perception or the twin publishes a state; a twin that was reset starts its
\* clock again (fleet.py).
PublishState(scene, at) ==
  /\ Len(feed) < IF monitored # {} THEN MaxMonitored
                 ELSE IF deployed = Agency THEN MaxStates ELSE MaxAlone
  /\ at \in {0, IF feed = <<>> THEN 0 ELSE feed[Len(feed)].at + 1}
  /\ feed' = Append(feed, [scene EXCEPT !.at = at])
  /\ UNCHANGED <<next, raised, failures, retried, deadLetters, memory, incident, orchestrator,
                 snapshot, baselines, modes, incidentHistory, service, lostMode, pulse>>

\* Reader c is handed its next state; its handler returns or raises.
Handles(c) == c \in deployed /\ next[c] <= Len(feed)

Returns(c) ==
  /\ next' = [next EXCEPT ![c] = @ + 1]
  /\ raised' = [raised EXCEPT ![c] = 0]
  /\ UNCHANGED <<feed, failures, retried, deadLetters>>

Raises(c) ==
  /\ failures < MaxFailures
  /\ failures' = failures + 1
  /\ retried' = retried \cup {<<c, next[c]>>}
  /\ IF ShouldRetry(raised[c])
     THEN raised' = [raised EXCEPT ![c] = @ + 1] /\ UNCHANGED <<next, deadLetters>>
     ELSE /\ next' = [next EXCEPT ![c] = @ + 1]
          /\ raised' = [raised EXCEPT ![c] = 0]
          /\ deadLetters' = deadLetters \cup {<<c, next[c]>>}
  /\ UNCHANGED feed

\* TrafficMemoryAgent._on_state
Counts == [n \in DOMAIN feed |-> [d \in DOMAIN AxisOfLane |-> feed[n].lanes[d].vehicles]]

Remember(ok) ==
  /\ Handles("memory")
  /\ Memorize(next["memory"])
  /\ IF ~Publishes
     THEN ok /\ Returns("memory") /\ UNCHANGED baselines
     ELSE IF ok
     THEN /\ Returns("memory")
          /\ baselines' = Append(baselines, BaselineOf(window', Counts, DOMAIN AxisOfLane))
     ELSE Raises("memory") /\ UNCHANGED baselines
  /\ UNCHANGED <<incident, orchestrator, snapshot, modes, incidentHistory, service, lostMode, pulse>>

\* IncidentDetectionAgent._on_baseline
LearnBaseline ==
  /\ baselines # <<>>
  /\ OnBaseline(Head(baselines))
  /\ baselines' = Tail(baselines)
  /\ UNCHANGED <<intake, memory, orchestrator, snapshot, modes, incidentHistory,
                 service, lostMode, pulse>>

\* IncidentDetectionAgent._on_state, of whose publications n go through.
Detect(n) ==
  LET m     == next["incident"]
      state == feed[m]
      due   == Due(state)
      At(i) == <<due[i], state.at>>
  IN
  /\ Handles("incident")
  /\ n <= Len(due)
  /\ reported' = reported \cup {At(i) : i \in 1..n}
  /\ IF n = Len(due)
     THEN /\ Returns("incident")
          /\ Raise(state, n)
          /\ fired' = fired \cup {<<Found(state)[i], m>> : i \in DOMAIN Found(state)}
          /\ UNCHANGED dropped
     ELSE /\ Raises("incident")
          /\ Raise(state, n + 1)
          /\ dropped' = dropped \cup {At(n + 1)}
          /\ UNCHANGED fired
  /\ UNCHANGED <<baseline, memory, orchestrator, snapshot, baselines, modes, service,
                 lostMode, pulse>>

\* services/agents.py, IncidentDetectionAgent._handle, of whose publications n
\* go through.
Serve(n) ==
  LET m     == next["service"]
      state == feed[m]
      Told(i, ok) == <<News(state)[i], m, ok>>
  IN
  /\ Handles("service")
  /\ n <= Len(News(state))
  /\ IF n = Len(News(state))
     THEN /\ Returns("service") /\ HandleAll(state)
          /\ notices' = notices \o [i \in 1..n |-> Told(i, TRUE)]
     ELSE /\ Raises("service") /\ FailAt(state, n + 1)
          /\ notices' = notices \o [i \in 1..(n + 1) |-> Told(i, i <= n)]
  /\ UNCHANGED <<deployed, predictor, memory, incident, orchestrator, snapshot, baselines, modes,
                 incidentHistory, lostMode, pulse>>

\* PredictionAgent._on_state: the sample is kept before the forecast is published.
Foresee(ok) ==
  LET n == next["prediction"] IN
  /\ Handles("prediction")
  /\ Observe(n, feed[n].at)
  /\ IF ok THEN Returns("prediction") ELSE Raises("prediction")
  /\ UNCHANGED <<deployed, activeKeys, notices, memory, incident, orchestrator, snapshot,
                 baselines, modes, incidentHistory, lostMode, pulse>>

\* Mutant: the announcement is made before the assignment and carries the old mode.
AnnounceFirst(ok) ==
  LET confident == feed[next["orchestrator"]].confident IN
  /\ Handles("orchestrator")
  /\ IF ModeFor(confident) = mode
     THEN ok /\ Returns("orchestrator") /\ UNCHANGED <<orchestrator, modes, lostMode>>
     ELSE IF ok
     THEN /\ Returns("orchestrator") /\ SetMode(confident)
          /\ modes' = Append(modes, mode)
          /\ lostMode' = FALSE
     ELSE Raises("orchestrator") /\ UNCHANGED <<orchestrator, modes, lostMode>>
  /\ UNCHANGED <<memory, incident, snapshot, baselines, incidentHistory, service, pulse>>

\* OrchestratorAgent._on_state and _set_mode.
Orchestrate(ok) ==
  LET confident == feed[next["orchestrator"]].confident IN
  /\ Handles("orchestrator")
  /\ IF ModeFor(confident) = mode
     THEN ok /\ Returns("orchestrator") /\ UNCHANGED <<orchestrator, modes, lostMode>>
     ELSE /\ SetMode(confident)
          /\ lostMode' = ~ok
          /\ IF ok THEN Returns("orchestrator") /\ modes' = Append(modes, mode')
                   ELSE Raises("orchestrator") /\ UNCHANGED modes
  /\ UNCHANGED <<memory, incident, snapshot, baselines, incidentHistory, service, pulse>>

\* DashboardAgent._on_event for a SystemModeChanged.
ShowMode ==
  /\ modes # <<>>
  /\ OnEvent("mode", Head(modes))
  /\ modes' = Tail(modes)
  /\ UNCHANGED <<intake, memory, incident, orchestrator, baselines,
                 incidentHistory, service, lostMode, pulse>>

-----------------------------------------------------------------------------
watchers == <<memory, incident, snapshot, baselines, modes, incidentHistory, service, lostMode>>

\* BaseAgent.start: the first heartbeat is due at once.
StartAgent(a) ==
  /\ a \in monitored
  /\ beating[a] = "off"
  /\ beating' = [beating EXCEPT ![a] = "on"]
  /\ slept' = [slept EXCEPT ![a] = Interval]
  /\ UNCHANGED <<intake, watchers, orchestrator, monitored, underway, upFor, quiet>>

\* BaseAgent.stop, or the end of the agent's process: no heartbeat tells of it.
StopAgent(a) ==
  /\ beating[a] = "on"
  /\ beating' = [beating EXCEPT ![a] = "off"]
  /\ upFor' = [upFor EXCEPT ![a] = 0]
  /\ UNCHANGED <<intake, watchers, orchestrator, monitored, slept, underway, quiet>>

\* _heartbeat_loop: a publication that fails ends the loop for good (stop()
\* raises before it forgets the task, and start() makes no other one).
Emit(a, ok) ==
  /\ beating[a] = "on"
  /\ slept[a] = Interval
  /\ IF ok
     THEN /\ underway' = underway \cup {<<a, 0>>}
          /\ slept' = [slept EXCEPT ![a] = 0]
          /\ quiet' = [quiet EXCEPT ![a] = 0]
          /\ UNCHANGED <<beating, failures, upFor>>
     ELSE /\ failures < MaxFailures
          /\ failures' = failures + 1
          /\ beating' = [beating EXCEPT ![a] = "dead"]
          /\ upFor' = [upFor EXCEPT ![a] = 0]
          /\ UNCHANGED <<underway, slept, quiet>>
  /\ UNCHANGED <<feed, next, raised, retried, deadLetters, watchers, orchestrator, monitored>>

\* A heartbeat reaches the orchestrator, for the last time or not.
DeliverHeartbeat(a, age) ==
  /\ <<a, age>> \in underway
  /\ underway' \in {underway, underway \ {<<a, age>>}}
  /\ OnHeartbeat(a, age)
  /\ UNCHANGED <<intake, watchers, monitored, beating, slept, upFor, quiet>>

Watchdog ==
  /\ MarkStale
  /\ UNCHANGED <<intake, watchers, pulse>>

\* Time passes for everyone: no sleep is overdue, no heartbeat later than MaxDelay.
PassTime ==
  /\ monitored # {}
  /\ TimePasses
  /\ \A a \in Agents : beating[a] = "on" => slept[a] < Interval
  /\ \A m \in underway : m[2] < MaxDelay
  /\ slept' = [a \in Agents |-> IF beating[a] = "on" THEN slept[a] + 1 ELSE slept[a]]
  /\ underway' = {<<m[1], m[2] + 1>> : m \in underway}
  /\ upFor' = [a \in Agents |-> IF beating[a] = "on" THEN Older(upFor[a]) ELSE 0]
  /\ quiet' = [a \in Agents |-> Older(quiet[a])]
  /\ UNCHANGED <<intake, watchers, monitored, beating>>

MonitoringNext ==
  \/ \E scene \in Scenes, at \in 0..Max({MaxStates, MaxAlone}) : PublishState(scene, at)
  \/ \E ok \in BOOLEAN : Remember(ok)
  \/ LearnBaseline
  \/ \E n \in 0..Len(Directions) * 2 : Detect(n) \/ Serve(n)
  \/ \E ok \in BOOLEAN : Foresee(ok)
  \/ \E ok \in BOOLEAN : Orchestrate(ok)
  \/ ShowMode
  \/ \E a \in Agents : StartAgent(a) \/ StopAgent(a)
  \/ \E a \in Agents, ok \in BOOLEAN : Emit(a, ok)
  \/ \E a \in Agents, age \in 0..MaxDelay : DeliverHeartbeat(a, age)
  \/ Watchdog
  \/ PassTime

MonitoringSpec == MonitoringInit /\ [][MonitoringNext]_monitoringVars

-----------------------------------------------------------------------------
(***************************************************************************)
(* A state counts once in the averages of the baseline and in the trend of *)
(* the forecast, unless its handler raised and was run again: the retry    *)
(* appends it a second time, to the forecaster with the same time.         *)
(***************************************************************************)
CountedOnce ==
  /\ \A i, j \in DOMAIN window :
       i # j /\ window[i] = window[j] => <<"memory", window[i]>> \in retried
  /\ \A i, j \in DOMAIN history :
       i # j /\ history[i].state = history[j].state =>
         <<"prediction", history[i].state>> \in retried /\ history[i].t = history[j].t

(***************************************************************************)
(* Whatever the times of the states are (equal after a retry, turned back  *)
(* by a reset of the twin), the samples are in the order of their times,   *)
(* the line is the best one through them, the forecast is not negative,    *)
(* and a queue that has not changed is forecast not to change, for sure.   *)
(***************************************************************************)
SamplesOf(d) ==
  [i \in DOMAIN history |-> [t |-> history[i].t, queue |-> Counts[history[i].state][d]]]

ForecastSound ==
  /\ \A i, j \in DOMAIN history : i < j => history[i].t <= history[j].t
  /\ \A d \in DOMAIN AxisOfLane :
       LET samples  == SamplesOf(d)
           forecast == Predicted(samples)
       IN
       samples # <<>> =>
         /\ forecast.queue >= 0 /\ forecast.over > 0
         /\ IsBestLine(LeastSquares(samples), samples)
         /\ (\A i \in DOMAIN samples : samples[i].queue = samples[1].queue) =>
              forecast.queue = forecast.over * samples[1].queue /\ forecast.narrow

(***************************************************************************)
(* Whatever a rule found in a state that was handled has been reported     *)
(* within the debounce (by the clock of the states, which a reset twin     *)
(* turns back), or a publication of it failed in that time: then the       *)
(* debounce recorded before the publication suppresses the retry.  And it  *)
(* was not reported twice within the debounce, through retries, failures   *)
(* and a clock that goes back.                                             *)
(***************************************************************************)
FindingReported(f) ==
  \E r \in reported \cup dropped :
    r[1] = f[1] /\ (r[2] = feed[f[2]].at \/ feed[f[2]].at - r[2] < Debounce)

DebounceKept ==
  \A r, s \in reported : r[1] = s[1] /\ r[2] < s[2] => s[2] - r[2] >= Debounce

ReportedOnce == DebounceKept /\ \A f \in fired : FindingReported(f)

(***************************************************************************)
(* The service tells of an emergency or a jam once per episode, the run of *)
(* states that all show it, whatever publications fail and handlers are    *)
(* run again; but never of one whose publication failed.  A state that is  *)
(* given up after its retries forgets nothing: an incident that was over   *)
(* in that state alone is not told of again.                               *)
(***************************************************************************)
On(k, m)     == k \in Range(Detected(feed[m])) \/ <<"service", m>> \in deadLetters
Episode(k, m, n) == \A i \in m..n : On(k, i)

EpisodeToldOnce ==
  /\ \A i, j \in DOMAIN notices :
       i < j /\ notices[i][1] = notices[j][1] =>
         ~Episode(notices[i][1], notices[i][2], notices[j][2])
  /\ "service" \in deployed =>
       \A n \in 1..(next["service"] - 1) : <<"service", n>> \notin deadLetters =>
         \A k \in Range(Detected(feed[n])) :
           \E i \in DOMAIN notices :
             notices[i][1] = k /\ notices[i][2] <= n /\ Episode(k, notices[i][2], n)

(***************************************************************************)
(* When no mode change is under way the dashboard shows the orchestrator's *)
(* mode, unless the publication of the last change failed: the retry finds *)
(* the mode already set and announces nothing.                             *)
(***************************************************************************)
DashboardShowsMode == modes = <<>> => snapshot.mode = mode \/ lostMode

(***************************************************************************)
(* An agent whose loop has been on for longer than a delivery takes is     *)
(* shown healthy: the watchdog never marks it, however its heartbeats are  *)
(* delayed, repeated and reordered.  And an agent that fell silent is not  *)
(* shown healthy for longer than stale_after_s and one check.              *)
(***************************************************************************)
HealthIsTrue ==
  \A a \in Agents :
    /\ upFor[a] > MaxDelay => health[a].status = "healthy"
    /\ health[a].status = "healthy" => quiet[a] <= StaleAfter + CheckInterval
=============================================================================
