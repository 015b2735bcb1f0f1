-------------------------- MODULE Monitoring_proofs --------------------------
(***************************************************************************)
(* Theorems about Monitoring, for any feed, number of agents, size of the  *)
(* windows, debounce, delay and number of failures.  Each invariant is     *)
(* about the part of the state one agent works on; what the others do      *)
(* leaves it alone.                                                        *)
(***************************************************************************)
EXTENDS Monitoring, SequenceLemmas

-----------------------------------------------------------------------------
(***************************************************************************)
(* The feed and its readers.                                               *)
(***************************************************************************)
State ==
  [lanes : [DOMAIN AxisOfLane -> [vehicles : Nat, moving : Nat, emergency : BOOLEAN, jam : BOOLEAN]],
   axis : Axes \cup {NoAxis}, elapsed : Nat, confident : BOOLEAN, at : Nat]

\* Only states before the next one are given up.
FeedInv ==
  /\ feed \in Seq(State)
  /\ next \in [Readers -> Nat \ {0}]
  /\ \A c \in Readers, m \in Nat : <<c, m>> \in deadLetters => m < next[c]

FeedGrows == Len(feed) <= Len(feed') /\ \A m \in 1..Len(feed) : feed'[m] = feed[m]

(***************************************************************************)
(* A handler returns or raises.                                            *)
(***************************************************************************)
LEMMA ReturnsFacts ==
  ASSUME FeedInv, NEW c \in Readers, Returns(c)
  PROVE  /\ FeedInv' /\ UNCHANGED <<feed, retried, deadLetters>>
         /\ next'[c] = next[c] + 1
         /\ \A d \in Readers \ {c} : next'[d] = next[d]
<1>1. /\ next' = [next EXCEPT ![c] = next[c] + 1] /\ UNCHANGED <<feed, retried, deadLetters>>
      /\ next \in [Readers -> Nat \ {0}]
  BY DEF Returns, FeedInv
<1>2. /\ next' \in [Readers -> Nat \ {0}] /\ next'[c] = next[c] + 1
      /\ \A d \in Readers \ {c} : next'[d] = next[d]
  BY <1>1
<1>3. \A d \in Readers : next[d] <= next'[d] /\ next[d] \in Nat /\ next'[d] \in Nat
  BY <1>1, <1>2
<1>4. \A d \in Readers, m \in Nat : <<d, m>> \in deadLetters' => m < next'[d]
  BY <1>1, <1>3 DEF FeedInv
<1> QED
  BY <1>1, <1>2, <1>4 DEF FeedInv

LEMMA RaisesFacts ==
  ASSUME FeedInv, NEW c \in Readers, Raises(c)
  PROVE  /\ FeedInv' /\ UNCHANGED feed
         /\ retried' = retried \cup {<<c, next[c]>>}
         /\ \A d \in Readers \ {c} : next'[d] = next[d]
         /\ \/ next'[c] = next[c] /\ UNCHANGED deadLetters
            \/ next'[c] = next[c] + 1 /\ deadLetters' = deadLetters \cup {<<c, next[c]>>}
<1>1. /\ UNCHANGED feed /\ retried' = retried \cup {<<c, next[c]>>}
      /\ \/ UNCHANGED <<next, deadLetters>>
         \/ /\ next' = [next EXCEPT ![c] = next[c] + 1]
            /\ deadLetters' = deadLetters \cup {<<c, next[c]>>}
      /\ next \in [Readers -> Nat \ {0}]
  BY DEF Raises, FeedInv
<1>2. CASE UNCHANGED <<next, deadLetters>>
  BY <1>1, <1>2 DEF FeedInv
<1>3. CASE /\ next' = [next EXCEPT ![c] = next[c] + 1]
           /\ deadLetters' = deadLetters \cup {<<c, next[c]>>}
  <2>1. /\ next' \in [Readers -> Nat \ {0}] /\ next'[c] = next[c] + 1
        /\ \A d \in Readers \ {c} : next'[d] = next[d]
    BY <1>1, <1>3
  <2>2. \A d \in Readers : next[d] <= next'[d] /\ next[d] \in Nat /\ next'[d] \in Nat
    BY <1>1, <2>1
  <2>3. ASSUME NEW d \in Readers, NEW m \in Nat, <<d, m>> \in deadLetters' PROVE m < next'[d]
    <3>1. CASE <<d, m>> \in deadLetters
      BY <2>2, <3>1 DEF FeedInv
    <3>2. CASE d = c /\ m = next[c]
      BY <2>1, <2>2, <3>2
    <3> QED BY <1>3, <2>3, <3>1, <3>2
  <2> QED BY <1>1, <1>3, <2>1, <2>3 DEF FeedInv
<1> QED
  BY <1>1, <1>2, <1>3

(***************************************************************************)
(* The feed grows at its end.                                              *)
(***************************************************************************)
LEMMA PublishFacts ==
  ASSUME FeedInv, NEW scene \in Scenes, NEW at, PublishState(scene, at)
  PROVE  /\ FeedInv' /\ FeedGrows
         /\ UNCHANGED <<next, retried, deadLetters>>
<1>1. feed \in Seq(State)
  BY DEF FeedInv
<1>2. at \in Nat
  <2>1. at = 0 \/ (feed # <<>> /\ at = feed[Len(feed)].at + 1)
    BY DEF PublishState
  <2>2. ASSUME feed # <<>> PROVE feed[Len(feed)] \in State
    BY <1>1, <2>2
  <2>3. \A state \in State : state.at \in Nat
    BY DEF State
  <2> QED BY <2>1, <2>2, <2>3
<1>3. scene \in State
  BY MonitoringAssumption DEF State
<1>4. [scene EXCEPT !.at = at] \in State
  BY <1>2, <1>3 DEF State
<1> DEFINE new == [scene EXCEPT !.at = at]
<1>5. feed' = Append(feed, new) /\ UNCHANGED <<next, retried, deadLetters>>
  BY DEF PublishState
<1> HIDE DEF new
<1>6. feed' \in Seq(State) /\ FeedGrows
  BY <1>1, <1>4, <1>5 DEF FeedGrows, new
<1> QED
  BY <1>5, <1>6 DEF FeedInv

LEMMA FeedSame == ASSUME FeedInv, UNCHANGED feed PROVE FeedGrows
  BY DEF FeedInv, FeedGrows

LEMMA InitFeed == MonitoringInit => FeedInv
  BY DEF MonitoringInit, FeedInv

LEMMA NextFeed == FeedInv /\ [MonitoringNext]_monitoringVars => FeedInv' /\ FeedGrows
<1> SUFFICES ASSUME FeedInv, [MonitoringNext]_monitoringVars PROVE FeedInv' /\ FeedGrows
  OBVIOUS
<1>1. ASSUME UNCHANGED <<feed, next, deadLetters>> PROVE FeedInv' /\ FeedGrows
  BY <1>1, FeedSame DEF FeedInv
<1>2. ASSUME NEW c \in Readers, Returns(c) \/ Raises(c) PROVE FeedInv' /\ FeedGrows
  BY <1>2, ReturnsFacts, RaisesFacts, FeedSame
<1>3. Agency \subseteq Readers /\ "service" \in Readers /\ "prediction" \in Readers
      /\ "memory" \in Readers /\ "incident" \in Readers /\ "orchestrator" \in Readers
  BY DEF Agency, Readers
<1>4. ASSUME NEW scene \in Scenes, NEW at, PublishState(scene, at) PROVE FeedInv' /\ FeedGrows
  BY <1>4, PublishFacts
<1>5. ASSUME NEW ok \in BOOLEAN, Remember(ok) \/ Foresee(ok) \/ Orchestrate(ok) PROVE FeedInv' /\ FeedGrows
  BY <1>2, <1>3, <1>5 DEF Remember, Foresee, Orchestrate
<1>6. ASSUME NEW n, Detect(n) \/ Serve(n) PROVE FeedInv' /\ FeedGrows
  BY <1>2, <1>3, <1>6 DEF Detect, Serve
<1>7. CASE LearnBaseline \/ ShowMode \/ Watchdog \/ PassTime \/ UNCHANGED monitoringVars
  BY <1>1, <1>7 DEF LearnBaseline, ShowMode, Watchdog, PassTime, monitoringVars, intake
<1>8. ASSUME NEW a \in Agents, StartAgent(a) \/ StopAgent(a) PROVE FeedInv' /\ FeedGrows
  BY <1>1, <1>8 DEF StartAgent, StopAgent, intake
<1>9. ASSUME NEW a \in Agents, NEW ok \in BOOLEAN, Emit(a, ok) PROVE FeedInv' /\ FeedGrows
  BY <1>1, <1>9 DEF Emit
<1>10. ASSUME NEW a \in Agents, NEW age, DeliverHeartbeat(a, age) PROVE FeedInv' /\ FeedGrows
  BY <1>1, <1>10 DEF DeliverHeartbeat, intake
<1> QED
  BY <1>4, <1>5, <1>6, <1>7, <1>8, <1>9, <1>10 DEF MonitoringNext

-----------------------------------------------------------------------------
(***************************************************************************)
(* The mode on the dashboard.                                              *)
(***************************************************************************)
Modes == {"ai", "degraded"}

\* The last change on its way is to the present mode, or the dashboard has it.
DashboardInv ==
  /\ modes \in Seq(Modes) /\ mode \in Modes /\ "mode" \in DOMAIN snapshot
  /\ \/ lostMode
     \/ modes = <<>> /\ snapshot["mode"] = mode
     \/ modes # <<>> /\ modes[Len(modes)] = mode

LEMMA InitDashboard == MonitoringInit => DashboardInv
<1> SUFFICES ASSUME MonitoringInit PROVE DashboardInv
  OBVIOUS
<1>1. modes = <<>> /\ mode = "ai" /\ snapshot = [f \in Fields \cup {"mode"} |-> IF f = "mode" THEN "ai" ELSE Nothing]
  BY DEF MonitoringInit, OrchestratorInit, DashboardInit
<1>2. modes \in Seq(Modes)
  BY <1>1
<1>3. snapshot["mode"] = "ai" /\ "mode" \in DOMAIN snapshot
  BY <1>1
<1> QED
  BY <1>1, <1>2, <1>3 DEF DashboardInv, Modes

LEMMA OrchestrateDashboard ==
  ASSUME DashboardInv, NEW ok \in BOOLEAN, Orchestrate(ok)
  PROVE  DashboardInv'
<1>0. modes \in Seq(Modes) /\ mode \in Modes /\ "mode" \in DOMAIN snapshot /\ UNCHANGED snapshot
  BY DEF DashboardInv, Orchestrate
<1>1. CASE UNCHANGED <<mode, modes, lostMode>>
  BY <1>0, <1>1 DEF DashboardInv
<1>2. CASE /\ mode' \in Modes
           /\ \/ lostMode' /\ UNCHANGED modes
              \/ modes' = Append(modes, mode')
  <2>1. CASE lostMode' /\ UNCHANGED modes
    BY <1>0, <1>2, <2>1 DEF DashboardInv
  <2>2. CASE modes' = Append(modes, mode')
    <3>1. modes' \in Seq(Modes) /\ modes' # <<>> /\ modes'[Len(modes')] = mode'
      BY <1>0, <1>2, <2>2
    <3> QED BY <1>0, <1>2, <3>1 DEF DashboardInv
  <2> QED BY <1>2, <2>1, <2>2
<1>3. \A confident : ModeFor(confident) \in Modes
  BY DEF ModeFor, Modes
<1> QED
  BY <1>1, <1>2, <1>3 DEF Orchestrate, SetMode, orchestrator

LEMMA ShowModeDashboard ==
  ASSUME DashboardInv, ShowMode
  PROVE  DashboardInv'
<1>1. /\ modes \in Seq(Modes) /\ mode \in Modes /\ "mode" \in DOMAIN snapshot
      /\ modes # <<>> /\ modes' = Tail(modes)
      /\ snapshot' = [snapshot EXCEPT !["mode"] = Head(modes)]
      /\ UNCHANGED <<mode, lostMode>>
  BY DEF DashboardInv, ShowMode, OnEvent, orchestrator
<1>2. "mode" \in DOMAIN snapshot' /\ snapshot'["mode"] = modes[1]
  BY <1>1
<1>3. modes' \in Seq(Modes)
  BY <1>1
<1>4. CASE Len(modes) = 1
  <2>1. modes' = <<>> /\ modes[Len(modes)] = modes[1]
    BY <1>1, <1>4
  <2> QED BY <1>1, <1>2, <1>3, <2>1 DEF DashboardInv
<1>5. CASE Len(modes) # 1
  <2>0. Len(modes) \in Nat /\ Len(modes) > 1
    <3>1. modes \in Seq(Modes) /\ modes # <<>>
      BY <1>1
    <3>2. Len(modes) \in Nat \ {0}
      BY <3>1, EmptySeq
    <3> DEFINE n == Len(modes)
    <3>3. n \in Nat \ {0} /\ n # 1
      BY <1>5, <3>2
    <3> HIDE DEF n
    <3>4. n \in Nat /\ n > 1
      BY <3>3
    <3> QED BY <3>4 DEF n
  <2>1. modes' # <<>> /\ modes'[Len(modes')] = modes[Len(modes)]
    <3>1. Len(modes') = Len(modes) - 1 /\ \A i \in 1..(Len(modes) - 1) : modes'[i] = modes[i + 1]
      BY <1>1
    <3>2. modes' # <<>>
      BY <2>0, <1>3, <3>1
    <3> QED BY <2>0, <3>1, <3>2
  <2> QED BY <1>1, <1>2, <1>3, <2>1 DEF DashboardInv
<1> QED
  BY <1>4, <1>5

LEMMA NextDashboard == DashboardInv /\ [MonitoringNext]_monitoringVars => DashboardInv'
<1> SUFFICES ASSUME DashboardInv, [MonitoringNext]_monitoringVars PROVE DashboardInv'
  OBVIOUS
<1>1. ASSUME UNCHANGED <<mode, modes, snapshot, lostMode>> PROVE DashboardInv'
  BY <1>1 DEF DashboardInv
<1>2. ASSUME NEW ok \in BOOLEAN, Remember(ok) \/ Foresee(ok) PROVE DashboardInv'
  BY <1>1, <1>2 DEF Remember, Foresee, orchestrator
<1>3. ASSUME NEW n, Detect(n) \/ Serve(n) PROVE DashboardInv'
  BY <1>1, <1>3 DEF Detect, Serve, orchestrator
<1>4. CASE LearnBaseline \/ UNCHANGED monitoringVars \/ \E scene \in Scenes, at \in 0..Max({MaxStates, MaxAlone}) : PublishState(scene, at)
  BY <1>1, <1>4 DEF LearnBaseline, monitoringVars, PublishState, orchestrator
<1>5. CASE Watchdog \/ PassTime
  BY <1>1, <1>5 DEF Watchdog, PassTime, MarkStale, TimePasses, watchers
<1>6. ASSUME NEW a \in Agents, StartAgent(a) \/ StopAgent(a) \/ \E ok \in BOOLEAN : Emit(a, ok) PROVE DashboardInv'
  BY <1>1, <1>6 DEF StartAgent, StopAgent, Emit, watchers, orchestrator
<1>7. ASSUME NEW a \in Agents, NEW age, DeliverHeartbeat(a, age) PROVE DashboardInv'
  BY <1>1, <1>7 DEF DeliverHeartbeat, OnHeartbeat, watchers
<1> QED
  BY <1>2, <1>3, <1>4, <1>5, <1>6, <1>7, OrchestrateDashboard, ShowModeDashboard DEF MonitoringNext

(***************************************************************************)
(* When no mode change is under way the dashboard shows the orchestrator's *)
(* mode, unless the publication of the last change failed (_set_mode       *)
(* assigns before it announces; DashboardAgent._on_event).                 *)
(***************************************************************************)
THEOREM DashboardIsRight == MonitoringSpec => []DashboardShowsMode
<1>1. DashboardInv => DashboardShowsMode
  BY DEF DashboardInv, DashboardShowsMode
<1> QED
  BY <1>1, InitDashboard, NextDashboard, PTL DEF MonitoringSpec

-----------------------------------------------------------------------------
(***************************************************************************)
(* Heartbeats and health.                                                  *)
(***************************************************************************)
PulseTyped ==
  /\ beating \in [Agents -> {"off", "on", "dead"}]
  /\ slept \in [Agents -> 0..Interval]
  /\ underway \subseteq Agents \X (0..MaxDelay)
  /\ upFor \in [Agents -> Nat]
  /\ quiet \in [Agents -> Nat]
  /\ health \in [Agents -> [status : Statuses, age : Nat]]
  /\ sinceCheck \in 0..CheckInterval

\* Nothing that is heard of an agent is younger than its last heartbeat, and
\* the watchdog has seen what it should.
HeardIsOld ==
  \A a \in Agents :
    /\ beating[a] # "on" => upFor[a] = 0
    /\ \A age \in 0..MaxDelay : <<a, age>> \in underway => quiet[a] <= age
    /\ health[a].status # "unknown" => quiet[a] <= health[a].age
    /\ health[a].status = "healthy" => health[a].age <= StaleAfter + sinceCheck

\* A heartbeat of so many units ago is on its way, or the orchestrator has heard of
\* the agent since.
Covered(a, ago) ==
  \/ <<a, ago>> \in underway
  \/ health[a].status = "healthy" /\ health[a].age <= ago + MaxDelay

\* The last heartbeat of a loop that is on is covered, and so is one of each
\* interval before it for which the loop has been on.
BeatsCovered ==
  \A a \in Agents : beating[a] = "on" =>
    /\ upFor[a] >= 1 \/ slept[a] < Interval => Covered(a, slept[a])
    /\ \A y \in 1..(MaxDelay + 1) :
         upFor[a] >= y => \E ago \in y..(y + Interval - 1) : Covered(a, ago)

PulseInv == PulseTyped /\ HeardIsOld /\ BeatsCovered

LEMMA OlderFacts ==
  ASSUME NEW n \in Nat
  PROVE  /\ Older(n) \in Nat /\ Older(n) <= n + 1 /\ n <= Older(n)
         /\ \A m \in Nat : n <= m => Older(n) <= m + 1 /\ Older(n) <= Older(m)
  BY OrchestratorAssumption DEF Older, MaxAge

LEMMA InitPulse == MonitoringInit => PulseInv
<1> SUFFICES ASSUME MonitoringInit PROVE PulseInv
  OBVIOUS
<1>0. StaleAfter \in Nat /\ CheckInterval \in Nat /\ Interval \in Nat /\ MaxDelay \in Nat
  BY OrchestratorAssumption, MonitoringAssumption DEF OrchestratorSettings
<1>1. /\ beating = [a \in Agents |-> "off"] /\ slept = [a \in Agents |-> 0] /\ underway = {}
      /\ upFor = [a \in Agents |-> 0] /\ quiet = [a \in Agents |-> MaxAge]
      /\ health = [a \in Agents |-> Unknown] /\ sinceCheck = 0
  BY DEF MonitoringInit, OrchestratorInit
<1>2. Unknown \in [status : Statuses, age : Nat] /\ Unknown.status = "unknown"
  BY DEF Unknown, Statuses
<1>3. MaxAge \in Nat
  BY <1>0 DEF MaxAge
<1>4. PulseTyped
  BY <1>0, <1>1, <1>2, <1>3 DEF PulseTyped
<1>5. HeardIsOld
  BY <1>1, <1>2 DEF HeardIsOld
<1>6. BeatsCovered
  BY <1>1 DEF BeatsCovered
<1> QED
  BY <1>4, <1>5, <1>6 DEF PulseInv

(***************************************************************************)
(* A heartbeat loop ends: nothing is said of its agent any more.           *)
(***************************************************************************)
LEMMA LoopEnds ==
  ASSUME PulseInv, NEW a \in Agents, NEW state \in {"off", "dead"},
         beating' = [beating EXCEPT ![a] = state], upFor' = [upFor EXCEPT ![a] = 0],
         UNCHANGED <<slept, underway, quiet, health, sinceCheck>>
  PROVE  PulseInv'
<1>1. PulseTyped
  BY DEF PulseInv
<1>2. PulseTyped'
  BY <1>1 DEF PulseTyped
<1>3. /\ beating'[a] # "on" /\ upFor'[a] = 0
      /\ \A b \in Agents \ {a} : beating'[b] = beating[b] /\ upFor'[b] = upFor[b]
  BY <1>1 DEF PulseTyped
<1>4. HeardIsOld'
  BY <1>3 DEF PulseInv, HeardIsOld
<1>5. BeatsCovered'
  <2> SUFFICES ASSUME NEW b \in Agents, beating'[b] = "on"
               PROVE  /\ upFor'[b] >= 1 \/ slept[b] < Interval => Covered(b, slept[b])
                      /\ \A y \in 1..(MaxDelay + 1) :
                           upFor'[b] >= y => \E ago \in y..(y + Interval - 1) : Covered(b, ago)
    BY DEF BeatsCovered, Covered
  <2>1. beating[b] = "on" /\ upFor'[b] = upFor[b]
    BY <1>3
  <2> QED BY <2>1 DEF PulseInv, BeatsCovered
<1> QED
  BY <1>2, <1>4, <1>5 DEF PulseInv

(***************************************************************************)
(* An agent is started, stops or sends a heartbeat.                        *)
(***************************************************************************)
LEMMA StartStopPulse ==
  ASSUME PulseInv, NEW a \in Agents, StartAgent(a) \/ StopAgent(a)
  PROVE  PulseInv'
<1>0. Interval \in Nat \ {0}
  BY MonitoringAssumption
<1>1. PulseTyped
  BY DEF PulseInv
<1>2. UNCHANGED <<underway, quiet, health, sinceCheck>>
  BY DEF StartAgent, StopAgent, orchestrator
<1>3. CASE StartAgent(a)
  <2>1. /\ beating[a] = "off" /\ UNCHANGED upFor
        /\ beating' = [beating EXCEPT ![a] = "on"] /\ slept' = [slept EXCEPT ![a] = Interval]
    BY <1>3 DEF StartAgent
  <2>2. PulseTyped'
    BY <1>0, <1>1, <1>2, <2>1 DEF PulseTyped
  <2>3. /\ beating'[a] = "on" /\ slept'[a] = Interval /\ upFor[a] = 0
        /\ \A b \in Agents \ {a} : beating'[b] = beating[b] /\ slept'[b] = slept[b]
    BY <1>1, <2>1 DEF PulseTyped, PulseInv, HeardIsOld
  <2>4. HeardIsOld'
    BY <1>2, <2>1, <2>3 DEF PulseInv, HeardIsOld
  <2>5. BeatsCovered'
    <3> SUFFICES ASSUME NEW b \in Agents, beating'[b] = "on"
                 PROVE  /\ upFor[b] >= 1 \/ slept'[b] < Interval => Covered(b, slept'[b])
                        /\ \A y \in 1..(MaxDelay + 1) :
                             upFor[b] >= y => \E ago \in y..(y + Interval - 1) : Covered(b, ago)
      BY <1>2, <2>1 DEF BeatsCovered, Covered
    <3>1. CASE b = a
      BY <1>0, <2>3, <3>1
    <3>2. CASE b # a
      BY <2>3, <3>2 DEF PulseInv, BeatsCovered
    <3> QED BY <3>1, <3>2
  <2> QED BY <2>2, <2>4, <2>5 DEF PulseInv
<1>4. CASE StopAgent(a)
  <2>1. /\ UNCHANGED slept
        /\ beating' = [beating EXCEPT ![a] = "off"] /\ upFor' = [upFor EXCEPT ![a] = 0]
    BY <1>4 DEF StopAgent
  <2> QED BY <1>2, <2>1, LoopEnds
<1> QED
  BY <1>3, <1>4

LEMMA EmitPulse ==
  ASSUME PulseInv, NEW a \in Agents, NEW ok \in BOOLEAN, Emit(a, ok)
  PROVE  PulseInv'
<1>0. Interval \in Nat \ {0} /\ MaxDelay \in Nat
  BY MonitoringAssumption
<1>1. PulseTyped
  BY DEF PulseInv
<1>2. UNCHANGED <<health, sinceCheck>> /\ beating[a] = "on"
  BY DEF Emit, orchestrator
<1>3. CASE ok
  <2>1. /\ underway' = underway \cup {<<a, 0>>}
        /\ slept' = [slept EXCEPT ![a] = 0] /\ quiet' = [quiet EXCEPT ![a] = 0]
        /\ UNCHANGED <<beating, upFor>>
    BY <1>3 DEF Emit
  <2>2. PulseTyped'
    BY <1>0, <1>1, <1>2, <2>1 DEF PulseTyped
  <2>3. /\ slept'[a] = 0 /\ quiet'[a] = 0
        /\ \A b \in Agents \ {a} : slept'[b] = slept[b] /\ quiet'[b] = quiet[b]
    BY <1>1, <2>1 DEF PulseTyped
  <2>4. HeardIsOld'
    <3> SUFFICES ASSUME NEW b \in Agents
                 PROVE  /\ \A age \in 0..MaxDelay : <<b, age>> \in underway' => quiet'[b] <= age
                        /\ health[b].status # "unknown" => quiet'[b] <= health[b].age
      BY <1>2, <2>1 DEF PulseInv, HeardIsOld
    <3>1. CASE b = a
      <4>1. health[b].age \in Nat
        BY <1>1 DEF PulseTyped
      <4> QED BY <2>3, <3>1, <4>1
    <3>2. CASE b # a
      BY <2>1, <2>3, <3>2 DEF PulseInv, HeardIsOld
    <3> QED BY <3>1, <3>2
  <2> DEFINE Then(b, ago) == \/ <<b, ago>> \in underway'
                             \/ health'[b].status = "healthy" /\ health'[b].age <= ago + MaxDelay
  <2>5. \A b \in Agents : \A ago : Covered(b, ago) => Then(b, ago)
    BY <1>2, <2>1 DEF Covered
  <2>6. Then(a, 0)
    BY <2>1
  <2>7. BeatsCovered'
    <3> SUFFICES ASSUME NEW b \in Agents, beating[b] = "on"
                 PROVE  /\ upFor[b] >= 1 \/ slept'[b] < Interval => Then(b, slept'[b])
                        /\ \A y \in 1..(MaxDelay + 1) :
                             upFor[b] >= y => \E ago \in y..(y + Interval - 1) : Then(b, ago)
      BY <2>1 DEF BeatsCovered, Covered
    <3> HIDE DEF Then
    <3>1. upFor[b] >= 1 \/ slept'[b] < Interval => Then(b, slept'[b])
      <4>1. CASE b = a
        BY <2>3, <2>6, <4>1
      <4>2. CASE b # a
        <5>1. upFor[b] >= 1 \/ slept[b] < Interval => Covered(b, slept[b])
          BY DEF PulseInv, BeatsCovered
        <5> QED BY <2>3, <2>5, <4>2, <5>1
      <4> QED BY <4>1, <4>2
    <3>2. ASSUME NEW y \in 1..(MaxDelay + 1), upFor[b] >= y
          PROVE  \E ago \in y..(y + Interval - 1) : Then(b, ago)
      <4>1. PICK ago \in y..(y + Interval - 1) : Covered(b, ago)
        BY <3>2 DEF PulseInv, BeatsCovered
      <4> QED BY <2>5, <4>1
    <3> QED BY <3>1, <3>2
  <2> QED BY <2>2, <2>4, <2>7 DEF PulseInv
<1>4. CASE ~ok
  <2>1. /\ beating' = [beating EXCEPT ![a] = "dead"] /\ upFor' = [upFor EXCEPT ![a] = 0]
        /\ UNCHANGED <<underway, slept, quiet>>
    BY <1>4 DEF Emit
  <2> QED BY <1>2, <2>1, LoopEnds
<1> QED
  BY <1>3, <1>4

(***************************************************************************)
(* A heartbeat arrives.                                                    *)
(***************************************************************************)
LEMMA DeliverPulse ==
  ASSUME PulseInv, NEW a \in Agents, NEW age \in 0..MaxDelay, DeliverHeartbeat(a, age)
  PROVE  PulseInv'
<1>0. Interval \in Nat \ {0} /\ MaxDelay \in Nat /\ MaxDelay <= StaleAfter /\ StaleAfter \in Nat
  BY MonitoringAssumption, OrchestratorAssumption DEF OrchestratorSettings
<1>1. PulseTyped
  BY DEF PulseInv
<1> DEFINE heard == [status |-> "healthy", age |-> age]
<1>2. /\ <<a, age>> \in underway
      /\ underway' \in {underway, underway \ {<<a, age>>}}
      /\ health' = [health EXCEPT ![a] = heard]
      /\ UNCHANGED <<beating, slept, upFor, quiet, sinceCheck>>
  BY DEF DeliverHeartbeat, OnHeartbeat
<1>3. heard \in [status : Statuses, age : Nat] /\ heard.status = "healthy" /\ heard.age = age
  BY <1>0 DEF Statuses
<1> HIDE DEF heard
<1>4. PulseTyped'
  BY <1>1, <1>2, <1>3 DEF PulseTyped
<1>5. health'[a] = heard /\ \A b \in Agents \ {a} : health'[b] = health[b]
  BY <1>1, <1>2 DEF PulseTyped
<1>6. sinceCheck \in Nat /\ age \in Nat /\ age <= MaxDelay
  BY <1>0, <1>1, OrchestratorAssumption DEF PulseTyped, OrchestratorSettings
<1>7. HeardIsOld'
  <2> SUFFICES ASSUME NEW b \in Agents
               PROVE  /\ beating[b] # "on" => upFor[b] = 0
                      /\ \A other \in 0..MaxDelay : <<b, other>> \in underway' => quiet[b] <= other
                      /\ health'[b].status # "unknown" => quiet[b] <= health'[b].age
                      /\ health'[b].status = "healthy" => health'[b].age <= StaleAfter + sinceCheck
    BY <1>2 DEF HeardIsOld
  <2>1. /\ beating[b] # "on" => upFor[b] = 0
        /\ \A other \in 0..MaxDelay : <<b, other>> \in underway' => quiet[b] <= other
    BY <1>2 DEF PulseInv, HeardIsOld
  <2>2. CASE b = a
    <3>1. quiet[b] <= age
      BY <1>2, <2>2 DEF PulseInv, HeardIsOld
    <3> QED BY <1>0, <1>3, <1>5, <1>6, <2>1, <2>2, <3>1
  <2>3. CASE b # a
    BY <1>5, <2>1, <2>3 DEF PulseInv, HeardIsOld
  <2> QED BY <2>2, <2>3
<1> DEFINE Then(b, ago) == \/ <<b, ago>> \in underway'
                           \/ health'[b].status = "healthy" /\ health'[b].age <= ago + MaxDelay
<1>8. \A b \in Agents, ago \in Nat : Covered(b, ago) => Then(b, ago)
  <2> SUFFICES ASSUME NEW b \in Agents, NEW ago \in Nat, Covered(b, ago) PROVE Then(b, ago)
    OBVIOUS
  <2>1. CASE b = a
    BY <1>0, <1>3, <1>5, <1>6, <2>1
  <2>2. CASE b # a
    BY <1>2, <1>5, <2>2 DEF Covered
  <2> QED BY <2>1, <2>2
<1>9. BeatsCovered'
  <2> SUFFICES ASSUME NEW b \in Agents, beating[b] = "on"
               PROVE  /\ upFor[b] >= 1 \/ slept[b] < Interval => Then(b, slept[b])
                      /\ \A y \in 1..(MaxDelay + 1) :
                           upFor[b] >= y => \E ago \in y..(y + Interval - 1) : Then(b, ago)
    BY <1>2 DEF BeatsCovered, Covered
  <2> HIDE DEF Then
  <2>1. slept[b] \in Nat
    BY <1>0, <1>1 DEF PulseTyped
  <2>2. ASSUME NEW y \in 1..(MaxDelay + 1), upFor[b] >= y
        PROVE  \E ago \in y..(y + Interval - 1) : Then(b, ago)
    <3>1. PICK ago \in y..(y + Interval - 1) : Covered(b, ago)
      BY <2>2 DEF PulseInv, BeatsCovered
    <3>2. ago \in Nat
      BY <1>0, <3>1
    <3> QED BY <1>8, <3>1, <3>2
  <2> QED BY <1>8, <2>1, <2>2 DEF PulseInv, BeatsCovered
<1> QED
  BY <1>4, <1>7, <1>9 DEF PulseInv

(***************************************************************************)
(* The watchdog marks no agent of which something is covered that it may   *)
(* still count as fresh.                                                   *)
(***************************************************************************)
LEMMA WatchdogPulse == ASSUME PulseInv, Watchdog PROVE PulseInv'
<1>0. /\ Interval \in Nat \ {0} /\ MaxDelay \in Nat /\ Interval + 2 * MaxDelay <= StaleAfter
      /\ StaleAfter \in Nat /\ CheckInterval \in Nat \ {0}
  BY MonitoringAssumption, OrchestratorAssumption DEF OrchestratorSettings
<1>1. PulseTyped
  BY DEF PulseInv
<1>2. /\ sinceCheck' = 0 /\ UNCHANGED <<beating, slept, underway, upFor, quiet>>
      /\ health' = [a \in Agents |->
                      IF health[a].status = "healthy" /\ health[a].age > StaleAfter
                      THEN [health[a] EXCEPT !.status = "unhealthy"] ELSE health[a]]
  BY DEF Watchdog, MarkStale, pulse
<1>3. \A a \in Agents :
        /\ health[a] \in [status : Statuses, age : Nat]
        /\ health'[a] \in [status : Statuses, age : Nat]
        /\ health'[a].age = health[a].age
        /\ health'[a].status = IF health[a].status = "healthy" /\ health[a].age > StaleAfter
                               THEN "unhealthy" ELSE health[a].status
  BY <1>1, <1>2 DEF PulseTyped, Statuses
<1>4. PulseTyped'
  <2>1. health' \in [Agents -> [status : Statuses, age : Nat]]
    BY <1>2, <1>3
  <2> QED BY <1>0, <1>1, <1>2, <2>1 DEF PulseTyped
<1>5. HeardIsOld'
  <2> SUFFICES ASSUME NEW b \in Agents
               PROVE  /\ beating[b] # "on" => upFor[b] = 0
                      /\ \A age \in 0..MaxDelay : <<b, age>> \in underway => quiet[b] <= age
                      /\ health'[b].status # "unknown" => quiet[b] <= health'[b].age
                      /\ health'[b].status = "healthy" => health'[b].age <= StaleAfter + 0
    BY <1>2 DEF HeardIsOld
  <2>1. /\ beating[b] # "on" => upFor[b] = 0
        /\ \A age \in 0..MaxDelay : <<b, age>> \in underway => quiet[b] <= age
        /\ health[b].status # "unknown" => quiet[b] <= health[b].age
    BY DEF PulseInv, HeardIsOld
  <2>2. health[b].age \in Nat
    BY <1>3
  <2> QED BY <1>0, <1>3, <2>1, <2>2
<1> DEFINE Then(b, ago) == \/ <<b, ago>> \in underway
                           \/ health'[b].status = "healthy" /\ health'[b].age <= ago + MaxDelay
<1>6. \A a \in Agents, ago \in 0..(MaxDelay + Interval) : Covered(a, ago) => Then(a, ago)
  <2> SUFFICES ASSUME NEW a \in Agents, NEW ago \in 0..(MaxDelay + Interval),
                      health[a].status = "healthy", health[a].age <= ago + MaxDelay
               PROVE  health'[a].status = "healthy" /\ health'[a].age <= ago + MaxDelay
    BY DEF Covered
  <2>1. health[a].age \in Nat
    BY <1>3
  <2>2. ~(health[a].age > StaleAfter)
    BY <1>0, <2>1
  <2> QED BY <1>3, <2>2
<1>7. BeatsCovered'
  <2> SUFFICES ASSUME NEW b \in Agents, beating[b] = "on"
               PROVE  /\ upFor[b] >= 1 \/ slept[b] < Interval => Then(b, slept[b])
                      /\ \A y \in 1..(MaxDelay + 1) :
                           upFor[b] >= y => \E ago \in y..(y + Interval - 1) : Then(b, ago)
    BY <1>2 DEF BeatsCovered, Covered
  <2> HIDE DEF Then
  <2>1. slept[b] \in 0..(MaxDelay + Interval)
    <3>1. slept[b] \in 0..Interval
      BY <1>1 DEF PulseTyped
    <3> QED BY <1>0, <3>1
  <2>2. ASSUME NEW y \in 1..(MaxDelay + 1), upFor[b] >= y
        PROVE  \E ago \in y..(y + Interval - 1) : Then(b, ago)
    <3>1. PICK ago \in y..(y + Interval - 1) : Covered(b, ago)
      BY <2>2 DEF PulseInv, BeatsCovered
    <3>2. ago \in 0..(MaxDelay + Interval)
      BY <1>0, <3>1
    <3> QED BY <1>6, <3>1, <3>2
  <2> QED BY <1>6, <2>1, <2>2 DEF PulseInv, BeatsCovered
<1> QED
  BY <1>4, <1>5, <1>7 DEF PulseInv

(***************************************************************************)
(* Time passes: everything is one unit older, and a loop that has been on  *)
(* for one more unit had sent a heartbeat before.                          *)
(***************************************************************************)
LEMMA TickPulse == ASSUME PulseInv, PassTime PROVE PulseInv'
<1>0. /\ Interval \in Nat \ {0} /\ MaxDelay \in Nat
      /\ StaleAfter \in Nat /\ CheckInterval \in Nat \ {0}
  BY MonitoringAssumption, OrchestratorAssumption DEF OrchestratorSettings
<1>1. PulseTyped
  BY DEF PulseInv
<1>2. /\ sinceCheck < CheckInterval /\ sinceCheck' = sinceCheck + 1 /\ UNCHANGED beating
      /\ \A a \in Agents : beating[a] = "on" => slept[a] < Interval
      /\ \A m \in underway : m[2] < MaxDelay
      /\ health' = [a \in Agents |->
                      IF health[a].status = "unknown" THEN Unknown
                      ELSE [health[a] EXCEPT !.age = Older(health[a].age)]]
      /\ slept' = [a \in Agents |-> IF beating[a] = "on" THEN slept[a] + 1 ELSE slept[a]]
      /\ underway' = {<<m[1], m[2] + 1>> : m \in underway}
      /\ upFor' = [a \in Agents |-> IF beating[a] = "on" THEN Older(upFor[a]) ELSE 0]
      /\ quiet' = [a \in Agents |-> Older(quiet[a])]
  BY DEF PassTime, TimePasses
<1>3. \A a \in Agents :
        /\ health[a] \in [status : Statuses, age : Nat]
        /\ health[a].age \in Nat /\ slept[a] \in 0..Interval /\ upFor[a] \in Nat /\ quiet[a] \in Nat
  BY <1>1 DEF PulseTyped
<1>4. \A a \in Agents :
        /\ health'[a] \in [status : Statuses, age : Nat]
        /\ health'[a].status = health[a].status
        /\ health[a].status # "unknown" => health'[a].age = Older(health[a].age)
  <2> SUFFICES ASSUME NEW a \in Agents
               PROVE  /\ health'[a] \in [status : Statuses, age : Nat]
                      /\ health'[a].status = health[a].status
                      /\ health[a].status # "unknown" => health'[a].age = Older(health[a].age)
    OBVIOUS
  <2>1. health[a] \in [status : Statuses, age : Nat] /\ Older(health[a].age) \in Nat
    BY <1>3, OlderFacts
  <2>2. CASE health[a].status = "unknown"
    BY <1>2, <2>2 DEF Unknown, Statuses
  <2>3. CASE health[a].status # "unknown"
    <3>1. health'[a] = [health[a] EXCEPT !.age = Older(health[a].age)]
      BY <1>2, <2>3
    <3> QED BY <2>1, <3>1
  <2> QED BY <2>2, <2>3
<1>5. \A b \in Agents : \A age : <<b, age>> \in underway' <=> age - 1 \in 0..MaxDelay /\ age \in 1..MaxDelay /\ <<b, age - 1>> \in underway
  <2> SUFFICES ASSUME NEW b \in Agents, NEW age
               PROVE  <<b, age>> \in underway' <=> age - 1 \in 0..MaxDelay /\ age \in 1..MaxDelay /\ <<b, age - 1>> \in underway
    OBVIOUS
  <2>1. underway \subseteq Agents \X (0..MaxDelay)
    BY <1>1 DEF PulseTyped
  <2>2. ASSUME <<b, age>> \in underway'
        PROVE  age - 1 \in 0..MaxDelay /\ age \in 1..MaxDelay /\ <<b, age - 1>> \in underway
    <3>1. PICK m \in underway : <<b, age>> = <<m[1], m[2] + 1>>
      BY <1>2, <2>2
    <3>2. PICK c \in Agents, old \in 0..MaxDelay : m = <<c, old>>
      BY <2>1, <3>1
    <3>3. old < MaxDelay /\ b = c /\ age = old + 1
      BY <1>2, <3>1, <3>2
    <3> QED BY <1>0, <3>1, <3>2, <3>3
  <2>3. ASSUME age \in 1..MaxDelay, <<b, age - 1>> \in underway PROVE <<b, age>> \in underway'
    <3>1. <<b, (age - 1) + 1>> \in underway'
      BY <1>2, <2>3
    <3>2. (age - 1) + 1 = age
      BY <1>0, <2>3
    <3> QED BY <3>1, <3>2
  <2> QED BY <2>2, <2>3
<1>6. PulseTyped'
  <2>1. underway' \subseteq Agents \X (0..MaxDelay)
    <3> SUFFICES ASSUME NEW m \in underway PROVE <<m[1], m[2] + 1>> \in Agents \X (0..MaxDelay)
      BY <1>2
    <3>1. m[1] \in Agents /\ m[2] \in 0..MaxDelay /\ m[2] < MaxDelay
      BY <1>1, <1>2 DEF PulseTyped
    <3> QED BY <1>0, <3>1
  <2>2. slept' \in [Agents -> 0..Interval]
    BY <1>0, <1>2, <1>3
  <2>3. upFor' \in [Agents -> Nat] /\ quiet' \in [Agents -> Nat]
    BY <1>2, <1>3, OlderFacts
  <2>4. health' \in [Agents -> [status : Statuses, age : Nat]]
    BY <1>2, <1>4
  <2>5. sinceCheck' \in 0..CheckInterval
    BY <1>0, <1>1, <1>2 DEF PulseTyped
  <2> QED BY <1>1, <1>2, <2>1, <2>2, <2>3, <2>4, <2>5 DEF PulseTyped
<1>7. HeardIsOld'
  <2> SUFFICES ASSUME NEW b \in Agents
               PROVE  /\ beating[b] # "on" => upFor'[b] = 0
                      /\ \A age \in 0..MaxDelay : <<b, age>> \in underway' => quiet'[b] <= age
                      /\ health'[b].status # "unknown" => quiet'[b] <= health'[b].age
                      /\ health'[b].status = "healthy" => health'[b].age <= StaleAfter + (sinceCheck + 1)
    BY <1>2 DEF HeardIsOld
  <2>1. /\ \A age \in 0..MaxDelay : <<b, age>> \in underway => quiet[b] <= age
        /\ health[b].status # "unknown" => quiet[b] <= health[b].age
        /\ health[b].status = "healthy" => health[b].age <= StaleAfter + sinceCheck
    BY DEF PulseInv, HeardIsOld
  <2>2. quiet'[b] = Older(quiet[b]) /\ quiet[b] \in Nat /\ health[b].age \in Nat
    BY <1>2, <1>3
  <2>3. ASSUME NEW age \in 0..MaxDelay, <<b, age>> \in underway' PROVE quiet'[b] <= age
    <3>1. age - 1 \in 0..MaxDelay /\ <<b, age - 1>> \in underway
      BY <1>5, <2>3
    <3>2. quiet[b] <= age - 1
      BY <2>1, <3>1
    <3>3. age \in Nat /\ age - 1 \in Nat /\ (age - 1) + 1 = age
      BY <1>0, <3>1
    <3>4. Older(quiet[b]) <= (age - 1) + 1
      BY <2>2, <3>2, <3>3, OlderFacts
    <3> QED BY <2>2, <3>3, <3>4
  <2>4. health'[b].status # "unknown" => quiet'[b] <= health'[b].age
    BY <1>4, <2>1, <2>2, OlderFacts
  <2>5. health'[b].status = "healthy" => health'[b].age <= StaleAfter + (sinceCheck + 1)
    <3> SUFFICES ASSUME health[b].status = "healthy" PROVE health'[b].age <= StaleAfter + (sinceCheck + 1)
      BY <1>4
    <3>1. health'[b].age = Older(health[b].age) /\ health[b].age <= StaleAfter + sinceCheck
      BY <1>4, <2>1
    <3>2. Older(health[b].age) <= health[b].age + 1 /\ Older(health[b].age) \in Nat
      BY <2>2, OlderFacts
    <3>3. sinceCheck \in Nat
      BY <1>0, <1>1 DEF PulseTyped
    <3> QED BY <1>0, <2>2, <3>1, <3>2, <3>3
  <2>6. beating[b] # "on" => upFor'[b] = 0
    BY <1>2
  <2> QED BY <2>3, <2>4, <2>5, <2>6
<1> DEFINE Then(b, ago) == \/ <<b, ago>> \in underway'
                           \/ health'[b].status = "healthy" /\ health'[b].age <= ago + MaxDelay
<1>8. \A b \in Agents, ago \in Nat : Covered(b, ago) => Then(b, ago + 1)
  <2> SUFFICES ASSUME NEW b \in Agents, NEW ago \in Nat, Covered(b, ago) PROVE Then(b, ago + 1)
    OBVIOUS
  <2>1. CASE <<b, ago>> \in underway
    BY <1>2, <2>1
  <2>2. CASE health[b].status = "healthy" /\ health[b].age <= ago + MaxDelay
    <3>1. health'[b].status = "healthy" /\ health'[b].age = Older(health[b].age)
      BY <1>4, <2>2
    <3>2. Older(health[b].age) <= health[b].age + 1 /\ Older(health[b].age) \in Nat /\ health[b].age \in Nat
      BY <1>3, OlderFacts
    <3>3. health'[b].age <= (ago + 1) + MaxDelay
      BY <1>0, <2>2, <3>1, <3>2
    <3> QED BY <3>1, <3>3
  <2> QED BY <2>1, <2>2 DEF Covered
<1>9. BeatsCovered'
  <2> SUFFICES ASSUME NEW b \in Agents, beating[b] = "on"
               PROVE  /\ Then(b, slept'[b])
                      /\ \A y \in 1..(MaxDelay + 1) :
                           upFor'[b] >= y => \E ago \in y..(y + Interval - 1) : Then(b, ago)
    BY <1>2 DEF BeatsCovered, Covered
  <2> HIDE DEF Then
  <2>1. slept[b] \in Nat /\ slept[b] < Interval /\ slept'[b] = slept[b] + 1
    BY <1>0, <1>2, <1>3
  <2>2. Then(b, slept[b] + 1)
    BY <1>8, <2>1 DEF PulseInv, BeatsCovered
  <2>3. ASSUME NEW y \in 1..(MaxDelay + 1), upFor'[b] >= y
        PROVE  \E ago \in y..(y + Interval - 1) : Then(b, ago)
    <3>1. CASE y = 1
      <4>1. slept[b] + 1 \in y..(y + Interval - 1)
        BY <1>0, <2>1, <3>1
      <4> QED BY <2>2, <4>1
    <3>2. CASE y # 1
      <4>1. upFor'[b] = Older(upFor[b]) /\ Older(upFor[b]) <= upFor[b] + 1 /\ upFor[b] \in Nat /\ Older(upFor[b]) \in Nat
        BY <1>2, <1>3, OlderFacts
      <4>2. y - 1 \in 1..(MaxDelay + 1) /\ upFor[b] >= y - 1
        BY <1>0, <2>3, <3>2, <4>1
      <4>3. PICK ago \in (y - 1)..((y - 1) + Interval - 1) : Covered(b, ago)
        BY <4>2 DEF PulseInv, BeatsCovered
      <4>4. ago \in Nat /\ ago + 1 \in y..(y + Interval - 1)
        BY <1>0, <4>2, <4>3
      <4> QED BY <1>8, <4>3, <4>4
    <3> QED BY <3>1, <3>2
  <2> QED BY <2>1, <2>2, <2>3
<1> QED
  BY <1>6, <1>7, <1>9 DEF PulseInv

LEMMA NextPulse == PulseInv /\ [MonitoringNext]_monitoringVars => PulseInv'
<1> SUFFICES ASSUME PulseInv, [MonitoringNext]_monitoringVars PROVE PulseInv'
  OBVIOUS
<1>1. ASSUME UNCHANGED <<beating, slept, underway, upFor, quiet, health, sinceCheck>> PROVE PulseInv'
  BY <1>1 DEF PulseInv, PulseTyped, HeardIsOld, BeatsCovered, Covered
<1>2. ASSUME NEW ok \in BOOLEAN, Remember(ok) \/ Foresee(ok) \/ Orchestrate(ok) PROVE PulseInv'
  BY <1>1, <1>2 DEF Remember, Foresee, Orchestrate, SetMode, orchestrator, pulse
<1>3. ASSUME NEW n, Detect(n) \/ Serve(n) PROVE PulseInv'
  BY <1>1, <1>3 DEF Detect, Serve, orchestrator, pulse
<1>4. CASE LearnBaseline \/ ShowMode \/ UNCHANGED monitoringVars
  BY <1>1, <1>4 DEF LearnBaseline, ShowMode, monitoringVars, orchestrator, pulse
<1>5. ASSUME NEW scene, NEW at, PublishState(scene, at) PROVE PulseInv'
  BY <1>1, <1>5 DEF PublishState, orchestrator, pulse
<1> QED
  BY <1>2, <1>3, <1>4, <1>5, StartStopPulse, EmitPulse, DeliverPulse, WatchdogPulse, TickPulse DEF MonitoringNext

(***************************************************************************)
(* An agent whose heartbeat loop (agents/base.py) has been on for longer   *)
(* than a delivery takes is shown healthy, however its heartbeats are      *)
(* delayed, repeated and reordered; one that fell silent is not shown      *)
(* healthy for longer than stale_after_s and one check (orchestrator).     *)
(***************************************************************************)
THEOREM HealthIsRight == MonitoringSpec => []HealthIsTrue
<1>1. PulseInv => HealthIsTrue
  <2> SUFFICES ASSUME PulseInv, NEW a \in Agents
               PROVE  /\ upFor[a] > MaxDelay => health[a].status = "healthy"
                      /\ health[a].status = "healthy" => quiet[a] <= StaleAfter + CheckInterval
    BY DEF HealthIsTrue
  <2>0. /\ Interval \in Nat \ {0} /\ MaxDelay \in Nat
        /\ StaleAfter \in Nat /\ CheckInterval \in Nat \ {0}
    BY MonitoringAssumption, OrchestratorAssumption DEF OrchestratorSettings
  <2>1. /\ upFor[a] \in Nat /\ quiet[a] \in Nat /\ health[a].age \in Nat /\ sinceCheck \in 0..CheckInterval
        /\ underway \subseteq Agents \X (0..MaxDelay)
    BY DEF PulseInv, PulseTyped
  <2>2. ASSUME upFor[a] > MaxDelay PROVE health[a].status = "healthy"
    <3>1. beating[a] = "on"
      BY <2>0, <2>1, <2>2 DEF PulseInv, HeardIsOld
    <3>2. MaxDelay + 1 \in 1..(MaxDelay + 1) /\ upFor[a] >= MaxDelay + 1
      BY <2>0, <2>1, <2>2
    <3>3. PICK ago \in (MaxDelay + 1)..((MaxDelay + 1) + Interval - 1) : Covered(a, ago)
      BY <3>1, <3>2 DEF PulseInv, BeatsCovered
    <3>4. <<a, ago>> \notin underway
      BY <2>0, <2>1, <3>3
    <3> QED BY <3>3, <3>4 DEF Covered
  <2>3. ASSUME health[a].status = "healthy" PROVE quiet[a] <= StaleAfter + CheckInterval
    <3>1. quiet[a] <= health[a].age /\ health[a].age <= StaleAfter + sinceCheck
      BY <2>3 DEF PulseInv, HeardIsOld
    <3> QED BY <2>0, <2>1, <3>1
  <2> QED BY <2>2, <2>3
<1> QED
  BY <1>1, InitPulse, NextPulse, PTL DEF MonitoringSpec

-----------------------------------------------------------------------------
(***************************************************************************)
(* The window of the memory and the history of the forecaster.             *)
(***************************************************************************)
WindowInv ==
  /\ window \in Seq(Nat)
  /\ \A i \in DOMAIN window :
       /\ window[i] <= next["memory"]
       /\ window[i] = next["memory"] => <<"memory", window[i]>> \in retried
  /\ \A i, j \in DOMAIN window :
       i # j /\ window[i] = window[j] => <<"memory", window[i]>> \in retried

HistoryInv ==
  /\ history \in Seq([t : Nat, state : Nat])
  /\ clock \in [elapsed : Nat, previous : Nat \cup {NoTime}]
  /\ \A i \in DOMAIN history :
       /\ history[i].state \in 1..Len(feed)
       /\ history[i].state <= next["prediction"]
       /\ history[i].state = next["prediction"] =>
            /\ <<"prediction", history[i].state>> \in retried
            /\ history[i].t = clock.elapsed
            /\ clock.previous = feed[history[i].state].at
       /\ history[i].t <= clock.elapsed
  /\ \A i, j \in DOMAIN history :
       i # j /\ history[i].state = history[j].state =>
         <<"prediction", history[i].state>> \in retried /\ history[i].t = history[j].t
  /\ \A i, j \in DOMAIN history : i < j => history[i].t <= history[j].t

(***************************************************************************)
(* deque(maxlen).append: the new element is the last, the others are those *)
(* there were, but for the first if there was no room.                     *)
(***************************************************************************)
LEMMA Rolling ==
  ASSUME NEW S, NEW old \in Seq(S), NEW n \in S, NEW size \in Nat \ {0}, NEW new,
         new = IF Len(old) = size THEN Append(Tail(old), n) ELSE Append(old, n)
  PROVE  /\ new \in Seq(S) /\ Len(new) \in Nat \ {0} /\ new[Len(new)] = n
         /\ \E shift \in {0, 1} : \A i \in 1..(Len(new) - 1) :
              i + shift \in 1..Len(old) /\ new[i] = old[i + shift]
<1>1. CASE Len(old) = size
  <2> DEFINE rest == Tail(old)
  <2>1. old # <<>>
    BY <1>1, EmptySeq
  <2>2. /\ rest \in Seq(S) /\ Len(rest) = Len(old) - 1 /\ Len(old) \in Nat \ {0}
        /\ \A i \in 1..(Len(old) - 1) : rest[i] = old[i + 1]
    BY <1>1, <2>1
  <2> HIDE DEF rest
  <2>3. /\ Append(rest, n) \in Seq(S) /\ Len(Append(rest, n)) = Len(rest) + 1
        /\ Append(rest, n)[Len(rest) + 1] = n
        /\ \A i \in 1..Len(rest) : Append(rest, n)[i] = rest[i]
    BY <2>2
  <2>4. new = Append(rest, n)
    BY <1>1 DEF rest
  <2>5. Len(new) = Len(old) /\ new \in Seq(S) /\ Len(new) \in Nat \ {0} /\ new[Len(new)] = n
    BY <2>2, <2>3, <2>4
  <2>6. \A i \in 1..(Len(new) - 1) : i + 1 \in 1..Len(old) /\ new[i] = old[i + 1]
    BY <2>2, <2>3, <2>4, <2>5
  <2> QED BY <2>5, <2>6
<1>2. CASE Len(old) # size
  <2>1. /\ new \in Seq(S) /\ Len(new) = Len(old) + 1 /\ Len(old) \in Nat
        /\ new[Len(old) + 1] = n
        /\ \A i \in 1..Len(old) : new[i] = old[i]
    BY <1>2
  <2>2. Len(new) \in Nat \ {0} /\ new[Len(new)] = n
    BY <2>1
  <2>3. \A i \in 1..(Len(new) - 1) : i + 0 \in 1..Len(old) /\ new[i] = old[i + 0]
    BY <2>1
  <2> QED BY <2>1, <2>2, <2>3
<1> QED
  BY <1>1, <1>2

LEMMA RememberWindow ==
  ASSUME FeedInv, WindowInv, NEW ok \in BOOLEAN, Remember(ok)
  PROVE  WindowInv'
<1> DEFINE m == next["memory"]
<1>0. m \in Nat \ {0} /\ "memory" \in Readers
  BY DEF FeedInv, Readers, Agency
<1>1. /\ window \in Seq(Nat)
      /\ \A i \in DOMAIN window : /\ window[i] <= m
                                  /\ window[i] = m => <<"memory", m>> \in retried
      /\ \A i, j \in DOMAIN window :
           i # j /\ window[i] = window[j] => <<"memory", window[i]>> \in retried
  BY DEF WindowInv
<1>2. window' = Pushed(window, m) /\ (Returns("memory") \/ Raises("memory"))
  BY DEF Remember, Memorize
<1>3. \/ next'["memory"] = m + 1 /\ UNCHANGED retried
      \/ next'["memory"] \in {m, m + 1} /\ retried' = retried \cup {<<"memory", m>>}
  BY <1>0, <1>2, ReturnsFacts, RaisesFacts
<1> HIDE DEF m
<1>4. /\ window' \in Seq(Nat) /\ Len(window') \in Nat \ {0} /\ window'[Len(window')] = m
      /\ \E shift \in {0, 1} : \A i \in 1..(Len(window') - 1) :
           i + shift \in 1..Len(window) /\ window'[i] = window[i + shift]
  BY <1>0, <1>1, <1>2, MemoryAssumption, Rolling DEF Pushed, MemorySettings
<1>5. PICK shift \in {0, 1} : \A i \in 1..(Len(window') - 1) :
        i + shift \in 1..Len(window) /\ window'[i] = window[i + shift]
  BY <1>4
<1>6. DOMAIN window = 1..Len(window) /\ DOMAIN window' = 1..Len(window')
  BY <1>1, <1>4
<1>7. ASSUME NEW i \in DOMAIN window'
      PROVE  /\ window'[i] \in Nat /\ window'[i] <= m
             /\ window'[i] = m => i = Len(window') \/ <<"memory", m>> \in retried
  <2>1. CASE i = Len(window')
    BY <1>0, <1>4, <2>1
  <2>2. CASE i # Len(window')
    <3>1. i \in 1..(Len(window') - 1)
      BY <1>4, <1>6, <2>2
    <3>2. i + shift \in DOMAIN window /\ window'[i] = window[i + shift]
      BY <1>5, <1>6, <3>1
    <3>3. window[i + shift] \in Nat
      BY <1>1, <3>2
    <3> QED BY <1>1, <3>2, <3>3
  <2> QED BY <2>1, <2>2
<1>8. ASSUME NEW i \in DOMAIN window', NEW j \in DOMAIN window', i # j, window'[i] = window'[j]
      PROVE  <<"memory", window'[i]>> \in retried
  <2>1. CASE i = Len(window') \/ j = Len(window')
    <3>1. window'[i] = m
      BY <1>4, <1>8, <2>1
    <3> QED BY <1>7, <1>8, <3>1
  <2>2. CASE i # Len(window') /\ j # Len(window')
    <3>1. i \in 1..(Len(window') - 1) /\ j \in 1..(Len(window') - 1)
      BY <1>4, <1>6, <2>2
    <3>2. /\ i + shift \in DOMAIN window /\ window'[i] = window[i + shift]
          /\ j + shift \in DOMAIN window /\ window'[j] = window[j + shift]
          /\ i + shift # j + shift
      BY <1>5, <1>6, <1>8, <3>1
    <3> QED BY <1>1, <1>8, <3>2
  <2> QED BY <2>1, <2>2
<1>9. \A i \in DOMAIN window' :
        /\ window'[i] <= next'["memory"]
        /\ window'[i] = next'["memory"] => <<"memory", window'[i]>> \in retried'
  BY <1>0, <1>3, <1>7
<1> QED
  BY <1>3, <1>4, <1>8, <1>9 DEF WindowInv

LEMMA NextWindow == FeedInv /\ WindowInv /\ [MonitoringNext]_monitoringVars => WindowInv'
<1> SUFFICES ASSUME FeedInv, WindowInv, [MonitoringNext]_monitoringVars PROVE WindowInv'
  OBVIOUS
<1>1. ASSUME UNCHANGED window, next'["memory"] = next["memory"], retried \subseteq retried'
      PROVE  WindowInv'
  BY <1>1 DEF WindowInv
<1>2. ASSUME NEW c \in Readers \ {"memory"}, Returns(c) \/ Raises(c), UNCHANGED window PROVE WindowInv'
  <2>1. next'["memory"] = next["memory"] /\ retried \subseteq retried' /\ UNCHANGED window
    BY <1>2, ReturnsFacts, RaisesFacts DEF Readers, Agency
  <2> QED BY <1>1, <2>1
<1>3. ASSUME NEW ok \in BOOLEAN, Remember(ok) PROVE WindowInv'
  BY <1>3, RememberWindow
<1>4. ASSUME NEW ok \in BOOLEAN, Foresee(ok) \/ Orchestrate(ok) PROVE WindowInv'
  BY <1>2, <1>4 DEF Foresee, Orchestrate, Readers, Agency, memory
<1>5. ASSUME NEW n, Detect(n) \/ Serve(n) PROVE WindowInv'
  BY <1>2, <1>5 DEF Detect, Serve, Readers, Agency, memory
<1>6. CASE LearnBaseline \/ ShowMode \/ Watchdog \/ PassTime \/ UNCHANGED monitoringVars
  BY <1>1, <1>6 DEF LearnBaseline, ShowMode, Watchdog, PassTime, monitoringVars, intake, watchers, memory
<1>7. ASSUME NEW scene, NEW at, PublishState(scene, at) PROVE WindowInv'
  BY <1>1, <1>7 DEF PublishState, memory
<1>8. ASSUME NEW a \in Agents, StartAgent(a) \/ StopAgent(a) PROVE WindowInv'
  BY <1>1, <1>8 DEF StartAgent, StopAgent, intake, watchers, memory
<1>9. ASSUME NEW a \in Agents, NEW ok \in BOOLEAN, Emit(a, ok) PROVE WindowInv'
  BY <1>1, <1>9 DEF Emit, watchers, memory
<1>10. ASSUME NEW a \in Agents, NEW age, DeliverHeartbeat(a, age) PROVE WindowInv'
  BY <1>1, <1>10 DEF DeliverHeartbeat, intake, watchers, memory
<1> QED
  BY <1>3, <1>4, <1>5, <1>6, <1>7, <1>8, <1>9, <1>10 DEF MonitoringNext

\* Python's max(0, z).
LEMMA MaxOfZero ==
  ASSUME NEW z \in Int
  PROVE  Max({0, z}) = IF z > 0 THEN z ELSE 0
<1> DEFINE S == {0, z}
           top == IF z > 0 THEN z ELSE 0
<1>1. top \in S /\ \A y \in S : top >= y
  OBVIOUS
<1>2. \A t \in S : (\A y \in S : t >= y) => t = top
  OBVIOUS
<1> HIDE DEF S, top
<1>3. Max(S) = top
  BY <1>1, <1>2 DEF Max
<1> QED BY <1>3 DEF S, top

(***************************************************************************)
(* The agent's time does not go back, and stands still if the timestamp    *)
(* does.                                                                   *)
(***************************************************************************)
LEMMA ElapsedFacts ==
  ASSUME NEW at \in Nat, clock.previous \in Nat \cup {NoTime}
  PROVE  /\ Elapsed(at) \in Nat
         /\ clock.previous = at => Elapsed(at) = 0
<1>1. CASE clock.previous = NoTime
  BY <1>1 DEF Elapsed, NoTime
<1>2. CASE clock.previous # NoTime
  <2>1. clock.previous \in Nat /\ at - clock.previous \in Int
    BY <1>2
  <2>2. Elapsed(at) = Max({0, at - clock.previous})
    BY <1>2 DEF Elapsed
  <2>3. Elapsed(at) = IF at - clock.previous > 0 THEN at - clock.previous ELSE 0
    BY <2>1, <2>2, MaxOfZero
  <2> QED BY <2>1, <2>3
<1> QED
  BY <1>1, <1>2

LEMMA ForeseeHistory ==
  ASSUME FeedInv, HistoryInv, NEW ok \in BOOLEAN, Foresee(ok)
  PROVE  HistoryInv'
<1> DEFINE m    == next["prediction"]
           at   == feed[m].at
           now  == clock.elapsed + Elapsed(at)
           point == [t |-> now, state |-> m]
<1>0. /\ m \in 1..Len(feed) /\ "prediction" \in Readers /\ at \in Nat
      /\ Len(feed) \in Nat
  <2>1. m \in Nat \ {0} /\ m <= Len(feed) /\ feed \in Seq(State)
    BY DEF FeedInv, Foresee, Handles, Readers
  <2>2. feed[m] \in State /\ Len(feed) \in Nat
    BY <2>1
  <2> QED BY <2>1, <2>2 DEF State, Readers
<1>1. /\ history \in Seq([t : Nat, state : Nat])
      /\ clock \in [elapsed : Nat, previous : Nat \cup {NoTime}]
      /\ \A i \in DOMAIN history :
           /\ history[i].state \in 1..Len(feed) /\ history[i].state <= m
           /\ history[i].state = m => /\ <<"prediction", m>> \in retried
                                      /\ history[i].t = clock.elapsed
                                      /\ clock.previous = at
           /\ history[i].t <= clock.elapsed
  BY DEF HistoryInv
<1>2. /\ clock' = [elapsed |-> now, previous |-> at]
      /\ history' = Recent(history, point)
      /\ Returns("prediction") \/ Raises("prediction")
  BY DEF Foresee, Observe
<1>3. /\ UNCHANGED feed
      /\ \/ next'["prediction"] = m + 1 /\ UNCHANGED retried
         \/ next'["prediction"] \in {m, m + 1} /\ retried' = retried \cup {<<"prediction", m>>}
  BY <1>0, <1>2, ReturnsFacts, RaisesFacts
<1>4. /\ Elapsed(at) \in Nat /\ clock.elapsed \in Nat
      /\ clock.previous = at => Elapsed(at) = 0
  BY <1>0, <1>1, ElapsedFacts
<1> HIDE DEF m, at
<1>5. /\ now \in Nat /\ clock.elapsed <= now /\ (clock.previous = at => now = clock.elapsed)
      /\ point \in [t : Nat, state : Nat] /\ point.t = now /\ point.state = m
  BY <1>0, <1>4
<1>6. /\ clock' \in [elapsed : Nat, previous : Nat \cup {NoTime}]
      /\ clock'.elapsed = now /\ clock'.previous = at
  BY <1>0, <1>2, <1>5
<1> HIDE DEF now, point
<1>7. /\ history' \in Seq([t : Nat, state : Nat])
      /\ Len(history') \in Nat \ {0} /\ history'[Len(history')] = point
      /\ \E shift \in {0, 1} : \A i \in 1..(Len(history') - 1) :
           i + shift \in 1..Len(history) /\ history'[i] = history[i + shift]
  <2> DEFINE Sample == [t : Nat, state : Nat]
  <2>1. history \in Seq(Sample) /\ point \in Sample /\ TrendWindow \in Nat \ {0}
    BY <1>1, <1>5, ForecasterAssumption DEF PredictionSettings
  <2>2. history' = IF Len(history) = TrendWindow THEN Append(Tail(history), point) ELSE Append(history, point)
    BY <1>2 DEF Recent
  <2> HIDE DEF Sample
  <2>3. /\ history' \in Seq(Sample)
        /\ Len(history') \in Nat \ {0} /\ history'[Len(history')] = point
        /\ \E shift \in {0, 1} : \A i \in 1..(Len(history') - 1) :
             i + shift \in 1..Len(history) /\ history'[i] = history[i + shift]
    BY <2>1, <2>2, Rolling
  <2> QED BY <2>3 DEF Sample
<1>8. PICK shift \in {0, 1} : \A i \in 1..(Len(history') - 1) :
        i + shift \in 1..Len(history) /\ history'[i] = history[i + shift]
  BY <1>7
<1>9. DOMAIN history = 1..Len(history) /\ DOMAIN history' = 1..Len(history')
  BY <1>1, <1>7
<1> DEFINE old(i) == history[i + shift]
<1>10. ASSUME NEW i \in DOMAIN history', i # Len(history')
       PROVE  i + shift \in DOMAIN history /\ history'[i] = old(i)
  <2>1. i \in 1..(Len(history') - 1)
    BY <1>7, <1>9, <1>10
  <2> QED BY <1>8, <1>9, <2>1
<1>11. ASSUME NEW i \in DOMAIN history'
       PROVE  /\ history'[i].state \in 1..Len(feed) /\ history'[i].state <= m
              /\ history'[i].t \in Nat /\ history'[i].t <= now
              /\ history'[i].state = m =>
                   history'[i].t = now /\ (i = Len(history') \/ <<"prediction", m>> \in retried)
  <2>1. CASE i = Len(history')
    BY <1>0, <1>5, <1>7, <2>1
  <2>2. CASE i # Len(history')
    <3>1. i + shift \in DOMAIN history /\ history'[i] = old(i)
      BY <1>10, <2>2
    <3> DEFINE p == old(i)
    <3>2. /\ p.state \in 1..Len(feed) /\ p.state <= m
          /\ p.state = m => /\ <<"prediction", m>> \in retried
                            /\ p.t = clock.elapsed /\ clock.previous = at
          /\ p.t <= clock.elapsed
      BY <1>1, <3>1
    <3>3. p.t \in Nat
      <4> DEFINE Sample == [t : Nat, state : Nat]
      <4>1. history \in Seq(Sample)
        BY <1>1
      <4> HIDE DEF Sample
      <4>2. p \in Sample
        BY <3>1, <4>1
      <4> HIDE DEF p
      <4> QED BY <4>2 DEF Sample
    <3> HIDE DEF p
    <3>4. history'[i] = p
      BY <3>1 DEF p
    <3> QED BY <1>4, <1>5, <3>2, <3>3, <3>4
  <2> QED BY <2>1, <2>2
<1>12. ASSUME NEW i \in DOMAIN history', NEW j \in DOMAIN history', i # j,
              history'[i].state = history'[j].state
       PROVE  <<"prediction", history'[i].state>> \in retried /\ history'[i].t = history'[j].t
  <2>1. CASE i = Len(history') \/ j = Len(history')
    <3>1. history'[i].state = m /\ history'[j].state = m
      BY <1>5, <1>7, <1>12, <2>1
    <3>2. history'[i].t = now /\ history'[j].t = now
      BY <1>11, <3>1
    <3>3. <<"prediction", m>> \in retried
      BY <1>11, <1>12, <2>1, <3>1
    <3> QED BY <3>1, <3>2, <3>3
  <2>2. CASE i # Len(history') /\ j # Len(history')
    <3>1. /\ i + shift \in DOMAIN history /\ history'[i] = old(i)
          /\ j + shift \in DOMAIN history /\ history'[j] = old(j)
      BY <1>10, <2>2
    <3>2. i + shift # j + shift
      BY <1>9, <1>12
    <3>3. old(i).state = old(j).state =>
            <<"prediction", old(i).state>> \in retried /\ old(i).t = old(j).t
      BY <3>1, <3>2 DEF HistoryInv
    <3> HIDE DEF old
    <3> QED BY <1>12, <3>1, <3>3
  <2> QED BY <2>1, <2>2
<1>13. ASSUME NEW i \in DOMAIN history', NEW j \in DOMAIN history', i < j
       PROVE  history'[i].t <= history'[j].t
  <2>1. i # Len(history')
    BY <1>7, <1>9, <1>13
  <2>2. CASE j = Len(history')
    BY <1>5, <1>7, <1>11, <2>2
  <2>3. CASE j # Len(history')
    <3>1. /\ i + shift \in DOMAIN history /\ history'[i] = old(i)
          /\ j + shift \in DOMAIN history /\ history'[j] = old(j)
      BY <1>10, <2>1, <2>3
    <3>2. i + shift < j + shift
      BY <1>9, <1>13
    <3>3. old(i).t <= old(j).t
      BY <3>1, <3>2 DEF HistoryInv
    <3> HIDE DEF old
    <3> QED BY <3>1, <3>3
  <2> QED BY <2>2, <2>3
<1>14. ASSUME NEW i \in DOMAIN history'
       PROVE  /\ history'[i].state \in 1..Len(feed')
              /\ history'[i].state <= next'["prediction"]
              /\ history'[i].state = next'["prediction"] =>
                   /\ <<"prediction", history'[i].state>> \in retried'
                   /\ history'[i].t = clock'.elapsed
                   /\ clock'.previous = feed'[history'[i].state].at
              /\ history'[i].t <= clock'.elapsed
  <2> DEFINE s == history'[i].state
  <2>1. s \in Nat /\ s <= m /\ m \in Nat /\ history'[i].state \in 1..Len(feed')
    BY <1>0, <1>3, <1>11
  <2>2. s <= next'["prediction"]
    BY <1>3, <2>1
  <2>3. ASSUME s = next'["prediction"]
        PROVE  s = m /\ <<"prediction", m>> \in retried'
    BY <1>3, <2>1, <2>3
  <2>4. feed'[m].at = at
    BY <1>3 DEF at
  <2> QED BY <1>6, <1>11, <2>1, <2>2, <2>3, <2>4
<1>15. /\ history' \in Seq([t : Nat, state : Nat])
       /\ \A i, j \in DOMAIN history' :
            i # j /\ history'[i].state = history'[j].state =>
              <<"prediction", history'[i].state>> \in retried' /\ history'[i].t = history'[j].t
  BY <1>3, <1>7, <1>12
<1> QED
  BY <1>6, <1>13, <1>14, <1>15 DEF HistoryInv

LEMMA KeepsHistory ==
  ASSUME FeedInv, FeedGrows, FeedInv', HistoryInv, UNCHANGED <<history, clock>>,
         next'["prediction"] = next["prediction"], retried \subseteq retried'
  PROVE  HistoryInv'
<1>1. Len(feed) \in Nat /\ Len(feed') \in Nat
  BY DEF FeedInv
<1>2. \A m \in 1..Len(feed) : m \in 1..Len(feed') /\ feed'[m] = feed[m]
  BY <1>1 DEF FeedGrows
<1>3. ASSUME NEW i \in DOMAIN history
      PROVE  /\ history[i].state \in 1..Len(feed')
             /\ feed'[history[i].state].at = feed[history[i].state].at
  BY <1>2 DEF HistoryInv
<1> QED
  BY <1>3 DEF HistoryInv

LEMMA NextHistory == FeedInv /\ HistoryInv /\ [MonitoringNext]_monitoringVars => HistoryInv'
<1> SUFFICES ASSUME FeedInv, HistoryInv, [MonitoringNext]_monitoringVars PROVE HistoryInv'
  OBVIOUS
<1>0. FeedInv' /\ FeedGrows
  BY NextFeed
<1>1. ASSUME UNCHANGED <<history, clock>>, next'["prediction"] = next["prediction"], retried \subseteq retried'
      PROVE  HistoryInv'
  BY <1>0, <1>1, KeepsHistory
<1>2. ASSUME NEW c \in Readers \ {"prediction"}, Returns(c) \/ Raises(c), UNCHANGED <<history, clock>>
      PROVE HistoryInv'
  <2>1. next'["prediction"] = next["prediction"] /\ retried \subseteq retried'
    BY <1>2, ReturnsFacts, RaisesFacts DEF Readers
  <2> QED BY <1>1, <1>2, <2>1
<1>3. ASSUME NEW ok \in BOOLEAN, Foresee(ok) PROVE HistoryInv'
  BY <1>3, ForeseeHistory
<1>4. ASSUME NEW ok \in BOOLEAN, Remember(ok) \/ Orchestrate(ok) PROVE HistoryInv'
  BY <1>2, <1>4 DEF Remember, Orchestrate, Readers, Agency, service, predictor
<1>5. ASSUME NEW n, Detect(n) \/ Serve(n) PROVE HistoryInv'
  BY <1>2, <1>5 DEF Detect, Serve, Readers, Agency, service, predictor
<1>6. CASE LearnBaseline \/ ShowMode \/ Watchdog \/ PassTime \/ UNCHANGED monitoringVars
  BY <1>1, <1>6 DEF LearnBaseline, ShowMode, Watchdog, PassTime, monitoringVars, intake, watchers, service, predictor
<1>7. ASSUME NEW scene, NEW at, PublishState(scene, at) PROVE HistoryInv'
  BY <1>1, <1>7 DEF PublishState, service, predictor
<1>8. ASSUME NEW a \in Agents, StartAgent(a) \/ StopAgent(a) PROVE HistoryInv'
  BY <1>1, <1>8 DEF StartAgent, StopAgent, intake, watchers, service, predictor
<1>9. ASSUME NEW a \in Agents, NEW ok \in BOOLEAN, Emit(a, ok) PROVE HistoryInv'
  BY <1>1, <1>9 DEF Emit, watchers, service, predictor
<1>10. ASSUME NEW a \in Agents, NEW age, DeliverHeartbeat(a, age) PROVE HistoryInv'
  BY <1>1, <1>10 DEF DeliverHeartbeat, intake, watchers, service, predictor
<1> QED
  BY <1>3, <1>4, <1>5, <1>6, <1>7, <1>8, <1>9, <1>10 DEF MonitoringNext

LEMMA InitWindows == MonitoringInit => WindowInv /\ HistoryInv
<1> SUFFICES ASSUME MonitoringInit PROVE WindowInv /\ HistoryInv
  OBVIOUS
<1>1. /\ window = <<>> /\ history = <<>> /\ clock = [elapsed |-> 0, previous |-> NoTime]
  BY DEF MonitoringInit, MemoryInit, PredictorInit
<1>2. DOMAIN window = {} /\ DOMAIN history = {}
  BY <1>1
<1>3. window \in Seq(Nat) /\ history \in Seq([t : Nat, state : Nat])
  BY <1>1
<1>4. clock \in [elapsed : Nat, previous : Nat \cup {NoTime}]
  BY <1>1
<1> QED
  BY <1>2, <1>3, <1>4 DEF WindowInv, HistoryInv

(***************************************************************************)
(* A state is in the memory's window twice, or in the forecaster's         *)
(* history, only if its handler raised and was run again                   *)
(* (TrafficMemoryAgent._on_state, PredictionAgent._on_state); in the       *)
(* history it is then there twice with the same time.                      *)
(***************************************************************************)
THEOREM CountedAtMostOnce == MonitoringSpec => []CountedOnce
<1>1. FeedInv /\ WindowInv /\ HistoryInv /\ [MonitoringNext]_monitoringVars => FeedInv' /\ WindowInv' /\ HistoryInv'
  BY NextFeed, NextWindow, NextHistory
<1>2. WindowInv /\ HistoryInv => CountedOnce
  BY DEF WindowInv, HistoryInv, CountedOnce
<1> QED
  BY <1>1, <1>2, InitFeed, InitWindows, PTL DEF MonitoringSpec

\* The samples a line is put through are in the order of their times.
SamplesInOrder == \A i, j \in DOMAIN history : i < j => history[i].t <= history[j].t

(***************************************************************************)
(* The first part of ForecastSound, for every feed: _advance_clock never   *)
(* goes back, whatever the timestamps do.                                  *)
(***************************************************************************)
THEOREM TimeStandsOrGoesOn == MonitoringSpec => []SamplesInOrder
<1>1. FeedInv /\ HistoryInv /\ [MonitoringNext]_monitoringVars => FeedInv' /\ HistoryInv'
  BY NextFeed, NextHistory
<1>2. HistoryInv => SamplesInOrder
  BY DEF HistoryInv, SamplesInOrder
<1>3. MonitoringInit => HistoryInv
  BY InitWindows
<1> QED
  BY <1>1, <1>2, <1>3, InitFeed, PTL DEF MonitoringSpec

-----------------------------------------------------------------------------
(***************************************************************************)
(* The forecaster.  The sums of a line through samples: of the times, the  *)
(* queues, their products and the squares of the times.                    *)
(***************************************************************************)
Sample == [t : Nat, queue : Nat]

Times(samples)   == Total(samples, LAMBDA p : p.t)
Queues(samples)  == Total(samples, LAMBDA p : p.queue)
Products(samples) == Total(samples, LAMBDA p : p.t * p.queue)
Squares(samples) == Total(samples, LAMBDA p : p.t * p.t)

Spread(samples)  == Len(samples) * Squares(samples) - Times(samples) * Times(samples)
Shared(samples)  == Len(samples) * Products(samples) - Times(samples) * Queues(samples)

TimeOf(samples)    == [i \in DOMAIN samples |-> samples[i].t]
QueueOf(samples)   == [i \in DOMAIN samples |-> samples[i].queue]
ProductOf(samples) == [i \in DOMAIN samples |-> samples[i].t * samples[i].queue]
SquareTime(samples) == [i \in DOMAIN samples |-> samples[i].t * samples[i].t]

(***************************************************************************)
(* The samples and their number.                                           *)
(***************************************************************************)
LEMMA SampleFacts ==
  ASSUME NEW samples \in Seq(Sample)
  PROVE  /\ IsFiniteSet(DOMAIN samples) /\ Cardinality(DOMAIN samples) = Len(samples)
         /\ Len(samples) \in Nat /\ DOMAIN samples = 1..Len(samples)
         /\ \A i \in DOMAIN samples : samples[i].t \in Nat /\ samples[i].queue \in Nat
<1>1. Len(samples) \in Nat /\ DOMAIN samples = 1..Len(samples)
  OBVIOUS
<1>2. \A i \in 1..Len(samples) : samples[i] \in Sample
  BY <1>1
<1>3. \A x \in Sample : x.t \in Nat /\ x.queue \in Nat
  BY DEF Sample
<1>4. IsFiniteSet(1..Len(samples)) /\ Cardinality(1..Len(samples)) = Len(samples)
  <2> DEFINE n == Len(samples)
  <2> HIDE DEF n
  <2>1. n \in Nat => IsFiniteSet(1..n) /\ Cardinality(1..n) = IF 1 > n THEN 0 ELSE n - 1 + 1
    BY FS_Interval
  <2> QED BY <1>1, <2>1 DEF n
<1> QED
  BY <1>1, <1>2, <1>3, <1>4

\* The sums in the terms of SumFunction, with their types.
LEMMA SumsOfSamples ==
  ASSUME NEW samples \in Seq(Sample), NEW S, S = DOMAIN samples
  PROVE  /\ TimeOf(samples) \in [S -> Int] /\ QueueOf(samples) \in [S -> Int]
         /\ ProductOf(samples) \in [S -> Int] /\ SquareTime(samples) \in [S -> Int]
         /\ Times(samples) = SumFunction(TimeOf(samples))
         /\ Queues(samples) = SumFunction(QueueOf(samples))
         /\ Products(samples) = SumFunction(ProductOf(samples))
         /\ Squares(samples) = SumFunction(SquareTime(samples))
         /\ Times(samples) \in Int /\ Queues(samples) \in Int
         /\ Products(samples) \in Int /\ Squares(samples) \in Int
<1>1. IsFiniteSet(S) /\ \A i \in S : samples[i].t \in Nat /\ samples[i].queue \in Nat
  BY SampleFacts
<1>2. TimeOf(samples) \in [S -> Int] /\ QueueOf(samples) \in [S -> Int]
  BY <1>1 DEF TimeOf, QueueOf
<1>3. ProductOf(samples) \in [S -> Int] /\ SquareTime(samples) \in [S -> Int]
  <2>1. \A i \in S : samples[i].t * samples[i].queue \in Int /\ samples[i].t * samples[i].t \in Int
    BY <1>1
  <2> QED BY <2>1 DEF ProductOf, SquareTime
<1>4. /\ Times(samples) = SumFunction(TimeOf(samples))
      /\ Queues(samples) = SumFunction(QueueOf(samples))
      /\ Products(samples) = SumFunction(ProductOf(samples))
      /\ Squares(samples) = SumFunction(SquareTime(samples))
  BY DEF Times, Queues, Products, Squares, TimeOf, QueueOf, ProductOf, SquareTime, Total
<1>5. SumFunction(TimeOf(samples)) \in Int /\ SumFunction(QueueOf(samples)) \in Int
  BY <1>1, <1>2, SumInt
<1>6. SumFunction(ProductOf(samples)) \in Int /\ SumFunction(SquareTime(samples)) \in Int
  BY <1>1, <1>3, SumInt
<1> QED
  BY <1>2, <1>3, <1>4, <1>5, <1>6

(***************************************************************************)
(* The spread of the times is not negative; if it is zero they are all the *)
(* same, and so is what they share with the queues.                        *)
(***************************************************************************)
LEMMA SpreadFacts ==
  ASSUME NEW samples \in Seq(Sample), samples # <<>>
  PROVE  /\ Spread(samples) \in Nat /\ Shared(samples) \in Int
         /\ Spread(samples) = 0 => Shared(samples) = 0
<1> DEFINE S == DOMAIN samples
           t == TimeOf(samples)
           q == QueueOf(samples)
           p == ProductOf(samples)
           r == SquareTime(samples)
           n == Len(samples)
           T == Times(samples)
           Q == Queues(samples)
           V == Products(samples)
           U == Squares(samples)
<1>1. IsFiniteSet(S) /\ Cardinality(S) = n /\ n \in Nat /\ S = 1..n
  BY SampleFacts
<1>2. t \in [S -> Int] /\ q \in [S -> Int] /\ p \in [S -> Int] /\ r \in [S -> Int]
  BY SumsOfSamples
<1>3. /\ T = SumFunction(t) /\ Q = SumFunction(q) /\ V = SumFunction(p) /\ U = SumFunction(r)
      /\ T \in Int /\ Q \in Int /\ V \in Int /\ U \in Int
  BY SumsOfSamples
<1>4. \A i \in S : r[i] = t[i] * t[i] /\ p[i] = t[i] * q[i] /\ t[i] \in Int /\ q[i] \in Int
  BY SampleFacts DEF TimeOf, QueueOf, ProductOf, SquareTime
<1>5. 1 \in S
  BY <1>1, EmptySeq
<1>6. Spread(samples) = n * U - T * T /\ Shared(samples) = n * V - T * Q
  BY DEF Spread, Shared
<1> HIDE DEF S, t, q, p, r, n, T, Q, V, U
<1>7. n * U >= T * T /\ (n * U = T * T => \A i, j \in S : t[i] = t[j])
  <2>1. \A i \in S : r[i] = t[i] * t[i]
    BY <1>4
  <2>2. /\ Cardinality(S) * SumFunction(r) >= SumFunction(t) * SumFunction(t)
        /\ Cardinality(S) * SumFunction(r) = SumFunction(t) * SumFunction(t) =>
             \A i, j \in S : t[i] = t[j]
    BY <1>1, <1>2, <2>1, SumOfSquares
  <2> QED BY <1>1, <1>3, <2>2
<1>8. n * U - T * T \in Int /\ n * V - T * Q \in Int /\ n * U \in Int /\ T * T \in Int
  BY <1>1, <1>3
<1>9. ASSUME n * U = T * T PROVE n * V - T * Q = 0
  <2> DEFINE x == t[1]
  <2>1. x \in Int /\ \A i \in S : t[i] = x
    BY <1>4, <1>5, <1>7, <1>9
  <2> HIDE DEF x
  <2>2. T = x * n
    <3>1. Constant(S, t, x)
      BY <1>2, <2>1 DEF Constant
    <3> QED BY <1>1, <1>3, <3>1, SumConstant
  <2>3. V = x * Q
    <3>1. Scaled(S, p, x, q)
      BY <1>2, <1>4, <2>1 DEF Scaled
    <3> QED BY <1>1, <1>3, <3>1, SumScaled
  <2>4. n * (x * Q) = (x * n) * Q /\ n * (x * Q) \in Int
    BY <1>1, <1>3, <2>1
  <2> QED BY <2>2, <2>3, <2>4
<1> QED
  BY <1>6, <1>7, <1>8, <1>9

(***************************************************************************)
(* What _least_squares gives: a slope over a positive denominator that     *)
(* satisfies the equation for the slope.                                   *)
(***************************************************************************)
LEMMA SlopeFacts ==
  ASSUME NEW samples \in Seq(Sample), samples # <<>>
  PROVE  /\ Slope(samples).num \in Int /\ Slope(samples).den \in Nat \ {0}
         /\ Slope(samples).den * Shared(samples) = Slope(samples).num * Spread(samples)
         /\ Shared(samples) = 0 => Slope(samples).num = 0
<1>1. Slope(samples) = IF Spread(samples) = 0 THEN [num |-> 0, den |-> 1]
                       ELSE [num |-> Shared(samples), den |-> Spread(samples)]
  BY DEF Slope, Spread, Shared, Times, Queues, Products, Squares
<1>2. /\ Spread(samples) \in Nat /\ Shared(samples) \in Int
      /\ Spread(samples) = 0 => Shared(samples) = 0
  BY SpreadFacts
<1> DEFINE d == Spread(samples)
           s == Shared(samples)
<1>3. CASE d = 0
  BY <1>1, <1>2, <1>3
<1>4. CASE d # 0
  <2>1. Slope(samples).num = s /\ Slope(samples).den = d
    BY <1>1, <1>4
  <2>2. d \in Nat \ {0} /\ s \in Int /\ d * s = s * d
    BY <1>2, <1>4
  <2> QED BY <2>1, <2>2
<1> QED
  BY <1>3, <1>4

(***************************************************************************)
(* The algebra of the normal equations.                                    *)
(***************************************************************************)
IntegerSums(n, num, den, T, Q, V, U) ==
  /\ n \in Int /\ num \in Int /\ den \in Int
  /\ T \in Int /\ Q \in Int /\ V \in Int /\ U \in Int

LEMMA NormalEquations ==
  ASSUME NEW n, NEW num, NEW den, NEW T, NEW Q, NEW V, NEW U,
         IntegerSums(n, num, den, T, Q, V, U)
  PROVE  /\ -(n * num) \in Int /\ -(den * Q - num * T) \in Int
         /\ n * num = -(-(n * num)) /\ den * Q - num * T = -(-(den * Q - num * T))
         /\ ((n * den) * Q + (-(n * num)) * T) + (-(den * Q - num * T)) * n = 0
         /\ ((n * den) * V + (-(n * num)) * U) + (-(den * Q - num * T)) * T
              = den * (n * V - T * Q) - num * (n * U - T * T)
<1>0. /\ n \in Int /\ num \in Int /\ den \in Int
      /\ T \in Int /\ Q \in Int /\ V \in Int /\ U \in Int
  BY DEF IntegerSums
<1>1. n * num \in Int /\ den * Q - num * T \in Int
  BY <1>0
<1>2. ((n * den) * Q + (-(n * num)) * T) + (-(den * Q - num * T)) * n = 0
  BY <1>0
<1>3. ((n * den) * V + (-(n * num)) * U) + (-(den * Q - num * T)) * T
        = den * (n * V - T * Q) - num * (n * U - T * T)
  BY <1>0
<1> QED BY <1>1, <1>2, <1>3

(***************************************************************************)
(* The line of _least_squares satisfies the normal equations, for any      *)
(* samples: also for samples that are all of one time.                     *)
(***************************************************************************)
LEMMA BestLine ==
  ASSUME NEW samples \in Seq(Sample), samples # <<>>
  PROVE  /\ IsBestLine(LeastSquares(samples), samples)
         /\ LeastSquares(samples).slope \in Int /\ LeastSquares(samples).intercept \in Int
         /\ LeastSquares(samples).over \in Nat \ {0}
<1> DEFINE S == DOMAIN samples
           t == TimeOf(samples)
           q == QueueOf(samples)
           p == ProductOf(samples)
           r == SquareTime(samples)
           n == Len(samples)
           num == Slope(samples).num
           den == Slope(samples).den
           T == Times(samples)
           Q == Queues(samples)
           V == Products(samples)
           U == Squares(samples)
           line == LeastSquares(samples)
           residual == [i \in S |-> Residual(line, samples[i])]
           weighted == [i \in S |-> samples[i].t * Residual(line, samples[i])]
<1>1. IsFiniteSet(S) /\ Cardinality(S) = n /\ n \in Nat /\ n # 0
  BY SampleFacts, EmptySeq
<1>2. t \in [S -> Int] /\ q \in [S -> Int] /\ p \in [S -> Int] /\ r \in [S -> Int]
  BY SumsOfSamples
<1>3. /\ T = SumFunction(t) /\ Q = SumFunction(q) /\ V = SumFunction(p) /\ U = SumFunction(r)
      /\ T \in Int /\ Q \in Int /\ V \in Int /\ U \in Int
  BY SumsOfSamples
<1>4. /\ num \in Int /\ den \in Nat \ {0}
      /\ den * (n * V - T * Q) = num * (n * U - T * T)
  BY SlopeFacts DEF Shared, Spread
<1>5. line = [slope |-> n * num, intercept |-> den * Q - num * T, over |-> n * den]
  BY DEF LeastSquares, Times, Queues
<1>6. IsBestLine(line, samples) <=> SumFunction(residual) = 0 /\ SumFunction(weighted) = 0
  BY DEF IsBestLine, Total
<1>7. \A i \in S : /\ t[i] \in Int /\ q[i] \in Int /\ p[i] = t[i] * q[i] /\ r[i] = t[i] * t[i]
                   /\ samples[i].t = t[i] /\ samples[i].queue = q[i]
  BY SampleFacts DEF TimeOf, QueueOf, ProductOf, SquareTime
<1> HIDE DEF S, t, q, p, r, n, num, den, T, Q, V, U
\* The line is t |-> (B - A * t) / over, with A and B of the other sign.
<1> DEFINE A == -(n * num)
           B == -(den * Q - num * T)
           over == n * den
<1>0. IntegerSums(n, num, den, T, Q, V, U)
  BY <1>1, <1>3, <1>4 DEF IntegerSums
<1>8. A \in Int /\ B \in Int /\ over \in Nat \ {0}
  <2>1. \A x, y \in Nat \ {0} : x * y \in Nat \ {0}
    OBVIOUS
  <2>2. n * den \in Nat \ {0}
    BY <1>1, <1>4, <2>1
  <2>3. A \in Int /\ B \in Int
    BY <1>0, NormalEquations
  <2> QED BY <2>2, <2>3
<1>9. line.slope = -A /\ line.intercept = -B /\ line.over = over
  BY <1>5, <1>0, NormalEquations
<1>10. \A i \in S : residual[i] = line.over * q[i] - line.slope * t[i] - line.intercept
  BY <1>7 DEF Residual
<1>11. \A i \in S : weighted[i] = t[i] * residual[i]
  BY <1>7
<1>12. (over * Q + A * T) + B * n = 0
  BY <1>0, NormalEquations
<1>13. over * V + A * U + B * T = den * (n * V - T * Q) - num * (n * U - T * T)
  BY <1>0, NormalEquations
<1> HIDE DEF A, B, over, line
<1>14. \A i \in S : residual[i] = over * q[i] + A * t[i] + B
  <2>1. \A x, y \in Int : over * y - (-A) * x - (-B) = over * y + A * x + B
    BY <1>8
  <2> HIDE DEF residual
  <2> QED BY <1>7, <1>9, <1>10, <2>1
<1>15. /\ residual \in [S -> Int] /\ weighted \in [S -> Int]
       /\ \A i \in S : residual[i] \in Int
  <2>1. \A i \in S : residual[i] \in Int
    <3>1. \A x, y \in Int : over * y + A * x + B \in Int
      BY <1>8
    <3> HIDE DEF residual
    <3> QED BY <1>7, <1>14, <3>1
  <2>2. \A i \in S : weighted[i] \in Int
    <3>1. \A x, y \in Int : x * y \in Int
      OBVIOUS
    <3> HIDE DEF residual, weighted
    <3> QED BY <1>7, <1>11, <2>1, <3>1
  <2> QED BY <2>1, <2>2
<1> HIDE DEF residual, weighted
<1>16. SumFunction(residual) = 0
  <2>1. Combined(S, residual, over, q, A, t, B)
    BY <1>2, <1>8, <1>14, <1>15 DEF Combined
  <2>2. SumFunction(residual) = over * SumFunction(q) + A * SumFunction(t) + B * Cardinality(S)
    BY <1>1, <2>1, SumLinear
  <2> QED BY <1>1, <1>3, <1>12, <2>2
<1>17. SumFunction(weighted) = over * V + A * U + B * T
  <2> DEFINE one == 1
             none == 0
             first == [i \in S |-> over * p[i] + A * r[i] + none]
  <2>1. /\ one \in Int /\ none \in Int
        /\ \A x \in Int : one * x = x /\ none * x = 0 /\ x + none = x
    OBVIOUS
  <2> HIDE DEF one, none
  <2>2. \A i \in S : p[i] \in Int /\ r[i] \in Int
    BY <1>2
  <2>3. \A i \in S : /\ first[i] = over * p[i] + A * r[i] + none
                     /\ first[i] \in Int
    <3>1. \A x, y \in Int : over * y + A * x + none \in Int
      BY <1>8, <2>1
    <3> QED BY <2>2, <3>1
  <2>4. first \in [S -> Int]
    BY <2>3
  <2> HIDE DEF first
  <2>5. \A i \in S : weighted[i] = one * first[i] + B * t[i] + none
    <3>1. \A x, y \in Int : /\ x * (over * y + A * x + B) = (over * (x * y) + A * (x * x)) + B * x
                            /\ over * (x * y) + A * (x * x) \in Int /\ B * x \in Int
      BY <1>8
    <3> SUFFICES ASSUME NEW i \in S PROVE weighted[i] = one * first[i] + B * t[i] + none
      OBVIOUS
    <3>2. weighted[i] = (over * (t[i] * q[i]) + A * (t[i] * t[i])) + B * t[i]
      <4>1. t[i] \in Int /\ q[i] \in Int
        BY <1>7
      <4>2. t[i] * (over * q[i] + A * t[i] + B) = (over * (t[i] * q[i]) + A * (t[i] * t[i])) + B * t[i]
        BY <3>1, <4>1
      <4> QED BY <1>11, <1>14, <4>2
    <3>3. first[i] = over * (t[i] * q[i]) + A * (t[i] * t[i])
      <4>1. over * (t[i] * q[i]) + A * (t[i] * t[i]) \in Int
        BY <1>7, <3>1
      <4> QED BY <1>7, <2>1, <2>3, <4>1
    <3>4. one * first[i] = first[i] /\ first[i] + B * t[i] \in Int
      <4>1. B * t[i] \in Int
        BY <1>7, <3>1
      <4> QED BY <2>1, <2>3, <4>1
    <3> QED BY <2>1, <3>2, <3>3, <3>4
  <2>6. SumFunction(first) = over * V + A * U
    <3>1. Combined(S, first, over, p, A, r, none)
      BY <1>2, <1>8, <2>1, <2>3, <2>4 DEF Combined
    <3>2. SumFunction(first) = over * SumFunction(p) + A * SumFunction(r) + none * Cardinality(S)
      BY <1>1, <3>1, SumLinear
    <3>3. none * n = 0 /\ over * V + A * U \in Int
      <4>1. over * V \in Int /\ A * U \in Int
        BY <1>3, <1>8
      <4> QED BY <1>1, <2>1, <4>1
    <3> QED BY <1>1, <1>3, <2>1, <3>2, <3>3
  <2>7. SumFunction(weighted) = one * SumFunction(first) + B * SumFunction(t) + none * Cardinality(S)
    <3>1. Combined(S, weighted, one, first, B, t, none)
      BY <1>2, <1>8, <1>15, <2>1, <2>4, <2>5 DEF Combined
    <3> QED BY <1>1, <3>1, SumLinear
  <2>8. none * n = 0 /\ over * V + A * U \in Int /\ B * T \in Int
    BY <1>1, <1>3, <1>8, <2>1
  <2>9. one * (over * V + A * U) = over * V + A * U
    BY <2>1, <2>8
  <2>10. (over * V + A * U) + B * T \in Int
    BY <2>8
  <2> QED BY <1>1, <1>3, <2>1, <2>6, <2>7, <2>8, <2>9, <2>10
<1>18. num * (n * U - T * T) \in Int
  <2>1. n * U \in Int /\ T * T \in Int
    BY <1>1, <1>3
  <2> QED BY <1>4, <2>1
<1>19. SumFunction(weighted) = 0
  BY <1>4, <1>13, <1>17, <1>18
<1> QED
  BY <1>6, <1>8, <1>9, <1>16, <1>19 DEF line

(***************************************************************************)
(* A queue that has not changed lies on the line, which is flat.           *)
(***************************************************************************)
LEMMA ConstantQueue ==
  ASSUME NEW samples \in Seq(Sample), samples # <<>>, NEW c \in Nat,
         \A i \in DOMAIN samples : samples[i].queue = c
  PROVE  LET line == LeastSquares(samples) IN
         line.slope = 0 /\ line.intercept = line.over * c
<1> DEFINE S == DOMAIN samples
           t == TimeOf(samples)
           q == QueueOf(samples)
           p == ProductOf(samples)
           n == Len(samples)
           num == Slope(samples).num
           den == Slope(samples).den
           T == Times(samples)
           Q == Queues(samples)
           V == Products(samples)
<1>1. IsFiniteSet(S) /\ Cardinality(S) = n /\ n \in Nat
  BY SampleFacts
<1>2. /\ t \in [S -> Int] /\ q \in [S -> Int] /\ p \in [S -> Int]
      /\ T = SumFunction(t) /\ Q = SumFunction(q) /\ V = SumFunction(p)
      /\ T \in Int /\ Q \in Int /\ V \in Int
  BY SumsOfSamples
<1>3. num \in Int /\ den \in Nat \ {0} /\ (n * V - T * Q = 0 => num = 0)
  BY SlopeFacts DEF Shared
<1>4. LeastSquares(samples) = [slope |-> n * num, intercept |-> den * Q - num * T, over |-> n * den]
  BY DEF LeastSquares, Times, Queues
<1>5. \A i \in S : t[i] \in Int /\ q[i] = c /\ p[i] = c * t[i]
  BY SampleFacts DEF TimeOf, QueueOf, ProductOf
<1> HIDE DEF S, t, q, p, n, num, den, T, Q, V
<1>6. Q = c * n
  <2>1. Constant(S, q, c)
    BY <1>2, <1>5 DEF Constant
  <2> QED BY <1>1, <1>2, <2>1, SumConstant
<1>7. V = c * T
  <2>1. Scaled(S, p, c, t)
    BY <1>2, <1>5 DEF Scaled
  <2> QED BY <1>1, <1>2, <2>1, SumScaled
<1>8. n * (c * T) = T * (c * n) /\ n * (c * T) \in Int
  BY <1>1, <1>2
<1>9. num = 0
  BY <1>3, <1>6, <1>7, <1>8
<1>10. n * num = 0 /\ den * Q - num * T = (n * den) * c
  BY <1>1, <1>2, <1>3, <1>6, <1>9
<1> QED
  BY <1>4, <1>10

(***************************************************************************)
(* What is forecast of any samples: not negative, and what it was if that  *)
(* has not changed, whichever of the two forecasters is asked.             *)
(***************************************************************************)
LEMMA PredictedSound ==
  ASSUME NEW samples \in Seq(Sample), samples # <<>>
  PROVE  /\ Predicted(samples).queue >= 0 /\ Predicted(samples).over > 0
         /\ (\A i \in DOMAIN samples : samples[i].queue = samples[1].queue) =>
              /\ Predicted(samples).queue = Predicted(samples).over * samples[1].queue
              /\ Predicted(samples).narrow
<1> DEFINE n == Len(samples)
           line == LeastSquares(samples)
           c == samples[1].queue
<1>1. /\ n \in Nat \ {0} /\ DOMAIN samples = 1..n
      /\ \A i \in 1..n : samples[i].t \in Nat /\ samples[i].queue \in Nat
  BY SampleFacts, EmptySeq
<1>2. 1 \in 1..n /\ n \in 1..n
  BY <1>1
<1>3. CASE n < MinTrend
  <2>1. Predicted(samples) = [queue |-> samples[n].queue, over |-> 1, narrow |-> TRUE]
    BY <1>3 DEF Predicted, Persistence
  <2> QED BY <1>1, <1>2, <2>1
<1>4. CASE ~(n < MinTrend)
  <2> DEFINE target == samples[n].t + Horizon
             value == line.slope * target + line.intercept
  <2>1. Horizon \in Nat
    BY ForecasterAssumption DEF PredictionSettings
  <2>2. line.slope \in Int /\ line.intercept \in Int /\ line.over \in Nat \ {0}
    BY BestLine
  <2>3. /\ Predicted(samples).queue = Max({0, value})
        /\ Predicted(samples).over = line.over
        /\ Predicted(samples).narrow = (\A i \in DOMAIN samples : Residual(line, samples[i]) = 0)
    BY <1>4 DEF Predicted, FitAndProject
  <2>4. target \in Int /\ value \in Int
    BY <1>1, <1>2, <2>1, <2>2
  <2>5. Max({0, value}) = IF value > 0 THEN value ELSE 0
    <3> HIDE DEF value
    <3> QED BY <2>4, MaxOfZero
  <2>6. Predicted(samples).queue >= 0 /\ Predicted(samples).over > 0
    <3> HIDE DEF value, line
    <3> QED BY <2>2, <2>3, <2>4, <2>5
  <2>7. ASSUME \A i \in DOMAIN samples : samples[i].queue = c
        PROVE  Predicted(samples).queue = Predicted(samples).over * c /\ Predicted(samples).narrow
    <3>1. c \in Nat
      BY <1>1, <1>2
    <3>2. line.slope = 0 /\ line.intercept = line.over * c
      <4> HIDE DEF c
      <4> QED BY <2>7, <3>1, ConstantQueue
    <3> DEFINE a == line.slope
               b == line.intercept
               o == line.over
    <3>3. o * c \in Nat
      BY <2>2, <3>1
    <3> HIDE DEF line, c, target
    <3>4. value = o * c
      BY <2>4, <3>2, <3>3
    <3>5. Predicted(samples).queue = Predicted(samples).over * c
      BY <2>3, <2>5, <3>3, <3>4
    <3>6. \A i \in DOMAIN samples : Residual(line, samples[i]) = 0
      <4> SUFFICES ASSUME NEW i \in DOMAIN samples PROVE Residual(line, samples[i]) = 0
        OBVIOUS
      <4>1. samples[i].queue = c /\ samples[i].t \in Nat
        BY <1>1, <2>7
      <4> QED BY <3>2, <3>3, <4>1 DEF Residual
    <3> QED BY <2>3, <3>5, <3>6
  <2> QED BY <2>6, <2>7
<1> QED
  BY <1>3, <1>4

(***************************************************************************)
(* Whatever the feed is and however often handlers are run again, the      *)
(* samples are in the order of their times, the line through them is the   *)
(* best one, no queue is forecast negative, and one that has not changed   *)
(* is forecast not to change (PredictionAgent._on_state,                   *)
(* LinearTrendForecaster.predict).                                         *)
(***************************************************************************)
THEOREM ForecastIsSound == MonitoringSpec => []ForecastSound
<1>1. FeedInv /\ HistoryInv /\ [MonitoringNext]_monitoringVars => FeedInv' /\ HistoryInv'
  BY NextFeed, NextHistory
<1>2. FeedInv /\ HistoryInv => ForecastSound
  <2> SUFFICES ASSUME FeedInv, HistoryInv PROVE ForecastSound
    OBVIOUS
  <2>1. \A i, j \in DOMAIN history : i < j => history[i].t <= history[j].t
    BY DEF HistoryInv
  <2>2. ASSUME NEW d \in DOMAIN AxisOfLane, SamplesOf(d) # <<>>
        PROVE  /\ Predicted(SamplesOf(d)).queue >= 0 /\ Predicted(SamplesOf(d)).over > 0
               /\ IsBestLine(LeastSquares(SamplesOf(d)), SamplesOf(d))
               /\ (\A i \in DOMAIN SamplesOf(d) : SamplesOf(d)[i].queue = SamplesOf(d)[1].queue) =>
                    /\ Predicted(SamplesOf(d)).queue = Predicted(SamplesOf(d)).over * SamplesOf(d)[1].queue
                    /\ Predicted(SamplesOf(d)).narrow
    <3>1. SamplesOf(d) \in Seq(Sample)
      <4> DEFINE n == Len(history)
      <4>1. /\ n \in Nat /\ DOMAIN history = 1..n
            /\ \A i \in 1..n : history[i].t \in Nat /\ history[i].state \in 1..Len(feed)
        <5>1. /\ history \in Seq([t : Nat, state : Nat])
              /\ \A i \in DOMAIN history : history[i].state \in 1..Len(feed)
          BY DEF HistoryInv
        <5>2. \A x \in [t : Nat, state : Nat] : x.t \in Nat
          OBVIOUS
        <5>3. n \in Nat /\ DOMAIN history = 1..n /\ \A i \in 1..n : history[i] \in [t : Nat, state : Nat]
          BY <5>1, LenProperties, ElementOfSeq
        <5> QED BY <5>1, <5>2, <5>3
      <4>2. \A m \in 1..Len(feed) : m \in DOMAIN feed /\ feed[m].lanes[d].vehicles \in Nat
        <5>1. \A x \in State : x.lanes[d].vehicles \in Nat
          BY <2>2 DEF State
        <5>2. \A m \in 1..Len(feed) : m \in DOMAIN feed /\ feed[m] \in State
          BY DEF FeedInv
        <5> QED BY <5>1, <5>2
      <4>3. \A m \in 1..Len(feed) : Counts[m][d] \in Nat
        BY <4>2 DEF Counts
      <4>4. SamplesOf(d) \in [1..n -> Sample]
        BY <4>1, <4>3 DEF SamplesOf, Sample
      <4> QED BY <4>1, <4>4
    <3> HIDE DEF SamplesOf
    <3>2. IsBestLine(LeastSquares(SamplesOf(d)), SamplesOf(d))
      BY <2>2, <3>1, BestLine
    <3> QED BY <2>2, <3>1, <3>2, PredictedSound
  <2> HIDE DEF SamplesOf
  <2> QED BY <2>1, <2>2 DEF ForecastSound
<1>3. MonitoringInit => HistoryInv
  BY InitWindows
<1> QED
  BY <1>1, <1>2, <1>3, InitFeed, PTL DEF MonitoringSpec

-----------------------------------------------------------------------------
(***************************************************************************)
(* The debounce.                                                           *)
(***************************************************************************)
Told == reported \cup dropped

RaisedInv ==
  /\ lastRaised \in [IncidentKeys -> Nat \cup {Never}]
  /\ Told \subseteq IncidentKeys \X Nat
  /\ \A r \in Told : lastRaised[r[1]] # Never /\ r[2] <= lastRaised[r[1]]
  /\ \A k \in IncidentKeys : lastRaised[k] # Never => <<k, lastRaised[k]>> \in Told
  /\ DebounceKept
  /\ \A f \in fired : f \in IncidentKeys \X (1..Len(feed)) /\ FindingReported(f)

(***************************************************************************)
(* What the rules find and what is to be published of it.                  *)
(***************************************************************************)
LEMMA FoundFacts ==
  ASSUME NEW state
  PROVE  /\ Found(state) \in Seq(IncidentKeys)
         /\ Due(state) \in Seq(IncidentKeys)
         /\ \A j \in 1..Len(Due(state)) : ~Debounced(state, Due(state)[j])
         /\ \A i \in 1..Len(Found(state)) : ~Debounced(state, Found(state)[i]) =>
              \E j \in 1..Len(Due(state)) : Due(state)[j] = Found(state)[i]
<1> DEFINE n == Len(Directions)
           late == {k \in IncidentKeys : ~Debounced(state, k)}
           firing == {k \in IncidentKeys : Fires(state, k)}
<1>1. /\ n \in Nat /\ DOMAIN Directions = 1..n
      /\ \A i \in 1..n : Directions[i] \in DOMAIN AxisOfLane
  BY IncidentAssumption
<1>2. \A i \in 1..n : <<Directions[i], Stalled>> \in IncidentKeys /\ <<Directions[i], Congested>> \in IncidentKeys
  BY <1>1 DEF IncidentKeys
<1>3. Candidates \in Seq(IncidentKeys)
  <2> DEFINE first == [i \in 1..n |-> <<Directions[i], Stalled>>]
             second == [i \in 1..n |-> <<Directions[i], Congested>>]
  <2>1. first \in Seq(IncidentKeys) /\ second \in Seq(IncidentKeys)
    <3>1. n \in Nat /\ first \in [1..n -> IncidentKeys] /\ second \in [1..n -> IncidentKeys]
      BY <1>1, <1>2
    <3> HIDE DEF n, first, second
    <3> QED BY <3>1
  <2>2. Candidates = first \o second
    BY <1>1 DEF Candidates
  <2> HIDE DEF first, second
  <2> QED BY <2>1, <2>2
<1>4. Found(state) \in Seq(IncidentKeys)
  <2>1. Found(state) = Subsequence(Candidates, firing)
    BY DEF Found
  <2> HIDE DEF firing
  <2>2. Found(state) \in Seq(IncidentKeys \cap firing)
    BY <1>3, <2>1, SubsequenceElements
  <2> QED BY <2>2, SeqMonotonic
<1>5. Due(state) = Subsequence(Found(state), late)
  BY DEF Due
<1> DEFINE found == Found(state)
           due   == Due(state)
<1> HIDE DEF late, found, due
<1>6. /\ due \in Seq(IncidentKeys \cap late)
      /\ \A i \in 1..Len(found) : found[i] \in late => \E j \in 1..Len(due) : due[j] = found[i]
  BY <1>4, <1>5, SubsequenceElements DEF found, due
<1>7. due \in Seq(IncidentKeys) /\ \A j \in 1..Len(due) : due[j] \in late
  BY <1>6, SeqMonotonic
<1>8. \A i \in 1..Len(found) : found[i] \in IncidentKeys
  BY <1>4 DEF found
<1> QED
  BY <1>4, <1>6, <1>7, <1>8 DEF late, found, due

(***************************************************************************)
(* The publications of a state: some go through, one may fail.             *)
(***************************************************************************)
LEMMA RaiseTold ==
  ASSUME RaisedInv, NEW m \in 1..Len(feed), feed \in Seq(State),
         NEW n \in Nat, NEW l \in {n, n + 1}, l <= Len(Due(feed[m])),
         Raise(feed[m], l),
         reported' = reported \cup {<<Due(feed[m])[i], feed[m].at>> : i \in 1..n},
         dropped' = dropped \cup {<<Due(feed[m])[i], feed[m].at>> : i \in (n + 1)..l}
  PROVE  /\ lastRaised' \in [IncidentKeys -> Nat \cup {Never}]
         /\ Told' \subseteq IncidentKeys \X Nat
         /\ \A r \in Told' : lastRaised'[r[1]] # Never /\ r[2] <= lastRaised'[r[1]]
         /\ \A k \in IncidentKeys : lastRaised'[k] # Never => <<k, lastRaised'[k]>> \in Told'
         /\ DebounceKept'
<1> DEFINE due == Due(feed[m])
           at  == feed[m].at
           new == {<<due[i], at>> : i \in 1..l}
<1>0. Debounce \in Nat /\ Never = -1
  BY IncidentAssumption DEF IncidentSettings, Never
<1>1. at \in Nat
  <2>1. feed[m] \in State
    OBVIOUS
  <2> QED BY <2>1 DEF State
<1>2. /\ due \in Seq(IncidentKeys)
      /\ \A j \in 1..Len(due) : lastRaised[due[j]] = Never \/ at - lastRaised[due[j]] >= Debounce
  <2>1. due \in Seq(IncidentKeys) /\ \A j \in 1..Len(due) : ~Debounced(feed[m], due[j])
    BY FoundFacts
  <2> DEFINE k(j) == due[j]
  <2>2. ASSUME NEW j \in 1..Len(due) PROVE lastRaised[k(j)] = Never \/ at - lastRaised[k(j)] >= Debounce
    <3>1. ~(lastRaised[k(j)] # Never /\ at - lastRaised[k(j)] < Debounce)
      BY <2>1 DEF Debounced
    <3>2. k(j) \in IncidentKeys
      BY <2>1
    <3>3. lastRaised[k(j)] \in Nat \cup {Never}
      BY <3>2 DEF RaisedInv
    <3> HIDE DEF k, at
    <3> QED BY <1>0, <1>1, <3>1, <3>3
  <2> QED BY <2>1, <2>2
<1>3. lastRaised' = [k \in IncidentKeys |-> IF \E i \in 1..l : due[i] = k THEN at ELSE lastRaised[k]]
  BY DEF Raise
<1>4. \A r : r \in Told' <=> r \in Told \/ r \in new
  <2>1. (1..n) \cup ((n + 1)..l) = 1..l
    OBVIOUS
  <2> HIDE DEF due, at
  <2> QED BY <2>1 DEF Told, due, at
<1>5. /\ lastRaised \in [IncidentKeys -> Nat \cup {Never}] /\ Told \subseteq IncidentKeys \X Nat
      /\ \A r \in Told : lastRaised[r[1]] # Never /\ r[2] <= lastRaised[r[1]]
      /\ \A k \in IncidentKeys : lastRaised[k] # Never => <<k, lastRaised[k]>> \in Told
      /\ DebounceKept
  BY DEF RaisedInv
<1> HIDE DEF due, at
<1>6. \A i \in 1..l : i \in 1..Len(due) /\ due[i] \in IncidentKeys
  BY <1>2 DEF due
<1>7. \A k \in IncidentKeys :
        /\ lastRaised[k] \in Nat \cup {Never}
        /\ (\E i \in 1..l : due[i] = k) =>
             /\ lastRaised'[k] = at /\ <<k, at>> \in new
             /\ lastRaised[k] = Never \/ at - lastRaised[k] >= Debounce
        /\ ~(\E i \in 1..l : due[i] = k) => lastRaised'[k] = lastRaised[k]
  BY <1>2, <1>3, <1>5, <1>6
<1>8. lastRaised' \in [IncidentKeys -> Nat \cup {Never}]
  BY <1>1, <1>3, <1>5
<1>9. \A r \in new : \E i \in 1..l : r = <<due[i], at>> /\ r \in IncidentKeys \X Nat
  BY <1>1, <1>6
<1> HIDE DEF new
<1>10. Told' \subseteq IncidentKeys \X Nat
  BY <1>4, <1>5, <1>9
<1>11. ASSUME NEW r \in Told' PROVE lastRaised'[r[1]] # Never /\ r[2] <= lastRaised'[r[1]]
  <2>1. CASE r \in new
    <3>1. PICK i \in 1..l : r = <<due[i], at>>
      BY <1>9, <2>1
    <3>2. lastRaised'[due[i]] = at
      BY <1>6, <1>7
    <3> QED BY <1>0, <1>1, <3>1, <3>2
  <2>2. CASE r \in Told
    <3> DEFINE k == r[1]
    <3>1. k \in IncidentKeys /\ r[2] \in Nat /\ lastRaised[k] # Never /\ r[2] <= lastRaised[k]
      BY <1>5, <2>2
    <3> HIDE DEF k
    <3>2. lastRaised[k] \in Nat
      BY <1>7, <3>1
    <3>3. lastRaised'[k] = lastRaised[k] \/ (lastRaised'[k] = at /\ at - lastRaised[k] >= Debounce)
      BY <1>7, <3>1
    <3>4. lastRaised'[k] # Never /\ r[2] <= lastRaised'[k]
      BY <1>0, <1>1, <3>1, <3>2, <3>3
    <3> QED BY <3>4 DEF k
  <2> QED BY <1>4, <2>1, <2>2
<1>12. ASSUME NEW k \in IncidentKeys, lastRaised'[k] # Never PROVE <<k, lastRaised'[k]>> \in Told'
  BY <1>4, <1>5, <1>7, <1>12
<1>13. DebounceKept'
  <2> SUFFICES ASSUME NEW r \in reported', NEW s \in reported', r[1] = s[1], r[2] < s[2]
               PROVE  s[2] - r[2] >= Debounce
    BY DEF DebounceKept
  <2>1. /\ r \in reported \/ r \in new
        /\ s \in reported \/ s \in new
        /\ reported \subseteq Told
    <3>1. \A i \in 1..n : i \in 1..l
      OBVIOUS
    <3> QED BY <3>1 DEF Told, new, due, at
  <2>2. r \in IncidentKeys \X Nat /\ s \in IncidentKeys \X Nat
    BY <1>5, <1>9, <2>1
  <2>3. CASE r \in reported /\ s \in reported
    BY <1>5, <2>3 DEF DebounceKept
  <2>4. CASE r \in new /\ s \in new
    <3>1. r[2] = at /\ s[2] = at
      BY <1>9, <2>4
    <3> QED BY <1>1, <3>1
  <2>5. CASE r \in reported /\ s \in new
    <3>1. PICK i \in 1..l : s = <<due[i], at>>
      BY <1>9, <2>5
    <3> DEFINE k == due[i]
    <3>2. k \in IncidentKeys /\ r[1] = k /\ s[2] = at
      BY <1>6, <3>1
    <3>3. lastRaised[k] # Never /\ r[2] <= lastRaised[k]
      BY <1>5, <2>1, <2>5, <3>2
    <3>4. lastRaised[k] \in Nat /\ at - lastRaised[k] >= Debounce
      <4>1. \E j \in 1..l : due[j] = k
        OBVIOUS
      <4> HIDE DEF k
      <4> QED BY <1>7, <3>2, <3>3, <4>1
    <3> HIDE DEF k
    <3> QED BY <1>0, <1>1, <2>2, <3>2, <3>3, <3>4
  <2>6. CASE r \in new /\ s \in reported
    <3>1. PICK i \in 1..l : r = <<due[i], at>>
      BY <1>9, <2>6
    <3> DEFINE k == due[i]
    <3>2. k \in IncidentKeys /\ s[1] = k /\ r[2] = at
      BY <1>6, <3>1
    <3>3. lastRaised[k] # Never /\ s[2] <= lastRaised[k]
      BY <1>5, <2>1, <2>6, <3>2
    <3>4. lastRaised[k] \in Nat /\ at - lastRaised[k] >= Debounce
      <4>1. \E j \in 1..l : due[j] = k
        OBVIOUS
      <4> HIDE DEF k
      <4> QED BY <1>7, <3>2, <3>3, <4>1
    <3> HIDE DEF k
    <3> QED BY <1>0, <1>1, <2>2, <3>2, <3>3, <3>4
  <2> QED BY <2>1, <2>3, <2>4, <2>5, <2>6
<1> QED
  BY <1>8, <1>10, <1>11, <1>12, <1>13

LEMMA DetectRaised ==
  ASSUME FeedInv, RaisedInv, NEW n \in Nat, Detect(n)
  PROVE  RaisedInv'
<1> DEFINE m     == next["incident"]
           state == feed[m]
           due   == Due(state)
           found == Found(state)
           at    == state.at
<1>0. /\ m \in 1..Len(feed) /\ feed \in Seq(State) /\ UNCHANGED feed /\ Len(feed) \in Nat
  <2>1. m \in Nat \ {0} /\ m <= Len(feed) /\ feed \in Seq(State)
    BY DEF FeedInv, Detect, Handles, Readers, Agency
  <2>2. UNCHANGED feed
    BY DEF Detect, Returns, Raises
  <2> QED BY <2>1, <2>2
<1>1. /\ n <= Len(due) /\ due \in Seq(IncidentKeys) /\ found \in Seq(IncidentKeys)
  BY FoundFacts DEF Detect
<1>2. /\ reported' = reported \cup {<<due[i], at>> : i \in 1..n}
      /\ \/ /\ n = Len(due) /\ Raise(state, n) /\ UNCHANGED dropped
            /\ fired' = fired \cup {<<found[i], m>> : i \in DOMAIN found}
         \/ /\ n # Len(due) /\ Raise(state, n + 1) /\ dropped' = dropped \cup {<<due[n + 1], at>>}
            /\ UNCHANGED fired
  BY DEF Detect
<1>3. /\ lastRaised' \in [IncidentKeys -> Nat \cup {Never}]
      /\ Told' \subseteq IncidentKeys \X Nat
      /\ \A r \in Told' : lastRaised'[r[1]] # Never /\ r[2] <= lastRaised'[r[1]]
      /\ \A k \in IncidentKeys : lastRaised'[k] # Never => <<k, lastRaised'[k]>> \in Told'
      /\ DebounceKept'
  <2>1. CASE n = Len(due) /\ Raise(state, n) /\ UNCHANGED dropped
    <3>1. dropped' = dropped \cup {<<due[i], at>> : i \in (n + 1)..n}
      <4>1. (n + 1)..n = {}
        OBVIOUS
      <4> HIDE DEF due, at
      <4> QED BY <2>1, <4>1
    <3>2. n \in {n, n + 1} /\ n <= Len(Due(feed[m]))
      BY <1>1
    <3> QED BY <1>0, <1>2, <2>1, <3>1, <3>2, RaiseTold
  <2>2. CASE n # Len(due) /\ Raise(state, n + 1) /\ dropped' = dropped \cup {<<due[n + 1], at>>}
    <3>1. dropped' = dropped \cup {<<due[i], at>> : i \in (n + 1)..(n + 1)}
      <4>1. (n + 1)..(n + 1) = {n + 1}
        OBVIOUS
      <4> HIDE DEF due, at
      <4> QED BY <2>2, <4>1
    <3>2. n + 1 \in {n, n + 1} /\ n + 1 <= Len(Due(feed[m]))
      <4>1. Len(due) \in Nat
        BY <1>1
      <4>2. n + 1 <= Len(due)
        <5> HIDE DEF due
        <5> QED BY <1>1, <2>2, <4>1
      <4> QED BY <4>2
    <3> QED BY <1>0, <1>2, <2>2, <3>1, <3>2, RaiseTold
  <2> QED BY <1>2, <2>1, <2>2
<1>4. \A f \in fired : f \in IncidentKeys \X (1..Len(feed)) /\ FindingReported(f)
  BY DEF RaisedInv
<1>5. ASSUME NEW f \in fired
      PROVE  f \in IncidentKeys \X (1..Len(feed')) /\ FindingReported(f)'
  <2>1. PICK r \in reported \cup dropped : r[1] = f[1] /\ (r[2] = feed[f[2]].at \/ feed[f[2]].at - r[2] < Debounce)
    BY <1>4 DEF FindingReported
  <2>2. r \in reported' \cup dropped'
    BY <1>2, <2>1
  <2> QED BY <1>0, <1>4, <2>1, <2>2 DEF FindingReported
<1>6. ASSUME n = Len(due), NEW f \in {<<found[i], m>> : i \in DOMAIN found}
      PROVE  f \in IncidentKeys \X (1..Len(feed')) /\ FindingReported(f)'
  <2>0. PICK i \in DOMAIN found : f = <<found[i], m>>
    BY <1>6
  <2> DEFINE k == found[i]
  <2>1. k \in IncidentKeys /\ i \in 1..Len(found)
    BY <1>1
  <2>4. ASSUME \E r \in reported' \cup dropped' : r[1] = k /\ (r[2] = at \/ at - r[2] < Debounce)
        PROVE  f \in IncidentKeys \X (1..Len(feed')) /\ FindingReported(f)'
    <3>1. f[1] = k /\ f[2] = m /\ feed'[f[2]].at = at
      BY <1>0, <2>0
    <3>2. f \in IncidentKeys \X (1..Len(feed'))
      BY <1>0, <2>0, <2>1
    <3> HIDE DEF k, at
    <3>3. \E r \in reported' \cup dropped' :
            r[1] = f[1] /\ (r[2] = feed'[f[2]].at \/ feed'[f[2]].at - r[2] < Debounce)
      BY <2>4, <3>1
    <3>4. FindingReported(f)'
      BY <3>3 DEF FindingReported
    <3> QED BY <3>2, <3>4
  <2>2. CASE Debounced(state, k)
    <3>1. lastRaised[k] # Never /\ at - lastRaised[k] < Debounce
      BY <2>2 DEF Debounced
    <3>2. <<k, lastRaised[k]>> \in reported' \cup dropped'
      BY <1>2, <2>1, <3>1 DEF RaisedInv, Told
    <3>3. \E r \in reported' \cup dropped' : r[1] = k /\ (r[2] = at \/ at - r[2] < Debounce)
      <4> HIDE DEF k, at
      <4> QED BY <3>1, <3>2
    <3> QED BY <2>4, <3>3
  <2>3. CASE ~Debounced(state, k)
    <3>1. PICK j \in 1..Len(due) : due[j] = k
      BY <2>1, <2>3, FoundFacts
    <3>2. <<k, at>> \in reported' \cup dropped'
      <4> HIDE DEF due, k, at
      <4> QED BY <1>2, <1>6, <3>1
    <3>3. \E r \in reported' \cup dropped' : r[1] = k /\ (r[2] = at \/ at - r[2] < Debounce)
      <4> HIDE DEF k, at
      <4> QED BY <3>2
    <3> QED BY <2>4, <3>3
  <2> QED BY <2>2, <2>3
<1>7. \A f \in fired' : f \in IncidentKeys \X (1..Len(feed')) /\ FindingReported(f)'
  <2> HIDE DEF due, found, m, at
  <2>1. CASE UNCHANGED fired
    BY <1>5, <2>1
  <2>2. CASE n = Len(due) /\ fired' = fired \cup {<<found[i], m>> : i \in DOMAIN found}
    BY <1>5, <1>6, <2>2
  <2> QED BY <1>2, <2>1, <2>2
<1> QED
  BY <1>3, <1>7 DEF RaisedInv

LEMMA KeepsRaised ==
  ASSUME FeedInv, FeedInv', FeedGrows, RaisedInv, UNCHANGED <<lastRaised, reported, dropped, fired>>
  PROVE  RaisedInv'
<1>1. Len(feed) \in Nat /\ Len(feed') \in Nat
  BY DEF FeedInv
<1>2. \A m \in 1..Len(feed) : m \in 1..Len(feed') /\ feed'[m] = feed[m]
  BY <1>1 DEF FeedGrows
<1>3. ASSUME NEW f \in fired PROVE f \in IncidentKeys \X (1..Len(feed')) /\ FindingReported(f)'
  <2>1. f \in IncidentKeys \X (1..Len(feed)) /\ FindingReported(f)
    BY DEF RaisedInv
  <2>2. f[2] \in 1..Len(feed)
    BY <2>1
  <2> QED BY <1>2, <2>1, <2>2 DEF FindingReported
<1> QED
  BY <1>3 DEF RaisedInv, Told, DebounceKept

LEMMA NextRaised == FeedInv /\ RaisedInv /\ [MonitoringNext]_monitoringVars => RaisedInv'
<1> SUFFICES ASSUME FeedInv, RaisedInv, [MonitoringNext]_monitoringVars PROVE RaisedInv'
  OBVIOUS
<1>0. FeedInv' /\ FeedGrows /\ Len(Directions) \in Nat
  BY NextFeed, IncidentAssumption
<1>1. ASSUME UNCHANGED <<lastRaised, reported, dropped, fired>> PROVE RaisedInv'
  BY <1>0, <1>1, KeepsRaised
<1>2. ASSUME NEW n \in 0..Len(Directions) * 2, Detect(n) PROVE RaisedInv'
  <2>1. n \in Nat
    BY <1>0
  <2> QED BY <1>2, <2>1, DetectRaised
<1>3. ASSUME NEW n, Serve(n) PROVE RaisedInv'
  BY <1>1, <1>3 DEF Serve, incident, incidentHistory
<1>4. ASSUME NEW ok \in BOOLEAN, Remember(ok) \/ Foresee(ok) \/ Orchestrate(ok) PROVE RaisedInv'
  BY <1>1, <1>4 DEF Remember, Foresee, Orchestrate, incident, incidentHistory
<1>5. CASE LearnBaseline \/ ShowMode \/ Watchdog \/ PassTime \/ UNCHANGED monitoringVars
  BY <1>1, <1>5 DEF LearnBaseline, OnBaseline, ShowMode, Watchdog, PassTime, monitoringVars, watchers, incident, incidentHistory
<1>6. ASSUME NEW scene, NEW at, PublishState(scene, at) PROVE RaisedInv'
  BY <1>1, <1>6 DEF PublishState, incident, incidentHistory
<1>7. ASSUME NEW a \in Agents, StartAgent(a) \/ StopAgent(a) \/ \E ok \in BOOLEAN : Emit(a, ok) PROVE RaisedInv'
  BY <1>1, <1>7 DEF StartAgent, StopAgent, Emit, watchers, incident, incidentHistory
<1>8. ASSUME NEW a \in Agents, NEW age, DeliverHeartbeat(a, age) PROVE RaisedInv'
  BY <1>1, <1>8 DEF DeliverHeartbeat, watchers, incident, incidentHistory
<1> QED
  BY <1>2, <1>3, <1>4, <1>5, <1>6, <1>7, <1>8 DEF MonitoringNext

(***************************************************************************)
(* Whatever a rule found in a state that was handled has been reported     *)
(* within the debounce, or a publication of it failed in that time; and it *)
(* was not reported twice within the debounce, through retries, failures   *)
(* and a clock that goes back (IncidentDetectionAgent._on_state).          *)
(***************************************************************************)
THEOREM ReportedOnceAndSoon == MonitoringSpec => []ReportedOnce
<1>1. MonitoringInit => RaisedInv
  <2> SUFFICES ASSUME MonitoringInit PROVE RaisedInv
    OBVIOUS
  <2>1. /\ lastRaised = [k \in IncidentKeys |-> Never]
        /\ reported = {} /\ dropped = {} /\ fired = {}
    BY DEF MonitoringInit, IncidentInit
  <2> QED BY <2>1 DEF RaisedInv, Told, DebounceKept
<1>2. FeedInv /\ RaisedInv /\ [MonitoringNext]_monitoringVars => FeedInv' /\ RaisedInv'
  BY NextFeed, NextRaised
<1>3. RaisedInv => ReportedOnce
  BY DEF RaisedInv, ReportedOnce
<1> QED
  BY <1>1, <1>2, <1>3, InitFeed, PTL DEF MonitoringSpec

-----------------------------------------------------------------------------
(***************************************************************************)
(* The episodes of the service's incidents.                                *)
(***************************************************************************)
Key(i)     == notices[i][1]
ToldIn(i)  == notices[i][2]
Before     == next["service"] - 1

EpisodeInv ==
  /\ notices \in Seq(ServiceKeys \X (Nat \ {0}) \X BOOLEAN)
  /\ activeKeys \subseteq ServiceKeys
  /\ next["service"] <= Len(feed) + 1
  /\ \A i \in DOMAIN notices : /\ ToldIn(i) <= next["service"]
                               /\ ToldIn(i) <= Len(feed)
                               /\ Key(i) \in Range(Detected(feed[ToldIn(i)]))
                               /\ Episode(Key(i), ToldIn(i), Before) => Key(i) \in activeKeys
  /\ \A i, j \in DOMAIN notices :
       i < j /\ Key(i) = Key(j) =>
         ToldIn(i) < ToldIn(j) /\ ~Episode(Key(i), ToldIn(i), ToldIn(j) - 1)
  /\ \A k \in activeKeys :
       \E i \in DOMAIN notices : Key(i) = k /\ Episode(k, ToldIn(i), Before)
  /\ \A n \in 1..Before : <<"service", n>> \notin deadLetters =>
       \A k \in Range(Detected(feed[n])) :
         \E i \in DOMAIN notices : Key(i) = k /\ ToldIn(i) <= n /\ Episode(k, ToldIn(i), n)

(***************************************************************************)
(* What the service looks at, finds, and tells of it.                      *)
(***************************************************************************)
LEMMA LookedFacts ==
  /\ Looked \in Seq(ServiceKeys)
  /\ \A i, j \in 1..Len(Looked) : Looked[i] = Looked[j] => i = j
<1> DEFINE n == Len(Approaches)
           half(i) == (i + 1) \div 2
<1>1. /\ n \in Nat /\ DOMAIN Approaches = 1..n
      /\ \A i \in 1..n : Approaches[i] \in Range(Approaches)
      /\ \A i, j \in 1..n : Approaches[i] = Approaches[j] => i = j
  BY ServiceIncidentAssumption DEF IsInjective, Range
<1>2. /\ \A i \in 1..(2 * n) : half(i) \in 1..n
      /\ \A i, j \in 1..(2 * n) : half(i) = half(j) /\ (i % 2 = 1 <=> j % 2 = 1) => i = j
  <2>1. n \in Nat
    BY <1>1
  <2> HIDE DEF n
  <2> QED BY <2>1
<1>3. /\ Looked = [i \in 1..(2 * n) |-> <<Approaches[half(i)], IF i % 2 = 1 THEN Emergency ELSE Jam>>]
      /\ Emergency # Jam
  BY DEF Looked, Emergency, Jam
<1> HIDE DEF n, half
<1>4. \A i \in 1..(2 * n) : Looked[i] \in ServiceKeys
  BY <1>1, <1>2, <1>3 DEF ServiceKeys
<1>5. Looked \in [1..(2 * n) -> ServiceKeys] /\ 2 * n \in Nat
  BY <1>1, <1>3, <1>4
<1>6. Looked \in Seq(ServiceKeys) /\ Len(Looked) = 2 * n
  BY <1>5
<1>7. ASSUME NEW i \in 1..(2 * n), NEW j \in 1..(2 * n), Looked[i] = Looked[j] PROVE i = j
  <2>1. /\ Approaches[half(i)] = Approaches[half(j)]
        /\ i % 2 = 1 <=> j % 2 = 1
    BY <1>3, <1>7
  <2> QED BY <1>1, <1>2, <2>1
<1> QED
  BY <1>6, <1>7

LEMMA NewsFacts ==
  ASSUME NEW state
  PROVE  /\ Range(Detected(state)) \subseteq ServiceKeys
         /\ News(state) \in Seq(ServiceKeys)
         /\ \A i, j \in 1..Len(News(state)) : News(state)[i] = News(state)[j] => i = j
         /\ \A i \in 1..Len(News(state)) : /\ News(state)[i] \notin activeKeys
                                           /\ News(state)[i] \in Range(Detected(state))
         /\ \A k \in Range(Detected(state)) \ activeKeys :
              \E i \in 1..Len(News(state)) : News(state)[i] = k
<1> DEFINE shown == {k \in ServiceKeys : Shows(state, k)}
           fresh == ServiceKeys \ activeKeys
           detected == Detected(state)
           news == News(state)
<1>1. detected = Subsequence(Looked, shown) /\ news = Subsequence(detected, fresh)
  BY DEF Detected, News
<1> HIDE DEF shown, detected, news
<1>2. detected \in Seq(ServiceKeys \cap shown)
  BY <1>1, LookedFacts, SubsequenceElements
<1>3. \A i, j \in 1..Len(detected) : detected[i] = detected[j] => i = j
  BY <1>1, LookedFacts, SubsequenceDistinct
<1>4. detected \in Seq(ServiceKeys)
  BY <1>2, SeqMonotonic
<1>5. \A i, j \in 1..Len(news) : news[i] = news[j] => i = j
  BY <1>1, <1>3, <1>4, SubsequenceDistinct
<1> HIDE DEF fresh
<1>6. /\ news \in Seq(ServiceKeys \cap fresh)
      /\ \A i \in 1..Len(detected) : detected[i] \in fresh => \E j \in 1..Len(news) : news[j] = detected[i]
      /\ \A j \in 1..Len(news) : \E i \in 1..Len(detected) : detected[i] = news[j]
  BY <1>1, <1>4, SubsequenceElements
<1>7. news \in Seq(ServiceKeys) /\ \A j \in 1..Len(news) : news[j] \in fresh
  BY <1>6, SeqMonotonic
<1>8. Range(detected) = {detected[i] : i \in 1..Len(detected)} /\ \A i \in 1..Len(detected) : detected[i] \in ServiceKeys
  BY <1>4 DEF Range
<1>9. \A j \in 1..Len(news) : news[j] \notin activeKeys /\ news[j] \in Range(detected)
  BY <1>6, <1>7, <1>8 DEF fresh
<1>10. \A k \in Range(detected) \ activeKeys : \E i \in 1..Len(news) : news[i] = k
  BY <1>6, <1>8 DEF fresh
<1> QED
  BY <1>5, <1>7, <1>8, <1>9, <1>10 DEF detected, news

(***************************************************************************)
(* What a call of the service's _handle does: so many of the news are      *)
(* told, and it returns, is to be retried, or its state is given up.       *)
(***************************************************************************)
LEMMA ServeFacts ==
  ASSUME FeedInv, EpisodeInv, NEW n \in Nat, Serve(n)
  PROVE  LET m     == next["service"]
             news  == News(feed[m])
             L     == Len(notices)
         IN
         /\ m \in 1..Len(feed)
         /\ UNCHANGED feed
         /\ \E l \in 0..Len(news) :
              LET on == activeKeys \cup {news[i] : i \in 1..l} IN
              /\ notices' \in Seq(ServiceKeys \X (Nat \ {0}) \X BOOLEAN)
              /\ Len(notices') = L + l
              /\ \A i \in 1..L : notices'[i] = notices[i]
              /\ \A i \in 1..l : notices'[L + i][1] = news[i] /\ notices'[L + i][2] = m
              /\ \/ /\ next'["service"] = m + 1 /\ UNCHANGED deadLetters
                    /\ l = Len(news) /\ activeKeys' = on \cap Range(Detected(feed[m]))
                 \/ next'["service"] = m /\ UNCHANGED deadLetters /\ activeKeys' = on
                 \/ /\ next'["service"] = m + 1 /\ deadLetters' = deadLetters \cup {<<"service", m>>}
                    /\ activeKeys' = on
<1> DEFINE m     == next["service"]
           state == feed[m]
           news  == News(state)
           L     == Len(notices)
           Note  == ServiceKeys \X (Nat \ {0}) \X BOOLEAN
           Said(l) == [i \in 1..l |-> <<news[i], m, i <= n>>]
<1>0. /\ "service" \in Readers /\ m \in Nat \ {0} /\ m <= Len(feed) /\ feed \in Seq(State)
      /\ n \in Nat /\ n <= Len(news) /\ Len(news) \in Nat
      /\ notices \in Seq(Note) /\ news \in Seq(ServiceKeys)
  BY NewsFacts DEF FeedInv, EpisodeInv, Serve, Handles, Readers
<1>1. \/ /\ n = Len(news) /\ Returns("service") /\ HandleAll(state)
         /\ notices' = notices \o [i \in 1..n |-> <<news[i], m, TRUE>>]
      \/ /\ n # Len(news) /\ Raises("service") /\ FailAt(state, n + 1)
         /\ notices' = notices \o [i \in 1..(n + 1) |-> <<news[i], m, i <= n>>]
  BY DEF Serve
<1>2. ASSUME NEW l \in Nat, l <= Len(news), notices' = notices \o Said(l)
      PROVE  /\ notices' \in Seq(Note)
             /\ Len(notices') = L + l
             /\ \A i \in 1..L : notices'[i] = notices[i]
             /\ \A i \in 1..l : notices'[L + i][1] = news[i] /\ notices'[L + i][2] = m
  <2> DEFINE said == Said(l)
  <2>1. \A i \in 1..l : said[i] = <<news[i], m, i <= n>> /\ said[i] \in Note
    <3> TAKE i \in 1..l
    <3>1. news[i] \in ServiceKeys /\ (i <= n) \in BOOLEAN
      BY <1>0, <1>2
    <3>2. <<news[i], m, i <= n>> \in Note
      BY <1>0, <3>1
    <3> QED BY <3>2
  <2>2. said = [i \in 1..l |-> said[i]]
    OBVIOUS
  <2> HIDE DEF said, Note, m, news
  <2>3. said \in Seq(Note) /\ Len(said) = l
    BY <2>1, <2>2
  <2>4. notices' = notices \o said
    BY <1>2 DEF said
  <2>5. /\ notices' \in Seq(Note) /\ Len(notices') = L + l
        /\ \A i \in 1..L : notices'[i] = notices[i]
        /\ \A i \in 1..l : notices'[L + i] = said[i]
    <3> DEFINE longer == notices \o said
    <3>1. /\ longer \in Seq(Note) /\ Len(longer) = Len(notices) + Len(said)
          /\ \A i \in 1..(Len(notices) + Len(said)) :
               longer[i] = IF i <= Len(notices) THEN notices[i] ELSE said[i - Len(notices)]
      BY <1>0, <2>3, ConcatProperties
    <3>2. L \in Nat /\ l \in Nat
      BY <1>0
    <3>5. Len(notices) = L
      OBVIOUS
    <3> HIDE DEF longer, L
    <3>3. \A i \in 1..l : L + i \in 1..(L + l) /\ ~(L + i <= L) /\ (L + i) - L = i
      BY <3>2
    <3>4. \A i \in 1..L : i \in 1..(L + l) /\ i <= L
      BY <3>2
    <3>6. notices' = longer
      BY <2>4 DEF longer
    <3>7. notices' \in Seq(Note) /\ Len(notices') = L + l
      BY <2>3, <3>1, <3>5, <3>6
    <3>8. \A i \in 1..L : notices'[i] = notices[i]
      BY <2>3, <3>1, <3>4, <3>5, <3>6
    <3>9. \A i \in 1..l : notices'[L + i] = said[i]
      BY <2>3, <3>1, <3>3, <3>5, <3>6
    <3> QED BY <3>7, <3>8, <3>9
  <2> HIDE DEF L, Said
  <2>6. \A i \in 1..l : said[i][1] = news[i] /\ said[i][2] = m
    BY <2>1
  <2>7. \A i \in 1..l : notices'[L + i][1] = news[i] /\ notices'[L + i][2] = m
    BY <2>5, <2>6
  <2> QED BY <2>5, <2>7
<1>3. CASE /\ n = Len(news) /\ Returns("service") /\ HandleAll(state)
           /\ notices' = notices \o [i \in 1..n |-> <<news[i], m, TRUE>>]
  <2>1. [i \in 1..n |-> <<news[i], m, TRUE>>] = Said(n)
    <3>1. \A i \in 1..n : (i <= n) = TRUE
      BY <1>0
    <3> HIDE DEF news, m
    <3> QED BY <3>1
  <2>2. notices' = notices \o Said(n)
    BY <1>3, <2>1
  <2>3. next'["service"] = m + 1 /\ UNCHANGED <<feed, deadLetters>>
    BY <1>0, <1>3, ReturnsFacts
  <2>4. activeKeys' = (activeKeys \cup {news[i] : i \in 1..n}) \cap Range(Detected(state))
    BY <1>3 DEF HandleAll, StillOn, Activated
  <2>5. m \in 1..Len(feed) /\ n \in 0..Len(news)
    BY <1>0
  <2>6. n <= Len(news) /\ n = Len(news)
    BY <1>0, <1>3
  <2>7. /\ notices' \in Seq(Note)
        /\ Len(notices') = L + n
        /\ \A i \in 1..L : notices'[i] = notices[i]
        /\ \A i \in 1..n : notices'[L + i][1] = news[i] /\ notices'[L + i][2] = m
    <3> HIDE DEF Said, Note, m, news, L
    <3> QED BY <1>2, <2>2, <2>6
  <2> QED BY <2>3, <2>4, <2>5, <2>6, <2>7
<1>4. CASE /\ n # Len(news) /\ Raises("service") /\ FailAt(state, n + 1)
           /\ notices' = notices \o [i \in 1..(n + 1) |-> <<news[i], m, i <= n>>]
  <2>1. n + 1 \in Nat /\ n + 1 <= Len(news)
    <3> HIDE DEF news
    <3> QED BY <1>0, <1>4
  <2>2. notices' = notices \o Said(n + 1)
    BY <1>4
  <2>3. /\ UNCHANGED feed
        /\ \/ next'["service"] = m /\ UNCHANGED deadLetters
           \/ next'["service"] = m + 1 /\ deadLetters' = deadLetters \cup {<<"service", m>>}
    BY <1>0, <1>4, RaisesFacts
  <2>4. activeKeys' = activeKeys \cup {news[i] : i \in 1..(n + 1)}
    BY <1>4 DEF FailAt, Activated
  <2>5. m \in 1..Len(feed) /\ n + 1 \in 0..Len(news)
    BY <1>0, <2>1
  <2>7. /\ notices' \in Seq(Note)
        /\ Len(notices') = L + (n + 1)
        /\ \A i \in 1..L : notices'[i] = notices[i]
        /\ \A i \in 1..(n + 1) : notices'[L + i][1] = news[i] /\ notices'[L + i][2] = m
    <3> HIDE DEF Said, Note, m, news, L
    <3> QED BY <1>2, <2>1, <2>2
  <2> QED BY <2>3, <2>4, <2>5, <2>7
<1> QED
  BY <1>1, <1>3, <1>4

(***************************************************************************)
(* A call of _handle: an episode ends with the state that shows the        *)
(* incident no more, in which the key is forgotten.                        *)
(***************************************************************************)
LEMMA ServeEpisode ==
  ASSUME FeedInv, EpisodeInv, NEW n \in Nat, Serve(n)
  PROVE  EpisodeInv'
<1> DEFINE m    == next["service"]
           news == News(feed[m])
           L    == Len(notices)
           D    == Range(Detected(feed[m]))
           next1 == next'["service"]
           Note == ServiceKeys \X (Nat \ {0}) \X BOOLEAN
           K(i) == notices[i][1]
           T(i) == notices[i][2]
           K1(i) == notices'[i][1]
           T1(i) == notices'[i][2]
           Ep(k, a, b)  == \A i \in a..b : k \in Range(Detected(feed[i])) \/ <<"service", i>> \in deadLetters
           Ep1(k, a, b) == \A i \in a..b : k \in Range(Detected(feed[i])) \/ <<"service", i>> \in deadLetters'
<1>1. PICK l \in 0..Len(news) :
        /\ notices' \in Seq(Note)
        /\ Len(notices') = L + l
        /\ \A i \in 1..L : notices'[i] = notices[i]
        /\ \A i \in 1..l : notices'[L + i][1] = news[i] /\ notices'[L + i][2] = m
        /\ \/ /\ next1 = m + 1 /\ UNCHANGED deadLetters
              /\ l = Len(news) /\ activeKeys' = (activeKeys \cup {news[i] : i \in 1..l}) \cap D
           \/ next1 = m /\ UNCHANGED deadLetters /\ activeKeys' = activeKeys \cup {news[i] : i \in 1..l}
           \/ /\ next1 = m + 1 /\ deadLetters' = deadLetters \cup {<<"service", m>>}
              /\ activeKeys' = activeKeys \cup {news[i] : i \in 1..l}
  BY ServeFacts
<1>2. /\ m \in 1..Len(feed) /\ Len(feed) \in Nat /\ UNCHANGED feed
      /\ L \in Nat /\ l \in Nat /\ l <= Len(news)
      /\ \A i \in Nat : <<"service", i>> \in deadLetters => i < m
  <2>1. m \in 1..Len(feed) /\ UNCHANGED feed
    BY ServeFacts
  <2>2. Len(feed) \in Nat /\ L \in Nat /\ Len(news) \in Nat
    BY NewsFacts DEF FeedInv, EpisodeInv
  <2>3. "service" \in Readers
    BY DEF Readers
  <2> QED BY <1>1, <2>1, <2>2, <2>3 DEF FeedInv
<1>3. /\ D \subseteq ServiceKeys
      /\ \A i \in 1..Len(news) : news[i] \notin activeKeys /\ news[i] \in D /\ news[i] \in ServiceKeys
      /\ \A i, j \in 1..Len(news) : news[i] = news[j] => i = j
      /\ \A k \in D \ activeKeys : \E i \in 1..Len(news) : news[i] = k
  BY NewsFacts
\* The invariant, entry by entry.
<1>4. /\ activeKeys \subseteq ServiceKeys
      /\ \A i \in 1..L : /\ T(i) \in Nat \ {0} /\ T(i) <= m /\ T(i) <= Len(feed)
                         /\ K(i) \in Range(Detected(feed[T(i)]))
                         /\ Ep(K(i), T(i), m - 1) => K(i) \in activeKeys
  <2>1. DOMAIN notices = 1..L /\ \A i \in 1..L : T(i) \in Nat \ {0}
    BY DEF EpisodeInv
  <2> QED BY <2>1 DEF EpisodeInv, Key, ToldIn, Episode, On, Before
<1>5. \A i, j \in 1..L : i < j /\ K(i) = K(j) => T(i) < T(j) /\ ~Ep(K(i), T(i), T(j) - 1)
  <2>1. DOMAIN notices = 1..L
    BY DEF EpisodeInv
  <2> QED BY <2>1 DEF EpisodeInv, Key, ToldIn, Episode, On
<1>6. \A k \in activeKeys : \E i \in 1..L : K(i) = k /\ Ep(k, T(i), m - 1)
  <2>1. DOMAIN notices = 1..L
    BY DEF EpisodeInv
  <2> QED BY <2>1 DEF EpisodeInv, Key, ToldIn, Episode, On, Before
<1>7. \A x \in 1..(m - 1) : <<"service", x>> \notin deadLetters =>
        \A k \in Range(Detected(feed[x])) : \E i \in 1..L : K(i) = k /\ T(i) <= x /\ Ep(k, T(i), x)
  <2>1. DOMAIN notices = 1..L
    BY DEF EpisodeInv
  <2> QED BY <2>1 DEF EpisodeInv, Key, ToldIn, Episode, On, Before
\* How the runs of states are prolonged.
<1>8. ASSUME NEW k, NEW a \in Nat, NEW b \in Nat, a # 0, b < m
      PROVE  Ep1(k, a, b) <=> Ep(k, a, b)
  <2>1. \A i \in a..b : i \in Nat /\ i # m
    BY <1>2, <1>8
  <2>2. \A i \in a..b : <<"service", i>> \in deadLetters' <=> <<"service", i>> \in deadLetters
    BY <1>1, <2>1
  <2> QED BY <2>2
<1>9. ASSUME NEW k, NEW a \in Nat, a # 0, a <= m
      PROVE  Ep1(k, a, m) <=> Ep(k, a, m - 1) /\ (k \in D \/ <<"service", m>> \in deadLetters')
  <2>1. Ep1(k, a, m - 1) <=> Ep(k, a, m - 1)
    <3>1. m - 1 \in Nat /\ m - 1 < m
      BY <1>2
    <3> HIDE DEF Ep, Ep1, m
    <3> QED BY <1>8, <1>9, <3>1
  <2>2. \A i : i \in a..m <=> i \in a..(m - 1) \/ i = m
    BY <1>2, <1>9
  <2>3. Ep1(k, a, m) <=> Ep1(k, a, m - 1) /\ (k \in D \/ <<"service", m>> \in deadLetters')
    BY <2>2
  <2> HIDE DEF Ep, Ep1, D, m
  <2> QED BY <2>1, <2>3
<1>10. \A k, b : b < m /\ b \in Nat => Ep1(k, m, b)
  <2>1. m \in Nat
    BY <1>2
  <2>2. \A b \in Nat : b < m => m..b = {}
    <3> HIDE DEF m
    <3> QED BY <2>1
  <2> QED BY <2>2
<1>11. /\ activeKeys' \subseteq ServiceKeys
       /\ \A i \in 1..L : K1(i) = K(i) /\ T1(i) = T(i)
       /\ \A i \in 1..l : K1(L + i) = news[i] /\ T1(L + i) = m
       /\ \A i \in 1..(L + l) : i \in 1..L \/ \E j \in 1..l : i = L + j
       /\ m \in Nat \ {0} /\ m - 1 \in Nat
  <2>1. activeKeys' \subseteq activeKeys \cup {news[i] : i \in 1..l}
    BY <1>1
  <2>2. \A i \in 1..l : i \in 1..Len(news)
    <3> HIDE DEF news
    <3>1. l \in 0..Len(news) /\ Len(news) \in Nat
      BY <1>1, NewsFacts DEF news
    <3> QED BY <3>1
  <2>3. activeKeys' \subseteq ServiceKeys
    BY <1>3, <1>4, <2>1, <2>2
  <2>4. \A i \in 1..(L + l) : i \in 1..L \/ \E j \in 1..l : i = L + j
    <3> TAKE i \in 1..(L + l)
    <3>1. i \in 1..L \/ (i - L \in 1..l /\ i = L + (i - L))
      BY <1>2
    <3> HIDE DEF L
    <3> QED BY <3>1
  <2>5. m \in Nat \ {0} /\ m - 1 \in Nat
    BY <1>2
  <2> HIDE DEF m, news, L
  <2> QED BY <1>1, <2>3, <2>4, <2>5
<1>12. \A i \in 1..l : /\ news[i] \notin activeKeys /\ news[i] \in D
                       /\ \A j \in 1..l : news[i] = news[j] => i = j
  <2>1. \A i \in 1..l : i \in 1..Len(news)
    <3> HIDE DEF news
    <3>1. l \in 0..Len(news) /\ Len(news) \in Nat
      BY <1>1, NewsFacts DEF news
    <3> QED BY <3>1
  <2> QED BY <1>3, <2>1
<1> HIDE DEF m, news, L, D, next1, K, T, K1, T1, Ep, Ep1, Note
<1>13. next1 \in {m, m + 1} /\ next1 - 1 \in {m - 1, m} /\ m <= next1
  BY <1>1, <1>11
\* No entry is off while its incident is on.
<1>14. ASSUME NEW i \in 1..(L + l)
       PROVE  /\ T1(i) <= next1 /\ T1(i) <= Len(feed) /\ T1(i) \in Nat \ {0} /\ T1(i) <= m
              /\ K1(i) \in Range(Detected(feed[T1(i)]))
              /\ Ep1(K1(i), T1(i), next1 - 1) => K1(i) \in activeKeys'
  <2>1. CASE i \in 1..L
    <3>1. /\ T(i) \in Nat \ {0} /\ T(i) <= m /\ T(i) <= Len(feed)
          /\ K(i) \in Range(Detected(feed[T(i)]))
          /\ Ep(K(i), T(i), m - 1) => K(i) \in activeKeys
          /\ K1(i) = K(i) /\ T1(i) = T(i)
      BY <1>4, <1>11, <2>1
    <3>2. T(i) <= next1
      BY <1>11, <1>13, <3>1
    <3>3. Ep1(K(i), T(i), m - 1) <=> Ep(K(i), T(i), m - 1)
      BY <1>8, <1>11, <3>1
    <3>4. Ep1(K(i), T(i), m) <=> Ep(K(i), T(i), m - 1) /\ (K(i) \in D \/ <<"service", m>> \in deadLetters')
      BY <1>9, <3>1
    <3>5. ASSUME Ep1(K(i), T(i), next1 - 1) PROVE K(i) \in activeKeys'
      <4>1. CASE next1 = m /\ activeKeys' = activeKeys \cup {news[j] : j \in 1..l}
        BY <3>1, <3>3, <3>5, <4>1
      <4>2. CASE next1 = m + 1
        <5>1. next1 - 1 = m
          BY <1>11, <4>2
        <5>2. K(i) \in activeKeys /\ (K(i) \in D \/ <<"service", m>> \in deadLetters')
          BY <3>1, <3>4, <3>5, <5>1
        <5>3. UNCHANGED deadLetters => K(i) \in D
          BY <1>2, <1>11, <5>2
        <5> QED BY <1>1, <1>11, <4>2, <5>2, <5>3
      <4> QED BY <1>1, <4>1, <4>2
    <3> QED BY <3>1, <3>2, <3>5
  <2>2. ASSUME NEW j \in 1..l, i = L + j
        PROVE  /\ T1(i) <= next1 /\ T1(i) <= Len(feed) /\ T1(i) \in Nat \ {0} /\ T1(i) <= m
               /\ K1(i) \in Range(Detected(feed[T1(i)]))
               /\ Ep1(K1(i), T1(i), next1 - 1) => K1(i) \in activeKeys'
    <3>1. K1(i) = news[j] /\ T1(i) = m /\ news[j] \in D
      BY <1>11, <1>12, <2>2
    <3>2. news[j] \in activeKeys'
      BY <1>1, <3>1
    <3>3. m <= Len(feed) /\ D = Range(Detected(feed[m]))
      BY <1>2 DEF D
    <3>4. T1(i) <= m /\ T1(i) \in Nat \ {0}
      BY <1>11, <3>1
    <3> QED BY <1>13, <3>1, <3>2, <3>3, <3>4
  <2> QED BY <1>11, <2>1, <2>2
\* No incident is told of twice in an episode.
<1>15. ASSUME NEW i \in 1..(L + l), NEW j \in 1..(L + l), i < j, K1(i) = K1(j)
       PROVE  T1(i) < T1(j) /\ ~Ep1(K1(i), T1(i), T1(j) - 1)
  <2>1. CASE i \in 1..L /\ j \in 1..L
    <3>1. T(i) < T(j) /\ ~Ep(K(i), T(i), T(j) - 1)
      BY <1>5, <1>11, <1>15, <2>1
    <3>2. T(i) \in Nat \ {0} /\ T(j) \in Nat \ {0} /\ T(j) <= m
      BY <1>4, <2>1
    <3>3. T(j) - 1 \in Nat /\ T(j) - 1 < m
      BY <1>11, <3>2
    <3>4. Ep1(K(i), T(i), T(j) - 1) <=> Ep(K(i), T(i), T(j) - 1)
      BY <1>8, <3>2, <3>3
    <3> QED BY <1>11, <2>1, <3>1, <3>4
  <2>2. ASSUME i \in 1..L, NEW y \in 1..l, j = L + y
        PROVE  T1(i) < T1(j) /\ ~Ep1(K1(i), T1(i), T1(j) - 1)
    <3>1. K(i) \notin activeKeys /\ K1(i) = K(i) /\ T1(i) = T(i) /\ T1(j) = m
      BY <1>11, <1>12, <1>15, <2>2
    <3>2. ~Ep(K(i), T(i), m - 1) /\ T(i) \in Nat \ {0} /\ T(i) <= m
      BY <1>4, <2>2, <3>1
    <3>3. ~Ep1(K(i), T(i), m - 1)
      BY <1>8, <1>11, <3>2
    <3>4. T(i) # m
      BY <1>10, <1>11, <3>3
    <3> QED BY <1>11, <3>1, <3>2, <3>3, <3>4
  <2>3. ASSUME NEW x \in 1..l, i = L + x, NEW y \in 1..l, j = L + y
        PROVE  FALSE
    <3>1. news[x] = news[y]
      BY <1>11, <1>15, <2>3
    <3>2. x = y
      BY <1>12, <3>1
    <3> QED BY <1>2, <1>15, <2>3, <3>2
  <2>4. ASSUME NEW x \in 1..l, i = L + x, j \in 1..L
        PROVE  FALSE
    <3>1. L \in Nat /\ x \in Nat /\ j <= L
      BY <1>2, <2>4 DEF L
    <3> QED BY <1>15, <2>4, <3>1
  <2> QED BY <1>11, <2>1, <2>2, <2>3, <2>4
\* What is on was told of in this episode.
<1>16. ASSUME NEW k \in activeKeys'
       PROVE  \E i \in 1..(L + l) : K1(i) = k /\ Ep1(k, T1(i), next1 - 1)
  <2>1. CASE k \in activeKeys
    <3>1. PICK i \in 1..L : K(i) = k /\ Ep(k, T(i), m - 1)
      BY <1>6, <2>1
    <3>2. i \in 1..(L + l) /\ K1(i) = k /\ T1(i) = T(i) /\ T(i) \in Nat \ {0} /\ T(i) <= m
      BY <1>2, <1>4, <1>11, <3>1
    <3>3. Ep1(k, T(i), m - 1)
      BY <1>8, <1>11, <3>1, <3>2
    <3>4. Ep1(k, T(i), m) <=> k \in D \/ <<"service", m>> \in deadLetters'
      BY <1>9, <3>1, <3>2
    <3>5. next1 = m + 1 => k \in D \/ <<"service", m>> \in deadLetters'
      BY <1>1, <1>11, <1>16
    <3>6. Ep1(k, T(i), next1 - 1)
      BY <1>11, <1>13, <3>3, <3>4, <3>5
    <3> QED BY <3>2, <3>6
  <2>2. ASSUME NEW j \in 1..l, k = news[j]
        PROVE  \E i \in 1..(L + l) : K1(i) = k /\ Ep1(k, T1(i), next1 - 1)
    <3>1. L + j \in 1..(L + l) /\ K1(L + j) = k /\ T1(L + j) = m /\ k \in D
      BY <1>2, <1>11, <1>12, <2>2
    <3>2. Ep1(k, m, m - 1)
      BY <1>10, <1>11
    <3>3. Ep(k, m, m - 1)
      BY <1>8, <1>11, <3>2
    <3>4. Ep1(k, m, m)
      BY <1>9, <1>11, <3>1, <3>3
    <3>5. Ep1(k, m, next1 - 1)
      BY <1>13, <3>2, <3>4
    <3> QED BY <3>1, <3>5
  <2> QED BY <1>1, <1>16, <2>1, <2>2
\* What a state shows was told of in this episode.
<1>17. ASSUME NEW x \in 1..(next1 - 1), <<"service", x>> \notin deadLetters',
              NEW k \in Range(Detected(feed[x]))
       PROVE  \E i \in 1..(L + l) : K1(i) = k /\ T1(i) <= x /\ Ep1(k, T1(i), x)
  <2>0. x \in Nat \ {0} /\ (x < m \/ x = m)
    BY <1>11, <1>13
  <2>1. CASE x < m
    <3>1. x \in 1..(m - 1) /\ <<"service", x>> \notin deadLetters
      BY <1>1, <1>11, <1>17, <2>0, <2>1
    <3>2. PICK i \in 1..L : K(i) = k /\ T(i) <= x /\ Ep(k, T(i), x)
      BY <1>7, <3>1
    <3>3. Ep1(k, T(i), x)
      BY <1>4, <1>8, <2>0, <2>1, <3>2
    <3>4. i \in 1..(L + l) /\ K1(i) = k /\ T1(i) = T(i)
      BY <1>2, <1>11, <3>2
    <3> QED BY <3>2, <3>3, <3>4
  <2>2. CASE x = m
    <3>1. next1 = m + 1
      BY <1>11, <1>13, <2>2
    <3>2. l = Len(news) /\ k \in D
      BY <1>1, <1>11, <1>17, <2>2, <3>1 DEF D
    <3>3. CASE k \in activeKeys
      <4>1. PICK i \in 1..L : K(i) = k /\ Ep(k, T(i), m - 1)
        BY <1>6, <3>3
      <4>2. i \in 1..(L + l) /\ K1(i) = k /\ T1(i) = T(i) /\ T(i) \in Nat \ {0} /\ T(i) <= m
        BY <1>2, <1>4, <1>11, <4>1
      <4>3. Ep1(k, T(i), m)
        BY <1>9, <3>2, <4>1, <4>2
      <4> QED BY <2>2, <4>2, <4>3
    <3>4. CASE k \notin activeKeys
      <4>1. PICK j \in 1..l : news[j] = k
        BY <1>3, <3>2, <3>4
      <4>2. L + j \in 1..(L + l) /\ K1(L + j) = k /\ T1(L + j) = m
        BY <1>2, <1>11, <4>1
      <4>3. Ep(k, m, m - 1)
        BY <1>8, <1>10, <1>11
      <4>4. Ep1(k, m, m)
        BY <1>9, <1>11, <3>2, <4>3
      <4> QED BY <1>11, <2>2, <4>2, <4>4
    <3> QED BY <3>3, <3>4
  <2> QED BY <2>0, <2>1, <2>2
<1>18. DOMAIN notices' = 1..(L + l)
  BY <1>1 DEF Note
<1>19. /\ notices' \in Seq(ServiceKeys \X (Nat \ {0}) \X BOOLEAN)
       /\ activeKeys' \subseteq ServiceKeys
       /\ next'["service"] <= Len(feed') + 1
  <2>1. m <= Len(feed) /\ next1 <= m + 1 /\ Len(feed) \in Nat
    BY <1>2, <1>11, <1>13
  <2>2. next1 <= Len(feed) + 1
    BY <1>11, <1>13, <2>1
  <2> QED BY <1>1, <1>2, <1>11, <2>2 DEF Note, next1
<1>20. /\ \A i \in DOMAIN notices' : /\ ToldIn(i)' <= next'["service"]
                                     /\ ToldIn(i)' <= Len(feed')
                                     /\ Key(i)' \in Range(Detected(feed'[ToldIn(i)']))
                                     /\ Episode(Key(i), ToldIn(i), Before)' => Key(i)' \in activeKeys'
       /\ \A i, j \in DOMAIN notices' :
            i < j /\ Key(i)' = Key(j)' =>
              ToldIn(i)' < ToldIn(j)' /\ ~Episode(Key(i), ToldIn(i), ToldIn(j) - 1)'
  BY <1>2, <1>14, <1>15, <1>18 DEF Key, ToldIn, Before, Episode, On, K1, T1, Ep1, next1
<1>21. \A k \in activeKeys' :
         \E i \in DOMAIN notices' : Key(i)' = k /\ Episode(k, ToldIn(i), Before)'
  BY <1>2, <1>16, <1>18 DEF Key, ToldIn, Before, Episode, On, K1, T1, Ep1, next1
<1>22. \A x \in 1..Before' : <<"service", x>> \notin deadLetters' =>
         \A k \in Range(Detected(feed'[x])) :
           \E i \in DOMAIN notices' : Key(i)' = k /\ ToldIn(i)' <= x /\ Episode(k, ToldIn(i), x)'
  BY <1>2, <1>17, <1>18 DEF Key, ToldIn, Before, Episode, On, K1, T1, Ep1, next1
<1> QED
  BY <1>19, <1>20, <1>21, <1>22 DEF EpisodeInv

(***************************************************************************)
(* What the others do leaves the episodes alone.                           *)
(***************************************************************************)
LEMMA KeepsEpisode ==
  ASSUME FeedInv, FeedInv', FeedGrows, EpisodeInv,
         UNCHANGED <<notices, activeKeys>>, next'["service"] = next["service"],
         \A x \in Nat : <<"service", x>> \in deadLetters' <=> <<"service", x>> \in deadLetters
  PROVE  EpisodeInv'
<1> DEFINE K(i) == notices[i][1]
           T(i) == notices[i][2]
           L    == Len(notices)
           m    == next["service"]
           N    == Len(feed)
           Ep(k, a, b)  == \A i \in a..b : k \in Range(Detected(feed[i])) \/ <<"service", i>> \in deadLetters
           Ep1(k, a, b) == \A i \in a..b : k \in Range(Detected(feed'[i])) \/ <<"service", i>> \in deadLetters'
<1>1. /\ L \in Nat /\ N \in Nat /\ Len(feed') \in Nat /\ m \in Nat \ {0}
      /\ DOMAIN notices = 1..L /\ m <= N + 1 /\ N <= Len(feed')
      /\ \A x \in 1..N : feed'[x] = feed[x]
      /\ \A i \in 1..L : T(i) \in Nat \ {0}
  BY DEF FeedInv, FeedGrows, EpisodeInv, Readers
<1>2. /\ \A i \in 1..L : /\ T(i) <= m /\ T(i) <= N
                         /\ K(i) \in Range(Detected(feed[T(i)]))
                         /\ Ep(K(i), T(i), m - 1) => K(i) \in activeKeys
  BY <1>1 DEF EpisodeInv, Key, ToldIn, Episode, On, Before
<1>3. \A i, j \in 1..L : i < j /\ K(i) = K(j) => T(i) < T(j) /\ ~Ep(K(i), T(i), T(j) - 1)
  BY <1>1 DEF EpisodeInv, Key, ToldIn, Episode, On
<1>4. \A k \in activeKeys : \E i \in 1..L : K(i) = k /\ Ep(k, T(i), m - 1)
  BY <1>1 DEF EpisodeInv, Key, ToldIn, Episode, On, Before
<1>5. \A x \in 1..(m - 1) : <<"service", x>> \notin deadLetters =>
        \A k \in Range(Detected(feed[x])) : \E i \in 1..L : K(i) = k /\ T(i) <= x /\ Ep(k, T(i), x)
  BY <1>1 DEF EpisodeInv, Key, ToldIn, Episode, On, Before
<1>6. ASSUME NEW k, NEW a \in Nat, NEW b \in Nat, a # 0, b <= N
      PROVE  Ep1(k, a, b) <=> Ep(k, a, b)
  <2>1. \A i \in a..b : i \in Nat /\ i \in 1..N
    <3> HIDE DEF N
    <3> QED BY <1>1, <1>6
  <2>2. \A i \in a..b : /\ feed'[i] = feed[i]
                        /\ <<"service", i>> \in deadLetters' <=> <<"service", i>> \in deadLetters
    BY <1>1, <2>1
  <2> QED BY <2>2
<1> HIDE DEF K, T, L, m, N, Ep, Ep1
<1>7. m - 1 \in Nat /\ m - 1 <= N
  BY <1>1
<1>8. ASSUME NEW i \in 1..L
      PROVE  /\ T(i) <= m /\ T(i) <= Len(feed')
             /\ K(i) \in Range(Detected(feed'[T(i)]))
             /\ Ep1(K(i), T(i), m - 1) => K(i) \in activeKeys
  <2>1. T(i) \in Nat \ {0} /\ T(i) <= m /\ T(i) <= N /\ T(i) \in 1..N
    BY <1>1, <1>2
  <2>2. feed'[T(i)] = feed[T(i)] /\ T(i) <= Len(feed')
    BY <1>1, <2>1
  <2>3. Ep1(K(i), T(i), m - 1) <=> Ep(K(i), T(i), m - 1)
    BY <1>6, <1>7, <2>1
  <2> QED BY <1>2, <2>1, <2>2, <2>3
<1>9. ASSUME NEW i \in 1..L, NEW j \in 1..L, i < j, K(i) = K(j)
      PROVE  T(i) < T(j) /\ ~Ep1(K(i), T(i), T(j) - 1)
  <2>1. T(i) \in Nat \ {0} /\ T(j) \in Nat \ {0} /\ T(j) <= N
    BY <1>1, <1>2
  <2>2. T(j) - 1 \in Nat /\ T(j) - 1 <= N
    BY <1>1, <2>1
  <2>3. Ep1(K(i), T(i), T(j) - 1) <=> Ep(K(i), T(i), T(j) - 1)
    BY <1>6, <2>1, <2>2
  <2> QED BY <1>3, <1>9, <2>3
<1>10. ASSUME NEW k \in activeKeys
       PROVE  \E i \in 1..L : K(i) = k /\ Ep1(k, T(i), m - 1)
  <2>1. PICK i \in 1..L : K(i) = k /\ Ep(k, T(i), m - 1)
    BY <1>4
  <2>2. T(i) \in Nat \ {0}
    BY <1>1
  <2> QED BY <1>6, <1>7, <2>1, <2>2
<1>11. ASSUME NEW x \in 1..(m - 1), <<"service", x>> \notin deadLetters',
              NEW k \in Range(Detected(feed'[x]))
       PROVE  \E i \in 1..L : K(i) = k /\ T(i) <= x /\ Ep1(k, T(i), x)
  <2>1. x \in Nat /\ x \in 1..N /\ x <= N
    BY <1>1, <1>7
  <2>2. k \in Range(Detected(feed[x])) /\ <<"service", x>> \notin deadLetters
    BY <1>1, <1>11, <2>1
  <2>3. PICK i \in 1..L : K(i) = k /\ T(i) <= x /\ Ep(k, T(i), x)
    BY <1>5, <2>2
  <2>4. T(i) \in Nat \ {0}
    BY <1>1
  <2> QED BY <1>6, <2>1, <2>3, <2>4
<1>12. /\ notices' \in Seq(ServiceKeys \X (Nat \ {0}) \X BOOLEAN)
       /\ activeKeys' \subseteq ServiceKeys /\ next'["service"] <= Len(feed') + 1
       /\ DOMAIN notices' = 1..L
  <2>1. m <= Len(feed') + 1
    BY <1>1
  <2> QED BY <1>1, <2>1 DEF EpisodeInv, m
<1>13. /\ \A i \in DOMAIN notices' : /\ ToldIn(i)' <= next'["service"]
                                     /\ ToldIn(i)' <= Len(feed')
                                     /\ Key(i)' \in Range(Detected(feed'[ToldIn(i)']))
                                     /\ Episode(Key(i), ToldIn(i), Before)' => Key(i)' \in activeKeys'
       /\ \A i, j \in DOMAIN notices' :
            i < j /\ Key(i)' = Key(j)' =>
              ToldIn(i)' < ToldIn(j)' /\ ~Episode(Key(i), ToldIn(i), ToldIn(j) - 1)'
  BY <1>8, <1>9, <1>12 DEF Key, ToldIn, Before, Episode, On, K, T, Ep1, m
<1>14. \A k \in activeKeys' :
         \E i \in DOMAIN notices' : Key(i)' = k /\ Episode(k, ToldIn(i), Before)'
  BY <1>10, <1>12 DEF Key, ToldIn, Before, Episode, On, K, T, Ep1, m
<1>15. \A x \in 1..Before' : <<"service", x>> \notin deadLetters' =>
         \A k \in Range(Detected(feed'[x])) :
           \E i \in DOMAIN notices' : Key(i)' = k /\ ToldIn(i)' <= x /\ Episode(k, ToldIn(i), x)'
  BY <1>11, <1>12 DEF Key, ToldIn, Before, Episode, On, K, T, Ep1, m
<1> QED
  BY <1>12, <1>13, <1>14, <1>15 DEF EpisodeInv

(***************************************************************************)
(* A handler of another reader changes nothing the episodes rest on.       *)
(***************************************************************************)
LEMMA OthersEpisode ==
  ASSUME FeedInv, FeedInv', FeedGrows, EpisodeInv, UNCHANGED <<notices, activeKeys>>,
         NEW c \in Readers \ {"service"}, Returns(c) \/ Raises(c)
  PROVE  EpisodeInv'
<1>1. c \in Readers /\ "service" \in Readers \ {c}
  BY DEF Readers
<1>2. /\ next'["service"] = next["service"]
      /\ \/ UNCHANGED deadLetters
         \/ deadLetters' = deadLetters \cup {<<c, next[c]>>}
  BY <1>1, ReturnsFacts, RaisesFacts
<1>3. \A x \in Nat : <<"service", x>> \in deadLetters' <=> <<"service", x>> \in deadLetters
  BY <1>2
<1> QED
  BY <1>2, <1>3, KeepsEpisode

LEMMA NextEpisode == FeedInv /\ EpisodeInv /\ [MonitoringNext]_monitoringVars => EpisodeInv'
<1> SUFFICES ASSUME FeedInv, EpisodeInv, [MonitoringNext]_monitoringVars PROVE EpisodeInv'
  OBVIOUS
<1>0. FeedInv' /\ FeedGrows /\ Len(Directions) \in Nat
  BY NextFeed, IncidentAssumption
<1>1. ASSUME UNCHANGED <<notices, activeKeys, next, deadLetters>> PROVE EpisodeInv'
  BY <1>0, <1>1, KeepsEpisode
<1>2. ASSUME NEW n \in 0..Len(Directions) * 2, Serve(n) PROVE EpisodeInv'
  <2>1. n \in Nat
    BY <1>0
  <2> QED BY <1>2, <2>1, ServeEpisode
<1>3. {"memory", "incident", "orchestrator", "prediction"} \subseteq Readers \ {"service"}
  BY DEF Readers, Agency
<1>4. ASSUME NEW n, Detect(n) PROVE EpisodeInv'
  BY <1>0, <1>3, <1>4, OthersEpisode DEF Detect, service
<1>5. ASSUME NEW ok \in BOOLEAN, Remember(ok) \/ Foresee(ok) \/ Orchestrate(ok) PROVE EpisodeInv'
  BY <1>0, <1>3, <1>5, OthersEpisode DEF Remember, Foresee, Orchestrate, service
<1>6. CASE LearnBaseline \/ ShowMode \/ Watchdog \/ PassTime \/ UNCHANGED monitoringVars
  BY <1>1, <1>6 DEF LearnBaseline, ShowMode, Watchdog, PassTime, monitoringVars, watchers, intake, service
<1>7. ASSUME NEW scene, NEW at, PublishState(scene, at) PROVE EpisodeInv'
  BY <1>1, <1>7 DEF PublishState, service
<1>8. ASSUME NEW a \in Agents, StartAgent(a) \/ StopAgent(a) \/ \E ok \in BOOLEAN : Emit(a, ok) PROVE EpisodeInv'
  BY <1>1, <1>8 DEF StartAgent, StopAgent, Emit, watchers, intake, service
<1>9. ASSUME NEW a \in Agents, NEW age, DeliverHeartbeat(a, age) PROVE EpisodeInv'
  BY <1>1, <1>9 DEF DeliverHeartbeat, watchers, intake, service
<1> QED
  BY <1>2, <1>4, <1>5, <1>6, <1>7, <1>8, <1>9 DEF MonitoringNext

(***************************************************************************)
(* The service tells of an incident once per episode, the run of states    *)
(* that all show it, whatever publications fail and handlers are run       *)
(* again; and of every one it handled without giving the state up          *)
(* (services/agents.py, IncidentDetectionAgent._handle).                   *)
(***************************************************************************)
THEOREM ToldOncePerEpisode == MonitoringSpec => []EpisodeToldOnce
<1>1. MonitoringInit => EpisodeInv
  <2> SUFFICES ASSUME MonitoringInit PROVE EpisodeInv
    OBVIOUS
  <2>1. /\ notices = <<>> /\ activeKeys = {} /\ deadLetters = {} /\ feed = <<>>
        /\ next = [c \in Readers |-> 1] /\ "service" \in Readers
    BY DEF MonitoringInit, ServiceIncidentInit, Readers
  <2>2. next["service"] = 1 /\ Before = 0
    BY <2>1 DEF Before
  <2>3. DOMAIN notices = {} /\ notices \in Seq(ServiceKeys \X (Nat \ {0}) \X BOOLEAN) /\ Len(feed) = 0
    BY <2>1, EmptySeq
  <2> QED BY <2>1, <2>2, <2>3 DEF EpisodeInv
<1>2. FeedInv /\ EpisodeInv /\ [MonitoringNext]_monitoringVars => FeedInv' /\ EpisodeInv'
  BY NextFeed, NextEpisode
<1>3. EpisodeInv => EpisodeToldOnce
  <2> SUFFICES ASSUME EpisodeInv PROVE EpisodeToldOnce
    OBVIOUS
  <2>1. ASSUME NEW i \in DOMAIN notices, NEW j \in DOMAIN notices, i < j, Key(i) = Key(j)
        PROVE  ~Episode(Key(i), ToldIn(i), ToldIn(j))
    <3>1. ~Episode(Key(i), ToldIn(i), ToldIn(j) - 1)
      BY <2>1 DEF EpisodeInv
    <3>2. ToldIn(i) \in Nat /\ ToldIn(j) \in Nat
      BY DEF EpisodeInv, ToldIn
    <3> QED BY <3>1, <3>2 DEF Episode
  <2>2. \A n \in 1..(next["service"] - 1) : <<"service", n>> \notin deadLetters =>
          \A k \in Range(Detected(feed[n])) :
            \E i \in DOMAIN notices : Key(i) = k /\ ToldIn(i) <= n /\ Episode(k, ToldIn(i), n)
    BY DEF EpisodeInv, Before
  <2> QED BY <2>1, <2>2 DEF EpisodeToldOnce, Key, ToldIn
<1> QED
  BY <1>1, <1>2, <1>3, InitFeed, PTL DEF MonitoringSpec
=============================================================================
