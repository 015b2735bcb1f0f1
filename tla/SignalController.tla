-------------------------- MODULE SignalController --------------------------
(***************************************************************************)
(* signal_control/agent.py: the agent that owns the lamps.  It receives    *)
(* intent (DecisionMade) from the bus at any time, advances its phase      *)
(* machine once per control tick, drives the lamps through the actuator    *)
(* and announces every change on the bus.                                  *)
(*                                                                         *)
(* tick() is one atomic stretch of the event loop up to its only await,    *)
(* the publication of SignalChanged: Tick stops there, and the publication *)
(* completes, fails or is cancelled in a step of its own, with decisions   *)
(* free to arrive in between.  Time is the controller's own: the sum of    *)
(* the dt it was ticked with.                                              *)
(***************************************************************************)
EXTENDS PhaseMachine

CONSTANTS InitialAxis,  \* initial_axis of the constructor
          MaxDt         \* the longest dt of a tick

ASSUME ControllerAssumption ==
  /\ InitialAxis \in Axes
  /\ MaxDt \in Nat \ {0}

VARIABLES
  fsm,         \* _fsm
  desired,     \* _desired_axis
  signal,      \* _signal
  shown,       \* the phase last given to SignalActuator.apply
  loop,        \* where the control loop is (Loops)
  inFlight,    \* the phase of the SignalChanged being published
  announced,   \* the phase of the last SignalChanged that was published
  violations,  \* the sentinel_safety_violations_total counter
  held,        \* history: time since shown last changed
  wait,        \* history: per axis, time since its latest green ended
  asked        \* history: time since desired changed or was last served

vars == <<fsm, desired, signal, shown, loop, inFlight, announced, violations,
          held, wait, asked>>
timers == <<held, wait, asked>>

NoPhase == "no_phase"

(***************************************************************************)
(* off        no control loop: before start, after stop                    *)
(* starting   start() awaits the publication of the current signal         *)
(* ready      the loop sleeps until the next tick                          *)
(* publishing tick() awaits the publication of a change                    *)
(* dead       the loop's task ended with the exception publish raised      *)
(***************************************************************************)
Loops == {"off", "starting", "ready", "publishing", "dead"}

\* _remaining_s
Budget(p) == IF IsGreen(p) THEN MaxGreen
             ELSE IF IsYellow(p) THEN YellowTime ELSE AllRedTime

Remaining(m) == LET left == Budget(m.phase) - m.elapsed
                IN  IF left > 0 THEN left ELSE 0

\* _build_signal
BuildSignal(m) ==
  [phase |-> m.phase, elapsed |-> m.elapsed, remaining |-> Remaining(m)]

\* __init__: the first phase goes to the lamps before anything is started; the
\* other axis has had no green for a clearance, the least a dark junction has.
Init ==
  /\ fsm = StartedAt(InitialAxis)
  /\ desired = InitialAxis
  /\ signal = BuildSignal(fsm)
  /\ shown = fsm.phase
  /\ loop = "off"
  /\ inFlight = NoPhase
  /\ announced = NoPhase
  /\ violations = 0
  /\ held = 0
  /\ wait = [a \in Axes |-> IF a = InitialAxis THEN 0 ELSE YellowTime + AllRedTime]
  /\ asked = 0

-----------------------------------------------------------------------------
\* Mutant: start() creates the loop without announcing the current signal.
StartSilently ==
  /\ loop = "off"
  /\ loop' = "ready"
  /\ UNCHANGED <<fsm, desired, signal, shown, inFlight, announced, violations, timers>>

\* start(): the late-joiner announcement comes before the loop exists.
Start ==
  /\ loop = "off"
  /\ loop' = "starting"
  /\ inFlight' = signal.phase
  /\ UNCHANGED <<fsm, desired, signal, shown, announced, violations, timers>>

\* start() on a dead loop: the current signal is announced again, whether or not
\* the publication then raises, and no loop is made while _loop_task is set.
StartDead ==
  /\ loop = "dead"
  /\ announced' \in {announced, signal.phase}
  /\ UNCHANGED <<fsm, desired, signal, shown, loop, inFlight, violations, timers>>

\* The awaited publication returns.
PublishDone ==
  /\ loop \in {"starting", "publishing"}
  /\ loop' = "ready"
  /\ announced' = inFlight
  /\ inFlight' = NoPhase
  /\ UNCHANGED <<fsm, desired, signal, shown, violations, timers>>

(***************************************************************************)
(* The awaited publication raises (a broker transport that lost its        *)
(* connection).  Nothing catches it: start() fails before it made a loop,  *)
(* and a running loop's task ends.                                         *)
(***************************************************************************)
PublishFails ==
  /\ loop \in {"starting", "publishing"}
  /\ loop' = IF loop = "starting" THEN "off" ELSE "dead"
  /\ inFlight' = NoPhase
  /\ UNCHANGED <<fsm, desired, signal, shown, announced, violations, timers>>

(***************************************************************************)
(* stop(): cancels the loop, in its sleep or in the middle of a            *)
(* publication, which is then lost or already out.  stop() on a dead loop  *)
(* re-raises the task's exception before it clears _loop_task and changes  *)
(* nothing (StartDead).  No caller stops an agent whose start() it is      *)
(* still awaiting, nor starts one that runs (fleet.py).                    *)
(***************************************************************************)
Stop ==
  /\ loop \in {"ready", "publishing"}
  /\ loop' = "off"
  /\ inFlight' = NoPhase
  /\ announced' \in {announced} \cup ({inFlight} \ {NoPhase})
  /\ UNCHANGED <<fsm, desired, signal, shown, violations, timers>>

\* Mutant: the "axis is not None" guard of _on_decision is missing.
IntentOf(target) == AxisOf(target)

DesiredAfter(target) == IF AxisOf(target) = NoAxis THEN desired ELSE AxisOf(target)

\* _on_decision: a DecisionMade whose command targets phase target.
OnDecision(target) ==
  /\ desired' = DesiredAfter(target)
  /\ asked' = IF desired' = desired THEN asked ELSE 0
  /\ UNCHANGED <<fsm, signal, shown, loop, inFlight, announced, violations, held, wait>>

\* Mutant: intent is compared with the axis to serve next.
RequestAgainstNext == AxisOf(fsm.phase) # NoAxis /\ fsm.next = desired

RequestSwitch == AxisOf(fsm.phase) # NoAxis /\ AxisOf(fsm.phase) # desired

(***************************************************************************)
(* A phase bounded by limit ends at the first tick that reaches the limit: *)
(* it lasts at most limit - 1 + MaxDt (limit 0 behaves as limit 1).        *)
(***************************************************************************)
Longest(limit) == (IF limit = 0 THEN 1 ELSE limit) - 1 + MaxDt
Clearing       == Longest(YellowTime) + Longest(AllRedTime)
MaxWait        == Clearing + Longest(MaxGreen) + Clearing
MaxAsk         == Clearing + Longest(MinGreen) + Clearing

(***************************************************************************)
(* History: what dt does to the clocks, given what the lamps showed        *)
(* meanwhile.  A clock that has passed its bound stops one past it.        *)
(***************************************************************************)
UpTo(limit, t) == IF t <= limit THEN t ELSE limit

Clocks(dt) ==
  /\ held' = IF shown' = shown THEN held + dt ELSE 0
  /\ wait' = [a \in Axes |-> IF shown = GreenFor(a) THEN 0 ELSE UpTo(MaxWait + 1, wait[a] + dt)]
  /\ asked' = IF shown = GreenFor(desired) THEN 0 ELSE UpTo(MaxAsk + 1, asked + dt)

\* tick(dt)
Tick(dt) ==
  /\ loop = "ready"
  /\ fsm' = Step(fsm, dt, RequestSwitch)
  /\ signal' = BuildSignal(fsm')
  /\ IF fsm'.phase = fsm.phase
     THEN UNCHANGED <<shown, loop, inFlight, violations>>
     ELSE /\ violations' = violations + (IF <<fsm.phase, fsm'.phase>> \in Legal THEN 0 ELSE 1)
          /\ shown' = fsm'.phase
          /\ inFlight' = fsm'.phase
          /\ loop' = "publishing"
  /\ Clocks(dt)
  /\ UNCHANGED <<desired, announced>>

(***************************************************************************)
(* The process dies and is started again (deploy/docker-compose.yml asks   *)
(* for it): a new agent is constructed over the lamps the old one left.    *)
(* Part of RestartSpec only.                                               *)
(***************************************************************************)
Restart ==
  /\ fsm' = StartedAt(InitialAxis)
  /\ desired' = InitialAxis
  /\ signal' = BuildSignal(fsm')
  /\ shown' = fsm'.phase
  /\ loop' = "off"
  /\ inFlight' = NoPhase
  /\ violations' = 0
  /\ held' = IF shown' = shown THEN held ELSE 0
  /\ asked' = 0
  /\ UNCHANGED <<announced, wait>>

Next ==
  \/ Start
  \/ StartDead
  \/ PublishDone
  \/ PublishFails
  \/ Stop
  \/ \E p \in Phases : OnDecision(p)
  \/ \E dt \in 1..MaxDt : Tick(dt)

(***************************************************************************)
(* The loop re-arms a sleep after every tick, so a ready loop ticks again; *)
(* a publication that is awaited returns or raises.  Nothing obliges       *)
(* anyone to start or stop the agent, or to decide.                        *)
(***************************************************************************)
Fairness ==
  /\ WF_vars(\E dt \in 1..MaxDt : Tick(dt))
  /\ WF_vars(PublishDone \/ PublishFails)

Spec == Init /\ [][Next]_vars /\ Fairness

RestartSpec == Init /\ [][Next \/ Restart]_vars

-----------------------------------------------------------------------------
TypeOK ==
  /\ fsm \in Machine
  /\ desired \in Axes
  /\ signal \in [phase : Phases, elapsed : Nat, remaining : Nat]
  /\ shown \in Phases
  /\ loop \in Loops
  /\ inFlight \in Phases \cup {NoPhase}
  /\ announced \in Phases \cup {NoPhase}
  /\ violations \in Nat
  /\ held \in Nat
  /\ wait \in [Axes -> Nat]
  /\ asked \in Nat

(***************************************************************************)
(* No axis waits longer than MaxWait from the end of its green to the      *)
(* start of its next one, whatever is decided and however often the loop   *)
(* is stopped and started: the force-switch and the alternation of         *)
(* PhaseStateMachine together.                                             *)
(***************************************************************************)
WaitBounded == \A a \in Axes : wait[a] <= MaxWait

(***************************************************************************)
(* An intent that stands (an emergency preemption, a switch) is served     *)
(* within MaxAsk.  The worst case is an intent for an axis that is just    *)
(* leaving green: the other axis is already committed, and gets its whole  *)
(* clearance and minimum green first.                                      *)
(***************************************************************************)
IntentServedInTime == asked <= MaxAsk

(***************************************************************************)
(* Whenever the loop sleeps, the phase last announced on the bus is the    *)
(* phase on the lamps: start, stop, cancellation in mid-publication and    *)
(* restart never leave subscribers of signal.changed with another phase.   *)
(***************************************************************************)
AnnouncedWhenReady == loop = "ready" => announced = shown

(***************************************************************************)
(* The counter of SafetyEnvelope "must remain zero in a correct system":   *)
(* its transition table accepts everything the phase machine does.         *)
(***************************************************************************)
NoViolations == violations = 0

(***************************************************************************)
(* While the lamps show green to an axis, the other axis's green ended a   *)
(* full yellow and all-red ago at least ("every switch between conflicting *)
(* greens passes through yellow and all_red clearance", control/phase.py). *)
(***************************************************************************)
ClearanceBeforeGreen ==
  \A a \in Axes : shown = GreenFor(a) => wait[OtherAxis(a)] >= YellowTime + AllRedTime

(***************************************************************************)
(* If the loop keeps running, each axis gets green again and again, under  *)
(* any stream of decisions.                                                *)
(***************************************************************************)
Running == loop \in {"ready", "publishing"}
EachAxisServed == []<>~Running \/ \A a \in Axes : []<>(shown = GreenFor(a))

(***************************************************************************)
(* The agent keeps the promise of SafeIntersection on the lamps.           *)
(***************************************************************************)
Lights == [a \in Axes |-> ColourOf(shown, a)]
Promise == INSTANCE SafeIntersection WITH light <- Lights
KeepsPromise == Promise!Spec
=============================================================================
