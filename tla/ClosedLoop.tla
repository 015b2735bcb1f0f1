----------------------------- MODULE ClosedLoop -----------------------------
(***************************************************************************)
(* The twin under each of the pilots that drive it:                        *)
(*                                                                         *)
(*   fixed_timer  harness.py with FixedTimerController                     *)
(*   adaptive     harness.py with AdaptiveController                       *)
(*   utility      fleet.py: the decision agent's policy and the signal     *)
(*                controller's machine (FleetLoop shows that the intent at *)
(*                a tick is the one decided on the last state)             *)
(*   services     services/agents.py: a decision agent that falls back     *)
(*                from the adaptive controller to the fixed timer while    *)
(*                perception is not trusted, and an actuator that applies  *)
(*                whatever phase it is given                               *)
(*   sumo         the adaptive controller over the SUMO bridge             *)
(*                                                                         *)
(* One step is one control tick: observe, decide, apply, advance the twin. *)
(***************************************************************************)
EXTENDS SimulationControllers, DecisionPolicy, SumoBridge, RetryPolicy

CONSTANTS Pilots,     \* the pilots to check
          Alarmable,  \* bound: the pilots that meet emergencies
          MaxQueue,   \* bound: vehicles on an approach
          MaxLosses,  \* bound: states whose decision is not published at once
          Forecasts   \* what a forecast may say of an axis

ASSUME LoopAssumption ==
  /\ Pilots \subseteq {"fixed_timer", "adaptive", "utility", "services", "sumo"}
  /\ {MaxRetries, MaxQueue, MaxLosses} \subseteq Nat /\ Forecasts \subseteq Nat

\* The ticks an interval takes that is to last t.
Ticks(t) == IF t <= Dt THEN 1 ELSE (t + Dt - 1) \div Dt

(***************************************************************************)
(* Nothing ties the settings to the durations written by build_network.py; *)
(* the defaults of both agree.                                             *)
(***************************************************************************)
ASSUME ProgramCoversSettings ==
  /\ Ticks(MaxGreen) * Dt <= ProgramGreen
  /\ Ticks(YellowTime) * Dt <= ProgramYellow
  /\ Ticks(AllRedTime) * Dt <= ProgramAllRed

VARIABLES pilot,     \* the pilot of this run
          fixed,     \* the machine of the fixed timer
          adaptive,  \* machine and fairness clock of the adaptive controller
          utility,   \* the decision agent's clock
          machine,   \* the signal controller's machine
          inCharge,  \* services: the controller that made the last command
          signal,    \* services: what the actuator last reported
          losses,    \* history: states whose decision was not published at once
          waited,    \* history: per axis, the ticks since it last had green
          stuck,     \* history: per approach, the ticks with a queue and nobody crossing
          alarmed    \* history: the ticks an emergency vehicle has been kept waiting

controllers == <<fixed, adaptive, utility, machine, inCharge, signal>>
vars == <<pilot, controllers, twin, lanes, tls, losses, waited, stuck, alarmed>>

Init ==
  /\ pilot \in Pilots
  /\ TwinInit /\ SumoInit
  /\ fixed = FixedStart /\ adaptive = AdaptiveStart
  /\ utility = PolicyStart /\ machine = StartedAt(NorthSouth)
  /\ inCharge = "adaptive"
  /\ signal = [phase |-> GreenFor(NorthSouth), elapsed |-> 0, remaining |-> 0]
  /\ losses = 0
  /\ waited = [a \in Axes |-> 0]
  /\ stuck = [d \in Lanes |-> 0] /\ alarmed = 0

\* InMemorySignalActuator.apply: every phase is one of those that count as new,
\* so that the reported phase never grows older.
StartsNewPhase(phase) == phase \in Phases

Applied(phase, duration) ==
  [phase |-> phase, elapsed |-> IF StartsNewPhase(phase) THEN 0 ELSE signal.elapsed,
   remaining |-> duration]

\* The histories, after a tick under the given lamps.
Watch(phase) ==
  /\ waited' = [a \in Axes |-> IF phase = GreenFor(a) THEN 0 ELSE waited[a] + 1]
  /\ stuck' = [d \in Lanes |->
                 IF pilot \notin {"services", "sumo"} /\ lanes'[d].queue > 0 /\ lanes'[d].moved = 0
                 THEN stuck[d] + 1 ELSE 0]
  /\ alarmed' = IF /\ pilot \in {"adaptive", "utility"}
                   /\ EmergencyAxisOf(lanes') = EmergencyAxisOf(lanes)
                   /\ EmergencyAxisOf(lanes') # NoAxis
                   /\ phase # GreenFor(EmergencyAxisOf(lanes'))
                THEN alarmed + 1 ELSE 0

\* env.step(command) with the arrivals and emergencies of the tick.
Drive(phase) ==
  \E arrivals \in [Lanes -> 0..1], emergencies \in SUBSET Lanes :
    /\ pilot \notin Alarmable => emergencies = {}
    /\ \A d \in Lanes : lanes[d].queue + arrivals[d] <= MaxQueue
    /\ TwinStep(phase, arrivals, emergencies)
    /\ Watch(phase)
    /\ UNCHANGED tls

\* run_controller with each of the controllers.
FixedTick ==
  /\ pilot = "fixed_timer"
  /\ fixed' = FixedDecide(fixed)
  /\ inCharge' = "fixed_timer"
  /\ Drive(fixed'.phase)
  /\ UNCHANGED <<pilot, adaptive, utility, machine, signal, losses>>

AdaptiveTick ==
  /\ pilot = "adaptive"
  /\ adaptive' = AdaptiveDecide(adaptive)
  /\ inCharge' = "adaptive"
  /\ Drive(adaptive'.machine.phase)
  /\ UNCHANGED <<pilot, fixed, utility, machine, signal, losses>>

\* run_controller over SumoTrafficEnvironment.
SumoTick ==
  /\ pilot = "sumo"
  /\ adaptive' = AdaptiveDecide(adaptive)
  /\ inCharge' = "adaptive"
  /\ \E arrivals, departures \in [Lanes -> 0..1] :
       /\ \A d \in Lanes : lanes[d].queue + arrivals[d] <= MaxQueue
       /\ SumoStep(adaptive'.machine.phase, arrivals, departures)
  /\ Watch(Lamps')
  /\ UNCHANGED <<pilot, fixed, utility, machine, signal, losses>>

\* run_simulated_loop: DecisionAgent._on_state, SignalControllerAgent._on_decision
\* and tick, env.step.
UtilityTick(predicted) ==
  LET active == AxisOf(machine.phase) IN
  /\ pilot = "utility"
  /\ utility' = Advanced(utility)
  /\ machine' = Step(machine, Dt, active \notin {NoAxis, DesiredAxis(utility'.since, predicted)})
  /\ inCharge' = "utility"
  /\ Drive(machine'.phase)
  /\ UNCHANGED <<pilot, fixed, adaptive, signal, losses>>

\* A controller after as many decisions on one state.
FixedAfter(runs) ==
  LET after[n \in 0..runs] == IF n = 0 THEN fixed ELSE FixedDecide(after[n - 1]) IN after[runs]

AdaptiveAfter(runs) ==
  LET after[n \in 0..runs] == IF n = 0 THEN adaptive ELSE AdaptiveDecide(after[n - 1]) IN after[runs]

\* DecisionAgent._controller_for and decide: the other controller stands still.
FallBack(runs) == fixed' = FixedAfter(runs) /\ UNCHANGED adaptive
Trust(runs)    == adaptive' = AdaptiveAfter(runs) /\ UNCHANGED fixed

\* What the actuator reports for the command, if it was published.
Actuate(trusted) ==
  signal' = IF trusted THEN Applied(adaptive'.machine.phase, MinGreen)
                       ELSE Applied(fixed'.phase, GreenTime)

\* The decision is made before it is published: a publication that fails makes
\* the bus run the handler again, and the controller takes another second, or,
\* once the retries are used up, leaves the lamps as they are.
ServicesTick(trusted, runs, published) ==
  /\ pilot = "services"
  /\ ~published => runs = MaxRetries + 1
  /\ losses' = losses + IF published /\ runs = 1 THEN 0 ELSE 1
  /\ losses' <= MaxLosses
  /\ inCharge' = IF trusted THEN "adaptive" ELSE "fixed_timer"
  /\ IF trusted THEN Trust(runs) ELSE FallBack(runs)
  /\ IF published THEN Actuate(trusted) ELSE UNCHANGED signal
  /\ Drive(signal'.phase)
  /\ UNCHANGED <<pilot, utility, machine>>

Next ==
  \/ FixedTick
  \/ AdaptiveTick
  \/ \E predicted \in [Axes -> Forecasts] : UtilityTick(predicted)
  \/ \E trusted, published \in BOOLEAN, runs \in 1..(MaxRetries + 1) :
       ServicesTick(trusted, runs, published)
  \/ SumoTick

Spec == Init /\ [][Next]_vars

-----------------------------------------------------------------------------
TypeOK ==
  /\ {fixed, adaptive.machine, machine} \subseteq Machine
  /\ twin \in [phase : Phases, elapsed : Nat]
  /\ \A d \in Lanes : lanes[d] \in [queue : 0..MaxQueue, capacity : Nat, moved : 0..(MaxQueue + 1),
                                   emergency : BOOLEAN]
  /\ \A d \in Lanes : Accepted(Observed(lanes[d]))
  /\ signal \in [phase : Phases, elapsed : Nat, remaining : Nat]
  /\ tls \in [index : DOMAIN Program, left : Nat]
  /\ \A a \in Axes : {adaptive.since[a], utility.since[a]} \subseteq Nat

Clearance == Ticks(YellowTime) + Ticks(AllRedTime)
Cycle     == 2 * Clearance + Ticks(MaxGreen)

(***************************************************************************)
(* Whatever the queues, forecasts and emergencies, an axis is without      *)
(* green for no longer than the other's longest green and the clearances   *)
(* around it; with the composable services, whose two controllers stand    *)
(* still in turn, for no longer than twice that, and once and a tick more  *)
(* for every decision that was not published at once: it may cost a whole  *)
(* green, and the lamps may stand still for the tick.                      *)
(* And with a single controller a queue does not stand for longer, and the *)
(* time its first vehicle takes, provided that min_green_s lets one        *)
(* vehicle cross: what capacity a green leaves unused is lost.             *)
(***************************************************************************)
CrossingTime == (PerVehicle + Saturation - 1) \div Saturation

ServedWithinCycle ==
  /\ \A a \in Axes :
       waited[a] <= IF pilot = "services" THEN 2 * Cycle + losses * (Cycle + 1) ELSE Cycle
  /\ CrossingTime <= Ticks(MinGreen) => \A d \in Lanes : stuck[d] <= Cycle + 2 * (CrossingTime - 1)

(***************************************************************************)
(* An emergency vehicle that stays on one axis is kept waiting at most for *)
(* the other axis's shortest green and the clearances: the forced end of   *)
(* its own green at max_green_s does not cost it a whole cycle.            *)
(***************************************************************************)
EmergencyServed == alarmed <= 2 * Clearance + Ticks(MinGreen)

(***************************************************************************)
(* The lamps never jump between conflicting greens or skip a clearance,    *)
(* except where the composable decision agent changes its controller: each *)
(* has a phase machine of its own, and the other one's lamps may differ;   *)
(* or where it failed to publish a decision, and its machine is ahead.     *)
(* And SUMO's lamps are the commanded ones: the program, which runs on by  *)
(* itself and has no all-red after the east-west yellow, is always caught  *)
(* by the next command.                                                    *)
(***************************************************************************)
InChargeShows == IF inCharge = "adaptive" THEN adaptive.machine.phase ELSE fixed.phase
Behind        == InChargeShows # signal.phase

JumpsOnlyAtFailover ==
  [][/\ \/ pilot = "services" /\ (inCharge' # inCharge \/ losses' > losses \/ Behind)
        \/ <<twin.phase, twin'.phase>> \in Legal
     /\ pilot = "sumo" => Lamps' = twin'.phase]_vars

(***************************************************************************)
(* The lamps never jump, whoever is in charge: every switch between        *)
(* conflicting greens passes through a yellow and an all-red.  That is     *)
(* what README.md and control/phase.py say of the system and               *)
(* services/agents.py of its decision agent; the services do not keep it.  *)
(***************************************************************************)
NeverJumps == [][(<<twin.phase, twin'.phase>> \in Legal)]_vars
=============================================================================
