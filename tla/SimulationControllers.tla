------------------------ MODULE SimulationControllers ------------------------
(***************************************************************************)
(* simulation/controllers.py: the two controllers of the benchmark, and of *)
(* the composable decision service.  Each owns a phase machine and only    *)
(* asks it to switch.  A command is given by its phase; its reason and the *)
(* features for the audit are left out.                                    *)
(***************************************************************************)
EXTENDS PhaseMachine, TrafficTwin

CONSTANTS GreenTime,     \* FixedTimerController's green_s
          MaxStarvation  \* DecisionSettings.max_starvation_s

\* DecisionSettings._check_green_bounds
GreenBounds == MaxGreen >= MinGreen /\ MaxStarvation >= MaxGreen

\* What DecisionSettings accepts.
DecisionSettings ==
  /\ {MinGreen, MaxGreen, YellowTime, MaxStarvation} \subseteq Nat \ {0}
  /\ AllRedTime \in Nat
  /\ GreenBounds

ASSUME ControllersAssumption == GreenTime \in Nat /\ DecisionSettings

Unserved == [a \in Axes |-> 0]

FixedStart    == StartedAt(NorthSouth)
AdaptiveStart == [machine |-> StartedAt(NorthSouth), since |-> Unserved]

\* FixedTimerController.decide; the request is made before the time passes.
FixedDecide(m) == Step(m, Dt, IsGreen(m.phase) /\ m.elapsed >= GreenTime)

\* AdaptiveController._track_fairness; an axis counts as served under yellow.
Tracked(since, active) == [a \in Axes |-> IF a = active THEN 0 ELSE since[a] + Dt]

\* Mutant: an emergency does not preempt.
WantsSwitchForQueues(since, active) ==
  LET opposing == OtherAxis(active) IN
  /\ active # NoAxis
  /\ \/ since[opposing] >= MaxStarvation
     \/ AxisQueue(opposing) > AxisQueue(active)

\* AdaptiveController._evaluate: an emergency decides alone; then starvation,
\* an empty approach and the longer queue, each unless in all-red.
WantsSwitch(since, active) ==
  LET emergency == EmergencyAxisOf(lanes)
      opposing  == OtherAxis(active)
  IN
  /\ active # NoAxis
  /\ IF emergency # NoAxis THEN active # emergency
     ELSE \/ since[opposing] >= MaxStarvation
          \/ AxisQueue(active) = 0 /\ AxisQueue(opposing) > 0
          \/ AxisQueue(opposing) > AxisQueue(active)

\* AdaptiveController.decide
AdaptiveDecide(c) ==
  LET active == AxisOf(c.machine.phase)
      since  == Tracked(c.since, active)
  IN  [machine |-> Step(c.machine, Dt, WantsSwitch(since, active)), since |-> since]
=============================================================================
