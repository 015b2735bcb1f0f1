---------------------------- MODULE PhaseMachine ----------------------------
(***************************************************************************)
(* control/phase.py: PhaseStateMachine as a pure transition function on a  *)
(* record, and the transition table of SafetyEnvelope.  Every controller   *)
(* of the system (SignalControllerAgent, the simulation controllers, the   *)
(* composable services) owns one or more such machines.                    *)
(*                                                                         *)
(* Durations are naturals in one fixed unit; the code's floats are         *)
(* compared and added only, never divided, on this path.                   *)
(***************************************************************************)
EXTENDS Signals, Integers

CONSTANTS MinGreen,    \* DecisionSettings.min_green_s
          MaxGreen,    \* DecisionSettings.max_green_s
          YellowTime,  \* DecisionSettings.yellow_s
          AllRedTime   \* DecisionSettings.all_red_s

\* The validators of DecisionSettings (gt=0, ge=0, _check_green_bounds).
ASSUME SettingsAssumption ==
  /\ MinGreen \in Nat \ {0}
  /\ MaxGreen \in Nat \ {0}
  /\ MaxGreen >= MinGreen
  /\ YellowTime \in Nat \ {0}
  /\ AllRedTime \in Nat

Machine == [phase: Phases, elapsed: Nat, next: Axes]

StartedAt(axis) ==
  [phase |-> GreenFor(axis), elapsed |-> 0, next |-> OtherAxis(axis)]

\* Mutant: a new phase inherits the time spent in the previous one.
EnterKeepingElapsed(m, p) == [m EXCEPT !.phase = p]

Enter(m, p) == [m EXCEPT !.phase = p, !.elapsed = 0]

\* Mutant: a requested switch is honoured before min_green_s.
MayLeaveAtOnce(elapsed, request) == elapsed >= MaxGreen \/ request

\* Mutant: the max_green_s force-switch is missing.
MayLeaveOnRequestOnly(elapsed, request) == request /\ elapsed >= MinGreen

MayLeaveGreen(elapsed, request) ==
  \/ elapsed >= MaxGreen
  \/ request /\ elapsed >= MinGreen

\* Mutant: the axis to serve next is only ever set by the constructor.
LeaveGreenKeepingNext(m) == Enter(m, YellowFor(AxisOf(m.phase)))

LeaveGreen(m) ==
  Enter([m EXCEPT !.next = OtherAxis(AxisOf(m.phase))],
        YellowFor(AxisOf(m.phase)))

\* Mutant: yellow gives way to the opposing green without all-red.
AfterYellowGreen(m) == GreenFor(m.next)

AfterYellow(m) == AllRed

\* PhaseStateMachine.step(dt, request_switch): one control tick.
Step(m, dt, request) ==
  LET aged == [m EXCEPT !.elapsed = @ + dt] IN
  IF IsGreen(m.phase)
  THEN IF MayLeaveGreen(aged.elapsed, request) THEN LeaveGreen(aged) ELSE aged
  ELSE IF IsYellow(m.phase)
  THEN IF aged.elapsed >= YellowTime THEN Enter(aged, AfterYellow(aged)) ELSE aged
  ELSE IF aged.elapsed >= AllRedTime THEN Enter(aged, GreenFor(aged.next)) ELSE aged

\* SafetyEnvelope._LEGAL
Legal ==
  {<<p, p>> : p \in Phases}
    \cup {<<GreenFor(a), YellowFor(a)>> : a \in Axes}
    \cup {<<YellowFor(a), AllRed>> : a \in Axes}
    \cup {<<AllRed, GreenFor(a)>> : a \in Axes}
=============================================================================
