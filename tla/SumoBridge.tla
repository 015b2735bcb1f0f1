----------------------------- MODULE SumoBridge -----------------------------
(***************************************************************************)
(* simulation/sumo.py: the same environment over the SUMO simulator.  The  *)
(* bridge maps a phase to a phase of the traffic-light program written by  *)
(* sim/build_network.py and sets it when the command changes; between      *)
(* commands the program runs on by its own durations.                      *)
(*                                                                         *)
(* The bridge's _phase and _phase_elapsed are the variable twin, and what  *)
(* it reads back of the vehicles is the variable lanes.  Emergency         *)
(* vehicles are never reported.  The totals for the KPIs are left out.     *)
(***************************************************************************)
EXTENDS TrafficTwin

CONSTANTS ProgramGreen,   \* duration of the program's greens (99)
          ProgramYellow,  \* build_network.py's yellow_s
          ProgramAllRed   \* build_network.py's all_red_s

ASSUME ProgramAssumption ==
  ProgramGreen \in Nat \ {0} /\ ProgramYellow \in Nat \ {0} /\ ProgramAllRed \in Nat

VARIABLE tls  \* the light of the network: the program's phase and its time left

\* _PHASE_TO_INDEX: the order of the program, which goes round.
Program == <<GreenFor(NorthSouth), YellowFor(NorthSouth), AllRed,
             GreenFor(EastWest), YellowFor(EastWest)>>

IndexOf(phase) == CHOOSE i \in DOMAIN Program : Program[i] = phase

Duration(phase) ==
  IF IsGreen(phase) THEN ProgramGreen ELSE IF IsYellow(phase) THEN ProgramYellow ELSE ProgramAllRed

\* trafficlight.setPhase
SetPhase(phase) == [index |-> IndexOf(phase), left |-> Duration(phase)]

\* The simulator's own switch, when the time of a phase is up.
RunOn(light) == SetPhase(Program[(light.index % Len(Program)) + 1])

\* One simulationStep of the light.
Simulated(light) ==
  LET now == IF light.left <= 0 THEN RunOn(light) ELSE light IN [now EXCEPT !.left = @ - Dt]

Lamps == Program[tls.index]

SumoInit == tls = SetPhase(GreenFor(NorthSouth))

\* Mutant: the phase is set once, and the rest is left to the program.
CommandedOnce(phase) == tls

\* step(): setPhase only for a phase other than the last command's.
Commanded(phase) == IF phase = twin.phase THEN tls ELSE SetPhase(phase)

\* _observe and _lane_state after the step: the vehicles there are, and the
\* ones of them that do not halt.
Reported(present, halting) ==
  [queue |-> present, capacity |-> 0, moved |-> Max({0, present - halting}), emergency |-> FALSE]

\* step(): the command, one step of the simulator, the observation.  Vehicles
\* cross under green or yellow, if they like, and all halt or none.
SumoStep(phase, arrivals, departures) ==
  /\ twin' = IF phase = twin.phase THEN [twin EXCEPT !.elapsed = @ + Dt]
             ELSE [phase |-> phase, elapsed |-> 0]
  /\ tls' = Simulated(Commanded(phase))
  /\ \A d \in Lanes : departures[d] > 0 =>
       lanes[d].queue + arrivals[d] >= departures[d] /\ AxisOf(Program[tls'.index]) = AxisOfLane[d]
  /\ \E halting \in BOOLEAN :
       lanes' = [d \in Lanes |->
         LET present == lanes[d].queue + arrivals[d] - departures[d]
         IN  Reported(present, IF halting THEN present ELSE 0)]
=============================================================================
