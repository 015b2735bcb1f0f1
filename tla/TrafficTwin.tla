----------------------------- MODULE TrafficTwin -----------------------------
(***************************************************************************)
(* simulation/analytical.py: a queue per approach that grows by arrivals   *)
(* and drains at the saturation flow while its axis has green.             *)
(*                                                                         *)
(* The fractional capacity a lane carries from tick to tick is counted in  *)
(* units of which a vehicle needs PerVehicle.  How many vehicles arrive    *)
(* and where an emergency vehicle is are inputs of a step (the code draws  *)
(* the ones and schedules the others).  Delays and totals are left out.    *)
(***************************************************************************)
EXTENDS Signals, Subsequence, FiniteSetsExt

CONSTANTS Directions,  \* the approaches, in the order of SimConfig.demand
          AxisOfLane,  \* Direction.axis
          Saturation,  \* SimConfig.saturation_flow_vps * dt_s, in units
          PerVehicle,  \* units of capacity a vehicle takes
          Dt           \* SimConfig.dt_s

ASSUME TwinAssumption ==
  /\ AxisOfLane \in [DOMAIN AxisOfLane -> Axes]
  /\ Directions \in Seq(DOMAIN AxisOfLane)
  /\ Saturation \in Nat \ {0} /\ PerVehicle \in Nat \ {0} /\ Dt \in Nat \ {0}

VARIABLES twin,  \* _phase and _phase_elapsed
          lanes  \* per approach: queue, capacity, last discharge, emergency

Lanes == DOMAIN AxisOfLane

EmptyLane == [queue |-> 0, capacity |-> 0, moved |-> 0, emergency |-> FALSE]

\* reset(), also called by the constructor.
TwinInit ==
  /\ twin = [phase |-> GreenFor(NorthSouth), elapsed |-> 0]
  /\ lanes = [d \in Lanes |-> EmptyLane]

Capacity(lane) == lane.capacity + Saturation

\* Mutant: as many leave as could, not as many as are there.
DischargeAll(lane, arrivals) == Capacity(lane) \div PerVehicle

Discharge(lane, arrivals) ==
  Min({lane.queue + arrivals, Capacity(lane) \div PerVehicle})

\* Mutant: the fraction of a vehicle is not carried over.
DrainedWhole(lane, arrivals) ==
  LET out == Discharge(lane, arrivals) IN
  [lane EXCEPT !.queue = @ + arrivals - out, !.capacity = 0, !.moved = out]

\* _advance_lane under green: whole vehicles leave, the rest of the capacity
\* is carried over, whether or not there was anybody to use it.
Drained(lane, arrivals) ==
  LET out == Discharge(lane, arrivals) IN
  [lane EXCEPT !.queue    = @ + arrivals - out,
               !.capacity = Capacity(lane) - out * PerVehicle,
               !.moved    = out]

\* _advance_lane otherwise.
Held(lane, arrivals) ==
  [lane EXCEPT !.queue = @ + arrivals, !.capacity = 0, !.moved = 0]

\* step(): the command's phase, the emergencies, then lane after lane.
TwinStep(phase, arrivals, emergencies) ==
  /\ twin' = IF phase = twin.phase THEN [twin EXCEPT !.elapsed = @ + Dt]
             ELSE [phase |-> phase, elapsed |-> 0]
  /\ lanes' = [d \in Lanes |->
       LET lane == [lanes[d] EXCEPT !.emergency = d \in emergencies] IN
       IF phase = GreenFor(AxisOfLane[d]) THEN Drained(lane, arrivals[d])
                                          ELSE Held(lane, arrivals[d])]

-----------------------------------------------------------------------------
\* What the controllers read off an observation.

\* _observe and _lane_state: whoever crossed last is taken to be moving still.
Observed(lane) ==
  LET moving == Min({lane.moved, lane.queue}) IN
  [vehicles |-> lane.queue, moving |-> moving, stopped |-> lane.queue - moving]

\* The validators of LaneState; an observation they refuse ends the loop.
Accepted(state) ==
  {state.moving, state.stopped} \subseteq Nat /\ state.moving + state.stopped = state.vehicles

\* _axis_queue and AxisMetrics.queue_veh
AxisQueue(axis) ==
  MapThenSumSet(LAMBDA d : Observed(lanes[d]).vehicles, {d \in Lanes : AxisOfLane[d] = axis})

\* _emergency_axis: that of the first approach with an emergency vehicle.
EmergencyAxisOf(observed) ==
  LET alarmed == Subsequence(Directions, {d \in Lanes : observed[d].emergency}) IN
  IF alarmed = <<>> THEN NoAxis ELSE AxisOfLane[Head(alarmed)]
=============================================================================
