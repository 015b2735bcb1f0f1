----------------------------- MODULE MCTraffic ------------------------------
(***************************************************************************)
(* The traffic before the cameras (Perception, with two vehicles that are  *)
(* alike) and on the twin (ClosedLoop, with one approach per axis).  They  *)
(* share no variable; `subject` says which of the two a behaviour is       *)
(* about, and nothing happens in the other one.                            *)
(***************************************************************************)
EXTENDS ClosedLoop, Perception, TLC

CONSTANTS v1, v2

Symmetry == Permutations({v1, v2})

MCDirections == <<"north", "east">>
MCAxisOfLane == ("north" :> NorthSouth) @@ ("east" :> EastWest)
MCPilots     == {"fixed_timer", "adaptive", "utility", "services", "sumo"}
MCServices   == {"services"}
MCAlarmable  == {"adaptive", "utility"}
MCForecasts  == {0, 2}

VARIABLE subject

trafficVars == <<subject, vars, perceptionVars>>

TrafficInit ==
  /\ Init /\ PerceptionInit
  /\ \/ subject = "twin"
     \/ subject = "cameras" /\ pilot = "services"

TrafficNext ==
  \/ subject = "twin" /\ Next /\ UNCHANGED <<subject, perceptionVars>>
  \/ subject = "cameras" /\ PerceptionNext /\ UNCHANGED <<subject, vars>>

TrafficSpec == TrafficInit /\ [][TrafficNext]_trafficVars

\* The twin alone.
TwinSpec == TrafficInit /\ subject = "twin" /\ [][TrafficNext]_trafficVars
=============================================================================
