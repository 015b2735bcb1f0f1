----------------------------- MODULE MCRoadside -----------------------------
(***************************************************************************)
(* Three parts that work beside one another: the signal controller         *)
(* (SignalController), the agents that watch the intersection (Monitoring) *)
(* and the bus over Redis Streams, with two processes that share the group *)
(* of one subscription (RedisBus).  They share no variable; `subject` says *)
(* which of them a behaviour is about, and nothing happens in the others.  *)
(*                                                                         *)
(* Monitoring has one approach per axis.  Traffic is light or, in the      *)
(* second scene, stalled and congested on the north approach that has had  *)
(* green for long; the third scene is the second one seen by a camera      *)
(* nobody should trust.                                                    *)
(***************************************************************************)
EXTENDS SignalController, Monitoring, RedisBus, TLC

CONSTANTS x, w1, w2, b1, t1, k1, k2

MCDirections == <<"north", "east">>
MCAxisOfLane == ("north" :> NorthSouth) @@ ("east" :> EastWest)

Lanes(n, moving, jam) ==
  ("north" :> [vehicles |-> n, moving |-> moving, emergency |-> jam, jam |-> jam])
    @@ ("east" :> [vehicles |-> 1, moving |-> 0, emergency |-> jam, jam |-> FALSE])

Light == [lanes |-> Lanes(1, 1, FALSE), axis |-> NorthSouth, elapsed |-> 0, confident |-> TRUE, at |-> 0]
Heavy == [lanes |-> Lanes(3, 0, TRUE), axis |-> NorthSouth, elapsed |-> 2, confident |-> TRUE, at |-> 0]
Foggy == [Heavy EXCEPT !.confident = FALSE]

MCScenes == {Light, Heavy, Foggy}

MCSubscribed == b1 :> {t1}
MCTypeOf     == (k1 :> t1) @@ (k2 :> t1)

VARIABLE subject

roadsideVars == <<subject, vars, monitoringVars, redisVars>>

RoadsideInit ==
  /\ Init /\ MonitoringInit /\ RedisInit
  /\ \/ subject \in {"controller", "redis"} /\ deployed = Agency /\ monitored = {}
     \/ subject = "monitoring"

Controller(Action) ==
  subject = "controller" /\ Action /\ UNCHANGED <<subject, monitoringVars, redisVars>>

Watchers(Action) ==
  subject = "monitoring" /\ Action /\ UNCHANGED <<subject, vars, redisVars>>

Redis(Action) ==
  subject = "redis" /\ Action /\ UNCHANGED <<subject, vars, monitoringVars>>

RoadsideNext == Controller(Next) \/ Watchers(MonitoringNext) \/ Redis(RedisNext)

\* Fairness of SignalController and RedisFairness.
RoadsideFairness ==
  /\ WF_roadsideVars(Controller(\E dt \in 1..MaxDt : Tick(dt)))
  /\ WF_roadsideVars(Controller(PublishDone \/ PublishFails))
  /\ \A w \in Replicas :
       /\ WF_roadsideVars(Redis(StartBus(w)))
       /\ \A g \in Groups :
            WF_roadsideVars(Redis(Bind(w, g))) /\ WF_roadsideVars(Redis(ReadLoop(w, g)))

RoadsideSpec == RoadsideInit /\ [][RoadsideNext]_roadsideVars /\ RoadsideFairness
=============================================================================
