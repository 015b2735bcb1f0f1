------------------------------ MODULE Dashboard ------------------------------
(***************************************************************************)
(* dashboard/agent.py and dashboard/readmodel.py: the projection of the    *)
(* last event of every kind that the gateway and the front ends read.      *)
(* Each kind comes through a subscription of its own.  The log buffer and  *)
(* the rendering as JSON are left out.                                     *)
(***************************************************************************)
EXTENDS Naturals

VARIABLE snapshot  \* LiveSnapshot

Nothing == <<0>>  \* None, before the events numbered from 1

Fields == {"state", "decision", "signal", "forecast", "incident", "explanation"}

DashboardInit == snapshot = [f \in Fields \cup {"mode"} |-> IF f = "mode" THEN "ai" ELSE Nothing]

\* _on_event: an event replaces what its field of the snapshot shows.
OnEvent(field, value) == snapshot' = [snapshot EXCEPT ![field] = value]
=============================================================================
