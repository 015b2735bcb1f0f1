----------------------------- MODULE MCRabbitBus -----------------------------
(***************************************************************************)
(* Instances of RabbitBus with two subscriptions: of two agents that are   *)
(* both interested in k1, or of one agent (as the decision agent, the      *)
(* orchestrator and the dashboard have them) interested in one event each. *)
(***************************************************************************)
EXTENDS RabbitBus, TLC

CONSTANTS a, b, c1, c2, k1, k2

TwoAgents == (c1 :> a) @@ (c2 :> b)
OneAgent  == (c1 :> a) @@ (c2 :> a)

Overlapping == (c1 :> {k1, k2}) @@ (c2 :> {k1})
Same        == (c1 :> {k1}) @@ (c2 :> {k1})
Disjoint    == (c1 :> {k1}) @@ (c2 :> {k2})
=============================================================================
