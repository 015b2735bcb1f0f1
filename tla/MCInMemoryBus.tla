---------------------------- MODULE MCInMemoryBus ----------------------------
(***************************************************************************)
(* Instances of InMemoryBus.  The first subscription matches every event,  *)
(* the second only one of them.                                            *)
(***************************************************************************)
EXTENDS InMemoryBus, TLC

CONSTANTS k1, k2

MCInterest == (1 :> {k1, k2}) @@ (2 :> {k1})
=============================================================================
