----------------------------- MODULE MCRedisBus -----------------------------
(***************************************************************************)
(* An instance of RedisBus: a process with one subscription of one type.   *)
(* MCRoadside has the instance with two processes.                         *)
(***************************************************************************)
EXTENDS RedisBus, TLC

CONSTANTS w1, b1, t1, k1

MCSubscribed == b1 :> {t1}
MCTypeOf     == k1 :> t1
=============================================================================
