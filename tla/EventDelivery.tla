---------------------------- MODULE EventDelivery ----------------------------
(***************************************************************************)
(* The delivery contract of the EventBus port (messaging/bus.py), for any  *)
(* transport: a published event is owed to every consumer interested in    *)
(* it, once per publication, and a debt is settled only by the consumer's  *)
(* handler returning, by recognising an event the consumer has handled     *)
(* before, or by dead-lettering.  Nothing owed is ever dropped.            *)
(***************************************************************************)
EXTENDS Naturals

CONSTANTS Consumers,  \* the subscriptions
          Keys,       \* idempotency keys: the events that may be published
          Interest    \* Interest[c]: the events subscription c matches

VARIABLES owed,     \* owed[c][k]: copies of k published to c, not settled yet
          handled,  \* handled[c]: the events c's handler has returned from
          dead      \* dead[c]: the events c gave up on
vars == <<owed, handled, dead>>

Init ==
  /\ owed = [c \in Consumers |-> [k \in Keys |-> 0]]
  /\ handled = [c \in Consumers |-> {}]
  /\ dead = [c \in Consumers |-> {}]

Publish(k) ==
  /\ owed' = [c \in Consumers |->
                IF k \in Interest[c] THEN [owed[c] EXCEPT ![k] = @ + 1] ELSE owed[c]]
  /\ UNCHANGED <<handled, dead>>

Settle(c, k) ==
  /\ owed[c][k] > 0
  /\ owed' = [owed EXCEPT ![c][k] = @ - 1]

Handle(c, k) ==
  /\ Settle(c, k)
  /\ handled' = [handled EXCEPT ![c] = @ \cup {k}]
  /\ UNCHANGED dead

Recognise(c, k) ==
  /\ k \in handled[c]
  /\ Settle(c, k)
  /\ UNCHANGED <<handled, dead>>

GiveUp(c, k) ==
  /\ Settle(c, k)
  /\ dead' = [dead EXCEPT ![c] = @ \cup {k}]
  /\ UNCHANGED handled

Next ==
  \/ \E k \in Keys : Publish(k)
  \/ \E c \in Consumers, k \in Keys : Handle(c, k) \/ Recognise(c, k) \/ GiveUp(c, k)

Spec == Init /\ [][Next]_vars
=============================================================================
