-------------------------- MODULE ServiceIncidents --------------------------
(***************************************************************************)
(* The incident detector of services/agents.py, the second one of the      *)
(* repository: it has no debounce but remembers which incidents are on and *)
(* reports each once until it is over.                                     *)
(*                                                                         *)
(* Of a state it reads, per direction, whether there is an emergency       *)
(* vehicle and whether density, waiting time and queue are all beyond the  *)
(* thresholds of the rule (jam).                                           *)
(***************************************************************************)
EXTENDS Signals, Subsequence, Functions

CONSTANT Approaches  \* the approaches, in the order of state.lanes

\* lanes is a dict: no approach comes twice.
ASSUME ServiceIncidentAssumption ==
  /\ Approaches \in Seq(Range(Approaches))
  /\ IsInjective(Approaches)

VARIABLE activeKeys  \* _active_keys

Emergency == "emergency"  \* reported as a stalled vehicle
Jam       == "jam"        \* reported as abnormal congestion

ServiceIncidentInit == activeKeys = {}

ServiceKeys == Range(Approaches) \X {Emergency, Jam}

Shows(state, k) == IF k[2] = Emergency THEN state.lanes[k[1]].emergency ELSE state.lanes[k[1]].jam

\* _detect: approach after approach, the emergency before the jam.
Looked ==
  [n \in 1..(2 * Len(Approaches)) |->
     <<Approaches[(n + 1) \div 2], IF n % 2 = 1 THEN Emergency ELSE Jam>>]

Detected(state) == Subsequence(Looked, {k \in ServiceKeys : Shows(state, k)})

\* What _handle publishes for a state: what is not on already.
News(state) == Subsequence(Detected(state), ServiceKeys \ activeKeys)

\* Mutant: an incident is on as soon as it is detected, published or not.
ActivateAll(state, n) == activeKeys \cup Range(Detected(state))

\* The keys after n of them were added; each is, before it is published.
Activated(state, n) == activeKeys \cup {News(state)[i] : i \in 1..n}

\* Mutant: nothing is ever over.
NeverOver(state, keys) == keys

\* _forget_resolved
StillOn(state, keys) == keys \cap Range(Detected(state))

\* _handle when every publication goes through, and when the n-th fails.
HandleAll(state) == activeKeys' = StillOn(state, Activated(state, Len(News(state))))
FailAt(state, n) == activeKeys' = Activated(state, n)
=============================================================================
