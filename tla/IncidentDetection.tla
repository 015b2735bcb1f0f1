-------------------------- MODULE IncidentDetection --------------------------
(***************************************************************************)
(* incident/agent.py and incident/rules.py: two rules over the latest      *)
(* state and baseline, and a debounce per direction and type of incident   *)
(* that runs on the timestamps of the states.                              *)
(*                                                                         *)
(* A state is [lanes, axis, elapsed, at]: per direction the vehicles and   *)
(* how many of them move, the axis that has green (or NoAxis) and for how  *)
(* long, and the timestamp.                                                *)
(***************************************************************************)
EXTENDS Signals, Subsequence

CONSTANTS Directions,    \* the approaches of the intersection, in their order
          AxisOfLane,    \* AxisOfLane[d]: Direction.axis
          StalledWait,   \* IncidentSettings.stalled_wait_s
          Ratio,         \* IncidentSettings.congestion_ratio
          MinSamples,    \* IncidentSettings.congestion_min_baseline_samples
          Debounce       \* IncidentSettings.debounce_s

\* What IncidentSettings accepts.
IncidentSettings ==
  /\ StalledWait \in Nat \ {0} /\ Debounce \in Nat
  /\ Ratio \in Nat /\ Ratio > 1
  /\ MinSamples \in Nat \ {0}

ASSUME IncidentAssumption ==
  /\ Directions \in Seq(DOMAIN AxisOfLane)
  /\ AxisOfLane \in [DOMAIN AxisOfLane -> Axes]
  /\ IncidentSettings

VARIABLES baseline,   \* _baseline
          lastRaised  \* _last_raised

incident == <<baseline, lastRaised>>

NoBaseline == <<>>  \* None
Never      == -1
Stalled    == "stalled_vehicle"
Congested  == "abnormal_congestion"
IncidentKeys == (DOMAIN AxisOfLane) \X {Stalled, Congested}

IncidentInit ==
  /\ baseline = NoBaseline
  /\ lastRaised = [k \in IncidentKeys |-> Never]

\* StalledVehicleRule.evaluate for one lane.
IsStalled(state, d) ==
  /\ state.axis = AxisOfLane[d]
  /\ state.elapsed >= StalledWait
  /\ state.lanes[d].vehicles > 0
  /\ state.lanes[d].moving = 0

\* AbnormalCongestionRule.evaluate for one lane.
IsCongested(state, d) ==
  /\ baseline # NoBaseline
  /\ baseline[d].samples >= MinSamples
  /\ baseline[d].total > 0
  /\ state.lanes[d].vehicles * baseline[d].samples >= Ratio * baseline[d].total

Fires(state, k) ==
  IF k[2] = Stalled THEN IsStalled(state, k[1]) ELSE IsCongested(state, k[1])

\* The order in which the rules go: rule after rule, lane after lane.
Candidates ==
  [i \in DOMAIN Directions |-> <<Directions[i], Stalled>>]
    \o [i \in DOMAIN Directions |-> <<Directions[i], Congested>>]

\* What they find.
Found(state) == Subsequence(Candidates, {k \in IncidentKeys : Fires(state, k)})

\* Mutant: the debounce ends one unit early.
DebouncedShort(state, k) == lastRaised[k] # Never /\ state.at - lastRaised[k] < Debounce - 1

Debounced(state, k) == lastRaised[k] # Never /\ state.at - lastRaised[k] < Debounce

\* The incidents of a state that are to be published.
Due(state) == Subsequence(Found(state), {k \in IncidentKeys : ~Debounced(state, k)})

\* Mutant: the debounce is recorded for everything found, published or not.
RaiseAll(state, n) ==
  lastRaised' = [k \in IncidentKeys |->
                   IF \E i \in DOMAIN Found(state) : Found(state)[i] = k THEN state.at ELSE lastRaised[k]]

\* _on_state up to its n-th publication: the debounce of an incident is
\* recorded before the incident is published.
Raise(state, n) ==
  lastRaised' = [k \in IncidentKeys |->
                   IF \E i \in 1..n : Due(state)[i] = k THEN state.at ELSE lastRaised[k]]

OnBaseline(b) == baseline' = b /\ UNCHANGED lastRaised
=============================================================================
