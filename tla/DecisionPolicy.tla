--------------------------- MODULE DecisionPolicy ---------------------------
(***************************************************************************)
(* decision/policy.py and the fairness clock of decision/agent.py: the     *)
(* utility policy of the decision agent.  Scores are scaled by Saturation, *)
(* so that the wait of a lane, queue / saturation flow, is a whole number. *)
(* No pedestrian waits in the twin.                                        *)
(***************************************************************************)
EXTENDS TrafficTwin

CONSTANTS WeightQueue, WeightWait, WeightFairness, WeightPrediction, SwitchPenalty

\* What DecisionSettings accepts as weights.
PolicyWeights ==
  {WeightQueue, WeightWait, WeightFairness, WeightPrediction, SwitchPenalty} \subseteq Nat

ASSUME WeightsAssumption == PolicyWeights

\* DecisionAgent: _since_green, and whether _prev_ts is set.
PolicyStart == [since |-> [a \in Axes |-> 0], seen |-> FALSE]

\* DecisionAgent._advance_fairness: only a green counts as service.
Advanced(p) ==
  [since |-> [a \in Axes |-> IF twin.phase = GreenFor(a) THEN 0
                             ELSE p.since[a] + (IF p.seen THEN Dt ELSE 0)],
   seen  |-> TRUE]

\* UtilityPolicy._score of the metrics of an axis; predicted is the forecast's
\* queue per axis, or 0 without a forecast.
Score(since, predicted, axis) ==
  Saturation * (WeightQueue * AxisQueue(axis)
                + WeightFairness * since[axis]
                + WeightPrediction * predicted[axis])
    + PerVehicle * WeightWait * AxisQueue(axis)

\* UtilityPolicy._higher: the first axis wins a tie.
Higher(score) == IF score[EastWest] > score[NorthSouth] THEN EastWest ELSE NorthSouth

\* UtilityPolicy.decide: the axis to serve.
DesiredAxis(since, predicted) ==
  LET score     == [a \in Axes |-> Score(since, predicted, a)]
      emergency == EmergencyAxisOf(lanes)
      active    == AxisOf(twin.phase)
  IN
  IF emergency # NoAxis THEN emergency
  ELSE IF ~IsGreen(twin.phase) THEN Higher(score)
  ELSE IF score[OtherAxis(active)] > score[active] + Saturation * SwitchPenalty
  THEN OtherAxis(active) ELSE active
=============================================================================
