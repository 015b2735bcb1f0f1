----------------------------- MODULE Forecaster -----------------------------
(***************************************************************************)
(* prediction/agent.py and prediction/forecaster.py: the recent states     *)
(* with a time of the agent's own, and per lane the last value or the line *)
(* through them.                                                           *)
(*                                                                         *)
(* The line is kept as integers over a common denominator, so that nothing *)
(* is rounded.  Of the confidence band, whose width is a square root, only *)
(* whether it has any is kept.                                             *)
(***************************************************************************)
EXTENDS Integers, Sequences, FiniteSetsExt, Functions

CONSTANTS TrendWindow,  \* PredictionSettings.trend_window
          MinTrend,     \* min_samples_for_trend
          Horizon       \* horizon_s

\* What PredictionSettings accepts.
PredictionSettings ==
  /\ TrendWindow \in Nat /\ TrendWindow >= 2
  /\ MinTrend \in Nat /\ MinTrend >= 2
  /\ Horizon \in Nat \ {0}

ASSUME ForecasterAssumption == PredictionSettings

VARIABLES history,  \* _history: time and place in the feed (every state has all lanes)
          clock     \* _elapsed_s and _prev_ts

predictor == <<history, clock>>

NoTime == -1  \* None

PredictorInit == history = <<>> /\ clock = [elapsed |-> 0, previous |-> NoTime]

\* Mutant: a clock that goes back is followed.
ElapsedEitherWay(at) == IF clock.previous = NoTime THEN 0 ELSE at - clock.previous

\* _advance_clock: a clock that goes back counts as standing still.
Elapsed(at) == IF clock.previous = NoTime THEN 0 ELSE Max({0, at - clock.previous})

\* deque(maxlen=trend_window).append
Recent(points, point) == IF Len(points) = TrendWindow THEN Append(Tail(points), point)
                                                      ELSE Append(points, point)

\* _on_state up to the forecast.
Observe(n, at) ==
  /\ clock' = [elapsed |-> clock.elapsed + Elapsed(at), previous |-> at]
  /\ history' = Recent(history, [t |-> clock'.elapsed, state |-> n])

\* A sample of a lane is [t, queue].
Total(samples, Of(_)) == SumFunction([i \in DOMAIN samples |-> Of(samples[i])])

\* Mutant: the spread of the times is taken around 0.
SlopeThroughOrigin(samples) ==
  [num |-> Total(samples, LAMBDA p : p.t * p.queue), den |-> 1 + Total(samples, LAMBDA p : p.t * p.t)]

\* _least_squares: the slope, 0 if all samples are of one time.
Slope(samples) ==
  LET n      == Len(samples)
      sumT   == Total(samples, LAMBDA p : p.t)
      sumQ   == Total(samples, LAMBDA p : p.queue)
      spread == n * Total(samples, LAMBDA p : p.t * p.t) - sumT * sumT
      shared == n * Total(samples, LAMBDA p : p.t * p.queue) - sumT * sumQ
  IN  IF spread = 0 THEN [num |-> 0, den |-> 1] ELSE [num |-> shared, den |-> spread]

\* The rest of it: the line t |-> (slope * t + intercept) / over.
LeastSquares(samples) ==
  LET s == Slope(samples) IN
  [slope     |-> Len(samples) * s.num,
   intercept |-> s.den * Total(samples, LAMBDA p : p.queue) - s.num * Total(samples, LAMBDA p : p.t),
   over      |-> Len(samples) * s.den]

Residual(line, p) == line.over * p.queue - line.slope * p.t - line.intercept

\* A LaneForecast: the queue over its denominator, and whether the band
\* around it has any width.
FitAndProject(samples) ==
  LET line   == LeastSquares(samples)
      target == samples[Len(samples)].t + Horizon
  IN  [queue  |-> Max({0, line.slope * target + line.intercept}),
       over   |-> line.over,
       narrow |-> \A i \in DOMAIN samples : Residual(line, samples[i]) = 0]

\* PersistenceForecaster.predict for one lane.
Persistence(samples) == [queue |-> samples[Len(samples)].queue, over |-> 1, narrow |-> TRUE]

\* LinearTrendForecaster.predict for one lane.
Predicted(samples) ==
  IF Len(samples) < MinTrend THEN Persistence(samples) ELSE FitAndProject(samples)

-----------------------------------------------------------------------------
\* No line has a smaller sum of squares than this one (the normal equations).
IsBestLine(line, samples) ==
  /\ Total(samples, LAMBDA p : Residual(line, p)) = 0
  /\ Total(samples, LAMBDA p : p.t * Residual(line, p)) = 0
=============================================================================
