SPECIFICATION Spec
CONSTANTS
  MinGreen = 1
  MaxGreen = 2
  YellowTime = 1
  AllRedTime = 1
  Dt = 1
  TotalSteps = 2
  MaxRounds = 3
INVARIANTS
  TypeOK
  TicksOnLatest
  ForecastCurrent
  LampsKnown
PROPERTIES
  NeverHangs
\* The bound on rounds ends the loop.
CHECK_DEADLOCK FALSE
