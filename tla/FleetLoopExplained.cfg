\* Who sees a decision first, the lamps or the one who explains it.
SPECIFICATION Spec
CONSTANTS
  MinGreen = 1
  MaxGreen = 2
  YellowTime = 1
  AllRedTime = 1
  Dt = 1
  TotalSteps = 2
  MaxRounds = 1
INVARIANT
  ActuatedFirst
CHECK_DEADLOCK FALSE
