SPECIFICATION TrafficSpec
CONSTANTS
  Directions <- MCDirections
  AxisOfLane <- MCAxisOfLane
  Saturation = 1
  PerVehicle = 2
  Dt = 1
  MinGreen = 2
  MaxGreen = 4
  YellowTime = 1
  AllRedTime = 1
  GreenTime = 3
  MaxStarvation = 5
  WeightQueue = 1
  WeightWait = 1
  WeightFairness = 1
  WeightPrediction = 1
  SwitchPenalty = 2
  ProgramGreen = 5
  ProgramYellow = 1
  ProgramAllRed = 1
  Pilots <- MCPilots
  MaxRetries = 1
  MaxQueue = 2
  Alarmable <- MCAlarmable
  MaxLosses = 1
  Forecasts <- MCForecasts
  v1 = v1
  v2 = v2
  Vehicles = {v1, v2}
  Length = 6
  TopSpeed = 2
  Gap = 5
  Reach = 2
  MaxMisses = 1
  MinHits = 2
  StopSpeed = 1
  ResumeSpeed = 2
  MaxIds = 3
  MaxFaults = 3
  MaxStopped = 2
SYMMETRY Symmetry
INVARIANTS
  TypeOK
  ServedWithinCycle
  EmergencyServed
  CountsMatch
  WaitIsOwn
PROPERTIES
  JumpsOnlyAtFailover
\* The bounds on faults and tracks end the frames.
CHECK_DEADLOCK FALSE
