\* A controller process that is restarted over live lamps.
SPECIFICATION RestartSpec
CONSTANTS
  MinGreen = 2
  MaxGreen = 4
  YellowTime = 2
  AllRedTime = 1
  MaxDt = 1
  InitialAxis = "north_south"
INVARIANT
  ClearanceBeforeGreen
