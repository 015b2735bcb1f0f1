SPECIFICATION RoadsideSpec
CONSTANTS
  MinGreen = 2
  MaxGreen = 4
  YellowTime = 2
  AllRedTime = 1
  MaxDt = 2
  InitialAxis = "north_south"
  x = x
  Agents = {x}
  Directions <- MCDirections
  Approaches <- MCDirections
  AxisOfLane <- MCAxisOfLane
  Scenes <- MCScenes
  WindowSize = 3
  PublishEvery = 2
  TrendWindow = 4
  MinTrend = 2
  Horizon = 3
  StalledWait = 2
  Ratio = 2
  MinSamples = 2
  Debounce = 2
  StaleAfter = 4
  CheckInterval = 2
  Interval = 2
  MaxDelay = 1
  MaxStates = 3
  MaxAlone = 4
  MaxMonitored = 1
  MaxFailures = 2
  w1 = w1
  w2 = w2
  b1 = b1
  t1 = t1
  k1 = k1
  k2 = k2
  Replicas = {w1, w2}
  Bindings = {b1}
  Types = {t1}
  Subscribed <- MCSubscribed
  Keys = {k1, k2}
  TypeOf <- MCTypeOf
  Malformed = {k2}
  Count = 2
  MaxLen = 2
  MaxPublished = 3
  MaxFaults = 1
  CacheSize = 1
  MaxRetries = 1
INVARIANTS
  TypeOK
  WaitBounded
  IntentServedInTime
  AnnouncedWhenReady
  NoViolations
  ClearanceBeforeGreen
  CountedOnce
  ForecastSound
  ReportedOnce
  EpisodeToldOnce
  DashboardShowsMode
  HealthIsTrue
  RedisTypeOK
  AcknowledgedIsSettled
  NothingVanishes
PROPERTIES
  EachAxisServed
  KeepsPromise
  EverythingRead
\* No state may be left to publish, no agent to monitor, no entry to read.
CHECK_DEADLOCK FALSE
