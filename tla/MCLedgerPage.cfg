CONSTANTS
  Hour = 2
  Horizon = 2
  RawRetention = 5
  Late = 1
  MaxIdle = 2
  MaintainGap = 1
  MaxTime = 7
  MaxRequests = 3
  Day = 4
  HourlyMax = 4
  Preset = {2}
  DefaultSpan = 2
  Custom <- MCCustom
  ClientOf <- MCClientOf
  ModelOf <- MCModelOf
  LatencyOf <- MCLatencyOf
  FailedAt = {4}
  MaxLoads = 1
SPECIFICATION PageSpec
INVARIANTS
  SeriesLosesNothing
  PageGrows
  RowsAddUp
  PercentilesHold
