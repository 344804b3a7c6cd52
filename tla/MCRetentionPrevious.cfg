CONSTANTS
  Hour = 1
  Horizon = 2
  RawRetention = 5
  Late = 0
  MaxIdle = 2
  MaintainGap = 1
  MaxTime = 10
  MaxRequests = 6
SPECIFICATION Spec
INVARIANT
  PreviousComplete
