CONSTANTS
  Every <- MCEvery
  Slow <- MCSlow
  Minutes = 1
  MaxTime = 5
  MaxFaults = 1
  MaxCrashes = 1
SPECIFICATION Spec
INVARIANTS
  NewestErrorShown
  StallReported
  AlarmEnds
PROPERTIES
  FiresOnlyOverdue
CHECK_DEADLOCK FALSE
