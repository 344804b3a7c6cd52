CONSTANTS
  Hour = 2
  Horizon = 2
  RawRetention = 5
  Late = 1
  MaxIdle = 2
  MaintainGap = 1
  MaxTime = 10
  MaxRequests = 5
SPECIFICATION Spec
INVARIANTS
  TypeOK
  HistoryKept
  RawRangeComplete
  RolledRangeComplete
PROPERTIES
  RolledUpStays
