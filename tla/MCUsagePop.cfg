CONSTANTS
  a = a
  b = b
  c = c
  m = m
  Record <- MCRecord
  Malformed <- MCMalformed
  IdOf <- MCIdOf
  Batch = 2
  MaxFaults = 2
  MaxCrashes = 1
SPECIFICATION FairSpec
INVARIANTS
  TypeOK
  RowsWrittenAccounted
  LastPopIsStored
PROPERTIES
  HandedOverOnce
  QueuedRecordLeaves
  ErrorEventuallyClears
