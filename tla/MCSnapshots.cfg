CONSTANTS
  codex = codex
  gemini = gemini
  quiet = quiet
  low = low
  high = high
  Credential <- MCCredential
  Metered = {codex}
  Signalled = {codex}
  Quota <- MCQuota
  NoQuota = quiet
  Windows <- MCWindows
  MaxTime = 3
  RateWindow = 2
  MinSpan = 1
SPECIFICATION Spec
INVARIANTS
  TypeOK
  LastSnapshotIsStored
  HistoryComplete
  PointsAreChanges
  IdleSlows
PROPERTIES
  LogsOnlyChanges
