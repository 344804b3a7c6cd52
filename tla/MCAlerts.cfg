CONSTANTS
  c1 = c1
  c2 = c2
  NoWindow = NoWindow
  Outage = Outage
  Unusable = Unusable
  Rule <- MCRule
  Credential <- MCCredential
  Kind <- MCKind
  Scope <- MCScope
  Heartbeat <- MCHeartbeat
  Below = 20
  ClearMargin = 5
  Answer <- MCAnswer
  RuleFile <- MCRuleFile
  MaxBreaks = 1
SPECIFICATION Spec
INVARIANTS
  TypeOK
  IncidentsMatch
  FullPassSettles
  HeartbeatTrue
PROPERTIES
  OutageLeavesCredentials
  Hysteresis
