CONSTANTS
  c1 = c1
  c2 = c2
  NoWindow = NoWindow
  Outage = Outage
  Unusable = Unusable
  Rule <- OneRule
  Credential <- OneCredential
  Kind <- OneKind
  Scope <- OneScope
  Heartbeat <- OneRule
  Below = 20
  ClearMargin = 5
  Answer <- OneAnswer
  RuleFile <- OneRuleFile
  MaxBreaks = 1
SPECIFICATION Spec
INVARIANT
  NoOrphanIncident
