CONSTANTS
  Credential <- MCCredential
  Provider <- MCProvider
  Asked <- MCAsked
  Rank <- MCRank
  Model <- MCModel
  Position <- MCPosition
  Family <- MCFamily
  Flagship = "weekly fable"
  Report <- MCReport
  Usage <- MCUsage
  MaxReports = 3
SPECIFICATION Spec
INVARIANTS
  LatestPerLabel
  WorstFirst
