CONSTANTS
  MaxCalls = 2
SPECIFICATION FairSpec
INVARIANTS
  DoneAtMostOnce
PROPERTIES
  ActionSettles
  AnswerShows
