CONSTANTS
  loop = loop
  page1 = page1
  page2 = page2
  Reader <- MCReader
  SuccessTtl = 2
  BackoffBase = 1
  BackoffCap = 3
  MaxStrikes = 3
  RetryTimes = 1
  RetryAfter <- MCRetryAfter
  MaxTime = 8
SPECIFICATION FairSpec
INVARIANTS
  BackoffRespected
  LastGoodKept
PROPERTIES
  AnswersMoveForward
  AskAnswered
