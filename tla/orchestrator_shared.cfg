SPECIFICATION FairSpec
CONSTANTS
  j1 = j1
  j2 = j2
  x1 = x1
  x2 = x2
  Jobs <- TwoJobs
  Texts <- TwoTexts
  Windows <- SharedWindows
  MaxRetries = 3
  MaxCalls = 2
CHECK_DEADLOCK FALSE
INVARIANTS
  TypeOK
  RecordMatchesOutcome
  CompletedIsAnswered
  AnswersAreReused
PROPERTIES
  KeepsPromise
  CallsEnd
