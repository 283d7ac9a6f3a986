SPECIFICATION FairSpec
CONSTANTS
  Session = {s1}
  N = 2
  Worker = {w1, w2}
  Manual = {m1}
  Scores = {9}
  PASS_THRESHOLD = 7
  MAX_ATTEMPTS = 2
  BATCH_SIZE = 2
  MaxCrashes = 1
  MaxContests = 1
  Null = Null
  Malformed = Malformed
  ProviderError = ProviderError
INVARIANTS TypeOK CompletedIffGraded FailedAfterAllAttempts ExclusiveWork JobTellsOutcome CleanStamp
PROPERTIES GradeNeverErased ImplementsLedger EveryAnswerSettled
