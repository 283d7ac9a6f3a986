SPECIFICATION Spec
CONSTANTS
  Session = {s1}
  N = 2
  Worker = {w1, w2}
  Manual = {}
  Scores = {9}
  PASS_THRESHOLD = 7
  MAX_ATTEMPTS = 2
  BATCH_SIZE = 2
  MaxCrashes = 0
  MaxContests = 1
  Null = Null
  Malformed = Malformed
  ProviderError = ProviderError
SYMMETRY WorkerSymmetry
INVARIANT StampedOnce
