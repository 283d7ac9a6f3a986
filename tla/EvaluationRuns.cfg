SPECIFICATION Spec
CONSTANTS
  Run = {r1, r2, r3}
  N = 2
  Reply = {4, 9}
  None = None
INVARIANTS TypeOK CommittedCovers
PROPERTIES RerunIdempotent ReportIsStored
CHECK_DEADLOCK FALSE
