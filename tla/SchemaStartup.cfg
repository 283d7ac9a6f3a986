SPECIFICATION FairSpec
CONSTANTS
  Process = {"api", "worker"}
  Object <- MCObject
  Objects <- MCObjects
  Inline <- MCInline
  Needs <- MCNeeds
  MaxFaults = 2
INVARIANTS TypeOK ServesComplete
PROPERTIES EveryoneServes
CHECK_DEADLOCK FALSE
