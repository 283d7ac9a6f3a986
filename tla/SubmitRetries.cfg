SPECIFICATION FairSpec
CONSTANTS
  N = 2
  Text = {yes, no}
  Blank = Blank
  Prompt = TRUE
  MaxUtterances = 3
  MaxStarts = 2
  MaxFaults = 2
CHECK_DEADLOCK FALSE
INVARIANTS TypeOK NoUtteranceTwice Aligned AgentInStep CountIsCurrent
PROPERTY ToolCallEnds
