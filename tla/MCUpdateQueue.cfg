SPECIFICATION FairSpec
CONSTANTS
  u1 = u1
  u2 = u2
  u3 = u3
  p1 = p1
  p2 = p2
  Operations <- MCOperations
  Pauses <- MCPauses
PROPERTIES EveryCallRuns TakesTurns
CHECK_DEADLOCK FALSE
