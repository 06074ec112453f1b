SPECIFICATION FairSpec
CONSTANTS
  r1 = r1
  r2 = r2
  s1 = s1
  s2 = s2
  Requests <- MCRequests
  StopCalls <- TwoStops
  QueueCount = 2
  MaxStarts = 1
  MaxUpdates = 2
INVARIANTS ResetExcludes
PROPERTIES OnlyResetReveals KeepsBarrier ResetEnds StopEnds HeldUpdatesResume
CHECK_DEADLOCK FALSE
