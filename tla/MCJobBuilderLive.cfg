SPECIFICATION FairSpec
CONSTANTS
  Job = {j1, j2}
  Builder = {b1, b2}
  MaxCounter = 6
  Counter <- MCCounter
  NoCounter = 0
PROPERTIES
  EveryJobFinishes
  WaitAllReturns
CHECK_DEADLOCK FALSE
