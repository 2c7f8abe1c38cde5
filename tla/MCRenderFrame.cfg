SPECIFICATION FairSpec
CONSTANTS
  NumFrames = 2
  MaxFence = 3
  MaxMade = 1
  None = None
  t = t
  l = l
  s = s
  d = d
  Temp <- MCTemp
  List <- MCList
  Size <- MCSize
  Desc <- MCDesc
  Slot <- MCSlot
  Resource <- MCResource
INVARIANTS TypeOK NothingExecuting UsedIsAlive BarriersMatch
PROPERTIES WritesWhenIdle EveryWaitEnds
CHECK_DEADLOCK FALSE
