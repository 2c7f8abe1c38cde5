SPECIFICATION FairSpec
CONSTANTS
  Object = {o1, o2}
  Asset = {m1, m2}
  MaxFrames = 3
  NoCounter = 0
INVARIANTS
  TypeOK
  WorldExclusive
  DrawnAfterUpdates
  UsesAlive
PROPERTIES
  QuitEnds
  LoadsFinish
CHECK_DEADLOCK FALSE
