SPECIFICATION Spec
CONSTANTS
  Job = {j1, j2, j3}
  Builder = {b1, b2}
  MaxCounter = 7
  Counter <- MCCounter
  NoCounter = 0
SYMMETRY Symmetry
INVARIANTS
  TypeOK
  ZeroMeansDone
  StartsInOrder
PROPERTY
  ClosedOnlyFalls
CHECK_DEADLOCK FALSE
