SPECIFICATION Spec
CONSTANTS
  Count = 2
  K = 1
  IndexMod = 2
  a = a
  b = b
  c = c
  zero = zero
  groupA = groupA
  groupB = groupB
  NoJob = NoJob
  NoCounter = NoCounter
  Main = Main
  Free = Free
  Job <- MCJob
  Counter <- MCCounter
  Dep <- MCDep
  Acc <- MCAcc
  Program <- MCProgram
INVARIANTS
  TypeOK
  JobConservation
  NothingStranded
  NoLostWakeup
PROPERTY
  ImplementsPool
