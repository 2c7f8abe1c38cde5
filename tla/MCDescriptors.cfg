SPECIFICATION Spec
CONSTANTS
  c1 = c1
  z2 = z2
  z1 = z1
  Made = {c1, z2, z1}
  ViewsOf <- MCViewsOf
  NumFrames = 2
  HeapSize <- MCHeapSize
  NumTables = 2
  Width <- MCWidth
  MaxWidth = 2
  RingSize = 4
  None = None
  MaxUsed = 1
  MaxRebuilds = 1
INVARIANTS
  TypeOK
  OneOwner
  TablesIntact
SYMMETRY MCSymmetry
VIEW MCView
