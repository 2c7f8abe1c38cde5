SPECIFICATION FairSpec
CONSTANTS
  Mesh = {m1, m2}
  Texture = {t1}
  Caller = {c1, c2}
  Free = Free
INVARIANTS
  TypeOK
  NeverHalfLoaded
  LoadOnce
PROPERTY
  AskedIsLoaded
