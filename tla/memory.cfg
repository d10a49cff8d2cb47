SPECIFICATION Spec
CONSTANTS
  t1 = t1
  t2 = t2
  d1 = d1
  Threads <- MCThreads
  Descs <- MCDescs
  blocks_per_arena = 2
  BigCnts = {2}
  GroupCnts = {1}
  PageCnt = 3
  MaxHeld = 3
  Values = {0}
  Junk = Junk
  NoOne = NoOne
  None = None
SYMMETRY Symmetry
INVARIANTS
  MemoryAccounted
  RefusedOnlyWhenFull
PROPERTIES
  ImplementsHeap
