SPECIFICATION Spec
CONSTANTS
  Threads = {g1, g2}
  Sids = {s1, s2}
  Sizes = {1, 2}
  TotalByteSizeLimit = 1
  PerSessionByteSizeLimit = 1
  SessionExpire = 3
  DeadSessionIDExpire = 3
  NormalizeActive = 2
  CleanHalfInterval = 1
  cleanStep = 2
  MaxTime = 4
  MaxSession = 4
SYMMETRY Symmetry
INVARIANTS MemoryAccounted TableConsistent
PROPERTY ReapedOnlyIdle
