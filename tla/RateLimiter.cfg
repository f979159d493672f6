SPECIFICATION FairSpec
CONSTANTS
  Keys = {k1, k2, k3}
  Limit = 2
  Window = 3
  SweepEvery = 3
  MaxKeys = 2
INVARIANTS TypeOK MemoryBounded
PROPERTIES ImplementsSlidingWindow NoPermanentLockout
