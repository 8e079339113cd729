SPECIFICATION Spec
CONSTANTS
  Client = {c1}
  Evictors = {}
  Key = {"a", "b"}
  Commands <- SoloMix
  MinInt = 0
  MaxInt = 2
  MaxTime = 3
  MaxLen = 4
INVARIANT NoOrphanTtl
