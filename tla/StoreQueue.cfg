SPECIFICATION Spec
CONSTANTS
  Client = {c1, c2}
  Evictors = {}
  Key = {"a"}
  Commands <- QueueMix
  MinInt = 0
  MaxInt = 1
  MaxTime = 0
  MaxLen = 4
PROPERTY CommandsAreAtomic
