SPECIFICATION Spec
CONSTANTS
  Client = {c1, c2}
  Evictors = {}
  Key = {"a", "b"}
  Commands <- PlainMix
  MinInt = 0
  MaxInt = 2
  MaxTime = 0
  MaxLen = 3
PROPERTY CommandsAreAtomic
