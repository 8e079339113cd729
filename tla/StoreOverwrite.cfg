SPECIFICATION Spec
CONSTANTS
  Client = {c1}
  Evictors = {ev}
  Key = {"a"}
  Commands <- OverwriteMix
  MinInt = 0
  MaxInt = 1
  MaxTime = 2
  MaxLen = 4
PROPERTY ExpiryTakesOnlyTheExpired
