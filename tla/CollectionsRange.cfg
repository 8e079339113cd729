SPECIFICATION Spec
CONSTANTS
  Elem = {"x", "y", "z"}
  Score = {1, 2, 3}
  MaxLen = 4
  MaxIndex = 7
  UsizeSize = 64
INVARIANT LRangeIsRedis
