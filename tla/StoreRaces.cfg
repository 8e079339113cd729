SPECIFICATION Spec
CONSTANTS
  Client = {c1, c2}
  Evictors = {ev}
  Key = {"a"}
  Commands <- RacesMix
  MinInt = 0
  MaxInt = 1
  MaxTime = 1
  MaxLen = 2
INVARIANTS TypeOK EmptyIsClaimed
PROPERTIES TypeNeverFlips ExpiredKeysGoAway
