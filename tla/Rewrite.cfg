SPECIFICATION Spec
CONSTANTS
  Key = {"a", "b"}
  MaxWrites = 3
  MaxRewrites = 2
  NoFile = NoFile
INVARIANTS TypeOK SettledKeysAreLogged
