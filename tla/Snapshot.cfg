SPECIFICATION Spec
CONSTANTS
  Client = {"c1"}
  Key = {"a"}
  Changes = 1
  MaxWrites = 2
  MaxTime = 1
  NoFile = NoFile
INVARIANTS TypeOK SavedFileIsWhole OnlyRacedWritesAreUnsaved
PROPERTY ChangesAreSaved
