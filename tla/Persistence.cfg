SPECIFICATION Spec
CONSTANTS
  Client = {"c1", "c2"}
  Key = {"a", "b"}
  Stray = "stray"
  Commands <- OwnKeys
  Configs <- LogOrSnapshots
  NoFile = NoFile
  Logs <- OldLogs
  MaxSent = 2
INVARIANTS TypeOK ReplayRestores
PROPERTIES RecoveryIsPast WritesReachTheDisk
