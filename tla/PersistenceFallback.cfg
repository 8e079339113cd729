SPECIFICATION Spec
CONSTANTS
  Client = {"c1", "c2"}
  Key = {"a", "b"}
  Stray = "stray"
  Commands <- OwnKeys
  Configs <- LogAddedLater
  NoFile = NoFile
  Logs = {NoFile}
  MaxSent = 3
PROPERTY RdbIsTheFallback
