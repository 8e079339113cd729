SPECIFICATION Spec
CONSTANTS
  Client = {"c1", "c2"}
  Quitters = {"c1"}
  Word = {"INFO", "EXPIRE", "GET", "txt", "big", "other"}
  Menu <- MCMenu
  MaxRequests <- MCMaxRequests
INVARIANTS TypeOK AnswersFollowRequests GaugeCountsConnections SnapshotAddsUp SetFollowsItsGrammar
PROPERTY TasksKeepUp
CHECK_DEADLOCK FALSE
