SPECIFICATION SceneSpec
CONSTANTS
  Asset = {"organ", "case"}
  Marker = {"source"}
  MaxEdits = 1
  MaxAlike = 2
CHECK_DEADLOCK FALSE
VIEW Seen
INVARIANTS
  NothingLeftBehind
PROPERTIES
  SparesTheUser
  FailureLeavesNothing
