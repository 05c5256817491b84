SPECIFICATION FairSpec
CONSTANTS
  MaxBegins = 2
  MaxUndos = 1
  MaxLoads = 1
INVARIANTS
  MediaIsAuthorized
  DetachedDataStaysSelectable
  SceneIsCurrentUntilUndo
PROPERTIES
  ValidationEnds
