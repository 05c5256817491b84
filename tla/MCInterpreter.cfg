SPECIFICATION Spec
CONSTANTS
  None = None
  on = on
  level = level
  single = single
  chance = chance
  pair = pair
  dice = dice
  MaxTotal = 10
  Manifests <- MCManifests
  Traces <- MCTraces
  Words <- MCWords
CHECK_DEADLOCK FALSE
INVARIANTS
  AcceptedTripsOnlyAtRun
  StateInDomain
  ReplayAgrees
PROPERTIES
  PoliciesDecide
  ExecutionEnds
