SPECIFICATION Spec
CONSTANTS
  Package <- MCPackage
  MaxChanges = 0
  Chunks = 2
INVARIANT
  InvalidMeansFailed
CHECK_DEADLOCK FALSE
