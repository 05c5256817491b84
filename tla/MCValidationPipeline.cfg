SPECIFICATION FairSpec
CONSTANTS
  Package <- MCPackage
  MaxChanges = 1
  Chunks = 2
CHECK_DEADLOCK FALSE
INVARIANTS
  PassedSourceIsStable
  OutcomeIsDeserved
  CancelStopsReading
PROPERTIES
  ValidationReturns
