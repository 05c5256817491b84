SPECIFICATION DraftSpec
CONSTANTS
  Drafts <- MCDrafts
  Edits <- MCEdits
  MaxChanges = 3
  MaxDimension <- MCMaxDimension
  MaxCells <- MCMaxCells
CHECK_DEADLOCK FALSE
INVARIANTS
  ProvenanceIsCausal
  SynchronizationIsAFunction
  PlayedRecordsAreUsable
  MigrationInventsNothing
