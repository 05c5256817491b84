SPECIFICATION Spec
CONSTANTS
  ProbabilityUnit = 10
  UnitLength = 1
  IdOrder <- MCIdOrder
  Tools = {t1, t2}
  Authored <- MCAuthored
  Initial <- MCInitial
  Note <- MCNote
  Sources <- MCSources
  Additions <- MCAdditions
  Old <- MCOld
  Snapshot <- MCSnapshot
  Activity <- MCActivity
  FrameId <- MCFrameId
  PoseId <- MCPoseId
  Edits <- MCEdits
  Changes <- MCChanges
  Plans <- MCPlans
  MaxEdits = 1
  MaxKills = 1
SYMMETRY Alike
CHECK_DEADLOCK FALSE
INVARIANTS
  NamesWhatIsThere
  PlaysFromArchive
  UnpackedIsValid
