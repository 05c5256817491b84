SPECIFICATION Spec
CONSTANTS
  Parsed <- MCParsed
  Canonical <- MCCanonical
  Portable <- MCPortable
  Safe <- MCSafe
  MaxEntries <- MCMaxEntries
  MaxEntryBytes <- MCMaxEntryBytes
  MaxTotalBytes <- MCMaxTotalBytes
  MaxDimension <- MCMaxDimension
  MaxCells <- MCMaxCells
  Tools = {"0.5.0", "0.3.3"}
  Workspaces <- MCWorkspaces
  Carriers <- MCCarriers
  Files <- MCFiles
  Spots <- MCSpots
  ReleaseName = "vao-release.json"
  Described <- MCDescribed
  Amended <- MCAmended
  MaxAmends = 2
  MaxEdits = 2
  MaxRuns = 2
VIEW View
CHECK_DEADLOCK FALSE
INVARIANTS
  PackedIsSealed
  ReleaseIsClosed
  BytesAgree
PROPERTIES
  OutputIsOurs
