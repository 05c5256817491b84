SPECIFICATION FairSpec
CONSTANTS
  p1 = p1
  p2 = p2
  a1 = a1
  a2 = a2
  a3 = a3
  Proc <- MCProc
  Nobody = Nobody
  Asset <- MCAsset
  NoAsset = NoAsset
  Size <- MCSize
  Quota <- MCQuota
  MaxHolds = 2
  MaxTampers = 1
  MaxCrashes = 1
INVARIANTS
  LeaseIffRegistered
  WithinQuota
  ExtractionDelivers
PROPERTIES
  OnlyLiveUsersPin
  KeepsPromise
