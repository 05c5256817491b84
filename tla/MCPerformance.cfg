SPECIFICATION FairSpec
CONSTANTS
  g1 = g1
  g2 = g2
  c1 = c1
  c2 = c2
  s1 = s1
  s2 = s2
  s3 = s3
  Gate <- MCGate
  NoGate = NoGate
  Config <- MCConfig
  Sound <- MCSound
  Plans <- MCPlans
  MaxPolyphony = 2
  MaxSounds = 2
  MaxPreviews = 1
  Independent <- MCIndependent
INVARIANTS
  NeededSoundsHeld
PROPERTIES
  NoPartialGate
  NoStuckNotes
