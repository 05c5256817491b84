SPECIFICATION Spec
CONSTANTS
  c1 = c1
  c2 = c2
  NoConfig = NoConfig
  Config <- MCConfig
  Inputs <- MCInputs
CHECK_DEADLOCK FALSE
INVARIANTS
  SupportedIfUnambiguous
  OneVoicePerStroke
