SPECIFICATION Spec
CONSTANTS
  Win = 8
  PerBuffer = 2
  Buffers = 2
  Sizes <- MCSizes
  Code <- MCEverywhere
INVARIANTS AlwaysAVictim
CHECK_DEADLOCK FALSE
