SPECIFICATION Spec
CONSTANTS
  Win = 8
  PerBuffer = 1
  Buffers = 3
  Sizes <- MCSizes
  Code <- MCCode
INVARIANTS ProbeClean RightPage CodeInPlace
CHECK_DEADLOCK FALSE
