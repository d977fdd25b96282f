SPECIFICATION Spec
CONSTANTS
  US = US
  EU = EU
  NoDir = NoDir
  Dirs <- MCDirs
  Fallbacks <- MCFallbacks
  Present <- MCBoth
  Contents <- MCContents
  PollTries = 3
  StatResolved = TRUE
  Overlap = TRUE
  MaxDepth = 2
INVARIANTS
  TypeOK
  OpenMeansWritable
  ClosedOkIsDurable
PROPERTIES
  CallReturns
  ImplementsWindow
