SPECIFICATION Spec
CONSTANTS
  a = a
  b = b
  None = None
  Roms <- MCRoms
  Arena = 4
  MaxIters = 4
  Warmup = 2
  ProbeEvery = 2
  ExitHold = 2
  MaxSessions = 2
INVARIANTS NoSessionStopsTheNext OneCartridge
PROPERTIES SavedByThePlayer SessionEnds KeepsPromise
CHECK_DEADLOCK FALSE
