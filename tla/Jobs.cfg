SPECIFICATION Spec
CONSTANTS
  a = a
  b = b
  None = None
  MaxJobs = 2
  Roms <- MCRoms
  Last <- MCLast
  Size <- MCSize
  Requests <- MCRequests
INVARIANTS RecordMeansWhole
PROPERTIES KeepsPromise LoaderComesBack JobSettles
CHECK_DEADLOCK FALSE
