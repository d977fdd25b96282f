SPECIFICATION Spec
CONSTANTS
  r1 = r1
  r2 = r2
  Roms = {r1, r2}
  NoRom = "no rom"
  Dirs = {"us"}
  NoDir = "none"
  Bytes = {"FF", "x"}
  FF = "FF"
  Torn = "torn"
  NoFile = NoFile
  Short = Short
  ArrayLen = 2
  ChunkUnits = 64
  BootClass <- MCBootClass
  BootBank <- MCBootBank
  PlayClasses <- MCPlayClasses
  FlakyReads = TRUE
  MaxSessions = 2
INVARIANTS
  TypeOK
  AcceptedIsRecent
  FailedRestoreIsBlank
  CommitOkStands
  RestoresRecent
PROPERTY OwnFilesOnly
