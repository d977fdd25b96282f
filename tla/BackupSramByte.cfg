SPECIFICATION ChipSpec
CONSTANTS
  Carts <- MCSram
  SramBytes = {"x", "AA"}
INVARIANT SurvivesRelaunch
