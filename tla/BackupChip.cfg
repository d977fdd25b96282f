SPECIFICATION ChipSpec
CONSTANTS
  Carts <- MCCarts
  SramBytes = {"x", "55", "90", "B0"}
INVARIANTS
  OwnSaveAccepted
  WholeChipCommitted
PROPERTY RestoredNeverShrinks
