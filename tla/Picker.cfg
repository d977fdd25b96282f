SPECIFICATION PickerSpec
CONSTANTS
  Buttons = {"CROSS", "CIRCLE", "DOWN", "L1"}
  Count = 4
  Available <- MCAvailable
  Rows = 2
  Settle = 2
  GateMax = 3
  HoldMax = 2
  PickerMax = 4
  DetailsMax = 6
  MaxLost = 1
INVARIANTS CursorDrawn
PROPERTIES OldPressNeverExits ConfirmedByNewPress NoScreenForever
CHECK_DEADLOCK FALSE
