------------------------------ MODULE MCPicker ------------------------------
(* Picker on small instances: a list of four rows, a window of two.  Row 1   *)
(* was rejected by the ROM gate.                                             *)
EXTENDS Picker

MCAvailable == {0, 2, 3}
=============================================================================
