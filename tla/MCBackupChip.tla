---------------------------- MODULE MCBackupChip ----------------------------
EXTENDS BackupChip

\* Every cartridge the promises are made for.
MCCarts == {c \in Cartridge : Promised(c)}

\* SRAM boards whose library is found at once.
MCSram ==
  {c \in Cartridge : ~c.wild /\ Honest(c) /\ c.chip = "SRAM" /\ c.sig = "sram" /\ c.near}
=============================================================================
