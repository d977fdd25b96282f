----------------------------- MODULE SaveClass ------------------------------
(***************************************************************************)
(* The save classes and the gate that decides whether a save file may be   *)
(* restored: gba_savehdr.c, and the two copies of "which class is the      *)
(* cartridge now" in gba_save.c and gba_restore.c.                         *)
(*                                                                         *)
(* Sizes are in units of 512 bytes, the smallest declared size.            *)
(***************************************************************************)
EXTENDS Integers

Classes == {"UNKNOWN", "SRAM", "FLASH64", "FLASH128", "EEPROM512", "EEPROM8K"}
Known   == Classes \ {"UNKNOWN"}

\* gpSP's classification globals: backup_type, flash_bank_cnt, eeprom_size.
BankCounts  == {"64K", "128K"}
EepromSizes == {"512", "8K"}

\* Mutant: the bank count is not looked at.
ClassOfNoBank(type, bank, eep) ==
  CASE type = "sram"   -> "SRAM"
    [] type = "flash"  -> "FLASH64"
    [] type = "eeprom" -> IF eep = "8K" THEN "EEPROM8K" ELSE "EEPROM512"
    [] type = "unkn"   -> "UNKNOWN"

\* gs_class_now and gba_restore_live_class.
ClassOf(type, bank, eep) ==
  CASE type = "sram"   -> "SRAM"
    [] type = "flash"  -> IF bank = "128K" THEN "FLASH128" ELSE "FLASH64"
    [] type = "eeprom" -> IF eep = "8K" THEN "EEPROM8K" ELSE "EEPROM512"
    [] type = "unkn"   -> "UNKNOWN"

\* gs_declared_of and gba_savehdr_declared_of: the chip's own size.
Declared(cls) ==
  CASE cls = "SRAM"      -> 64
    [] cls = "FLASH64"   -> 128
    [] cls = "FLASH128"  -> 256
    [] cls = "EEPROM512" -> 1
    [] cls = "EEPROM8K"  -> 16
    [] OTHER             -> 0

\* GBA_SAVE_BACKUP_BYTES: gpSP's backup array.
BackupSize == 256

\* gs_region_of and gba_savehdr_region_of: what a .sav file holds.  Both EEPROM
\* parts get the larger one's, since the size is not known before it is used.
Region(cls) ==
  LET n == IF cls \in {"EEPROM512", "EEPROM8K"} THEN 16 ELSE Declared(cls)
  IN  IF n > BackupSize THEN BackupSize ELSE n

\* gba_savehdr_family.
Family(cls) ==
  CASE cls = "SRAM"                       -> "sram"
    [] cls \in {"FLASH64", "FLASH128"}    -> "flash"
    [] cls \in {"EEPROM512", "EEPROM8K"}  -> "eeprom"
    [] OTHER                              -> "none"

\* gba_savehdr_compatible_ev.  Evidence is what may be weighed while the live
\* class is still UNKNOWN: "DB128", the database asserts a 128 KB flash part;
\* "F64", nothing contradicts a 64 KB one.
Evidence == {"DB128", "F64"}

\* Mutant: the cell for a 128 KB part asserted by the database is missing.
CompatibleEvNoDB(hdr, live, romBound, ev) ==
  /\ Family(hdr) # "none"
  /\ \/ Family(live) # "none" /\ Family(hdr) = Family(live)
     \/ /\ Family(live) = "none" /\ romBound
        /\ \/ Family(hdr) \in {"eeprom", "sram"}
           \/ hdr = "FLASH64" /\ "F64" \in ev

CompatibleEv(hdr, live, romBound, ev) ==
  /\ Family(hdr) # "none"
  /\ \/ Family(live) # "none" /\ Family(hdr) = Family(live)
     \/ /\ Family(live) = "none" /\ romBound
        /\ \/ Family(hdr) \in {"eeprom", "sram"}
           \/ hdr = "FLASH128" /\ "DB128" \in ev
           \/ hdr = "FLASH64" /\ "F64" \in ev

\* gba_restore_db_flash128 and gba_restore_flash64(0).
EvidenceOf(type, bank) ==
  {e \in Evidence : type = "unkn" /\ bank = IF e = "DB128" THEN "128K"
                                                           ELSE "64K"}
=============================================================================
