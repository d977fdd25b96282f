------------------------------ MODULE MCVault -------------------------------
EXTENDS Vault

CONSTANTS r1, r2

\* r1 is not recognised when it is loaded, r2 is taken for an SRAM cartridge;
\* either may turn out to have a flash part while it is played.
MCBootClass   == [r \in Roms |-> IF r = r1 THEN "UNKNOWN" ELSE "SRAM"]
MCBootBank    == [r \in Roms |-> "64K"]
MCPlayClasses == [r \in Roms |->
  IF r = r1 THEN {"UNKNOWN", "SRAM", "FLASH64"} ELSE {"SRAM", "FLASH64"}]
=============================================================================
