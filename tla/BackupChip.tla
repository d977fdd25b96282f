----------------------------- MODULE BackupChip -----------------------------
(***************************************************************************)
(* What class of save chip a cartridge is taken to have, over as many      *)
(* sessions as it is played: gpSP's guess at load time, the changes the    *)
(* running game makes to it, the class its save is committed under, and    *)
(* the gate that decides, at the next launch, whether that save is handed  *)
(* back to it.                                                             *)
(*                                                                         *)
(* The game is what its save library does to the backup bus.  A library is *)
(* a set of command sequences; a session may end between any two writes.   *)
(***************************************************************************)
EXTENDS SaveClass, Sequences

CONSTANTS
  Carts,     \* the cartridges explored; see Cartridge below
  SramBytes  \* the values an SRAM game stores at offset 0x5555

\* A cartridge: the chip on its board, and what gpSP can find out about it.
\*   sig    the library signature in the ROM image ("pokemon": none, but the
\*          game code of that family)
\*   near   the signature is in the first megabyte, which is searched first
\*   db     the flags of its entry in gba_over.h
\*   hack   an altered ROM built on the Pokemon engine
\*   wild   the game follows no library: it may write anything to the window
Cartridge == [chip : Known,
              sig  : {"none", "eeprom", "sram", "flash1m", "flash5", "pokemon"},
              near : BOOLEAN,
              db   : SUBSET {"FLASH_128KB", "EEPROM"},
              hack : BOOLEAN,
              wild : BOOLEAN]

\* What the bus tells apart: the addresses and the values of a write.
Addresses == {"5555", "2AAA", "0", "other"}
Values    == {"AA", "55", "90", "80", "F0", "A0", "B0", "10", "30", "x"}

ASSUME CartsAssumption ==
  Carts \subseteq Cartridge /\ SramBytes \subseteq Values

VARIABLES
  cart,     \* the cartridge in the slot, for the whole behaviour
  stage,    \* "boot", "play" or "off"
  type,     \* backup_type
  bank,     \* flash_bank_cnt
  eep,      \* eeprom_size
  used,     \* eeprom_really_used
  mode,     \* flash_mode
  cmd,      \* flash_command_position
  script,   \* the writes left of the library call the game is in
  changed,  \* the array was written since the baseline
  saved,    \* the class of the save on disk ("UNKNOWN": there is none)
  restored  \* the class of the save this session restored ("UNKNOWN": none)

chipVars == <<cart, stage, type, bank, eep, used, mode, cmd, script, changed,
          saved, restored>>

live == ClassOf(type, bank, eep)

-----------------------------------------------------------------------------
(* gba_memory.c: the guess made while the ROM is loaded.                   *)

\* detect_backup_subcircuit, run when the database named no type.
Detected(c) ==
  CASE c.sig = "pokemon" -> [type |-> "flash", bank |-> "128K"]
    [] c.sig = "eeprom"  -> [type |-> "eeprom", bank |-> "64K"]
    [] c.sig = "sram"    -> [type |-> "sram", bank |-> "64K"]
    [] c.sig = "flash1m" -> [type |-> "flash", bank |-> "128K"]
    [] c.sig = "flash5"  -> [type |-> "flash", bank |-> "64K"]
    [] OTHER             -> [type |-> "unkn", bank |-> "64K"]

\* backup_type_eeprom_guessed.
Guessed(c) == "EEPROM" \notin c.db /\ c.sig = "eeprom" /\ ~c.near

\* load_game_config_over, then the detection, then the override for hacks.  The
\* database's 128 KB flag sets the bank count and leaves the type alone.
BootGuess(c) ==
  LET dbBank == IF "FLASH_128KB" \in c.db THEN "128K" ELSE "64K"
      guess  == IF "EEPROM" \in c.db
                  THEN [type |-> "eeprom", bank |-> dbBank]
                ELSE IF c.sig \in {"none", "eeprom", "sram"}
                  THEN [Detected(c) EXCEPT !.bank = dbBank]
                ELSE Detected(c)
  IN  IF c.hack THEN [type |-> "flash", bank |-> "128K"] ELSE guess

-----------------------------------------------------------------------------
(* gba_memory.c: what the running game does to the guess.                  *)

\* A backup access under a guessed EEPROM type drops the guess, and one under
\* an unknown type settles on SRAM.  TRUE: the access is ignored.
Ignored == type = "eeprom" /\ (~Guessed(cart) \/ used)
Settled == IF type \in {"eeprom", "unkn"} THEN "sram" ELSE type

\* read_backup.
ReadBackup ==
  /\ stage = "play" /\ script = <<>>
  /\ type' = IF Ignored THEN type ELSE Settled
  /\ UNCHANGED <<cart, stage, bank, eep, used, mode, cmd, script, changed,
                 saved, restored>>

\* Where a write to the command port leaves the command sequence.
CommandPosition(v) ==
  IF cmd = 2 THEN 0 ELSE IF cmd = 0 /\ v = "AA" THEN 1 ELSE cmd

\* The write at 0x5555 outside write mode: the command port.
CommandPort(v) ==
  /\ type' = IF cmd = 0 /\ v = "AA" THEN "flash" ELSE Settled
  /\ cmd' = CommandPosition(v)
  /\ mode' = CASE cmd = 2 /\ v = "90" /\ mode = "base"  -> "id"
               [] cmd = 2 /\ v = "80" /\ mode = "base"  -> "erase"
               [] cmd = 2 /\ v = "F0" /\ mode = "id"    -> "base"
               [] cmd = 2 /\ v = "A0" /\ mode = "base"  -> "write"
               [] cmd = 2 /\ v = "B0" /\ mode = "base"  -> "bank"
               [] cmd = 2 /\ v = "10" /\ mode = "erase" -> "base"
               [] OTHER                                 -> mode
  /\ bank' = IF cmd = 2 /\ v = "B0" THEN "128K" ELSE bank
  /\ changed' = (changed \/ (cmd = 2 /\ v = "10" /\ mode = "erase")
                         \/ type' = "sram")

\* Any other write: the second unlock, a sector erase, the bank number, a byte
\* programmed, or a plain SRAM write.
DataPort(a, v) ==
  LET unlock  == a = "2AAA" /\ v = "55" /\ cmd = 1
      erase   == ~unlock /\ cmd = 2 /\ mode = "erase" /\ v = "30"
      swap    == ~unlock /\ ~erase /\ cmd = 0 /\ mode = "bank" /\ a = "0"
                 /\ bank = "128K"
      program == ~unlock /\ ~erase /\ ~swap /\ cmd = 0 /\ mode = "write"
      plain   == ~unlock /\ ~erase /\ ~swap /\ ~program /\ Settled = "sram"
  IN  /\ type' = Settled
      /\ cmd' = IF unlock THEN 2 ELSE IF erase THEN 0 ELSE cmd
      /\ mode' = IF erase \/ swap \/ program THEN "base" ELSE mode
      /\ changed' = (changed \/ erase \/ program \/ plain)
      /\ UNCHANGED bank

\* write_backup.
WriteBackup(a, v) ==
  /\ IF Ignored
       THEN UNCHANGED <<type, bank, mode, cmd, changed>>
       ELSE IF a = "5555" /\ mode # "write" THEN CommandPort(v)
                                            ELSE DataPort(a, v)
  /\ UNCHANGED <<cart, stage, eep, used, saved, restored>>

\* write_eeprom, with the DMA transfer that carries it (dma_transfer setup: a
\* 17-unit request is what tells an 8 KB part from a 512 byte one).
WriteEeprom(size) ==
  /\ stage = "play" /\ script = <<>>
  /\ used' = TRUE /\ type' = "eeprom"
  /\ eep' = IF size = "8K" THEN "8K" ELSE eep
  /\ changed' \in {changed, TRUE}
  /\ UNCHANGED <<cart, stage, bank, mode, cmd, script, saved, restored>>

-----------------------------------------------------------------------------
(* The game (external): the library its chip needs.                        *)

Unlock   == << <<"5555", "AA">>, <<"2AAA", "55">> >>
Command(v) == Unlock \o << <<"5555", v>> >>

FlashCalls == {Command("90"), Command("F0"),
               Command("A0") \o << <<"other", "x">> >>,
               Command("80") \o Unlock \o << <<"other", "30">> >>,
               Command("80") \o Command("10")}
BankCall   == Command("B0") \o << <<"0", "x">> >>

\* A 128 KB library selects the bank before each erase or program.
Calls(chip) ==
  CASE chip = "SRAM"     -> {<< <<"other", "x">> >>}
                            \cup {<< <<"5555", v>> >> : v \in SramBytes}
    [] chip = "FLASH64"  -> FlashCalls
    [] chip = "FLASH128" -> {BankCall \o s : s \in FlashCalls}
    [] OTHER             -> {}

StartCall ==
  /\ stage = "play" /\ script = <<>>
  /\ script' \in Calls(cart.chip)
  /\ UNCHANGED <<cart, stage, type, bank, eep, used, mode, cmd, changed, saved,
                 restored>>

NextWrite ==
  /\ stage = "play" /\ script # <<>>
  /\ WriteBackup(Head(script)[1], Head(script)[2])
  /\ script' = Tail(script)

\* Anything but the bank command, which only a 128 KB library has.
AnyWrite ==
  /\ stage = "play"
  /\ \E a \in Addresses, v \in Values :
       (v = "B0" => cart.chip = "FLASH128") /\ WriteBackup(a, v)
  /\ UNCHANGED script

Guest ==
  IF cart.wild
    THEN \/ ReadBackup \/ AnyWrite
         \/ Family(cart.chip) = "eeprom" /\ \E s \in EepromSizes : WriteEeprom(s)
    ELSE \/ Family(cart.chip) # "eeprom" /\ (ReadBackup \/ StartCall)
         \/ NextWrite
         \/ cart.chip = "EEPROM512" /\ WriteEeprom("512")
         \/ cart.chip = "EEPROM8K" /\ WriteEeprom("8K")

-----------------------------------------------------------------------------
(* A session: load, restore, play, commit.                                 *)

\* The gate of gba_restorefile_with, on the state the load left.
Accepted ==
  saved # "UNKNOWN" /\ CompatibleEv(saved, live, TRUE, EvidenceOf(type, bank))

\* Mutant: no restore supplies the type.
SuppliesNever == FALSE

\* gba_restore_flash64(1): a FLASH64 header restored under an unknown type
\* supplies the type gpSP did not record.
Supplies == Accepted /\ type = "unkn" /\ saved = "FLASH64" /\ bank = "64K"

Restore ==
  /\ stage = "boot" /\ stage' = "play"
  /\ restored' = IF Accepted THEN saved ELSE "UNKNOWN"
  /\ type' = IF Supplies THEN "flash" ELSE type
  /\ changed' = FALSE
  /\ UNCHANGED <<cart, bank, eep, used, mode, cmd, script, saved>>

\* The session ends.  A clean one that modified its save commits it, under the
\* class the cartridge has by then; gba_savefile_commit refuses UNKNOWN.
EndSession(clean) ==
  /\ stage = "play" /\ stage' = "off"
  /\ saved' = IF clean /\ changed /\ live # "UNKNOWN" THEN live ELSE saved
  /\ UNCHANGED <<cart, type, bank, eep, used, mode, cmd, script, changed,
                 restored>>

\* The same cartridge is launched again: reset_gba, then load_gamepak.
Launch ==
  /\ stage = "off" /\ stage' = "boot"
  /\ type' = BootGuess(cart).type /\ bank' = BootGuess(cart).bank
  /\ eep' = "512" /\ used' = FALSE /\ mode' = "base" /\ cmd' = 0
  /\ script' = <<>>
  /\ UNCHANGED <<cart, changed, saved, restored>>

ChipInit ==
  /\ cart \in Carts /\ stage = "boot"
  /\ type = BootGuess(cart).type /\ bank = BootGuess(cart).bank
  /\ eep = "512" /\ used = FALSE /\ mode = "base" /\ cmd = 0
  /\ script = <<>> /\ changed = FALSE
  /\ saved = "UNKNOWN" /\ restored = "UNKNOWN"

ChipNext ==
  \/ Restore
  \/ Guest
  \/ \E clean \in BOOLEAN : EndSession(clean)
  \/ Launch

ChipSpec == ChipInit /\ [][ChipNext]_chipVars

-----------------------------------------------------------------------------
(* Properties.                                                             *)

\* Cartridges whose detection does not contradict the board: the signature is
\* the chip's own or missing, and so is the database's flag.
SigOf(chip) ==
  CASE chip = "SRAM" -> "sram" [] chip = "FLASH64" -> "flash5"
    [] chip = "FLASH128" -> "flash1m" [] OTHER -> "eeprom"

Honest(c) ==
  /\ \/ c.sig \in {"none", SigOf(c.chip)}
     \/ c.chip = "FLASH128" /\ c.sig \in {"pokemon", "flash5"}
  /\ "FLASH_128KB" \in c.db => c.chip = "FLASH128"
  /\ "EEPROM" \in c.db => Family(c.chip) = "eeprom"
  /\ c.hack => c.chip = "FLASH128"

\* Boards whose library signature was linked in but is not the one they use.
Misleading(c) ==
  c.sig = "eeprom" /\ ~c.near /\ c.db = {} /\ ~c.hack /\ Family(c.chip) # "eeprom"

\* Cartridges whose size is known at launch, or becomes known by the restore.
Firm(c) ==
  /\ Honest(c) /\ c.near
  /\ \/ BootGuess(c).type = "flash" /\ BootGuess(c).bank = "128K"
     \/ c.chip \in {"SRAM", "FLASH64"}

\* The cartridges the promises below are made for.
Promised(c) == IF c.wild THEN Firm(c) ELSE Honest(c) \/ Misleading(c)

\* The two cartridges the gate is known to turn away from their own save: one
\* whose EEPROM was guessed from a signature far into the image and is wrong,
\* and a 128 KB flash part nothing announces.
GuessedWrong(c) == Guessed(c) /\ Family(c.chip) # "eeprom"
Unannounced(c)  == c.chip = "FLASH128" /\ BootGuess(c).type = "unkn"
                   /\ BootGuess(c).bank = "64K"

\* A save this program committed for a cartridge is handed back to it at its
\* next launch: the gate of gba_savehdr.c and the class of gba_save.c agree.
OwnSaveAccepted ==
  stage = "boot" /\ saved # "UNKNOWN" /\ ~cart.wild /\ ~GuessedWrong(cart)
    /\ ~Unannounced(cart) => Accepted

\* What is committed is a whole chip's worth: a session that ends before the
\* class is settled never leaves a file shorter than the chip.
WholeChipCommitted ==
  saved # "UNKNOWN" /\ ~cart.wild => Region(saved) >= Region(cart.chip)

\* A session that restored a save never replaces it by a shorter one: no game
\* that follows its library, whatever the detection, and where the cartridge's
\* size is known at the launch or from the restore, no game at all.
RestoredNeverShrinks ==
  [][saved' # saved /\ restored # "UNKNOWN" => Region(saved') >= Region(saved)
    ]_chipVars

\* A chip once known as flash is not taken for SRAM again while the game runs,
\* whatever it writes: a save begun as FLASH64 is not cut to half its length at
\* the commit (gba_memory.c:1137).  Vault takes this of the class it is given.
FlashStaysFlash ==
  [][stage = "play" /\ live = "FLASH64" => live' # "SRAM"]_chipVars

\* README.md: "Your progress is written to the console and survives returning
\* to the picker and relaunching."
SurvivesRelaunch == stage = "boot" /\ saved # "UNKNOWN" => Accepted
=============================================================================
