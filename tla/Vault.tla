------------------------------- MODULE Vault --------------------------------
(***************************************************************************)
(* The persistent saves of the cartridges, over any number of sessions:    *)
(* identity latch, validation, restore, play and commit (gba_save.c,       *)
(* gba_restore.c, gba_restorefile.c, gba_savefile.c and the session steps  *)
(* 452-458 of main.c), on top of the write window of SaveWindow.           *)
(*                                                                         *)
(* A save is two files per cartridge, <ID>.sav and <ID>.hdr; the header is *)
(* written last and carries the payload's hash.  A hash is modelled by     *)
(* what it is a hash of: two payloads hash alike only if they are equal.   *)
(***************************************************************************)
EXTENDS SaveClass, Sequences

CONSTANTS
  Roms,        \* the cartridges (identified by content: gs_id)
  NoRom,       \* no identity latched
  Dirs, NoDir, \* the regions of the savedata container
  Bytes, FF,   \* what a chunk of the backup array can hold; the blank chunk
  Torn,        \* a chunk cut short by a failed write
  NoFile,      \* the file does not exist
  Short,       \* a header that is not 32 bytes
  ArrayLen,    \* the chunks of the backup array the cartridges can use
  ChunkUnits,  \* the chunk size, in the units of SaveClass
  BootClass,   \* the class each cartridge is taken to have when loaded
  BootBank,    \* flash_bank_cnt when it is loaded
  PlayClasses, \* the classes it may have during a session
  FlakyReads,  \* a read of the files may fail
  MaxSessions  \* bound: sessions explored

Chunks(cls) == Region(cls) \div ChunkUnits

Played == UNION {PlayClasses[r] : r \in Roms}

ASSUME VaultAssumption ==
  /\ FF \in Bytes /\ Torn \notin Bytes
  /\ NoDir \notin Dirs /\ NoRom \notin Roms
  /\ BootClass \in [Roms -> Classes] /\ BootBank \in [Roms -> BankCounts]
  /\ PlayClasses \in [Roms -> SUBSET Classes]
  /\ ChunkUnits \in Nat \ {0} /\ ArrayLen \in Nat /\ MaxSessions \in Nat
  /\ \A r \in Roms : BootClass[r] \in PlayClasses[r]
  /\ \A c \in Played : Chunks(c) <= ArrayLen

Arrays   == [1 .. ArrayLen -> Bytes]
Blank    == [i \in 1 .. ArrayLen |-> FF]
\* gba_save_chunk: the first region bytes of the array, chunk by chunk.
Payload(a, cls) == SubSeq(a, 1, Chunks(cls))

\* A save: a known class and a payload as long as its region.  A header also
\* says of which cartridge.
Saves   == {v \in [cls : Played \ {"UNKNOWN"}, pay : Seq(Bytes)] :
              Len(v.pay) = Chunks(v.cls)}
Headers == {h \in [rom : Roms, cls : Played \ {"UNKNOWN"}, pay : Seq(Bytes)] :
              Len(h.pay) = Chunks(h.cls)}
ASSUME FilesAssumption == NoFile \notin Headers /\ Short \notin Headers

HeaderOf(r, v) == [rom |-> r, cls |-> v.cls, pay |-> v.pay]
NoFiles == [sav |-> NoFile, hdr |-> NoFile]

VARIABLES
  phase, view, attached, image, container, closeRc, \* SaveWindow
  step,       \* where the session is
  rom,        \* the cartridge loaded
  id,         \* gs_id: the latched identity (NoRom: not latched)
  array,      \* gamepak_backup
  latchBase,  \* gs_base_hash: the array when the identity was latched
  base,       \* gr_base_hash: the array when play began
  cls,        \* the class of the cartridge now
  hdr,        \* the header the running restore accepted
  off,        \* chunks read or written by the running pass
  inner,      \* the first error of the running commit
  commitRc,   \* what gba_savefile_commit returned
  restoreRc,  \* what gba_restorefile_run returned
  sessions,   \* sessions started
  recent,     \* history: the saves of each cartridge a restore may hand back
  sure        \* history: the last attempt to write it was reported OK

windowVars  == <<phase, view, attached, image, container, closeRc>>
sessionVars == <<rom, id, array, latchBase, base, cls, hdr, sessions>>
history     == <<recent, sure>>
vars == <<windowVars, sessionVars, step, off, inner, commitRc, restoreRc,
          history>>

Window == INSTANCE SaveWindow WITH Contents <- {}

Idle == UNCHANGED windowVars

-----------------------------------------------------------------------------
(* Load and latch (main.c steps 449-451, gba_save_latch).                  *)

\* A cartridge is chosen and loaded; the array is blank and the identity is
\* latched unless one still is.
Load(r) ==
  /\ step = "picker" /\ step' = "details"
  /\ sessions < MaxSessions /\ sessions' = sessions + 1
  /\ rom' = r /\ array' = Blank /\ cls' = BootClass[r]
  /\ IF id = NoRom THEN id' = r /\ latchBase' = Blank
                   ELSE UNCHANGED <<id, latchBase>>
  /\ base' = Blank
  /\ UNCHANGED <<windowVars, hdr, off, inner, commitRc, restoreRc, history>>

\* m16c_boundary: gba_session_end unlatches the identity, and a boundary that
\* still finds one latched does not return to the picker.  The session's own
\* results go out of scope.
Boundary ==
  /\ id' = NoRom /\ latchBase' = Blank /\ base' = Blank
  /\ hdr' = NoFile /\ off' = 0 /\ inner' = "OK"
  /\ commitRc' = "none" /\ restoreRc' = "none"
  /\ step' = "picker"

\* Mutant: the boundary is skipped.
CancelLatched ==
  /\ step = "details" /\ step' = "picker"
  /\ UNCHANGED <<windowVars, sessionVars, off, inner, commitRc, restoreRc,
                 history>>

\* CIRCLE on the details screen.
Cancel ==
  /\ step = "details"
  /\ Boundary
  /\ UNCHANGED <<windowVars, rom, array, cls, sessions, history>>

-----------------------------------------------------------------------------
(* gba_restorefile_with                                                    *)

\* The two files of the latched identity, as the mounted container shows them.
Files == IF view = NoDir THEN NoFiles ELSE container[view][id]

\* Mutant: only the length is compared.
PayloadMatchesLength(h, data) == Len(data) = Len(h.pay)

\* PAYFNV of the header against the hash of what was read.
PayloadMatches(h, data) == data = h.pay

\* What gba_restore_live_class and the evidence are computed from.
TypeOf(c) == IF c = "UNKNOWN" THEN "unkn" ELSE Family(c)

\* The ladder above PASS 1, in its order.
Refusal(files) ==
  CASE files.hdr = NoFile /\ files.sav = NoFile -> "ENOSAVE"
    [] files.hdr = NoFile /\ files.sav # NoFile -> "EORPHANSAV"
    [] files.hdr # NoFile /\ files.sav = NoFile -> "EORPHANHDR"
    [] files.hdr = Short /\ files.sav # NoFile  -> "EHDRSIZE"
    [] OTHER ->
         IF files.hdr.rom # id THEN "EROMID"
         ELSE IF ~CompatibleEv(files.hdr.cls, cls, TRUE,
                               EvidenceOf(TypeOf(cls), BootBank[rom]))
           THEN "EINCOMPAT"
         ELSE "OK"

\* PASS 1 reads the whole .sav and proves it before anything is touched.
Proof(files) ==
  IF Len(files.sav) < Chunks(files.hdr.cls) THEN "ESHORTREAD"
  ELSE IF Len(files.sav) > Chunks(files.hdr.cls) THEN "ESAVSIZE"
  ELSE IF ~PayloadMatches(files.hdr, files.sav) THEN "EPAYFNV"
  ELSE "OK"

Verdict(files) ==
  IF Refusal(files) # "OK" THEN Refusal(files) ELSE Proof(files)

RestoreRead ==
  /\ step = "details" \* STAGE 1: the operator starts the game
  /\ \/ restoreRc' = Verdict(Files)
     \/ FlakyReads /\ Refusal(Files) = "OK" /\ restoreRc' = "ESHORTREAD"
  /\ IF restoreRc' = "OK"
       THEN step' = "apply" /\ hdr' = Files.hdr
       ELSE step' = "restored" /\ UNCHANGED hdr
  /\ off' = 0
  /\ UNCHANGED <<windowVars, rom, id, array, latchBase, base, cls, sessions,
                 inner, commitRc, history>>

\* Mutant: what was applied is left in place.
RollbackNothing == UNCHANGED array

\* gba_restore_rollback.
Rollback == array' = Blank

\* Mutant: a read of nothing ends the second pass, and nobody counts the bytes.
ApplyChunkShort ==
  /\ step = "apply" /\ off < Chunks(hdr.cls) /\ step' = "restored"
  /\ UNCHANGED <<windowVars, rom, id, array, latchBase, base, cls, hdr, off,
                 sessions, restoreRc, inner, commitRc, history>>

\* PASS 2 reads the .sav again and applies it piecewise; what was applied is
\* hashed, and anything but the proven payload is rolled back.
ApplyChunk ==
  /\ step = "apply" /\ off < Chunks(hdr.cls)
  /\ LET files == Files IN
     \/ /\ files.sav # NoFile /\ off < Len(files.sav)
        /\ files.sav[off + 1] # Torn
        /\ array' = [array EXCEPT ![off + 1] = files.sav[off + 1]]
        /\ off' = off + 1
        /\ UNCHANGED <<step, restoreRc>>
     \/ /\ \/ FlakyReads \/ files.sav = NoFile
           \/ files.sav # NoFile /\ off >= Len(files.sav)
           \/ files.sav # NoFile /\ off < Len(files.sav)
              /\ files.sav[off + 1] = Torn
        /\ Rollback
        /\ step' = "restored" /\ restoreRc' = "EAPPLY"
        /\ UNCHANGED off
  /\ UNCHANGED <<windowVars, rom, id, latchBase, base, cls, hdr, sessions,
                 inner, commitRc, history>>

\* The FLASH64 activation comes last.
Activates == hdr.cls = "FLASH64" /\ cls = "UNKNOWN"

ApplyEnd ==
  /\ step = "apply" /\ off = Chunks(hdr.cls) /\ step' = "restored"
  /\ IF PayloadMatches(hdr, SubSeq(array, 1, off))
       THEN /\ cls' = IF Activates THEN "FLASH64" ELSE cls
            /\ UNCHANGED <<array, restoreRc>>
       ELSE Rollback /\ restoreRc' = "EAPPLY" /\ UNCHANGED cls
  /\ UNCHANGED <<windowVars, rom, id, latchBase, base, hdr, sessions, off,
                 inner, commitRc, history>>

-----------------------------------------------------------------------------
(* Play                                                                    *)

\* gba_restore_baseline: play begins.
Begin ==
  /\ step = "restored" /\ step' = "play"
  /\ base' = array
  /\ UNCHANGED <<windowVars, rom, id, array, latchBase, cls, hdr, sessions, off,
                 inner, commitRc, restoreRc, history>>

\* The game writes its backup memory; its class is settled as it does.
Play ==
  /\ step = "play"
  /\ array' \in Arrays
  /\ cls' \in PlayClasses[rom]
  /\ cls = "FLASH64" => cls' # "SRAM"
  /\ UNCHANGED <<windowVars, step, rom, id, latchBase, base, hdr, sessions, off,
                 inner, commitRc, restoreRc, history>>

\* The session ends.  Only a clean one whose array changed since play began is
\* committed (step 456).
EndPlay(clean) ==
  /\ step = "play"
  /\ step' = IF clean /\ array # base THEN "commit" ELSE "done"
  /\ UNCHANGED <<windowVars, sessionVars, off, inner, commitRc, restoreRc,
                 history>>

-----------------------------------------------------------------------------
(* gba_savefile_commit                                                     *)

\* Mutant: a class that is still unknown is committed.
CommitOpenUnknown ==
  /\ step = "commit" /\ step' = "opening"
  /\ array # latchBase
  /\ Window!Request
  /\ UNCHANGED <<sessionVars, off, inner, commitRc, restoreRc, history>>

\* The ladder above the window.
CommitRefuse ==
  /\ step = "commit" /\ step' = "done"
  /\ \/ cls = "UNKNOWN" /\ commitRc' = "EUNKNOWN"
     \/ cls # "UNKNOWN" /\ array = latchBase /\ commitRc' = "ENOTDIRTY"
  /\ UNCHANGED <<windowVars, sessionVars, off, inner, restoreRc, history>>

CommitOpen ==
  /\ step = "commit" /\ step' = "opening"
  /\ cls # "UNKNOWN" /\ array # latchBase
  /\ Window!Request
  /\ UNCHANGED <<sessionVars, off, inner, commitRc, restoreRc, history>>

CommitGranted ==
  /\ step = "opening"
  /\ \/ step' = "sav" /\ \E d \in Dirs : Window!Grant(d)
        /\ UNCHANGED commitRc
     \/ step' = "done" /\ commitRc' = "EWINDOW"
        /\ \E d \in Dirs \cup {NoDir} : Window!Refuse(d)
  /\ inner' = "OK" /\ off' = 0
  /\ UNCHANGED <<sessionVars, restoreRc, history>>

\* The .sav and the .hdr of the latched identity in the open window.
StoreSav(data) == Window!Store([image EXCEPT ![id].sav = data])
StoreHdr(data) == Window!Store([image EXCEPT ![id].hdr = data])

ThisSave == [cls |-> cls, pay |-> Payload(array, cls)]

\* plat_savedata_mkdir, then fopen(sav, "wb"), which truncates.
OpenSav ==
  /\ step = "sav"
  /\ \/ /\ \E e \in {"EMKDIR", "EOPEN"} : inner' = e
        /\ step' = "close" /\ Idle /\ UNCHANGED history
     \/ /\ step' = "write" /\ StoreSav(<<>>)
        /\ recent' = [recent EXCEPT ![id] = @ \cup {ThisSave}]
        /\ sure' = [sure EXCEPT ![id] = FALSE]
        /\ UNCHANGED inner
  /\ UNCHANGED <<sessionVars, off, commitRc, restoreRc>>

\* One chunk is written, or cut short (the file is closed then, and kept); or
\* the final flush reports that some of it never reached the file.
WriteChunk ==
  /\ step = "write"
  /\ \/ /\ off < Chunks(cls) /\ off' = off + 1
        /\ StoreSav(Append(image[id].sav, array[off + 1]))
        /\ UNCHANGED <<step, inner>>
     \/ /\ off < Chunks(cls) /\ UNCHANGED off
        /\ StoreSav(Append(image[id].sav, Torn))
        /\ inner' = "EWRITE" /\ step' = "close"
     \/ /\ off = Chunks(cls) /\ UNCHANGED off
        /\ Idle /\ UNCHANGED inner /\ step' = "hdr"
     \/ /\ off = Chunks(cls) /\ UNCHANGED off
        /\ \E n \in 0 .. off - 1 : StoreSav(SubSeq(image[id].sav, 1, n))
        /\ inner' = "EWRITE" /\ step' = "close"
  /\ UNCHANGED <<sessionVars, commitRc, restoreRc, history>>

\* The header, last: not opened, cut short, or whole.
WriteHdr ==
  /\ step = "hdr" /\ step' = "close"
  /\ \/ Idle /\ inner' = "EHDR"
     \/ StoreHdr(Short) /\ inner' = "EHDR"
     \/ /\ StoreHdr(HeaderOf(id, ThisSave))
        /\ UNCHANGED inner
  /\ UNCHANGED <<sessionVars, off, commitRc, restoreRc, history>>

\* The window is closed on every path.
CommitClose ==
  /\ step = "close" /\ step' = "closing"
  /\ Window!Detach
  /\ UNCHANGED <<sessionVars, off, inner, commitRc, restoreRc, history>>

\* Mutant: the commit reports the window's result only.
OutcomeOfWindow(endRc) ==
  IF endRc = "ERESTORE" THEN "ERESTORE"
  ELSE IF endRc # "OK" THEN "ECOMMIT"
  ELSE "OK"

\* What the commit reports: its own first error, then the window's.
Outcome(endRc) ==
  IF inner # "OK" THEN inner
  ELSE IF endRc = "ERESTORE" THEN "ERESTORE"
  ELSE IF endRc # "OK" THEN "ECOMMIT"
  ELSE "OK"

CommitReport ==
  /\ step = "closing" /\ step' = "done"
  /\ \E rc \in Window!CloseCodes, d \in Dirs \cup {NoDir} :
       Window!Report(rc, d) /\ commitRc' = Outcome(rc)
  /\ IF commitRc' = "OK"
       THEN recent' = [recent EXCEPT ![id] = {ThisSave}]
            /\ sure' = [sure EXCEPT ![id] = TRUE]
       ELSE UNCHANGED history
  /\ UNCHANGED <<sessionVars, off, inner, restoreRc>>

-----------------------------------------------------------------------------
\* The session is over: a read-only mount that did not come back stops the
\* program; every other ending, good or bad, returns to the picker.
Finish ==
  /\ step = "done"
  /\ IF commitRc = "ERESTORE"
       THEN step' = "dead" /\ UNCHANGED <<id, latchBase, base, hdr, off, inner,
                                          commitRc, restoreRc>>
       ELSE Boundary
  /\ UNCHANGED <<windowVars, rom, array, cls, sessions, history>>

\* The asynchronous unmount completes (external).
Land ==
  /\ Window!Land
  /\ UNCHANGED <<sessionVars, step, off, inner, commitRc, restoreRc, history>>

\* The console is powered off, at any moment, and the program started again
\* (external).  Nothing volatile survives.  If a window was open or its unmount
\* in flight, each file it wrote may be the old one or the new one.
PowerCycle ==
  /\ sessions > 0
  /\ container' \in
       IF attached = NoDir THEN {container}
       ELSE {[container EXCEPT ![attached] =
                [r \in Roms |->
                   [sav |-> IF s THEN image[r].sav ELSE container[attached][r].sav,
                    hdr |-> IF h THEN image[r].hdr
                            ELSE container[attached][r].hdr]]] :
             s \in BOOLEAN, h \in BOOLEAN}
  /\ phase' = "idle" /\ attached' = NoDir /\ closeRc' = "none"
  /\ view' \in Dirs /\ image' = container'[view']
  /\ step' = "picker" /\ id' = NoRom
  /\ array' = Blank /\ latchBase' = Blank /\ base' = Blank
  /\ hdr' = NoFile /\ off' = 0 /\ inner' = "OK" /\ cls' = "UNKNOWN"
  /\ commitRc' = "none" /\ restoreRc' = "none"
  /\ UNCHANGED <<rom, sessions, history>>

Init ==
  /\ Window!WindowStart
  /\ container = [d \in Dirs |-> [r \in Roms |-> NoFiles]]
  /\ image = [r \in Roms |-> NoFiles]
  /\ step = "picker" /\ rom \in Roms /\ id = NoRom
  /\ array = Blank /\ latchBase = Blank /\ base = Blank
  /\ cls = "UNKNOWN" /\ hdr = NoFile /\ off = 0
  /\ inner = "OK" /\ commitRc = "none" /\ restoreRc = "none" /\ sessions = 0
  /\ recent = [r \in Roms |-> {}] /\ sure = [r \in Roms |-> FALSE]

Next ==
  \/ \E r \in Roms : Load(r)
  \/ Cancel \/ RestoreRead \/ ApplyChunk \/ ApplyEnd \/ Begin \/ Play
  \/ \E clean \in BOOLEAN : EndPlay(clean)
  \/ CommitRefuse \/ CommitOpen \/ CommitGranted \/ OpenSav \/ WriteChunk
  \/ WriteHdr \/ CommitClose \/ CommitReport \/ Finish
  \/ Land \/ PowerCycle

Spec == Init /\ [][Next]_vars

-----------------------------------------------------------------------------
(* Properties.                                                             *)

HeaderFiles == {NoFile, Short} \cup Headers
FilePairs   == [sav : {NoFile} \cup Seq(Bytes \cup {Torn}), hdr : HeaderFiles]

Steps   == {"picker", "details", "apply", "restored", "play", "commit",
            "opening", "sav", "write", "hdr", "close", "closing", "done", "dead"}

\* Every variable stays in its type; in particular, no header names a class
\* whose size is unknown.
TypeOK ==
  /\ phase \in Window!Phases /\ closeRc \in Window!CloseCodes
  /\ view \in Dirs \cup {NoDir} /\ attached \in Dirs \cup {NoDir}
  /\ image \in [Roms -> FilePairs]
  /\ container \in [Dirs -> [Roms -> FilePairs]]
  /\ step \in Steps /\ rom \in Roms /\ id \in Roms \cup {NoRom}
  /\ array \in Arrays /\ latchBase \in Arrays /\ base \in Arrays
  /\ cls \in Classes /\ hdr \in HeaderFiles /\ off \in Nat
  /\ sessions \in 0 .. MaxSessions
  /\ recent \in [Roms -> SUBSET Saves]
  /\ sure \in [Roms -> BOOLEAN]

Save(h) == [cls |-> h.cls, pay |-> h.pay]
Padded(pay) == [i \in 1 .. ArrayLen |-> IF i <= Len(pay) THEN pay[i] ELSE FF]

\* A pair of files the next restore would take for a save of the cartridge is
\* one: the last save committed or one of the attempts made since, in every
\* container and in the image still to land.  A write cut by an error or by a
\* power loss, or an old file beside a new one, never passes for a save.
AcceptedIsRecent ==
  \A r \in Roms :
    \A f \in {container[d][r] : d \in Dirs}
              \cup (IF attached = NoDir THEN {} ELSE {image[r]}) :
      /\ f.sav # NoFile /\ f.hdr \notin {NoFile, Short} /\ f.hdr.rom = r
      /\ PayloadMatches(f.hdr, f.sav)
      => [cls |-> f.hdr.cls, pay |-> f.sav] \in recent[r]

\* What a restore that reports OK leaves in the backup array is a save of this
\* very cartridge: the last one committed, or one of the attempts made since.
\* It is never older, never another cartridge's and never a mixture of two,
\* whatever writes failed or were cut by a power loss in between.
RestoresRecent ==
  step = "restored" /\ restoreRc = "OK" =>
    /\ Save(hdr) \in recent[rom]
    /\ array = Padded(hdr.pay)

\* A restore that fails leaves the blank array of a new game, even when it
\* fails in the second pass with part of the save applied.
FailedRestoreIsBlank ==
  step = "restored" /\ restoreRc # "OK" => array = Blank

\* A commit that reported OK stands: until the cartridge's files are opened
\* again, a container holds a matching pair that is exactly that save, through
\* other cartridges' sessions and power losses.
CommitOkStands ==
  \A r \in Roms : sure[r] =>
    \E d \in Dirs :
      LET f == container[d][r]
      IN  /\ f.hdr \notin {NoFile, Short} /\ f.hdr.rom = r
          /\ f.sav = f.hdr.pay /\ recent[r] = {Save(f.hdr)}

\* The files of a cartridge change only in its own sessions.
OwnFilesOnly ==
  [][\A r \in Roms :
       phase = "open" /\ phase' = "open" /\ image'[r] # image[r] => r = rom
    ]_vars
=============================================================================
