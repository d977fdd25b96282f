----------------------------- MODULE SaveProofs ------------------------------
(***************************************************************************)
(* A cartridge's save: what is on disk of it (Vault), for any cartridges,  *)
(* any classes they may have, any size of the backup array and any number  *)
(* of sessions; and what class it is saved under (BackupChip), for any     *)
(* cartridges the detection does not mislead and any values an SRAM game   *)
(* stores, and any number of sessions.                                     *)
(*                                                                         *)
(* Vault.  The inductive invariant IInv says, besides the types: that the  *)
(* identity is the cartridge's own as long as a session runs, what the     *)
(* step of the commit says of the image, that every header that can still  *)
(* be read is a recent save of its cartridge, and how far the restore has  *)
(* come.                                                                   *)
(*                                                                         *)
(* BackupChip.  ChipInv says, board by board, what the game's library can  *)
(* have made of the guess: that nothing is stored before the type and the  *)
(* bank count are the board's own, so that the class of a changed chip is  *)
(* the cartridge's.  The flash boards need where the library is in its     *)
(* call and in gpSP's command sequence, which must agree until the first   *)
(* unlock, and for 128 KB until the first bank command, has arrived.       *)
(***************************************************************************)
EXTENDS Vault, BackupChip, TLAPS

-----------------------------------------------------------------------------
(* Vault. *)

\* The title has one savedata container.
OneContainer == \A d, e \in Dirs : d = e

\* The identity latched is that of the cartridge being played.
Latched == id = IF step = "picker" THEN NoRom ELSE rom

\* The write window is open exactly while the commit writes.
WindowShape ==
  /\ phase = "opening" <=> step = "opening"
  /\ phase = "open"    <=> step \in {"sav", "write", "hdr", "close"}
  /\ phase = "closing" <=> step = "closing"
  /\ phase = "open" => attached \in Dirs

\* From the load on the class is one the cartridge can have, and a commit that
\* went past its guards has a known one.
ClassShape ==
  /\ step # "picker" => cls \in Played
  /\ step \in {"opening", "sav", "write", "hdr", "close", "closing"} =>
       cls # "UNKNOWN"

\* What the commit has written so far.
Progress ==
  /\ step = "sav" => inner = "OK" /\ off = 0
  /\ step \in {"write", "hdr"} =>
       /\ inner = "OK" /\ ThisSave \in recent[id] /\ ~sure[id]
       /\ image[id].sav = SubSeq(array, 1, off) /\ off <= Chunks(cls)
  /\ step = "hdr" => off = Chunks(cls)
  /\ step \in {"close", "closing"} /\ inner = "OK" =>
       image[id] = [sav |-> ThisSave.pay, hdr |-> HeaderOf(id, ThisSave)]
  /\ step = "closing" /\ attached = NoDir =>
       \A d \in Dirs : container[d] = image

\* A header that can still be read is that of a recent save.
HeaderRecent(r, h) ==
  h \in Headers /\ h.rom = r => Save(h) \in recent[r]

HeadersRecent ==
  \A r \in Roms :
    /\ \A d \in Dirs : HeaderRecent(r, container[d][r].hdr)
    /\ attached # NoDir => HeaderRecent(r, image[r].hdr)

\* A save that was reported OK is in the container, and in the image too while
\* one has still to land.
FilesOf(r, v) == [sav |-> v.pay, hdr |-> HeaderOf(r, v)]

SureStands ==
  \A r \in Roms : sure[r] =>
    \E v \in recent[r] :
      /\ recent[r] = {v}
      /\ \A d \in Dirs : container[d][r] = FilesOf(r, v)
      /\ attached # NoDir => image[r] = FilesOf(r, v)

\* How far the restore has come.
RestoreShape ==
  /\ step = "details" => array = Blank
  /\ step = "apply" =>
       /\ hdr \in Headers /\ Save(hdr) \in recent[rom]
       /\ off <= Chunks(hdr.cls) /\ restoreRc = "OK"
       /\ \A i \in 1 .. ArrayLen : i > off => array[i] = FF
  /\ RestoresRecent
  /\ FailedRestoreIsBlank

IInv ==
  /\ TypeOK
  /\ Latched
  /\ WindowShape
  /\ ClassShape
  /\ Progress
  /\ HeadersRecent
  /\ SureStands
  /\ RestoreShape

-----------------------------------------------------------------------------
(* Facts about the operators.                                              *)

LEMMA RegionNat == \A c \in Classes : Region(c) \in Nat
BY DEF Region, Declared, BackupSize

LEMMA DivNat == ASSUME NEW a \in Nat, NEW b \in Nat \ {0}
                PROVE  a \div b \in Nat
OBVIOUS

LEMMA ChunksNat == \A c \in Classes : Chunks(c) \in Nat
BY RegionNat, DivNat, VaultAssumption DEF Chunks

LEMMA PlayedClasses == Played \subseteq Classes
BY VaultAssumption DEF Played

\* The payload of an array is its first chunks.
LEMMA PayloadFacts ==
  ASSUME NEW a \in Arrays, NEW c \in Played
  PROVE  /\ Payload(a, c) \in Seq(Bytes)
         /\ Len(Payload(a, c)) = Chunks(c)
         /\ \A i \in 1 .. Chunks(c) : Payload(a, c)[i] = a[i]
<1>1. Chunks(c) \in Nat /\ Chunks(c) <= ArrayLen /\ ArrayLen \in Nat
  BY ChunksNat, PlayedClasses, VaultAssumption
<1>2. a \in Seq(Bytes) /\ Len(a) = ArrayLen
  BY <1>1 DEF Arrays
<1> QED
  BY <1>1, <1>2 DEF Payload

LEMMA ThisSaveFacts ==
  ASSUME array \in Arrays, cls \in Played, cls # "UNKNOWN"
  PROVE  /\ ThisSave \in Saves
         /\ ThisSave.cls = cls /\ ThisSave.pay = Payload(array, cls)
<1>1. Payload(array, cls) \in Seq(Bytes) /\ Len(Payload(array, cls)) = Chunks(cls)
  BY PayloadFacts
<1> QED
  BY <1>1 DEF ThisSave, Saves

\* A save makes a header, and a header a save.
LEMMA HeaderFacts ==
  /\ \A r \in Roms, v \in Saves :
       /\ HeaderOf(r, v) \in Headers /\ HeaderOf(r, v) \notin {NoFile, Short}
       /\ HeaderOf(r, v).rom = r /\ HeaderOf(r, v).pay = v.pay
       /\ Save(HeaderOf(r, v)) = v
  /\ \A h \in Headers : Save(h) \in Saves /\ h \notin {NoFile, Short}
BY FilesAssumption DEF HeaderOf, Headers, Saves, Save

-----------------------------------------------------------------------------
(* The initial states.                                                     *)

LEMMA BlankArray == Blank \in Arrays
BY VaultAssumption DEF Blank, Arrays

LEMMA NoFilesPair == NoFiles \in FilePairs
BY DEF NoFiles, FilePairs, HeaderFiles

LEMMA InitInv == Init => IInv
<1> SUFFICES ASSUME Init PROVE IInv
  OBVIOUS
<1>1. TypeOK
  <2>1. /\ phase \in Window!Phases /\ closeRc \in Window!CloseCodes
        /\ view \in Dirs \cup {NoDir} /\ attached \in Dirs \cup {NoDir}
    BY DEF Init, Window!WindowStart, Window!Phases, Window!CloseCodes
  <2>2. /\ image \in [Roms -> FilePairs]
        /\ container \in [Dirs -> [Roms -> FilePairs]]
    BY NoFilesPair DEF Init
  <2>3. step \in Steps /\ cls \in Classes /\ hdr \in HeaderFiles
    BY DEF Init, Steps, Classes, HeaderFiles
  <2> QED
    BY <2>1, <2>2, <2>3, BlankArray, VaultAssumption DEF Init, TypeOK
<1>2. Latched /\ WindowShape /\ ClassShape /\ Progress
  BY DEF Init, Window!WindowStart, Latched, WindowShape, ClassShape, Progress
<1>3. HeadersRecent /\ SureStands
  BY FilesAssumption
  DEF Init, Window!WindowStart, HeadersRecent, HeaderRecent, SureStands, NoFiles
<1>4. RestoreShape
  BY DEF Init, RestoreShape, RestoresRecent, FailedRestoreIsBlank
<1> QED
  BY <1>1, <1>2, <1>3, <1>4 DEF IInv

-----------------------------------------------------------------------------
(* Types.                                                                  *)

\* The files of the latched identity, as the restore sees them.
LEMMA FilesPair == ASSUME TypeOK, id \in Roms PROVE Files \in FilePairs
BY DEF TypeOK, Files, FilePairs, NoFiles, HeaderFiles

\* What the restore accepts is a header.
LEMMA VerdictOk ==
  ASSUME TypeOK, id \in Roms, Verdict(Files) = "OK"
  PROVE  /\ Files.hdr \in Headers /\ Files.hdr.rom = id
         /\ view \in Dirs
<1>1. Files \in FilePairs
  BY FilesPair
<1>2. Refusal(Files) = "OK"
  BY DEF Verdict
<1>3. /\ Files.hdr # NoFile /\ Files.sav # NoFile
      /\ Files.hdr # Short /\ Files.hdr.rom = id
  BY <1>2 DEF Refusal
<1>4. view # NoDir
  BY <1>3 DEF Files, NoFiles
<1> QED
  BY <1>1, <1>3, <1>4 DEF FilePairs, HeaderFiles, TypeOK

\* Storing one file of a cartridge leaves an image of files.
LEMMA StoreTypes ==
  ASSUME TypeOK, id \in Roms
  PROVE  /\ \A x \in Seq(Bytes \cup {Torn}) :
              [image EXCEPT ![id].sav = x] \in [Roms -> FilePairs]
         /\ \A h \in HeaderFiles :
              [image EXCEPT ![id].hdr = h] \in [Roms -> FilePairs]
BY DEF TypeOK, FilePairs

\* The steps that touch neither the window nor the history.
Quiet ==
  \/ \E r \in Roms : Load(r)
  \/ Cancel \/ RestoreRead \/ ApplyChunk \/ ApplyEnd \/ Begin \/ Play
  \/ \E clean \in BOOLEAN : EndPlay(clean)
  \/ CommitRefuse \/ Finish

LEMMA QuietFacts == Quiet => UNCHANGED <<windowVars, history>>
BY DEF Quiet, Load, Cancel, RestoreRead, ApplyChunk, ApplyEnd, Begin, Play,
       EndPlay, CommitRefuse, Finish, Boundary, sessionVars

LEMMA QuietTypes == IInv /\ Quiet => TypeOK'
<1> SUFFICES ASSUME IInv, Quiet PROVE TypeOK'
  OBVIOUS
<1>1. UNCHANGED <<windowVars, history>>
  BY QuietFacts
<1>2. TypeOK /\ Latched /\ RestoreShape
  BY DEF IInv
<1>3. SUFFICES /\ step' \in Steps /\ rom' \in Roms /\ id' \in Roms \cup {NoRom}
               /\ array' \in Arrays /\ latchBase' \in Arrays /\ base' \in Arrays
               /\ cls' \in Classes /\ hdr' \in HeaderFiles /\ off' \in Nat
               /\ sessions' \in 0 .. MaxSessions
  BY <1>1, <1>2 DEF TypeOK, windowVars, history
<1>4. ASSUME NEW r \in Roms, Load(r)
      PROVE  <1>3!1
  BY <1>2, <1>4, BlankArray, VaultAssumption DEF TypeOK, Load, Steps
<1>5. CASE Cancel
  BY <1>2, <1>5, BlankArray DEF TypeOK, Cancel, Boundary, Steps, HeaderFiles
<1>6. CASE RestoreRead
  <2>1. id \in Roms
    BY <1>2, <1>6 DEF RestoreRead, Latched, TypeOK
  <2>2. hdr' \in HeaderFiles
    BY <1>2, <1>6, <2>1, FilesPair DEF RestoreRead, FilePairs, TypeOK
  <2> QED
    BY <1>2, <1>6, <2>2 DEF TypeOK, RestoreRead, Steps
<1>7. CASE ApplyChunk
  <2>1. id \in Roms
    BY <1>2, <1>7 DEF ApplyChunk, Latched, TypeOK
  <2>2. Files \in FilePairs
    BY <1>2, <2>1, FilesPair
  <2> DEFINE sav == Files.sav
  <2>3. \/ array' = Blank
        \/ /\ sav # NoFile /\ off < Len(sav) /\ sav[off + 1] # Torn
           /\ array' = [array EXCEPT ![off + 1] = sav[off + 1]]
    BY <1>7 DEF ApplyChunk, Rollback
  <2>4. sav \in {NoFile} \cup Seq(Bytes \cup {Torn})
    BY <2>2 DEF FilePairs
  <2>5. sav # NoFile /\ off < Len(sav) /\ sav[off + 1] # Torn =>
          sav[off + 1] \in Bytes
    BY <1>2, <2>4 DEF TypeOK
  <2>6. array' \in Arrays
    BY <1>2, <2>3, <2>5, BlankArray DEF TypeOK, Arrays
  <2> QED
    BY <1>2, <1>7, <2>6 DEF TypeOK, ApplyChunk, Steps
<1>8. CASE ApplyEnd
  BY <1>2, <1>8, BlankArray DEF TypeOK, ApplyEnd, Rollback, Steps, Classes
<1>9. CASE Begin
  BY <1>2, <1>9 DEF TypeOK, Begin, Steps
<1>10. CASE Play
  BY <1>2, <1>10, VaultAssumption DEF TypeOK, Play, Steps
<1>11. ASSUME NEW clean \in BOOLEAN, EndPlay(clean)
       PROVE  <1>3!1
  BY <1>2, <1>11 DEF TypeOK, EndPlay, Steps, sessionVars
<1>12. CASE CommitRefuse
  BY <1>2, <1>12 DEF TypeOK, CommitRefuse, Steps, sessionVars
<1>13. CASE Finish
  BY <1>2, <1>13, BlankArray DEF TypeOK, Finish, Boundary, Steps, HeaderFiles
<1> QED
  BY <1>4, <1>5, <1>6, <1>7, <1>8, <1>9, <1>10, <1>11, <1>12, <1>13 DEF Quiet

\* The steps of the commit, and what happens to the container by itself.
LEMMA CommitTypes ==
  ASSUME IInv,
         \/ CommitOpen \/ CommitGranted \/ OpenSav \/ WriteChunk \/ WriteHdr
         \/ CommitClose \/ CommitReport \/ Land \/ PowerCycle
  PROVE  TypeOK'
<1>1. TypeOK /\ Latched /\ WindowShape /\ ClassShape /\ Progress
  BY DEF IInv
<1>2. CASE CommitOpen
  BY <1>1, <1>2
  DEF TypeOK, CommitOpen, Window!Request, Window!Phases, Steps, sessionVars,
      history
<1>3. CASE CommitGranted
  <2>1. /\ phase' \in Window!Phases /\ closeRc' = closeRc
        /\ view' \in Dirs \cup {NoDir} /\ attached' \in Dirs \cup {NoDir}
        /\ image' \in [Roms -> FilePairs] /\ container' = container
    BY <1>1, <1>3
    DEF TypeOK, CommitGranted, Window!Grant, Window!Refuse, Window!Phases
  <2> QED
    BY <1>1, <1>3, <2>1 DEF TypeOK, CommitGranted, Steps, sessionVars, history
<1>4. CASE OpenSav
  <2>1. id \in Roms /\ cls \in Played /\ cls # "UNKNOWN"
    BY <1>1, <1>4 DEF OpenSav, Latched, TypeOK, ClassShape
  <2>2. ThisSave \in Saves
    BY <1>1, <2>1, ThisSaveFacts DEF TypeOK
  <2>3. <<>> \in Seq(Bytes \cup {Torn})
    OBVIOUS
  <2>4. /\ image' \in [Roms -> FilePairs]
        /\ UNCHANGED <<phase, view, attached, container, closeRc>>
    BY <1>1, <1>4, <2>1, <2>3, StoreTypes
    DEF TypeOK, OpenSav, StoreSav, Window!Store, Idle, windowVars
  <2>5. /\ recent' \in [Roms -> SUBSET Saves]
        /\ sure' \in [Roms -> BOOLEAN]
    BY <1>1, <1>4, <2>1, <2>2 DEF TypeOK, OpenSav, history
  <2> QED
    BY <1>1, <1>4, <2>4, <2>5 DEF TypeOK, OpenSav, Steps, sessionVars
<1>5. CASE WriteChunk
  <2>1. id \in Roms /\ cls \in Played
    BY <1>1, <1>5 DEF WriteChunk, Latched, TypeOK, ClassShape
  <2>2. /\ image[id].sav = SubSeq(array, 1, off) /\ off \in Nat
        /\ off <= Chunks(cls) /\ Chunks(cls) \in Nat /\ Chunks(cls) <= ArrayLen
        /\ array \in Seq(Bytes) /\ Len(array) = ArrayLen
    BY <1>1, <1>5, <2>1, ChunksNat, PlayedClasses, VaultAssumption
    DEF WriteChunk, Progress, TypeOK, Arrays
  <2>3. /\ image[id].sav \in Seq(Bytes) /\ Len(image[id].sav) = off
    BY <2>2
  <2>4. image' \in [Roms -> FilePairs]
    <3>1. \A b \in Bytes \cup {Torn} :
            Append(image[id].sav, b) \in Seq(Bytes \cup {Torn})
      BY <2>3
    <3>2. \A n \in 0 .. off - 1 :
            SubSeq(image[id].sav, 1, n) \in Seq(Bytes \cup {Torn})
      BY <2>2, <2>3
    <3>3. off < Chunks(cls) => array[off + 1] \in Bytes
      BY <2>2
    <3>4. \/ image' = image
          \/ off < Chunks(cls)
             /\ image' = [image EXCEPT ![id].sav =
                             Append(image[id].sav, array[off + 1])]
          \/ image' = [image EXCEPT ![id].sav = Append(image[id].sav, Torn)]
          \/ \E n \in 0 .. off - 1 :
               image' = [image EXCEPT ![id].sav = SubSeq(image[id].sav, 1, n)]
      BY <1>5 DEF WriteChunk, StoreSav, Window!Store, Idle, windowVars
    <3>5. image' = image
          \/ \E x \in Seq(Bytes \cup {Torn}) :
               image' = [image EXCEPT ![id].sav = x]
      BY <3>1, <3>2, <3>3, <3>4
    <3> QED
      BY <1>1, <2>1, <3>5, StoreTypes DEF TypeOK
  <2>5. /\ UNCHANGED <<phase, view, attached, container, closeRc>>
        /\ off' \in Nat /\ step' \in Steps
    BY <1>1, <1>5
    DEF TypeOK, WriteChunk, StoreSav, Window!Store, Idle, windowVars, Steps
  <2> QED
    BY <1>1, <1>5, <2>4, <2>5 DEF TypeOK, WriteChunk, sessionVars, history
<1>6. CASE WriteHdr
  <2>1. id \in Roms /\ cls \in Played /\ cls # "UNKNOWN"
    BY <1>1, <1>6 DEF WriteHdr, Latched, TypeOK, ClassShape
  <2>2. HeaderOf(id, ThisSave) \in HeaderFiles /\ Short \in HeaderFiles
    BY <1>1, <2>1, ThisSaveFacts, HeaderFacts DEF TypeOK, HeaderFiles
  <2>3. /\ image' \in [Roms -> FilePairs]
        /\ UNCHANGED <<phase, view, attached, container, closeRc>>
    BY <1>1, <1>6, <2>1, <2>2, StoreTypes
    DEF TypeOK, WriteHdr, StoreHdr, Window!Store, Idle, windowVars
  <2> QED
    BY <1>1, <1>6, <2>3 DEF TypeOK, WriteHdr, Steps, sessionVars, history
<1>7. CASE CommitClose
  BY <1>1, <1>7
  DEF TypeOK, CommitClose, Window!Detach, Window!Phases, Steps, sessionVars,
      history
<1>8. CASE CommitReport
  <2>1. /\ phase' \in Window!Phases /\ closeRc' \in Window!CloseCodes
        /\ view' \in Dirs \cup {NoDir}
        /\ UNCHANGED <<attached, image, container>>
    BY <1>1, <1>8
    DEF CommitReport, Window!Report, Window!Phases, Window!CloseCodes
  <2>2. id \in Roms /\ cls \in Played /\ cls # "UNKNOWN"
    BY <1>1, <1>8 DEF CommitReport, Latched, TypeOK, ClassShape
  <2>3. ThisSave \in Saves
    BY <1>1, <2>2, ThisSaveFacts DEF TypeOK
  <2>4. /\ recent' \in [Roms -> SUBSET Saves]
        /\ sure' \in [Roms -> BOOLEAN]
    <3>1. \/ /\ recent' = [recent EXCEPT ![id] = {ThisSave}]
             /\ sure' = [sure EXCEPT ![id] = TRUE]
          \/ recent' = recent /\ sure' = sure
      BY <1>8 DEF CommitReport, history
    <3> QED
      BY <1>1, <2>2, <2>3, <3>1 DEF TypeOK
  <2> QED
    BY <1>1, <1>8, <2>1, <2>4 DEF TypeOK, CommitReport, Steps, sessionVars
<1>9. CASE Land
  <2>1. /\ container' \in [Dirs -> [Roms -> FilePairs]]
        /\ attached' = NoDir /\ UNCHANGED <<phase, view, image, closeRc>>
    BY <1>1, <1>9 DEF TypeOK, Land, Window!Land
  <2> QED
    BY <1>1, <1>9, <2>1 DEF TypeOK, Land, sessionVars, history
<1>10. CASE PowerCycle
  <2>1. container' \in [Dirs -> [Roms -> FilePairs]]
    <3>1. CASE attached = NoDir
      BY <1>1, <1>10, <3>1 DEF TypeOK, PowerCycle
    <3>2. CASE attached # NoDir
      <4> DEFINE Mix(s, h) ==
            [r \in Roms |->
               [sav |-> IF s THEN image[r].sav ELSE container[attached][r].sav,
                hdr |-> IF h THEN image[r].hdr ELSE container[attached][r].hdr]]
      <4>1. PICK s \in BOOLEAN, h \in BOOLEAN :
              container' = [container EXCEPT ![attached] = Mix(s, h)]
        BY <1>10, <3>2 DEF PowerCycle
      <4>2. Mix(s, h) \in [Roms -> FilePairs]
        BY <1>1, <3>2 DEF TypeOK, FilePairs
      <4> HIDE DEF Mix
      <4> QED
        BY <1>1, <3>2, <4>1, <4>2 DEF TypeOK
    <3> QED
      BY <3>1, <3>2
  <2>2. view' \in Dirs /\ image' \in [Roms -> FilePairs]
    BY <1>10, <2>1 DEF PowerCycle
  <2> QED
    BY <1>1, <1>10, <2>1, <2>2, BlankArray
    DEF TypeOK, PowerCycle, Window!Phases, Window!CloseCodes, Steps, Classes,
        HeaderFiles, history
<1> QED
  BY <1>2, <1>3, <1>4, <1>5, <1>6, <1>7, <1>8, <1>9, <1>10

\* A step that changes nothing.
LEMMA StutterInv == IInv /\ UNCHANGED vars => IInv'
BY DEF IInv, vars, windowVars, sessionVars, history, TypeOK, Latched,
       WindowShape, ClassShape, Progress, ThisSave, HeadersRecent, HeaderRecent,
       SureStands, RestoreShape, RestoresRecent, FailedRestoreIsBlank

LEMMA TypesStep == IInv /\ [Next]_vars => TypeOK'
<1>1. IInv /\ UNCHANGED vars => TypeOK'
  BY StutterInv DEF IInv
<1> QED
  BY <1>1, QuietTypes, CommitTypes DEF Next, Quiet

-----------------------------------------------------------------------------
(* The identity, the window and the class.                                 *)

ControlShape == Latched /\ WindowShape /\ ClassShape

LEMMA QuietControl == IInv /\ Quiet => ControlShape'
<1> SUFFICES ASSUME IInv, Quiet PROVE ControlShape'
  OBVIOUS
<1> USE DEF ControlShape, Latched, WindowShape, ClassShape
<1>1. TypeOK /\ Latched /\ WindowShape /\ ClassShape /\ RestoreShape
  BY DEF IInv
<1>2. UNCHANGED <<phase, attached>>
  BY QuietFacts DEF windowVars
<1>3. ASSUME NEW r \in Roms, Load(r)
      PROVE  ControlShape'
  BY <1>1, <1>2, <1>3, VaultAssumption DEF Load, Played
<1>4. CASE Cancel
  BY <1>1, <1>2, <1>4 DEF Cancel, Boundary
<1>5. CASE RestoreRead
  BY <1>1, <1>2, <1>5 DEF RestoreRead
<1>6. CASE ApplyChunk
  BY <1>1, <1>2, <1>6 DEF ApplyChunk
<1>7. CASE ApplyEnd
  <2>1. cls' \in Played
    BY <1>1, <1>7 DEF ApplyEnd, Activates, RestoreShape, Headers
  <2> QED
    BY <1>1, <1>2, <1>7, <2>1 DEF ApplyEnd
<1>8. CASE Begin
  BY <1>1, <1>2, <1>8 DEF Begin
<1>9. CASE Play
  BY <1>1, <1>2, <1>9 DEF Play, Played, TypeOK
<1>10. ASSUME NEW clean \in BOOLEAN, EndPlay(clean)
       PROVE  ControlShape'
  BY <1>1, <1>2, <1>10 DEF EndPlay, sessionVars
<1>11. CASE CommitRefuse
  BY <1>1, <1>2, <1>11 DEF CommitRefuse, sessionVars
<1>12. CASE Finish
  BY <1>1, <1>2, <1>12 DEF Finish, Boundary
<1> QED
  BY <1>3, <1>4, <1>5, <1>6, <1>7, <1>8, <1>9, <1>10, <1>11, <1>12 DEF Quiet

LEMMA CommitControl ==
  ASSUME IInv,
         \/ CommitOpen \/ CommitGranted \/ OpenSav \/ WriteChunk \/ WriteHdr
         \/ CommitClose \/ CommitReport \/ Land \/ PowerCycle
  PROVE  ControlShape'
<1> USE DEF ControlShape, Latched, WindowShape, ClassShape
<1>1. TypeOK /\ Latched /\ WindowShape /\ ClassShape
  BY DEF IInv
<1>2. CASE CommitOpen
  BY <1>1, <1>2 DEF CommitOpen, Window!Request, sessionVars
<1>3. CASE CommitGranted
  BY <1>1, <1>3
  DEF CommitGranted, Window!Grant, Window!Refuse, sessionVars
<1>4. CASE OpenSav
  BY <1>1, <1>4
  DEF OpenSav, StoreSav, Window!Store, Idle, windowVars, sessionVars
<1>5. CASE WriteChunk
  BY <1>1, <1>5
  DEF WriteChunk, StoreSav, Window!Store, Idle, windowVars, sessionVars
<1>6. CASE WriteHdr
  BY <1>1, <1>6
  DEF WriteHdr, StoreHdr, Window!Store, Idle, windowVars, sessionVars
<1>7. CASE CommitClose
  BY <1>1, <1>7 DEF CommitClose, Window!Detach, sessionVars
<1>8. CASE CommitReport
  BY <1>1, <1>8 DEF CommitReport, Window!Report, sessionVars
<1>9. CASE Land
  BY <1>1, <1>9 DEF Land, Window!Land, sessionVars
<1>10. CASE PowerCycle
  BY <1>1, <1>10 DEF PowerCycle
<1> QED
  BY <1>2, <1>3, <1>4, <1>5, <1>6, <1>7, <1>8, <1>9, <1>10

-----------------------------------------------------------------------------
(* The commit.                                                             *)

\* One more chunk of a payload.
LEMMA NextChunk ==
  ASSUME NEW a \in Arrays, NEW n \in Nat, n < ArrayLen
  PROVE  Append(SubSeq(a, 1, n), a[n + 1]) = SubSeq(a, 1, n + 1)
<1>1. a \in Seq(Bytes) /\ Len(a) = ArrayLen
  BY VaultAssumption DEF Arrays
<1>2. /\ SubSeq(a, 1, n) \in Seq(Bytes) /\ Len(SubSeq(a, 1, n)) = n
      /\ SubSeq(a, 1, n + 1) \in Seq(Bytes) /\ Len(SubSeq(a, 1, n + 1)) = n + 1
      /\ \A i \in 1 .. n + 1 : SubSeq(a, 1, n + 1)[i] = a[i]
      /\ \A i \in 1 .. n : SubSeq(a, 1, n)[i] = a[i]
      /\ a[n + 1] \in Bytes
  BY <1>1, VaultAssumption
<1> DEFINE s == Append(SubSeq(a, 1, n), a[n + 1])
<1>3. /\ s \in Seq(Bytes) /\ Len(s) = n + 1
      /\ \A i \in 1 .. n + 1 : s[i] = a[i]
  BY <1>2
<1> HIDE DEF s
<1> QED
  BY <1>2, <1>3

LEMMA QuietProgress == IInv /\ Quiet => Progress'
<1> SUFFICES ASSUME IInv, Quiet PROVE Progress'
  OBVIOUS
<1>1. step' \notin {"sav", "write", "hdr", "close", "closing"}
  BY DEF Quiet, Load, Cancel, RestoreRead, ApplyChunk, ApplyEnd, Begin, Play,
         EndPlay, CommitRefuse, Finish, Boundary
<1> QED
  BY <1>1 DEF Progress

LEMMA CommitProgress ==
  ASSUME OneContainer, IInv,
         \/ CommitOpen \/ CommitGranted \/ OpenSav \/ WriteChunk \/ WriteHdr
         \/ CommitClose \/ CommitReport \/ Land \/ PowerCycle
  PROVE  Progress'
<1>1. TypeOK /\ Latched /\ WindowShape /\ ClassShape /\ Progress
  BY DEF IInv
<1>2. CASE CommitOpen
  BY <1>2 DEF CommitOpen, Progress
<1>3. CASE CommitGranted
  BY <1>3 DEF CommitGranted, Progress
<1>4. CASE OpenSav
  <2>1. id \in Roms /\ id' = id /\ ThisSave' = ThisSave /\ off = 0 /\ off' = 0
        /\ inner = "OK" /\ array' = array /\ cls' = cls
    BY <1>1, <1>4 DEF OpenSav, Latched, TypeOK, Progress, ThisSave, sessionVars
  <2>2. CASE step' = "close" /\ inner' \in {"EMKDIR", "EOPEN"}
    BY <2>2 DEF Progress
  <2>3. CASE /\ step' = "write" /\ StoreSav(<<>>)
             /\ recent' = [recent EXCEPT ![id] = @ \cup {ThisSave}]
             /\ sure' = [sure EXCEPT ![id] = FALSE]
             /\ UNCHANGED inner
    <3>1. image'[id].sav = <<>>
      BY <1>1, <2>1, <2>3 DEF TypeOK, FilePairs, StoreSav, Window!Store
    <3>2. SubSeq(array, 1, 0) = <<>>
      OBVIOUS
    <3>3. 0 <= Chunks(cls)
      BY <1>1, <1>4, ChunksNat DEF TypeOK
    <3> QED
      BY <1>1, <2>1, <2>3, <3>1, <3>2, <3>3 DEF TypeOK, Progress
  <2> QED
    BY <1>4, <2>2, <2>3 DEF OpenSav
<1>5. CASE WriteChunk
  <2>1. /\ id \in Roms /\ id' = id /\ ThisSave' = ThisSave
        /\ array' = array /\ cls' = cls
        /\ inner = "OK" /\ ThisSave \in recent[id] /\ ~sure[id]
        /\ image[id].sav = SubSeq(array, 1, off) /\ off <= Chunks(cls)
        /\ recent' = recent /\ sure' = sure
        /\ off \in Nat /\ Chunks(cls) \in Nat /\ Chunks(cls) <= ArrayLen
    BY <1>1, <1>5, ChunksNat, PlayedClasses, VaultAssumption
    DEF WriteChunk, Latched, TypeOK, ClassShape, Progress, ThisSave,
        sessionVars, history
  <2>2. CASE /\ off < Chunks(cls) /\ off' = off + 1
             /\ StoreSav(Append(image[id].sav, array[off + 1]))
             /\ UNCHANGED <<step, inner>>
    <3>1. image'[id].sav = Append(SubSeq(array, 1, off), array[off + 1])
      BY <1>1, <2>1, <2>2 DEF TypeOK, FilePairs, StoreSav, Window!Store
    <3>2. image'[id].sav = SubSeq(array, 1, off + 1)
      BY <1>1, <2>1, <2>2, <3>1, NextChunk, VaultAssumption DEF TypeOK
    <3>3. step = "write" /\ step' = "write" /\ inner' = "OK"
      BY <1>5, <2>1, <2>2 DEF WriteChunk
    <3> QED
      BY <2>1, <2>2, <3>2, <3>3 DEF Progress
  <2>3. CASE /\ off = Chunks(cls) /\ UNCHANGED off
             /\ Idle /\ UNCHANGED inner /\ step' = "hdr"
    BY <2>1, <2>3 DEF Progress, Idle, windowVars
  <2>4. CASE inner' = "EWRITE" /\ step' = "close"
    BY <2>4 DEF Progress
  <2> QED
    BY <1>5, <2>2, <2>3, <2>4 DEF WriteChunk
<1>6. CASE WriteHdr
  <2>1. /\ id \in Roms /\ id' = id /\ ThisSave' = ThisSave
        /\ array' = array /\ cls' = cls
        /\ image[id].sav = ThisSave.pay /\ step' = "close"
    BY <1>1, <1>6, ThisSaveFacts
    DEF WriteHdr, Latched, TypeOK, ClassShape, Progress, ThisSave, Payload,
        sessionVars
  <2>2. CASE inner' = "EHDR"
    BY <2>1, <2>2 DEF Progress
  <2>3. CASE StoreHdr(HeaderOf(id, ThisSave))
    <3>1. image[id] = [sav |-> image[id].sav, hdr |-> image[id].hdr]
      BY <1>1, <2>1 DEF TypeOK, FilePairs
    <3>2. image'[id] = [sav |-> ThisSave.pay, hdr |-> HeaderOf(id, ThisSave)]
      BY <1>1, <2>1, <2>3, <3>1 DEF TypeOK, FilePairs, StoreHdr, Window!Store
    <3>3. HeaderOf(id, ThisSave)' = HeaderOf(id, ThisSave)
      BY <2>1 DEF HeaderOf
    <3> QED
      BY <2>1, <3>2, <3>3 DEF Progress
  <2> QED
    BY <1>6, <2>2, <2>3 DEF WriteHdr
<1>7. CASE CommitClose
  <2>1. /\ ThisSave' = ThisSave /\ HeaderOf(id, ThisSave)' = HeaderOf(id, ThisSave)
        /\ image' = image /\ id' = id /\ inner' = inner
        /\ step = "close" /\ step' = "closing" /\ attached' = attached
    BY <1>7
    DEF CommitClose, ThisSave, HeaderOf, Window!Detach, sessionVars
  <2>2. attached # NoDir
    BY <1>1, <2>1, VaultAssumption DEF WindowShape
  <2> QED
    BY <1>1, <2>1, <2>2 DEF Progress
<1>8. CASE CommitReport
  BY <1>8 DEF CommitReport, Progress
<1>9. CASE Land
  <2>1. /\ ThisSave' = ThisSave /\ HeaderOf(id, ThisSave)' = HeaderOf(id, ThisSave)
        /\ image' = image /\ id' = id /\ inner' = inner /\ step' = step
        /\ off' = off /\ attached' = NoDir /\ phase # "open"
        /\ attached \in Dirs
        /\ container' = [container EXCEPT ![attached] = image]
    BY <1>1, <1>9 DEF Land, ThisSave, HeaderOf, Window!Land, sessionVars, TypeOK
  <2>2. step \notin {"sav", "write", "hdr", "close"}
    BY <1>1, <2>1 DEF WindowShape
  <2>3. \A d \in Dirs : container'[d] = image
    BY <1>1, <2>1 DEF OneContainer, TypeOK
  <2> QED
    BY <1>1, <2>1, <2>2, <2>3 DEF Progress
<1>10. CASE PowerCycle
  BY <1>10 DEF PowerCycle, Progress
<1> QED
  BY <1>2, <1>3, <1>4, <1>5, <1>6, <1>7, <1>8, <1>9, <1>10

-----------------------------------------------------------------------------
(* The headers that can be read, and the saves that were reported OK.      *)

FilesRecent == HeadersRecent /\ SureStands

LEMMA QuietFiles == IInv /\ Quiet => FilesRecent'
BY QuietFacts
DEF IInv, FilesRecent, HeadersRecent, HeaderRecent, SureStands, windowVars,
    history

\* What the save files of one cartridge become when an image is stored for
\* another one, or a file of its own is.
LEMMA StoreOther ==
  ASSUME TypeOK, id \in Roms, NEW x, NEW r \in Roms
  PROVE  /\ r # id => /\ [image EXCEPT ![id].sav = x][r] = image[r]
                      /\ [image EXCEPT ![id].hdr = x][r] = image[r]
         /\ [image EXCEPT ![id].sav = x][id].hdr = image[id].hdr
         /\ [image EXCEPT ![id].hdr = x][id].hdr = x
BY DEF TypeOK, FilePairs

\* A step of the commit that stores into the window keeps both parts.
LEMMA StoreFiles ==
  ASSUME IInv, phase = "open", UNCHANGED <<attached, container, id>>,
         \A r \in Roms : recent[r] \subseteq recent'[r],
         \A r \in Roms \ {id} : /\ image'[r] = image[r]
                                /\ recent'[r] = recent[r] /\ sure'[r] = sure[r],
         HeaderRecent(id, image[id].hdr)', ~sure'[id]
  PROVE  FilesRecent'
<1>1. TypeOK /\ Latched /\ WindowShape /\ HeadersRecent /\ SureStands
  BY DEF IInv
<1>2. attached # NoDir
  BY <1>1, VaultAssumption DEF WindowShape
<1>3. HeadersRecent'
  BY <1>1, <1>2 DEF HeadersRecent, HeaderRecent
<1>4. SureStands'
  BY <1>1, <1>2 DEF SureStands
<1> QED
  BY <1>3, <1>4 DEF FilesRecent

\* The steps of the commit that do not store, seen from the files.
LEMMA SameFiles ==
  ASSUME IInv, UNCHANGED <<attached, image, container, history>>
  PROVE  FilesRecent'
BY DEF IInv, FilesRecent, HeadersRecent, HeaderRecent, SureStands, history

LEMMA OpenSavFiles == IInv /\ OpenSav => FilesRecent'
<1> SUFFICES ASSUME IInv, OpenSav PROVE FilesRecent'
  OBVIOUS
<1>1. TypeOK /\ Latched /\ WindowShape /\ HeadersRecent
  BY DEF IInv
<1>2. id \in Roms /\ phase = "open" /\ id' = id
  BY <1>1 DEF OpenSav, Latched, TypeOK, WindowShape, sessionVars
<1>3. CASE Idle /\ UNCHANGED history
  BY <1>3, SameFiles DEF Idle, windowVars
<1>4. CASE /\ StoreSav(<<>>)
           /\ recent' = [recent EXCEPT ![id] = @ \cup {ThisSave}]
           /\ sure' = [sure EXCEPT ![id] = FALSE]
  <2>1. /\ image' = [image EXCEPT ![id].sav = <<>>]
        /\ UNCHANGED <<attached, container, id>>
    BY <1>2, <1>4 DEF StoreSav, Window!Store
  <2>2. /\ \A r \in Roms \ {id} : image'[r] = image[r]
        /\ image'[id].hdr = image[id].hdr
    BY <1>1, <1>2, <2>1, StoreOther
  <2>3. /\ \A r \in Roms : recent[r] \subseteq recent'[r]
        /\ \A r \in Roms \ {id} : recent'[r] = recent[r] /\ sure'[r] = sure[r]
        /\ ~sure'[id]
    BY <1>1, <1>2, <1>4 DEF TypeOK
  <2>4. attached # NoDir
    BY <1>1, <1>2, VaultAssumption DEF WindowShape
  <2>5. HeaderRecent(id, image[id].hdr)'
    BY <1>1, <1>2, <2>1, <2>2, <2>3, <2>4 DEF HeadersRecent, HeaderRecent
  <2> QED
    BY <1>2, <2>1, <2>2, <2>3, <2>5, StoreFiles
<1> QED
  BY <1>3, <1>4 DEF OpenSav

LEMMA WriteChunkFiles == IInv /\ WriteChunk => FilesRecent'
<1> SUFFICES ASSUME IInv, WriteChunk PROVE FilesRecent'
  OBVIOUS
<1>1. TypeOK /\ Latched /\ WindowShape /\ Progress /\ HeadersRecent
  BY DEF IInv
<1>2. /\ id \in Roms /\ phase = "open" /\ id' = id /\ ~sure[id]
      /\ UNCHANGED history
  BY <1>1 DEF WriteChunk, Latched, TypeOK, WindowShape, Progress, sessionVars
<1>3. CASE Idle
  BY <1>2, <1>3, SameFiles DEF Idle, windowVars
<1>4. ASSUME NEW x, StoreSav(x)
      PROVE  FilesRecent'
  <2>1. /\ image' = [image EXCEPT ![id].sav = x]
        /\ UNCHANGED <<attached, container, id>>
    BY <1>2, <1>4 DEF StoreSav, Window!Store
  <2>2. /\ \A r \in Roms \ {id} : image'[r] = image[r]
        /\ image'[id].hdr = image[id].hdr
    BY <1>1, <1>2, <2>1, StoreOther
  <2>3. attached # NoDir
    BY <1>1, <1>2, VaultAssumption DEF WindowShape
  <2>4. HeaderRecent(id, image[id].hdr)'
    BY <1>1, <1>2, <2>1, <2>2, <2>3 DEF HeadersRecent, HeaderRecent, history
  <2> QED
    BY <1>2, <2>1, <2>2, <2>4, StoreFiles DEF history
<1> QED
  BY <1>3, <1>4 DEF WriteChunk

LEMMA WriteHdrFiles == IInv /\ WriteHdr => FilesRecent'
<1> SUFFICES ASSUME IInv, WriteHdr PROVE FilesRecent'
  OBVIOUS
<1>1. TypeOK /\ Latched /\ WindowShape /\ ClassShape /\ Progress
  BY DEF IInv
<1>2. /\ id \in Roms /\ phase = "open" /\ id' = id /\ ~sure[id]
      /\ ThisSave \in recent[id] /\ ThisSave \in Saves /\ UNCHANGED history
  BY <1>1, ThisSaveFacts
  DEF WriteHdr, Latched, TypeOK, WindowShape, ClassShape, Progress, sessionVars
<1>3. CASE Idle
  BY <1>2, <1>3, SameFiles DEF Idle, windowVars
<1>4. ASSUME NEW x \in {Short, HeaderOf(id, ThisSave)}, StoreHdr(x)
      PROVE  FilesRecent'
  <2>1. /\ image' = [image EXCEPT ![id].hdr = x]
        /\ UNCHANGED <<attached, container, id>>
    BY <1>2, <1>4 DEF StoreHdr, Window!Store
  <2>2. /\ \A r \in Roms \ {id} : image'[r] = image[r]
        /\ image'[id].hdr = x
    BY <1>1, <1>2, <2>1 DEF TypeOK, FilePairs
  <2>3. x \in Headers => Save(x) = ThisSave
    BY <1>2, HeaderFacts, FilesAssumption
  <2>4. HeaderRecent(id, image[id].hdr)'
    BY <1>2, <2>1, <2>2, <2>3 DEF HeaderRecent, history
  <2> QED
    BY <1>2, <2>1, <2>2, <2>4, StoreFiles DEF history
<1> QED
  BY <1>3, <1>4 DEF WriteHdr

LEMMA GrantFiles == IInv /\ CommitGranted => FilesRecent'
<1> SUFFICES ASSUME IInv, CommitGranted PROVE FilesRecent'
  OBVIOUS
<1>1. TypeOK /\ HeadersRecent /\ SureStands
  BY DEF IInv
<1>2. ASSUME NEW d \in Dirs, Window!Grant(d)
      PROVE  FilesRecent'
  <2>1. image' = container[d] /\ UNCHANGED <<container, history>>
    BY <1>2 DEF CommitGranted, Window!Grant
  <2> QED
    BY <1>1, <2>1
    DEF FilesRecent, HeadersRecent, HeaderRecent, SureStands, history
<1>3. ASSUME NEW d, Window!Refuse(d)
      PROVE  FilesRecent'
  BY <1>3, SameFiles DEF CommitGranted, Window!Refuse
<1> QED
  BY <1>2, <1>3 DEF CommitGranted

\* A commit reported OK is in the container.
LEMMA ReportFiles == IInv /\ CommitReport => FilesRecent'
<1> SUFFICES ASSUME IInv, CommitReport PROVE FilesRecent'
  OBVIOUS
<1>1. TypeOK /\ Latched /\ ClassShape /\ Progress /\ HeadersRecent /\ SureStands
  BY DEF IInv
<1>2. id \in Roms /\ ThisSave \in Saves /\ step = "closing"
  BY <1>1, ThisSaveFacts DEF CommitReport, Latched, TypeOK, ClassShape
<1>3. UNCHANGED <<attached, image, container>>
  BY DEF CommitReport, Window!Report
<1>4. CASE commitRc' # "OK"
  BY <1>3, <1>4, SameFiles DEF CommitReport
<1>5. CASE commitRc' = "OK"
  <2>1. inner = "OK" /\ attached = NoDir
    BY <1>5 DEF CommitReport, Outcome, Window!Report
  <2>2. /\ recent' = [recent EXCEPT ![id] = {ThisSave}]
        /\ sure' = [sure EXCEPT ![id] = TRUE]
    BY <1>5 DEF CommitReport
  <2>3. \A d \in Dirs : container[d][id] = FilesOf(id, ThisSave)
    BY <1>1, <1>2, <2>1 DEF Progress, FilesOf
  <2>4. FilesOf(id, ThisSave).hdr = HeaderOf(id, ThisSave)
    BY DEF FilesOf
  <2>5. HeadersRecent'
    BY <1>1, <1>2, <1>3, <2>1, <2>2, <2>3, <2>4, HeaderFacts
    DEF HeadersRecent, HeaderRecent, TypeOK
  <2>6. SureStands'
    <3>1. ASSUME NEW r \in Roms, sure'[r]
          PROVE  \E v \in recent'[r] :
                   /\ recent'[r] = {v}
                   /\ \A d \in Dirs : container[d][r] = FilesOf(r, v)
      <4>1. CASE r = id
        BY <1>1, <1>2, <2>2, <2>3, <4>1 DEF TypeOK
      <4>2. CASE r # id
        BY <1>1, <1>2, <2>2, <3>1, <4>2 DEF TypeOK, SureStands
      <4> QED
        BY <4>1, <4>2
    <3>2. attached' = NoDir /\ container' = container
      BY <1>3, <2>1
    <3> QED
      BY <3>1, <3>2 DEF SureStands
  <2> QED
    BY <2>5, <2>6 DEF FilesRecent
<1> QED
  BY <1>4, <1>5

LEMMA LandFiles == IInv /\ Land => FilesRecent'
<1> SUFFICES ASSUME IInv, Land PROVE FilesRecent'
  OBVIOUS
<1>1. TypeOK /\ HeadersRecent /\ SureStands
  BY DEF IInv
<1>2. /\ attached \in Dirs /\ attached # NoDir /\ attached' = NoDir
      /\ container' = [container EXCEPT ![attached] = image]
      /\ recent' = recent /\ sure' = sure
  BY <1>1 DEF Land, Window!Land, TypeOK, history
<1>3. \A d \in Dirs : container'[d] \in {container[d], image}
  BY <1>1, <1>2 DEF TypeOK
<1> QED
  BY <1>1, <1>2, <1>3 DEF FilesRecent, HeadersRecent, HeaderRecent, SureStands

\* Each file a power loss leaves is the old one or the new one.
LEMMA PowerFiles == IInv /\ PowerCycle => FilesRecent'
<1> SUFFICES ASSUME IInv, PowerCycle PROVE FilesRecent'
  OBVIOUS
<1>1. TypeOK /\ HeadersRecent /\ SureStands
  BY DEF IInv
<1>2. attached' = NoDir /\ recent' = recent /\ sure' = sure
  BY DEF PowerCycle, history
<1>3. CASE attached = NoDir
  BY <1>1, <1>2, <1>3
  DEF PowerCycle, FilesRecent, HeadersRecent, HeaderRecent, SureStands
<1>4. CASE attached # NoDir
  <2> DEFINE Mix(s, h) ==
        [r \in Roms |->
           [sav |-> IF s THEN image[r].sav ELSE container[attached][r].sav,
            hdr |-> IF h THEN image[r].hdr ELSE container[attached][r].hdr]]
  <2>1. PICK s \in BOOLEAN, h \in BOOLEAN :
          container' = [container EXCEPT ![attached] = Mix(s, h)]
    BY <1>4 DEF PowerCycle
  <2>2. attached \in Dirs
    BY <1>1, <1>4 DEF TypeOK
  <2>3. \A r \in Roms :
          /\ Mix(s, h)[r].hdr \in {image[r].hdr, container[attached][r].hdr}
          /\ \A f : image[r] = f /\ container[attached][r] = f =>
               Mix(s, h)[r] = [sav |-> f.sav, hdr |-> f.hdr]
    OBVIOUS
  <2> HIDE DEF Mix
  <2>4. \A d \in Dirs : container'[d] = IF d = attached THEN Mix(s, h)
                                        ELSE container[d]
    BY <1>1, <2>1 DEF TypeOK
  <2>5. HeadersRecent'
    BY <1>1, <1>2, <1>4, <2>2, <2>3, <2>4 DEF HeadersRecent, HeaderRecent
  <2>6. SureStands'
    <3> SUFFICES ASSUME NEW r \in Roms, sure[r]
                 PROVE  \E v \in recent[r] :
                          /\ recent[r] = {v}
                          /\ \A d \in Dirs : container'[d][r] = FilesOf(r, v)
      BY <1>2 DEF SureStands, FilesOf, HeaderOf
    <3>1. PICK v \in recent[r] :
            /\ recent[r] = {v}
            /\ \A d \in Dirs : container[d][r] = FilesOf(r, v)
            /\ image[r] = FilesOf(r, v)
      BY <1>1, <1>4 DEF SureStands
    <3>2. Mix(s, h)[r] = FilesOf(r, v)
      BY <2>2, <2>3, <3>1 DEF FilesOf
    <3> QED
      BY <2>4, <3>1, <3>2
  <2> QED
    BY <2>5, <2>6 DEF FilesRecent
<1> QED
  BY <1>3, <1>4

LEMMA CommitFiles ==
  ASSUME IInv,
         \/ CommitOpen \/ CommitGranted \/ OpenSav \/ WriteChunk \/ WriteHdr
         \/ CommitClose \/ CommitReport \/ Land \/ PowerCycle
  PROVE  FilesRecent'
<1>1. CASE CommitOpen
  BY <1>1, SameFiles DEF CommitOpen, Window!Request
<1>2. CASE CommitClose
  BY <1>2, SameFiles DEF CommitClose, Window!Detach
<1> QED
  BY <1>1, <1>2, GrantFiles, OpenSavFiles, WriteChunkFiles, WriteHdrFiles,
     ReportFiles, LandFiles, PowerFiles

-----------------------------------------------------------------------------
(* The restore.                                                            *)

\* An accepted header is that of a recent save of the cartridge.
LEMMA RestoreReadShape == IInv /\ RestoreRead => RestoreShape'
<1> SUFFICES ASSUME IInv, RestoreRead PROVE RestoreShape'
  OBVIOUS
<1>1. TypeOK /\ Latched /\ HeadersRecent /\ RestoreShape
  BY DEF IInv
<1>2. /\ id \in Roms /\ id = rom /\ array = Blank
      /\ rom' = rom /\ array' = array /\ off' = 0 /\ recent' = recent
  BY <1>1 DEF RestoreRead, Latched, TypeOK, RestoreShape, history
<1>3. CASE restoreRc' = "OK"
  <2>1. step' = "apply" /\ hdr' = Files.hdr /\ Verdict(Files) = "OK"
    BY <1>3 DEF RestoreRead
  <2>2. Files.hdr \in Headers /\ Files.hdr.rom = id /\ view \in Dirs
    BY <1>1, <1>2, <2>1, VerdictOk
  <2>3. Files = container[view][id]
    BY <2>2, VaultAssumption DEF Files
  <2>4. Save(Files.hdr) \in recent[rom]
    BY <1>1, <1>2, <2>2, <2>3 DEF HeadersRecent, HeaderRecent
  <2>5. Chunks(Files.hdr.cls) \in Nat
    BY <2>2, ChunksNat, PlayedClasses DEF Headers
  <2>6. \A i \in 1 .. ArrayLen : array[i] = FF
    BY <1>2 DEF Blank
  <2>7. Save(hdr)' = Save(Files.hdr)
    BY <2>1 DEF Save
  <2>8. 0 <= Chunks(Files.hdr.cls)
    BY <2>5
  <2> QED
    BY <1>2, <1>3, <2>1, <2>2, <2>4, <2>6, <2>7, <2>8
    DEF RestoreShape, RestoresRecent, FailedRestoreIsBlank
<1>4. CASE restoreRc' # "OK"
  <2>1. step' = "restored"
    BY <1>4 DEF RestoreRead
  <2>2. Blank' = Blank
    OBVIOUS
  <2> QED
    BY <1>2, <1>4, <2>1, <2>2
    DEF RestoreShape, RestoresRecent, FailedRestoreIsBlank
<1> QED
  BY <1>3, <1>4

LEMMA ApplyChunkShape == IInv /\ ApplyChunk => RestoreShape'
<1> SUFFICES ASSUME IInv, ApplyChunk PROVE RestoreShape'
  OBVIOUS
<1>1. TypeOK /\ RestoreShape /\ step = "apply"
  BY DEF IInv, ApplyChunk
<1>2. /\ hdr \in Headers /\ Save(hdr) \in recent[rom] /\ restoreRc = "OK"
      /\ off \in Nat /\ off < Chunks(hdr.cls) /\ Chunks(hdr.cls) \in Nat
      /\ hdr' = hdr /\ rom' = rom /\ recent' = recent
      /\ \A i \in 1 .. ArrayLen : i > off => array[i] = FF
  BY <1>1, ChunksNat, PlayedClasses
  DEF RestoreShape, ApplyChunk, TypeOK, Headers, history
<1>3. CASE step' = "restored" /\ restoreRc' = "EAPPLY" /\ Rollback
  BY <1>3 DEF RestoreShape, RestoresRecent, FailedRestoreIsBlank, Rollback
<1>4. ASSUME NEW b, array' = [array EXCEPT ![off + 1] = b],
             off' = off + 1, UNCHANGED <<step, restoreRc>>
      PROVE  RestoreShape'
  <2>1. \A i \in 1 .. ArrayLen : i > off' => array'[i] = FF
    BY <1>1, <1>2, <1>4, VaultAssumption DEF TypeOK, Arrays
  <2>2. off' <= Chunks(hdr.cls)
    BY <1>2, <1>4
  <2>3. Save(hdr)' = Save(hdr) /\ Chunks(hdr.cls)' = Chunks(hdr.cls)
    BY <1>2 DEF Save
  <2> QED
    BY <1>1, <1>2, <1>4, <2>1, <2>2, <2>3
    DEF RestoreShape, RestoresRecent, FailedRestoreIsBlank
<1> QED
  BY <1>3, <1>4 DEF ApplyChunk

\* What was applied is the payload of the header, and the rest is blank.
LEMMA ApplyEndShape == IInv /\ ApplyEnd => RestoreShape'
<1> SUFFICES ASSUME IInv, ApplyEnd PROVE RestoreShape'
  OBVIOUS
<1>1. TypeOK /\ RestoreShape /\ step = "apply"
  BY DEF IInv, ApplyEnd
<1>2. /\ hdr \in Headers /\ Save(hdr) \in recent[rom] /\ restoreRc = "OK"
      /\ off = Chunks(hdr.cls) /\ off \in Nat /\ off <= ArrayLen
      /\ \A i \in 1 .. ArrayLen : i > off => array[i] = FF
      /\ step' = "restored" /\ hdr' = hdr /\ rom' = rom /\ recent' = recent
  BY <1>1, VaultAssumption
  DEF RestoreShape, ApplyEnd, TypeOK, Headers, history
<1>3. CASE Rollback /\ restoreRc' = "EAPPLY"
  BY <1>2, <1>3 DEF RestoreShape, RestoresRecent, FailedRestoreIsBlank, Rollback
<1>4. CASE /\ PayloadMatches(hdr, SubSeq(array, 1, off))
           /\ UNCHANGED <<array, restoreRc>>
  <2>1. array \in Seq(Bytes) /\ Len(array) = ArrayLen /\ ArrayLen \in Nat
    BY <1>1, VaultAssumption DEF TypeOK, Arrays
  <2>2. /\ Len(SubSeq(array, 1, off)) = off
        /\ \A i \in 1 .. off : SubSeq(array, 1, off)[i] = array[i]
    BY <1>2, <2>1
  <2>3. hdr.pay = SubSeq(array, 1, off)
    BY <1>4 DEF PayloadMatches
  <2>4. Len(hdr.pay) = off /\ \A i \in 1 .. off : hdr.pay[i] = array[i]
    BY <2>2, <2>3
  <2>5. \A i \in 1 .. ArrayLen :
          array[i] = IF i <= Len(hdr.pay) THEN hdr.pay[i] ELSE FF
    BY <1>2, <2>4
  <2>6. array = Padded(hdr.pay)
    BY <1>1, <2>5 DEF TypeOK, Arrays, Padded
  <2>7. Save(hdr)' = Save(hdr) /\ Padded(hdr.pay)' = Padded(hdr.pay)
    BY <1>2 DEF Save, Padded
  <2> QED
    BY <1>2, <1>4, <2>6, <2>7
    DEF RestoreShape, RestoresRecent, FailedRestoreIsBlank
<1> QED
  BY <1>3, <1>4 DEF ApplyEnd

LEMMA QuietRestore == IInv /\ Quiet => RestoreShape'
<1> SUFFICES ASSUME IInv, Quiet PROVE RestoreShape'
  OBVIOUS
<1>1. ASSUME NEW r \in Roms, Load(r)
      PROVE  RestoreShape'
  BY <1>1 DEF Load, RestoreShape, RestoresRecent, FailedRestoreIsBlank
<1>2. CASE \/ Cancel \/ Begin \/ Play \/ CommitRefuse \/ Finish
           \/ \E clean \in BOOLEAN : EndPlay(clean)
  <2>1. step' \notin {"details", "apply", "restored"}
    BY <1>2 DEF Cancel, Begin, Play, EndPlay, CommitRefuse, Finish, Boundary
  <2> QED
    BY <2>1 DEF RestoreShape, RestoresRecent, FailedRestoreIsBlank
<1> QED
  BY <1>1, <1>2, RestoreReadShape, ApplyChunkShape, ApplyEndShape DEF Quiet

LEMMA CommitRestore ==
  ASSUME IInv,
         \/ CommitOpen \/ CommitGranted \/ OpenSav \/ WriteChunk \/ WriteHdr
         \/ CommitClose \/ CommitReport \/ Land \/ PowerCycle
  PROVE  RestoreShape'
<1>1. CASE Land
  BY <1>1
  DEF Land, IInv, RestoreShape, RestoresRecent, FailedRestoreIsBlank,
      sessionVars, history
<1>2. CASE ~Land
  <2>1. step' \notin {"details", "apply", "restored"}
    BY <1>2
    DEF CommitOpen, CommitGranted, OpenSav, WriteChunk, WriteHdr, CommitClose,
        CommitReport, PowerCycle
  <2> QED
    BY <2>1 DEF RestoreShape, RestoresRecent, FailedRestoreIsBlank
<1> QED
  BY <1>1, <1>2

-----------------------------------------------------------------------------
(* The theorems.                                                           *)

LEMMA NextInv == OneContainer /\ IInv /\ [Next]_vars => IInv'
<1> SUFFICES ASSUME OneContainer, IInv, [Next]_vars PROVE IInv'
  OBVIOUS
<1>1. CASE UNCHANGED vars
  BY <1>1, StutterInv
<1>2. TypeOK'
  BY TypesStep
<1>3. CASE Quiet
  BY <1>2, <1>3, QuietControl, QuietProgress, QuietFiles, QuietRestore
  DEF IInv, ControlShape, FilesRecent
<1>4. CASE \/ CommitOpen \/ CommitGranted \/ OpenSav \/ WriteChunk \/ WriteHdr
           \/ CommitClose \/ CommitReport \/ Land \/ PowerCycle
  BY <1>2, <1>4, CommitControl, CommitProgress, CommitFiles, CommitRestore
  DEF IInv, ControlShape, FilesRecent
<1> QED
  BY <1>1, <1>3, <1>4 DEF Next, Quiet

\* Where the title has one savedata container, the invariant holds.
THEOREM Inductive == ASSUME OneContainer PROVE Spec => []IInv
<1>1. IInv /\ [Next]_vars => IInv'
  BY NextInv
<1> QED
  BY <1>1, InitInv, PTL DEF Spec

\* Every variable keeps its type, TypeOK: in particular gba_savefile_commit
\* never writes a header whose class has no size.
THEOREM TypeCorrect == ASSUME OneContainer PROVE Spec => []TypeOK
<1>1. IInv => TypeOK
  BY DEF IInv
<1> QED
  BY <1>1, Inductive, PTL

\* AcceptedIsRecent: a pair of files that gba_restorefile_with would accept is
\* the last save committed or an attempt made since, whatever writes failed and
\* wherever the power went.
THEOREM AcceptedRecent == ASSUME OneContainer PROVE Spec => []AcceptedIsRecent
<1>1. IInv => AcceptedIsRecent
  <2> SUFFICES ASSUME IInv,
                      NEW r \in Roms,
                      NEW f \in {container[d][r] : d \in Dirs}
                         \cup (IF attached = NoDir THEN {} ELSE {image[r]}),
                      f.sav # NoFile, f.hdr \notin {NoFile, Short},
                      f.hdr.rom = r, PayloadMatches(f.hdr, f.sav)
               PROVE  [cls |-> f.hdr.cls, pay |-> f.sav] \in recent[r]
    BY DEF AcceptedIsRecent
  <2>1. f \in FilePairs /\ HeaderRecent(r, f.hdr)
    BY DEF IInv, TypeOK, HeadersRecent
  <2>2. f.hdr \in Headers
    BY <2>1 DEF FilePairs, HeaderFiles
  <2> QED
    BY <2>1, <2>2 DEF HeaderRecent, Save, PayloadMatches
<1> QED
  BY <1>1, Inductive, PTL

\* RestoresRecent: what a restore that reports OK leaves in gamepak_backup is
\* the last save committed or an attempt made since, whole and padded.
THEOREM RestoredRecent == ASSUME OneContainer PROVE Spec => []RestoresRecent
<1>1. IInv => RestoresRecent
  BY DEF IInv, RestoreShape
<1> QED
  BY <1>1, Inductive, PTL

\* FailedRestoreIsBlank: gba_restore_rollback leaves nothing of a restore that
\* failed half way.
THEOREM BlankAfterFailure ==
  ASSUME OneContainer PROVE Spec => []FailedRestoreIsBlank
<1>1. IInv => FailedRestoreIsBlank
  BY DEF IInv, RestoreShape
<1> QED
  BY <1>1, Inductive, PTL

\* CommitOkStands: what gba_savefile_commit reported as saved stays in the
\* container until the same cartridge's files are opened for writing again.
THEOREM OkStands == ASSUME OneContainer PROVE Spec => []CommitOkStands
<1> DEFINE HasContainer == Dirs # {}
<1>1. Init => HasContainer
  BY DEF Init, Window!WindowStart
<1>2. HasContainer /\ [Next]_vars => HasContainer'
  OBVIOUS
<1>3. IInv /\ HasContainer => CommitOkStands
  <2> SUFFICES ASSUME IInv, HasContainer, NEW r \in Roms, sure[r]
               PROVE  \E d \in Dirs :
                        /\ container[d][r].hdr \notin {NoFile, Short}
                        /\ container[d][r].hdr.rom = r
                        /\ container[d][r].sav = container[d][r].hdr.pay
                        /\ recent[r] = {Save(container[d][r].hdr)}
    BY DEF CommitOkStands
  <2>1. PICK v \in recent[r] :
          /\ recent[r] = {v}
          /\ \A d \in Dirs : container[d][r] = FilesOf(r, v)
    BY DEF IInv, SureStands
  <2>2. v \in Saves
    BY DEF IInv, TypeOK
  <2>3. PICK d \in Dirs : TRUE
    OBVIOUS
  <2>4. container[d][r].sav = v.pay /\ container[d][r].hdr = HeaderOf(r, v)
    BY <2>1 DEF FilesOf
  <2> QED
    BY <2>1, <2>2, <2>4, HeaderFacts
<1> QED
  BY <1>1, <1>2, <1>3, Inductive, PTL DEF Spec

\* OwnFilesOnly: a session writes the files of its own cartridge only, because
\* the identity gs_id is still the one latched when it was loaded.
THEOREM OwnFiles == ASSUME OneContainer PROVE Spec => OwnFilesOnly
<1> DEFINE Own == \A r \in Roms :
                    phase = "open" /\ phase' = "open" /\ image'[r] # image[r]
                    => r = rom
<1>1. IInv /\ Next => Own
  <2> SUFFICES ASSUME IInv, Next, phase = "open", phase' = "open",
                      NEW r \in Roms, r # rom
               PROVE  image'[r] = image[r]
    OBVIOUS
  <2>1. TypeOK /\ Latched /\ WindowShape
    BY DEF IInv
  <2>2. step \in {"sav", "write", "hdr", "close"} /\ id = rom /\ id \in Roms
    BY <2>1 DEF WindowShape, Latched, TypeOK
  <2>3. CASE Quiet
    BY <2>3, QuietFacts DEF windowVars
  <2>4. CASE OpenSav \/ WriteChunk \/ WriteHdr
    BY <2>1, <2>2, <2>4
    DEF OpenSav, WriteChunk, WriteHdr, StoreSav, StoreHdr, Window!Store, Idle,
        windowVars, TypeOK, FilePairs
  <2>5. CASE CommitOpen \/ CommitGranted \/ CommitReport
    BY <2>2, <2>5 DEF CommitOpen, CommitGranted, CommitReport
  <2>6. CASE CommitClose
    BY <2>6 DEF CommitClose, Window!Detach
  <2>7. CASE Land \/ PowerCycle
    BY <2>7 DEF Land, Window!Land, PowerCycle
  <2> QED
    BY <2>3, <2>4, <2>5, <2>6, <2>7 DEF Next, Quiet
<1>2. UNCHANGED vars => Own
  BY DEF vars, windowVars
<1>3. IInv /\ [Next]_vars => [Own]_vars
  BY <1>1, <1>2
<1> QED
  BY <1>3, Inductive, PTL DEF Spec, OwnFilesOnly

-----------------------------------------------------------------------------
(* BackupChip: what holds at every step. *)

\* What a library may write to the bus, and what one without the bank command,
\* or without the flash unlock, may.
Writes   == Addresses \X Values
NoBank   == Addresses \X (Values \ {"B0"})
NoUnlock == Addresses \X (Values \ {"AA"})

ChipTyped ==
  /\ cart \in Carts /\ stage \in {"boot", "play", "off"}
  /\ type \in {"unkn", "sram", "flash", "eeprom"}
  /\ bank \in BankCounts /\ eep \in EepromSizes
  /\ script \in Seq(Writes)
  /\ saved \in Classes

\* The chip as the load left it.
AsGuessed ==
  /\ type = BootGuess(cart).type /\ bank = BootGuess(cart).bank
  /\ eep = "512" /\ used = FALSE /\ mode = "base" /\ cmd = 0 /\ script = <<>>

\* The writes left of a call: all of one that opens with an unlock; all of one
\* that selects a bank, or all but its first write, or its first two.
Opens(s) == Len(s) >= 3 /\ s[1] = <<"5555", "AA">>
OpensBank(s)  == Opens(s) /\ s[2] = <<"2AAA", "55">> /\ s[3] = <<"5555", "B0">>
OpensBank2(s) == Len(s) >= 2 /\ s[1] = <<"2AAA", "55">> /\ s[2] = <<"5555", "B0">>
OpensBank3(s) == Len(s) >= 1 /\ s[1] = <<"5555", "B0">>

\* No library call is under way, or one of which nothing has been written.
AtStart == cmd = 0 /\ mode = "base" /\ (script = <<>> \/ Opens(script))

\* A game that follows its library on an SRAM board: the type is dropped to
\* SRAM at the first access, and never becomes flash.
SramBoard ==
  /\ type \in {"unkn", "sram", "eeprom"} /\ bank = "64K"
  /\ type = "eeprom" => Guessed(cart) /\ used = FALSE
  /\ cmd = 0 /\ mode = "base" /\ script \in Seq(NoUnlock)
  /\ stage = "play" /\ changed => type = "sram"

\* On a flash board: the first write of the first call makes the type flash, and
\* nothing is stored before.
FlashBoard ==
  /\ type = "eeprom" => Guessed(cart) /\ used = FALSE
  /\ type # "flash" => AtStart
  /\ stage = "play" /\ changed => type = "flash"

\* A 64 KB library never selects a bank; a 128 KB one selects one before it
\* stores anything, and the bank count is right from then on.
Flash64Board  == bank = "64K" /\ script \in Seq(NoBank)
Flash128Board ==
  bank = "64K" =>
    /\ stage = "play" => ~changed
    /\ mode = "base"
    /\ \/ cmd = 0 /\ (script = <<>> \/ OpensBank(script))
       \/ cmd = 1 /\ OpensBank2(script)
       \/ cmd = 2 /\ OpensBank3(script)

EepromBoard ==
  /\ type \in {"unkn", "eeprom"} /\ script = <<>>
  /\ stage = "play" /\ changed =>
       type = "eeprom" /\ eep = IF cart.chip = "EEPROM8K" THEN "8K" ELSE "512"
  /\ cart.chip = "EEPROM512" => eep = "512"

\* A 128 KB guess that is sure.
SureOf128(c) == BootGuess(c).type = "flash" /\ BootGuess(c).bank = "128K"

\* A game that follows no library, on a board whose size is known at the launch,
\* or from the restore.
WildBoard ==
  /\ script = <<>>
  /\ IF SureOf128(cart)
       THEN type = "flash" /\ bank = "128K" /\ saved \in {"UNKNOWN", "FLASH128"}
       ELSE /\ type \in {"unkn", "sram", "flash"} /\ bank = "64K"
            /\ saved \in {"UNKNOWN", "SRAM", "FLASH64"}
            /\ stage = "play" /\ restored = "FLASH64" => type = "flash"

FlashChips  == {"FLASH64", "FLASH128"}
EepromChips == {"EEPROM512", "EEPROM8K"}

\* What the board in the slot makes of the chip, and of the saves on disk.
Board ==
  \/ cart.wild /\ WildBoard
  \/ /\ ~cart.wild /\ saved \in {"UNKNOWN", cart.chip}
     /\ \/ cart.chip = "SRAM" /\ SramBoard
        \/ cart.chip = "FLASH64" /\ FlashBoard /\ Flash64Board
        \/ cart.chip = "FLASH128" /\ FlashBoard /\ Flash128Board
        \/ cart.chip \in EepromChips /\ EepromBoard

ChipInv ==
  /\ ChipTyped
  /\ stage = "boot" => AsGuessed
  /\ stage = "play" => restored \in {"UNKNOWN", saved}
  /\ Board

\* The cartridges the promises are made for: their detection is not misled, and
\* no SRAM game writes an unlock where a flash command would begin.
AllPromised == "AA" \notin SramBytes /\ \A c \in Carts : Promised(c)

-----------------------------------------------------------------------------
(* The cartridge. *)

\* The three families partition the chips.
LEMMA Families ==
  ASSUME NEW c \in Known
  PROVE  /\ Family(c) = "flash" <=> c \in FlashChips
         /\ Family(c) = "eeprom" <=> c \in EepromChips
         /\ Family(c) = "sram" <=> c = "SRAM"
BY DEF Known, Classes, Family, FlashChips, EepromChips

\* What the load makes of a cartridge.
LEMMA GuessTyped ==
  ASSUME NEW c \in Cartridge
  PROVE  /\ BootGuess(c).type \in {"unkn", "sram", "flash", "eeprom"}
         /\ BootGuess(c).bank \in BankCounts
BY DEF Cartridge, BootGuess, Detected, BankCounts

\* The guess for a board whose game follows its library: its own, or none, or
\* one the first access drops; and a 64 KB part is never taken for a larger.
LEMMA HonestGuess ==
  ASSUME NEW c \in Cartridge, ~c.wild, Promised(c)
  PROVE  /\ c.chip = "SRAM" =>
              /\ BootGuess(c).type \in {"unkn", "sram", "eeprom"}
              /\ BootGuess(c).type = "eeprom" => Guessed(c)
              /\ BootGuess(c).bank = "64K"
         /\ c.chip \in FlashChips =>
              /\ BootGuess(c).type \in {"unkn", "flash", "eeprom"}
              /\ BootGuess(c).type = "eeprom" => Guessed(c)
              /\ c.chip = "FLASH64" => BootGuess(c).bank = "64K"
         /\ c.chip \in EepromChips => BootGuess(c).type \in {"unkn", "eeprom"}
<1>1. Honest(c) \/ Misleading(c)
  BY DEF Promised
<1>2. CASE Honest(c)
  BY <1>2 DEF Honest, SigOf, Cartridge, BootGuess, Detected, Guessed, FlashChips,
     EepromChips, Family
<1>3. CASE Misleading(c)
  BY <1>3 DEF Misleading, Cartridge, BootGuess, Detected, Guessed, FlashChips,
     EepromChips, Family
<1> QED
  BY <1>1, <1>2, <1>3

\* A game that follows no library has a 128 KB guess that is sure, or a small
\* board.
LEMMA FirmGuess ==
  ASSUME NEW c \in Cartridge, c.wild, Promised(c)
  PROVE  /\ c.chip \notin EepromChips
         /\ ~SureOf128(c) =>
              /\ c.chip \in {"SRAM", "FLASH64"}
              /\ BootGuess(c).type \in {"unkn", "sram", "flash"}
              /\ BootGuess(c).bank = "64K"
BY DEF Promised, Firm, Honest, SigOf, Cartridge, BootGuess, Detected, SureOf128,
   EepromChips, Family, Known, Classes

\* The gate takes a cartridge's own class back.
LEMMA GateTakesOwn ==
  ASSUME NEW c \in Cartridge, ~c.wild, Promised(c), ~GuessedWrong(c), ~Unannounced(c)
  PROVE  CompatibleEv(c.chip,
                      ClassOf(BootGuess(c).type, BootGuess(c).bank, "512"), TRUE,
                      EvidenceOf(BootGuess(c).type, BootGuess(c).bank))
<1> DEFINE t == BootGuess(c).type  b == BootGuess(c).bank
<1>1. c.chip \in Known
  BY DEF Cartridge
<1>2. Family(c.chip) # "none"
  BY <1>1 DEF Known, Classes, Family
<1>3. t = "unkn" => Family(ClassOf(t, b, "512")) = "none"
  BY DEF ClassOf, Family
<1>4. t # "unkn" => Family(ClassOf(t, b, "512")) = t
  BY GuessTyped DEF ClassOf, Family, BankCounts
<1>5. t = "eeprom" => c.chip \in EepromChips
  <2> SUFFICES ASSUME t = "eeprom" PROVE c.chip \in EepromChips
    OBVIOUS
  <2>1. c.chip \in EepromChips \/ Guessed(c)
    BY <1>1, HonestGuess DEF Known, Classes, FlashChips, EepromChips
  <2> QED
    BY <1>1, <2>1, Families DEF GuessedWrong
<1>6. t # "unkn" => Family(c.chip) = t
  BY <1>1, <1>5, GuessTyped, HonestGuess, Families DEF Known, Classes, FlashChips, EepromChips
<1>7. ASSUME t = "unkn", c.chip \in FlashChips
      PROVE  \/ c.chip = "FLASH128" /\ "DB128" \in EvidenceOf(t, b)
             \/ c.chip = "FLASH64" /\ "F64" \in EvidenceOf(t, b)
  <2>1. CASE c.chip = "FLASH64"
    <3>1. b = "64K"
      BY <2>1, HonestGuess DEF FlashChips
    <3> QED
      BY <1>7, <2>1, <3>1 DEF EvidenceOf, Evidence
  <2>2. CASE c.chip = "FLASH128"
    <3>1. b = "128K"
      BY <1>7, <2>2, GuessTyped DEF Unannounced, BankCounts
    <3> QED
      BY <1>7, <2>2, <3>1 DEF EvidenceOf, Evidence
  <2> QED
    BY <1>7, <2>1, <2>2 DEF FlashChips
<1>8. c.chip \in FlashChips \/ Family(c.chip) \in {"eeprom", "sram"}
  BY <1>1, Families DEF Known, Classes, FlashChips, EepromChips
<1> HIDE DEF t, b
<1>9. CompatibleEv(c.chip, ClassOf(t, b, "512"), TRUE, EvidenceOf(t, b))
  BY <1>2, <1>3, <1>4, <1>6, <1>7, <1>8 DEF CompatibleEv
<1> QED
  BY <1>9 DEF t, b
-----------------------------------------------------------------------------
(* The save libraries. *)

\* A sequence that continues another begins as it does.
LEMMA Continues ==
  ASSUME NEW S, NEW s \in Seq(S), NEW t \in Seq(S)
  PROVE  s \o t \in Seq(S) /\ Len(s \o t) = Len(s) + Len(t)
OBVIOUS

LEMMA Begins ==
  ASSUME NEW S, NEW s \in Seq(S), NEW t \in Seq(S), NEW i \in 1..Len(s)
  PROVE  (s \o t)[i] = s[i]
OBVIOUS

LEMMA Follows ==
  ASSUME NEW S, NEW s \in Seq(S), NEW t \in Seq(S), NEW i \in 1..Len(t)
  PROVE  (s \o t)[Len(s) + i] = t[i]
OBVIOUS

\* A call of one write.
LEMMA OneWrite ==
  ASSUME NEW S, NEW w \in S
  PROVE  <<w>> \in Seq(S) /\ Len(<<w>>) = 1 /\ <<w>>[1] = w
OBVIOUS

\* What is appended to such a call does not change that.
LEMMA StillOpens ==
  ASSUME NEW S, NEW u \in Seq(S), NEW t \in Seq(S), Opens(u)
  PROVE  /\ u \o t \in Seq(S) /\ Opens(u \o t)
         /\ OpensBank(u) => OpensBank(u \o t)
<1>1. PICK q \in Seq(S) : q = u \o t /\ Len(q) = Len(u) + Len(t)
  BY Continues
<1>2. Len(u) \in Nat /\ Len(t) \in Nat /\ Len(u) >= 3
  BY DEF Opens
<1>3. Len(q) >= 3
  BY <1>1, <1>2
<1>4. PICK i \in 1..Len(u), j \in 1..Len(u), k \in 1..Len(u) : i = 1 /\ j = 2 /\ k = 3
  BY <1>2
<1>5. (u \o t)[i] = u[i] /\ (u \o t)[j] = u[j] /\ (u \o t)[k] = u[k]
  BY Begins
<1>6. q[1] = u[1] /\ q[2] = u[2] /\ q[3] = u[3]
  BY <1>1, <1>4, <1>5
<1>7. Opens(q) /\ (OpensBank(u) => OpensBank(q))
  BY <1>3, <1>6 DEF Opens, OpensBank
<1> QED
  BY <1>1, <1>7

\* The two writes every flash command begins with.
LEMMA UnlockIs ==
  /\ Unlock \in Seq(Writes) /\ Unlock \in Seq(NoBank) /\ Len(Unlock) = 2
  /\ Unlock[1] = <<"5555", "AA">> /\ Unlock[2] = <<"2AAA", "55">>
BY DEF Unlock, Writes, NoBank, Addresses, Values

\* The writes of an unlock and one more.
LEMMA UnlockThen ==
  ASSUME NEW S, Unlock \in Seq(S), NEW w \in S
  PROVE  /\ Unlock \o <<w>> \in Seq(S) /\ Opens(Unlock \o <<w>>)
         /\ w = <<"5555", "B0">> => OpensBank(Unlock \o <<w>>)
<1>1. PICK u \in Seq(S) : /\ u = Unlock /\ Len(u) = 2
                          /\ u[1] = <<"5555", "AA">> /\ u[2] = <<"2AAA", "55">>
  BY UnlockIs
<1>2. PICK t \in Seq(S) : t = <<w>> /\ Len(t) = 1 /\ t[1] = w
  BY OneWrite
<1>3. PICK q \in Seq(S) : q = u \o t /\ Len(q) = Len(u) + Len(t)
  BY Continues
<1>4. Len(q) = 3
  BY <1>1, <1>2, <1>3
<1>5. PICK i \in 1..Len(u), j \in 1..Len(u), k \in 1..Len(t) : i = 1 /\ j = 2 /\ k = 1
  BY <1>1, <1>2
<1>6. (u \o t)[i] = u[i] /\ (u \o t)[j] = u[j]
  BY Begins
<1>7. (u \o t)[Len(u) + k] = t[k]
  BY Follows
<1>8. q[1] = u[1] /\ q[2] = u[2] /\ q[3] = t[1]
  BY <1>1, <1>3, <1>5, <1>6, <1>7
<1>9. Opens(q) /\ (w = <<"5555", "B0">> => OpensBank(q))
  BY <1>1, <1>2, <1>4, <1>8 DEF Opens, OpensBank
<1> QED
  BY <1>1, <1>2, <1>3, <1>9

\* A command is an unlock and its code.
LEMMA CommandIs ==
  ASSUME NEW v \in Values
  PROVE  /\ Command(v) \in Seq(Writes) /\ Opens(Command(v))
         /\ v = "B0" => OpensBank(Command(v))
         /\ v # "B0" => Command(v) \in Seq(NoBank)
<1> DEFINE w == <<"5555", v>>
<1>1. w \in Writes /\ (v # "B0" => w \in NoBank)
  BY DEF Writes, NoBank, Addresses
<1>2. v = "B0" => w = <<"5555", "B0">>
  OBVIOUS
<1> HIDE DEF w
<1>3. Unlock \in Seq(Writes) /\ Unlock \in Seq(NoBank)
  BY UnlockIs
<1>4. /\ Unlock \o <<w>> \in Seq(Writes) /\ Opens(Unlock \o <<w>>)
      /\ w = <<"5555", "B0">> => OpensBank(Unlock \o <<w>>)
  BY <1>1, <1>3, UnlockThen, Zenon
<1>5. v # "B0" => Unlock \o <<w>> \in Seq(NoBank)
  BY <1>1, <1>3, UnlockThen, Zenon
<1>6. Command(v) = Unlock \o <<w>>
  BY DEF Command, w
<1> QED
  BY <1>2, <1>4, <1>5, <1>6, Zenon

\* The flash calls begin with an unlock and select no bank.
LEMMA FlashCallsFacts ==
  ASSUME NEW s \in FlashCalls
  PROVE  s \in Seq(NoBank) /\ Opens(s)
<1> DEFINE Plain == {"90", "F0", "A0", "80", "10"}
           program == <<"other", "x">>  sector == <<"other", "30">>
<1>1. program \in NoBank /\ sector \in NoBank /\ Plain \subseteq Values
      /\ "B0" \notin Plain
  BY DEF NoBank, Values, Addresses
<1>2. ASSUME NEW v \in Plain
      PROVE  Command(v) \in Seq(NoBank) /\ Opens(Command(v))
  <2>1. v \in Values /\ v # "B0"
    BY <1>1
  <2> QED
    BY <2>1, CommandIs, Zenon
<1>3. ASSUME NEW v \in Plain, NEW t \in Seq(NoBank)
      PROVE  Command(v) \o t \in Seq(NoBank) /\ Opens(Command(v) \o t)
  BY <1>2, StillOpens, Zenon
<1>4. /\ "90" \in Plain /\ "F0" \in Plain /\ "A0" \in Plain /\ "80" \in Plain
      /\ "10" \in Plain
  OBVIOUS
<1> HIDE DEF program, sector, Plain
<1>5. <<program>> \in Seq(NoBank)
  BY <1>1, OneWrite, Zenon
<1>6. Unlock \o <<sector>> \in Seq(NoBank)
  BY <1>1, UnlockIs, UnlockThen, Zenon
<1>7. Command("80") \in Seq(NoBank) /\ Command("10") \in Seq(NoBank)
  BY <1>2, <1>4, Zenon
<1>8. <<sector>> \in Seq(NoBank) /\ Unlock \in Seq(NoBank)
  BY <1>1, OneWrite, UnlockIs, Zenon
<1>9. Command("80") \o Unlock \o <<sector>> = Command("80") \o (Unlock \o <<sector>>)
  BY <1>7, <1>8
<1>10. s \in {Command("90"), Command("F0"), Command("A0") \o <<program>>,
              Command("80") \o Unlock \o <<sector>>, Command("80") \o Command("10")}
  BY DEF FlashCalls, program, sector
<1>11. CASE s \in {Command("90"), Command("F0")}
  BY <1>2, <1>4, <1>11, Zenon
<1>12. CASE s = Command("A0") \o <<program>>
  BY <1>3, <1>4, <1>5, <1>12, Zenon
<1>13. CASE s = Command("80") \o Unlock \o <<sector>>
  BY <1>3, <1>4, <1>6, <1>9, <1>13, Zenon
<1>14. CASE s = Command("80") \o Command("10")
  BY <1>3, <1>4, <1>7, <1>14, Zenon
<1> QED
  BY <1>10, <1>11, <1>12, <1>13, <1>14, Zenon

\* A 64 KB library's writes are writes.
LEMMA NoBankWrites == Seq(NoBank) \subseteq Seq(Writes)
BY DEF NoBank, Writes

\* A 128 KB library selects the bank first.
LEMMA BankCallFacts ==
  ASSUME NEW s \in FlashCalls
  PROVE  BankCall \o s \in Seq(Writes) /\ OpensBank(BankCall \o s)
<1> DEFINE number == <<"0", "x">>
<1>1. "B0" \in Values /\ number \in Writes
  BY DEF Values, Writes, Addresses
<1> HIDE DEF number
<1>2. <<number>> \in Seq(Writes)
  BY <1>1, OneWrite, Zenon
<1>3. BankCall = Command("B0") \o <<number>>
  BY DEF BankCall, number
<1>4. /\ Command("B0") \in Seq(Writes) /\ Opens(Command("B0"))
      /\ OpensBank(Command("B0"))
  BY <1>1, CommandIs, Zenon
<1>5. BankCall \in Seq(Writes) /\ Opens(BankCall) /\ OpensBank(BankCall)
  BY <1>2, <1>3, <1>4, StillOpens, Zenon
<1>6. s \in Seq(Writes)
  BY FlashCallsFacts, NoBankWrites, Zenon
<1> QED
  BY <1>5, <1>6, StillOpens, Zenon

\* What the first writes of a library's call are.
LEMMA CallFacts ==
  ASSUME "AA" \notin SramBytes, NEW c \in Known, NEW s \in Calls(c)
  PROVE  /\ s \in Seq(Writes)
         /\ c \notin EepromChips
         /\ c = "SRAM" => s \in Seq(NoUnlock)
         /\ c \in FlashChips => Opens(s)
         /\ c = "FLASH64" => s \in Seq(NoBank)
         /\ c = "FLASH128" => OpensBank(s)
<1>1. CASE c = "SRAM"
  <2>1. PICK w : /\ s = <<w>>
                 /\ w = <<"other", "x">> \/ \E v \in SramBytes : w = <<"5555", v>>
    BY <1>1 DEF Calls
  <2>2. SramBytes \subseteq Values \ {"AA"}
    BY CartsAssumption
  <2>3. w \in NoUnlock /\ w \in Writes
    BY <2>1, <2>2 DEF NoUnlock, Writes, Addresses, Values
  <2>4. s \in Seq(NoUnlock) /\ s \in Seq(Writes)
    BY <2>1, <2>3, OneWrite
  <2> QED
    BY <1>1, <2>4 DEF EepromChips, FlashChips
<1>2. CASE c = "FLASH64"
  <2>1. s \in FlashCalls
    BY <1>2 DEF Calls
  <2>2. s \in Seq(NoBank) /\ Opens(s)
    BY <2>1, FlashCallsFacts
  <2>3. s \in Seq(Writes)
    BY <2>2, NoBankWrites
  <2> QED
    BY <1>2, <2>2, <2>3 DEF EepromChips
<1>3. CASE c = "FLASH128"
  <2>1. PICK f \in FlashCalls : s = BankCall \o f
    BY <1>3 DEF Calls
  <2>2. s \in Seq(Writes) /\ OpensBank(s)
    BY <2>1, BankCallFacts
  <2> QED
    BY <1>3, <2>2 DEF EepromChips, OpensBank
<1>4. CASE c \in EepromChips
  BY <1>4 DEF Calls, EepromChips
<1> QED
  BY <1>1, <1>2, <1>3, <1>4 DEF Known, Classes, EepromChips
\* The first write of a call, and the writes left after it.
LEMMA FirstWrite ==
  ASSUME NEW S, NEW s \in Seq(S), s # <<>>
  PROVE  /\ Head(s) \in S /\ Tail(s) \in Seq(S) /\ Head(s) = s[1]
         /\ Opens(s) => Head(s) = <<"5555", "AA">>
         /\ OpensBank(s) => Head(s) = <<"5555", "AA">> /\ OpensBank2(Tail(s))
         /\ OpensBank2(s) => Head(s) = <<"2AAA", "55">> /\ OpensBank3(Tail(s))
         /\ OpensBank3(s) => Head(s) = <<"5555", "B0">>
<1>1. PICK t \in Seq(S) : t = Tail(s) /\ Len(t) = Len(s) - 1
                          /\ \A i \in 1..Len(t) : t[i] = s[i + 1]
  <2>1. Tail(s) \in Seq(S) /\ Len(Tail(s)) = Len(s) - 1
    OBVIOUS
  <2>2. \A i \in 1..Len(Tail(s)) : Tail(s)[i] = s[i + 1]
    OBVIOUS
  <2> QED
    BY <2>1, <2>2
<1>2. Head(s) \in S /\ Head(s) = s[1]
  OBVIOUS
<1>3. ASSUME Len(s) >= 3 PROVE Len(t) >= 2 /\ t[1] = s[2] /\ t[2] = s[3]
  BY <1>1, <1>3
<1>4. ASSUME Len(s) >= 2 PROVE Len(t) >= 1 /\ t[1] = s[2]
  BY <1>1, <1>4
<1>5. OpensBank(s) => OpensBank2(t)
  BY <1>3 DEF OpensBank, OpensBank2, Opens
<1>6. OpensBank2(s) => OpensBank3(t)
  BY <1>4 DEF OpensBank2, OpensBank3
<1> QED
  BY <1>1, <1>2, <1>5, <1>6 DEF Opens, OpensBank, OpensBank2, OpensBank3

-----------------------------------------------------------------------------
(* One write. *)

\* What a write may do to the chip, whoever makes it.
LEMMA WriteEffect ==
  ASSUME NEW a, NEW v, WriteBackup(a, v)
  PROVE  /\ cart' = cart /\ stage' = stage /\ eep' = eep /\ used' = used
         /\ saved' = saved /\ restored' = restored
         /\ type' \in {type, Settled, "flash"}
         /\ type = "flash" => type' = "flash"
         /\ bank' = bank \/ (v = "B0" /\ bank' = "128K")
<1>1. /\ cart' = cart /\ stage' = stage /\ eep' = eep /\ used' = used
      /\ saved' = saved /\ restored' = restored
  BY DEF WriteBackup
<1>2. CASE Ignored
  <2>1. type' = type /\ bank' = bank
    BY <1>2 DEF WriteBackup
  <2> QED
    BY <1>1, <2>1
<1>3. CASE CommandPort(v)
  <2>1. /\ type' = IF cmd = 0 /\ v = "AA" THEN "flash" ELSE Settled
        /\ bank' = IF cmd = 2 /\ v = "B0" THEN "128K" ELSE bank
    BY <1>3, Zenon DEF CommandPort
  <2> QED
    BY <1>1, <2>1 DEF Settled
<1>4. CASE DataPort(a, v)
  <2>1. type' = Settled /\ bank' = bank
    BY <1>4, Zenon DEF DataPort
  <2> QED
    BY <1>1, <2>1 DEF Settled
<1>5. Ignored \/ CommandPort(v) \/ DataPort(a, v)
  BY Zenon DEF WriteBackup
<1> QED
  BY <1>2, <1>3, <1>4, <1>5

\* A write of no unlock outside a command settles the type and no more.
LEMMA SramWrite ==
  ASSUME NEW a, NEW v, WriteBackup(a, v), ~Ignored, cmd = 0, mode = "base", v # "AA"
  PROVE  type' = Settled /\ cmd' = 0 /\ mode' = "base" /\ bank' = bank
<1>1. CASE a = "5555"
  BY <1>1 DEF WriteBackup, CommandPort, CommandPosition
<1>2. CASE a # "5555"
  BY <1>2 DEF WriteBackup, DataPort
<1> QED
  BY <1>1, <1>2

\* The first unlock, the second one, and the bank command.
LEMMA FirstUnlock ==
  ASSUME WriteBackup("5555", "AA"), ~Ignored, cmd = 0, mode = "base"
  PROVE  /\ type' = "flash" /\ cmd' = 1 /\ mode' = "base" /\ bank' = bank
         /\ changed' => changed
<1>1. CommandPort("AA")
  BY DEF WriteBackup
<1>2. type' = "flash" /\ cmd' = 1 /\ mode' = "base" /\ bank' = bank
  BY <1>1 DEF CommandPort, CommandPosition
<1>3. changed' => changed \/ (cmd = 2 /\ "AA" = "10" /\ mode = "erase") \/ type' = "sram"
  BY <1>1, Zenon DEF CommandPort
<1> QED
  BY <1>2, <1>3

LEMMA SecondUnlock ==
  ASSUME WriteBackup("2AAA", "55"), ~Ignored, cmd = 1, mode = "base"
  PROVE  cmd' = 2 /\ mode' = "base" /\ bank' = bank /\ (changed' => changed)
<1>1. DataPort("2AAA", "55")
  BY DEF WriteBackup
<1>2. cmd' = 2 /\ mode' = "base" /\ bank' = bank
  BY <1>1 DEF DataPort
<1>3. changed' => changed
  BY <1>1 DEF DataPort
<1> QED
  BY <1>2, <1>3

LEMMA BankCommand ==
  ASSUME WriteBackup("5555", "B0"), ~Ignored, cmd = 2, mode = "base"
  PROVE  bank' = "128K"
BY DEF WriteBackup, CommandPort

-----------------------------------------------------------------------------
(* What the game does, board by board. *)

\* A cartridge of the slot.
LEMMA CartTyped ==
  ASSUME ChipTyped
  PROVE  cart \in Cartridge /\ cart.chip \in Known
BY CartsAssumption DEF ChipTyped, Cartridge

\* A game that follows its library reads, starts a call, goes on with one, or
\* uses the EEPROM of its board.
LEMMA GuestSteps ==
  ASSUME ChipTyped, ~cart.wild, Guest
  PROVE  \/ cart.chip \notin EepromChips /\ (ReadBackup \/ StartCall)
         \/ NextWrite
         \/ cart.chip = "EEPROM512" /\ WriteEeprom("512")
         \/ cart.chip = "EEPROM8K" /\ WriteEeprom("8K")
<1>1. cart.chip \in Known
  BY CartTyped
<1>2. Family(cart.chip) = "eeprom" <=> cart.chip \in EepromChips
  BY <1>1, Families
<1> QED
  BY <1>2 DEF Guest

\* An access that is not ignored under a guess the board disproves.
LEMMA SramKept ==
  ASSUME AllPromised, ChipTyped, ~cart.wild, cart.chip = "SRAM", SramBoard, Guest
  PROVE  SramBoard' /\ cart' = cart /\ saved' = saved
<1>1. ~Ignored /\ Settled = "sram"
  BY DEF SramBoard, Ignored, Settled
<1>2. ReadBackup \/ StartCall \/ NextWrite
  BY GuestSteps
<1>3. CASE ReadBackup
  BY <1>1, <1>3 DEF ReadBackup, SramBoard, Guessed
<1>4. CASE StartCall
  <2>1. script' \in Seq(NoUnlock)
    <3>1. script' \in Calls("SRAM")
      BY <1>4 DEF StartCall
    <3>2. "SRAM" \in Known /\ "AA" \notin SramBytes
      BY DEF Known, Classes, AllPromised
    <3> QED
      BY <3>1, <3>2, CallFacts
  <2> QED
    BY <1>4, <2>1 DEF StartCall, SramBoard, Guessed
<1>5. CASE NextWrite
  <2>1. script \in Seq(NoUnlock) /\ script # <<>> /\ cmd = 0 /\ mode = "base"
        /\ bank = "64K" /\ stage = "play"
    BY <1>5 DEF NextWrite, SramBoard
  <2>2. Head(script) \in NoUnlock /\ Tail(script) \in Seq(NoUnlock)
    BY <2>1, FirstWrite
  <2>3. PICK a \in Addresses, v \in Values \ {"AA"} : Head(script) = <<a, v>>
    BY <2>2 DEF NoUnlock
  <2>4. WriteBackup(a, v) /\ script' = Tail(script)
    BY <1>5, <2>3 DEF NextWrite
  <2>5. type' = Settled /\ cmd' = 0 /\ mode' = "base" /\ bank' = bank
    BY <1>1, <2>1, <2>3, <2>4, SramWrite
  <2>6. cart' = cart /\ stage' = stage /\ saved' = saved
    BY <2>4, WriteEffect
  <2> QED
    BY <1>1, <2>1, <2>2, <2>4, <2>5, <2>6 DEF SramBoard
<1> QED
  BY <1>2, <1>3, <1>4, <1>5

\* The type of a flash board: nothing drops it, and a call brings it about.
LEMMA FlashKept ==
  ASSUME AllPromised, ChipTyped, ~cart.wild, cart.chip \in FlashChips, FlashBoard,
         Guest
  PROVE  FlashBoard' /\ cart' = cart /\ saved' = saved
<1>1. ReadBackup \/ StartCall \/ NextWrite
  BY GuestSteps DEF FlashChips
<1>2. type # "flash" => ~Ignored
  BY DEF FlashBoard, Ignored
<1>3. CASE ReadBackup
  <2>1. type' = "flash" \/ (type # "flash" /\ type' = Settled)
    BY <1>2, <1>3 DEF ReadBackup, Settled, Ignored
  <2>2. Settled # "eeprom"
    BY DEF Settled
  <2>3. type = "flash" => type' = "flash"
    BY <1>3 DEF ReadBackup, Settled, Ignored
  <2>4. /\ cart' = cart /\ saved' = saved /\ stage' = stage /\ script' = script
        /\ cmd' = cmd /\ mode' = mode /\ changed' = changed
    BY <1>3 DEF ReadBackup
  <2> QED
    BY <2>1, <2>2, <2>3, <2>4 DEF FlashBoard, AtStart
<1>4. CASE StartCall
  <2>1. Opens(script')
    <3>1. script' \in Calls(cart.chip)
      BY <1>4 DEF StartCall
    <3>2. cart.chip \in Known /\ "AA" \notin SramBytes
      BY DEF Known, Classes, AllPromised, FlashChips
    <3> QED
      BY <3>1, <3>2, CallFacts
  <2>2. /\ cart' = cart /\ saved' = saved /\ stage' = stage /\ type' = type
        /\ cmd' = cmd /\ mode' = mode /\ changed' = changed /\ used' = used
    BY <1>4 DEF StartCall
  <2> QED
    BY <2>1, <2>2 DEF FlashBoard, AtStart, Guessed
<1>5. CASE NextWrite
  <2>1. script \in Seq(Writes) /\ script # <<>>
    BY <1>5 DEF NextWrite, ChipTyped
  <2>2. PICK a, v : WriteBackup(a, v) /\ a = Head(script)[1] /\ v = Head(script)[2]
    BY <1>5 DEF NextWrite
  <2>3. cart' = cart /\ saved' = saved /\ (type = "flash" => type' = "flash")
    BY <2>2, WriteEffect
  <2>4. type # "flash" => type' = "flash"
    <3> SUFFICES ASSUME type # "flash" PROVE type' = "flash"
      OBVIOUS
    <3>1. cmd = 0 /\ mode = "base" /\ Opens(script)
      BY <2>1 DEF FlashBoard, AtStart
    <3>2. a = "5555" /\ v = "AA"
      BY <2>1, <2>2, <3>1, FirstWrite
    <3> QED
      BY <1>2, <2>2, <3>1, <3>2, FirstUnlock
  <2> QED
    BY <2>3, <2>4 DEF FlashBoard
<1> QED
  BY <1>1, <1>3, <1>4, <1>5

\* A 64 KB library leaves the bank count alone.
LEMMA Flash64Kept ==
  ASSUME AllPromised, ChipTyped, ~cart.wild, cart.chip = "FLASH64", Flash64Board,
         Guest
  PROVE  Flash64Board'
<1>1. ReadBackup \/ StartCall \/ NextWrite
  BY GuestSteps
<1>2. CASE ReadBackup
  BY <1>2 DEF ReadBackup, Flash64Board
<1>3. CASE StartCall
  <2>1. script' \in Calls("FLASH64") /\ bank' = bank
    BY <1>3 DEF StartCall
  <2>2. "FLASH64" \in Known /\ "AA" \notin SramBytes
    BY DEF Known, Classes, AllPromised
  <2>3. script' \in Seq(NoBank)
    BY <2>1, <2>2, CallFacts
  <2> QED
    BY <2>1, <2>3 DEF Flash64Board
<1>4. CASE NextWrite
  <2>1. script \in Seq(NoBank) /\ script # <<>>
    BY <1>4 DEF NextWrite, Flash64Board
  <2>2. Head(script) \in NoBank /\ Tail(script) \in Seq(NoBank)
    BY <2>1, FirstWrite
  <2>3. PICK a \in Addresses, v \in Values \ {"B0"} : Head(script) = <<a, v>>
    BY <2>2 DEF NoBank
  <2>4. WriteBackup(a, v) /\ script' = Tail(script)
    BY <1>4, <2>3 DEF NextWrite
  <2>5. bank' = bank
    BY <2>3, <2>4, WriteEffect
  <2> QED
    BY <2>2, <2>4, <2>5 DEF Flash64Board
<1> QED
  BY <1>1, <1>2, <1>3, <1>4

\* A 128 KB library has selected a bank before it stores anything.
LEMMA Flash128Kept ==
  ASSUME AllPromised, ChipTyped, ~cart.wild, cart.chip = "FLASH128", FlashBoard,
         Flash128Board, Guest
  PROVE  Flash128Board'
<1>1. ReadBackup \/ StartCall \/ NextWrite
  BY GuestSteps DEF EepromChips
<1>2. CASE ReadBackup
  BY <1>2 DEF ReadBackup, Flash128Board
<1>3. CASE StartCall
  <2>1. /\ script' \in Calls("FLASH128") /\ script = <<>> /\ bank' = bank
        /\ cmd' = cmd /\ mode' = mode /\ changed' = changed /\ stage' = stage
    BY <1>3 DEF StartCall
  <2>2. "FLASH128" \in Known /\ "AA" \notin SramBytes
    BY DEF Known, Classes, AllPromised
  <2>3. OpensBank(script')
    BY <2>1, <2>2, CallFacts
  <2>4. ~OpensBank2(script) /\ ~OpensBank3(script)
    BY <2>1 DEF OpensBank2, OpensBank3
  <2> QED
    BY <2>1, <2>3, <2>4 DEF Flash128Board
<1>4. CASE NextWrite
  <2>1. /\ script \in Seq(Writes) /\ script # <<>> /\ script' = Tail(script)
        /\ stage = "play" /\ bank \in BankCounts
    BY <1>4 DEF NextWrite, ChipTyped
  <2>2. PICK a, v : WriteBackup(a, v) /\ a = Head(script)[1] /\ v = Head(script)[2]
    BY <1>4 DEF NextWrite
  <2>3. /\ bank' = bank \/ bank' = "128K"
        /\ stage' = stage
    BY <2>2, WriteEffect
  <2>4. CASE bank # "64K"
    BY <2>1, <2>3, <2>4 DEF Flash128Board, BankCounts
  <2>5. CASE bank = "64K"
    <3>1. ~changed /\ mode = "base"
      BY <2>1, <2>5 DEF Flash128Board
    <3>2. CASE cmd = 0 /\ OpensBank(script)
      <4>1. a = "5555" /\ v = "AA" /\ OpensBank2(script')
        BY <2>1, <2>2, <3>2, FirstWrite
      <4>2. ~Ignored
        BY <2>1, <3>1, <3>2, <4>1 DEF FlashBoard, Ignored
      <4>3. cmd' = 1 /\ mode' = "base" /\ ~changed'
        BY <2>2, <3>1, <3>2, <4>1, <4>2, FirstUnlock
      <4> QED
        BY <4>1, <4>3 DEF Flash128Board
    <3>3. CASE cmd = 1 /\ OpensBank2(script)
      <4>1. a = "2AAA" /\ v = "55" /\ OpensBank3(script')
        BY <2>1, <2>2, <3>3, FirstWrite
      <4>2. ~Ignored
        BY <3>3 DEF FlashBoard, Ignored, AtStart
      <4>3. cmd' = 2 /\ mode' = "base" /\ ~changed'
        BY <2>2, <3>1, <3>3, <4>1, <4>2, SecondUnlock
      <4> QED
        BY <4>1, <4>3 DEF Flash128Board
    <3>4. CASE cmd = 2 /\ OpensBank3(script)
      <4>1. a = "5555" /\ v = "B0"
        BY <2>1, <2>2, <3>4, FirstWrite
      <4>2. ~Ignored
        BY <3>4 DEF FlashBoard, Ignored, AtStart
      <4>3. bank' = "128K"
        BY <2>2, <3>1, <3>4, <4>1, <4>2, BankCommand
      <4> QED
        BY <4>3 DEF Flash128Board
    <3> QED
      BY <2>1, <2>5, <3>2, <3>3, <3>4 DEF Flash128Board
  <2> QED
    BY <2>4, <2>5
<1> QED
  BY <1>1, <1>2, <1>3, <1>4

\* The EEPROM is reached by transfers of its own size only.
LEMMA EepromKept ==
  ASSUME ChipTyped, ~cart.wild, cart.chip \in EepromChips, EepromBoard, Guest
  PROVE  EepromBoard' /\ cart' = cart /\ saved' = saved
<1>1. ~NextWrite
  BY DEF NextWrite, EepromBoard
<1>2. \/ cart.chip = "EEPROM512" /\ WriteEeprom("512")
      \/ cart.chip = "EEPROM8K" /\ WriteEeprom("8K")
  BY <1>1, GuestSteps
<1>3. CASE cart.chip = "EEPROM512" /\ WriteEeprom("512")
  BY <1>3 DEF WriteEeprom, EepromBoard
<1>4. CASE cart.chip = "EEPROM8K" /\ WriteEeprom("8K")
  BY <1>4 DEF WriteEeprom, EepromBoard
<1> QED
  BY <1>2, <1>3, <1>4

\* A game that writes anything cannot make a small board larger, and never
\* turns a flash type into another.
LEMMA WildKept ==
  ASSUME AllPromised, ChipTyped, cart.wild, WildBoard, Guest
  PROVE  WildBoard' /\ cart' = cart /\ saved' = saved
<1>1. cart \in Cartridge /\ cart.chip \in Known /\ Promised(cart)
  BY CartTyped DEF AllPromised, ChipTyped
<1>2. cart.chip \notin EepromChips
  BY <1>1, FirmGuess
<1>3. ReadBackup \/ AnyWrite
  <2>1. Family(cart.chip) # "eeprom"
    BY <1>1, <1>2, Families
  <2> QED
    BY <2>1 DEF Guest
<1>4. type # "eeprom" /\ Settled # "eeprom"
  BY DEF WildBoard, Settled
<1>5. /\ cart' = cart /\ saved' = saved /\ script' = script /\ restored' = restored
      /\ stage' = stage
      /\ type' \in {type, Settled, "flash"}
      /\ type = "flash" => type' = "flash"
      /\ ~SureOf128(cart) => bank' = bank
      /\ bank = "128K" => bank' = "128K"
  <2>1. CASE ReadBackup
    BY <2>1 DEF ReadBackup, Settled
  <2>2. CASE AnyWrite
    <3>1. PICK a, v : WriteBackup(a, v) /\ (v = "B0" => cart.chip = "FLASH128")
      BY <2>2 DEF AnyWrite
    <3>2. script' = script
      BY <2>2 DEF AnyWrite
    <3>3. ~SureOf128(cart) => v # "B0"
      BY <1>1, <3>1, FirmGuess
    <3> QED
      BY <3>1, <3>2, <3>3, WriteEffect
  <2> QED
    BY <1>3, <2>1, <2>2
<1>6. type \in {"unkn", "sram", "flash"} => type' \in {"unkn", "sram", "flash"}
  BY <1>5 DEF Settled
<1> QED
  BY <1>5, <1>6 DEF WildBoard

-----------------------------------------------------------------------------
(* Every step. *)

\* The game's writes are typed whatever it is.
LEMMA GuestTyped ==
  ASSUME AllPromised, ChipTyped, Guest
  PROVE  /\ ChipTyped' /\ stage = "play" /\ stage' = "play"
         /\ saved' = saved /\ restored' = restored
<1>1. cart.chip \in Known /\ "AA" \notin SramBytes
  BY CartTyped DEF AllPromised
<1>2. \/ ReadBackup \/ AnyWrite \/ StartCall \/ NextWrite
      \/ \E s \in EepromSizes : WriteEeprom(s)
  BY DEF Guest, EepromSizes
<1>3. Settled \in {"unkn", "sram", "flash", "eeprom"}
  BY DEF ChipTyped, Settled
<1>4. CASE ReadBackup
  BY <1>3, <1>4 DEF ReadBackup, ChipTyped
<1>5. CASE StartCall
  <2>1. script' \in Seq(Writes)
    BY <1>1, <1>5, CallFacts DEF StartCall
  <2> QED
    BY <1>5, <2>1 DEF StartCall, ChipTyped
<1>6. CASE AnyWrite
  <2>1. PICK a, v : WriteBackup(a, v) /\ stage = "play" /\ script' = script
    BY <1>6 DEF AnyWrite
  <2>2. /\ cart' = cart /\ stage' = stage /\ eep' = eep /\ saved' = saved
        /\ restored' = restored /\ type' \in {type, Settled, "flash"}
        /\ bank' \in {bank, "128K"}
    BY <2>1, WriteEffect
  <2> QED
    BY <1>3, <2>1, <2>2 DEF ChipTyped, BankCounts
<1>7. CASE NextWrite
  <2>1. PICK a, v : WriteBackup(a, v)
    BY <1>7 DEF NextWrite
  <2>2. stage = "play" /\ script # <<>> /\ script' = Tail(script)
    BY <1>7 DEF NextWrite
  <2>3. script \in Seq(Writes)
    BY DEF ChipTyped
  <2>4. script' \in Seq(Writes)
    BY <2>2, <2>3, FirstWrite
  <2>5. /\ cart' = cart /\ stage' = stage /\ eep' = eep /\ saved' = saved
        /\ restored' = restored /\ type' \in {type, Settled, "flash"}
        /\ bank' \in {bank, "128K"}
    BY <2>1, WriteEffect
  <2> QED
    BY <1>3, <2>2, <2>4, <2>5 DEF ChipTyped, BankCounts
<1>8. ASSUME NEW s \in EepromSizes, WriteEeprom(s)
      PROVE  /\ ChipTyped' /\ stage = "play" /\ stage' = "play"
             /\ saved' = saved /\ restored' = restored
  BY <1>8 DEF WriteEeprom, ChipTyped, EepromSizes
<1> QED
  BY <1>2, <1>4, <1>5, <1>6, <1>7, <1>8

\* An access of the game, whatever the board.
LEMMA GuestStep ==
  ASSUME AllPromised, ChipInv, Guest
  PROVE  ChipInv'
<1>1. /\ ChipTyped /\ ChipTyped' /\ stage = "play" /\ stage' = "play"
      /\ saved' = saved /\ restored' = restored
  BY GuestTyped DEF ChipInv
<1>2. restored' \in {"UNKNOWN", saved'}
  BY <1>1 DEF ChipInv
<1>3. Board'
  <2>1. CASE cart.wild /\ WildBoard
    BY <1>1, <2>1, WildKept DEF Board
  <2>2. CASE ~cart.wild /\ saved \in {"UNKNOWN", cart.chip}
    <3>1. CASE cart.chip = "SRAM" /\ SramBoard
      BY <1>1, <2>2, <3>1, SramKept DEF Board
    <3>2. CASE cart.chip = "FLASH64" /\ FlashBoard /\ Flash64Board
      <4>1. cart.chip \in FlashChips
        BY <3>2 DEF FlashChips
      <4> QED
        BY <1>1, <2>2, <3>2, <4>1, FlashKept, Flash64Kept DEF Board
    <3>3. CASE cart.chip = "FLASH128" /\ FlashBoard /\ Flash128Board
      <4>1. cart.chip \in FlashChips
        BY <3>3 DEF FlashChips
      <4> QED
        BY <1>1, <2>2, <3>3, <4>1, FlashKept, Flash128Kept DEF Board
    <3>4. CASE cart.chip \in EepromChips /\ EepromBoard
      BY <1>1, <2>2, <3>4, EepromKept DEF Board
    <3> QED
      BY <2>2, <3>1, <3>2, <3>3, <3>4 DEF ChipInv, Board
  <2> QED
    BY <2>1, <2>2 DEF ChipInv, Board
<1> QED
  BY <1>1, <1>2, <1>3 DEF ChipInv

\* The restore supplies a type only where the save on disk is a 64 KB flash one.
LEMMA RestoreStep ==
  ASSUME AllPromised, ChipInv, Restore
  PROVE  ChipInv'
<1>1. /\ stage = "boot" /\ stage' = "play" /\ cart' = cart /\ bank' = bank
      /\ eep' = eep /\ used' = used /\ mode' = mode /\ cmd' = cmd
      /\ script' = script /\ saved' = saved
  BY DEF Restore
<1>2. ~changed'
  BY DEF Restore
<1>3. restored' \in {"UNKNOWN", saved}
  BY DEF Restore
<1>4. /\ type' = type \/ type' = "flash"
      /\ type' # type => saved = "FLASH64" /\ type = "unkn"
  BY DEF Restore, Supplies
<1>5. ChipTyped'
  BY <1>1, <1>4 DEF ChipInv, ChipTyped
<1>6. cmd = 0 /\ mode = "base" /\ script = <<>>
  BY <1>1 DEF ChipInv, AsGuessed
<1>7. Board'
  <2>1. CASE cart.wild /\ WildBoard
    <3>1. restored' = "FLASH64" /\ ~SureOf128(cart) => type' = "flash"
      <4> SUFFICES ASSUME restored' = "FLASH64", ~SureOf128(cart) PROVE type' = "flash"
        OBVIOUS
      <4>1. Accepted /\ saved = "FLASH64"
        BY DEF Restore
      <4>2. type \in {"unkn", "sram", "flash"} /\ bank = "64K"
        BY <2>1 DEF WildBoard
      <4>3. type # "sram"
        BY <4>1 DEF Accepted, live, ClassOf, CompatibleEv, Family
      <4>4. CASE type = "unkn"
        BY <4>1, <4>2, <4>4 DEF Restore, Supplies
      <4>5. CASE type = "flash"
        BY <1>4, <4>5
      <4> QED
        BY <4>2, <4>3, <4>4, <4>5
    <3> QED
      BY <1>1, <1>4, <2>1, <3>1 DEF Board, WildBoard
  <2>2. CASE ~cart.wild /\ saved \in {"UNKNOWN", cart.chip}
    <3>1. CASE cart.chip = "SRAM" /\ SramBoard
      BY <1>1, <1>2, <1>4, <2>2, <3>1 DEF Board, SramBoard, Guessed
    <3>2. CASE cart.chip = "FLASH64" /\ FlashBoard /\ Flash64Board
      <4>1. FlashBoard' /\ Flash64Board'
        BY <1>1, <1>2, <1>4, <3>2 DEF FlashBoard, Flash64Board, AtStart, Guessed
      <4> QED
        BY <1>1, <2>2, <3>2, <4>1 DEF Board
    <3>3. CASE cart.chip = "FLASH128" /\ FlashBoard /\ Flash128Board
      <4>1. type' = type
        BY <1>4, <2>2, <3>3
      <4>2. FlashBoard'
        BY <1>1, <1>2, <3>3, <4>1 DEF FlashBoard, AtStart, Guessed
      <4>3. Flash128Board'
        BY <1>1, <1>2, <1>6, <3>3 DEF Flash128Board
      <4> QED
        BY <1>1, <2>2, <3>3, <4>2, <4>3 DEF Board
    <3>4. CASE cart.chip \in EepromChips /\ EepromBoard
      <4>1. type' = type
        BY <1>4, <2>2, <3>4 DEF EepromChips
      <4>2. EepromBoard'
        BY <1>1, <1>2, <3>4, <4>1 DEF EepromBoard
      <4> QED
        BY <1>1, <2>2, <3>4, <4>2 DEF Board
    <3> QED
      BY <2>2, <3>1, <3>2, <3>3, <3>4 DEF ChipInv, Board
  <2> QED
    BY <2>1, <2>2 DEF ChipInv, Board
<1> QED
  BY <1>1, <1>3, <1>5, <1>7 DEF ChipInv

\* What a changed save is committed as: the class of the board, or, for a game
\* that follows no library, one at least as long as what was restored.
LEMMA CommittedClass ==
  ASSUME ChipInv, stage = "play", changed
  PROVE  /\ ~cart.wild => live = cart.chip
         /\ cart.wild /\ SureOf128(cart) => live = "FLASH128"
         /\ cart.wild /\ ~SureOf128(cart) =>
              /\ live \in {"UNKNOWN", "SRAM", "FLASH64"}
              /\ restored = "FLASH64" => live = "FLASH64"
<1>1. cart.chip \in Known
  BY CartTyped DEF ChipInv
<1>2. CASE cart.wild /\ WildBoard
  BY <1>2 DEF WildBoard, live, ClassOf
<1>3. CASE ~cart.wild /\ cart.chip = "SRAM" /\ SramBoard
  BY <1>3 DEF SramBoard, live, ClassOf
<1>4. CASE ~cart.wild /\ cart.chip = "FLASH64" /\ FlashBoard /\ Flash64Board
  BY <1>4 DEF FlashBoard, Flash64Board, live, ClassOf
<1>5. CASE ~cart.wild /\ cart.chip = "FLASH128" /\ FlashBoard /\ Flash128Board
  BY <1>5 DEF ChipInv, ChipTyped, BankCounts, FlashBoard, Flash128Board, live, ClassOf
<1>6. CASE ~cart.wild /\ cart.chip \in EepromChips /\ EepromBoard
  BY <1>6 DEF EepromBoard, EepromChips, live, ClassOf
<1> QED
  BY <1>2, <1>3, <1>4, <1>5, <1>6 DEF ChipInv, Board

\* A session's end disturbs nothing but the save on disk.
LEMMA EndStep ==
  ASSUME AllPromised, ChipInv, NEW clean \in BOOLEAN, EndSession(clean)
  PROVE  ChipInv'
<1>1. /\ stage = "play" /\ stage' = "off" /\ cart' = cart /\ type' = type
      /\ bank' = bank /\ eep' = eep /\ used' = used /\ mode' = mode /\ cmd' = cmd
      /\ script' = script
  BY DEF EndSession
<1>2. saved' = saved \/ (changed /\ live # "UNKNOWN" /\ saved' = live)
  BY DEF EndSession
<1>3. cart.chip \in Known
  BY CartTyped DEF ChipInv
<1>4. /\ ~cart.wild => saved' \in {"UNKNOWN", cart.chip}
      /\ cart.wild /\ SureOf128(cart) => saved' \in {"UNKNOWN", "FLASH128"}
      /\ cart.wild /\ ~SureOf128(cart) => saved' \in {"UNKNOWN", "SRAM", "FLASH64"}
  <2>1. /\ ~cart.wild => saved \in {"UNKNOWN", cart.chip}
        /\ cart.wild /\ SureOf128(cart) => saved \in {"UNKNOWN", "FLASH128"}
        /\ cart.wild /\ ~SureOf128(cart) => saved \in {"UNKNOWN", "SRAM", "FLASH64"}
    BY DEF ChipInv, Board, WildBoard
  <2> QED
    BY <1>1, <1>2, <2>1, CommittedClass
<1>5. ChipTyped'
  <2>1. saved' \in Classes
    BY <1>3, <1>4 DEF Known, Classes
  <2> QED
    BY <1>1, <2>1 DEF ChipInv, ChipTyped
<1>6. Board'
  <2>1. CASE cart.wild /\ WildBoard
    BY <1>1, <1>4, <2>1 DEF Board, WildBoard
  <2>2. CASE ~cart.wild /\ cart.chip = "SRAM" /\ SramBoard
    <3>1. SramBoard'
      BY <1>1, <2>2 DEF SramBoard, Guessed
    <3> QED
      BY <1>1, <1>4, <2>2, <3>1 DEF Board
  <2>3. CASE ~cart.wild /\ cart.chip = "FLASH64" /\ FlashBoard /\ Flash64Board
    <3>1. FlashBoard' /\ Flash64Board'
      BY <1>1, <2>3 DEF FlashBoard, Flash64Board, AtStart, Guessed
    <3> QED
      BY <1>1, <1>4, <2>3, <3>1 DEF Board
  <2>4. CASE ~cart.wild /\ cart.chip = "FLASH128" /\ FlashBoard /\ Flash128Board
    <3>1. FlashBoard' /\ Flash128Board'
      BY <1>1, <2>4 DEF FlashBoard, Flash128Board, AtStart, Guessed
    <3> QED
      BY <1>1, <1>4, <2>4, <3>1 DEF Board
  <2>5. CASE ~cart.wild /\ cart.chip \in EepromChips /\ EepromBoard
    <3>1. EepromBoard'
      BY <1>1, <2>5 DEF EepromBoard
    <3> QED
      BY <1>1, <1>4, <2>5, <3>1 DEF Board
  <2> QED
    BY <2>1, <2>2, <2>3, <2>4, <2>5 DEF ChipInv, Board
<1> QED
  BY <1>1, <1>5, <1>6 DEF ChipInv

\* What a load leaves: the guess, and a save of the cartridge's own, if any.
Fresh ==
  /\ cart \in Carts /\ stage = "boot" /\ AsGuessed /\ saved \in Classes
  /\ ~cart.wild => saved \in {"UNKNOWN", cart.chip}
  /\ cart.wild /\ SureOf128(cart) => saved \in {"UNKNOWN", "FLASH128"}
  /\ cart.wild /\ ~SureOf128(cart) => saved \in {"UNKNOWN", "SRAM", "FLASH64"}

\* That is enough for the invariant to begin with.
LEMMA Loaded == AllPromised /\ Fresh => ChipInv
<1> SUFFICES
      ASSUME AllPromised,
             cart \in Carts, stage = "boot", AsGuessed, saved \in Classes,
             ~cart.wild => saved \in {"UNKNOWN", cart.chip},
             cart.wild /\ SureOf128(cart) => saved \in {"UNKNOWN", "FLASH128"},
             cart.wild /\ ~SureOf128(cart) => saved \in {"UNKNOWN", "SRAM", "FLASH64"}
      PROVE  ChipInv
  BY DEF Fresh
<1>1. cart \in Cartridge /\ cart.chip \in Known /\ Promised(cart)
  BY CartsAssumption DEF Cartridge, AllPromised
<1>2. \A S : <<>> \in Seq(S)
  OBVIOUS
<1>3. ChipTyped
  <2>1. script \in Seq(Writes)
    BY <1>2 DEF AsGuessed
  <2> QED
    BY <1>1, <2>1, GuessTyped DEF AsGuessed, ChipTyped, EepromSizes
<1>4. Board
  <2>1. CASE cart.wild
    BY <1>1, <2>1, FirmGuess DEF Board, WildBoard, AsGuessed, SureOf128
  <2>2. CASE ~cart.wild /\ cart.chip = "SRAM"
    <3>1. script \in Seq(NoUnlock)
      BY <1>2 DEF AsGuessed
    <3>2. SramBoard
      BY <1>1, <2>2, <3>1, HonestGuess DEF SramBoard, AsGuessed
    <3> QED
      BY <2>2, <3>2 DEF Board
  <2>3. CASE ~cart.wild /\ cart.chip \in FlashChips
    <3>1. FlashBoard
      BY <1>1, <2>3, HonestGuess DEF FlashBoard, AtStart, AsGuessed
    <3>2. cart.chip = "FLASH64" => Flash64Board
      BY <1>1, <1>2, <2>3, HonestGuess DEF Flash64Board, AsGuessed
    <3>3. Flash128Board
      BY DEF Flash128Board, AsGuessed
    <3> QED
      BY <2>3, <3>1, <3>2, <3>3 DEF Board, FlashChips
  <2>4. CASE ~cart.wild /\ cart.chip \in EepromChips
    <3>1. EepromBoard
      BY <1>1, <2>4, HonestGuess DEF EepromBoard, AsGuessed
    <3> QED
      BY <2>4, <3>1 DEF Board
  <2> QED
    BY <1>1, <2>1, <2>2, <2>3, <2>4 DEF Known, Classes, FlashChips, EepromChips
<1> QED
  BY <1>3, <1>4 DEF ChipInv

\* The first launch, and every later one, which finds the save on disk.
LEMMA FirstLaunch == ChipInit => Fresh
BY DEF ChipInit, Fresh, AsGuessed, Classes

LEMMA LaunchStep ==
  ASSUME ChipInv, Launch
  PROVE  Fresh'
<1>1. stage' = "boot" /\ cart' = cart /\ saved' = saved /\ AsGuessed'
  BY DEF Launch, AsGuessed
<1>2. /\ cart \in Carts /\ saved \in Classes
      /\ ~cart.wild => saved \in {"UNKNOWN", cart.chip}
      /\ cart.wild /\ SureOf128(cart) => saved \in {"UNKNOWN", "FLASH128"}
      /\ cart.wild /\ ~SureOf128(cart) => saved \in {"UNKNOWN", "SRAM", "FLASH64"}
  BY DEF ChipInv, ChipTyped, Board, WildBoard
<1> QED
  BY <1>1, <1>2 DEF Fresh

\* A step that leaves the chip alone.
LEMMA Unmoved ==
  ASSUME ChipInv, UNCHANGED chipVars
  PROVE  ChipInv'
BY DEF chipVars, ChipInv, ChipTyped, AsGuessed, Board, WildBoard, SramBoard, FlashBoard,
   AtStart, Flash64Board, Flash128Board, EepromBoard, Guessed

\* The class is at every step what the board's own game can have made of it: a
\* session's step keeps ChipInv, and a launch begins it afresh.
THEOREM ChipInductive ==
  ASSUME AllPromised
  PROVE  ChipSpec => []ChipInv
<1>1. ChipInit => ChipInv
  BY FirstLaunch, Loaded
<1>2. Fresh => ChipInv
  BY Loaded
<1>3. ChipInv /\ [ChipNext]_chipVars => ChipInv' \/ Fresh'
  <2> SUFFICES ASSUME ChipInv, [ChipNext]_chipVars, ~Fresh' PROVE ChipInv'
    OBVIOUS
  <2>1. CASE Restore
    BY <2>1, RestoreStep
  <2>2. CASE Guest
    BY <2>2, GuestStep
  <2>3. ASSUME NEW clean \in BOOLEAN, EndSession(clean) PROVE ChipInv'
    BY <2>3, EndStep
  <2>4. CASE Launch
    BY <2>4, LaunchStep
  <2>5. CASE UNCHANGED chipVars
    BY <2>5, Unmoved
  <2> QED
    BY <2>1, <2>2, <2>3, <2>4, <2>5 DEF ChipNext
<1> QED
  BY <1>1, <1>2, <1>3, PTL DEF ChipSpec

\* OwnSaveAccepted: a save this program committed for a cartridge is handed back
\* to it at its next launch, whatever chip, detection and SRAM bytes it has.
THEOREM OwnSaves ==
  ASSUME AllPromised
  PROVE  ChipSpec => []OwnSaveAccepted
<1>1. ChipInv => OwnSaveAccepted
  <2> SUFFICES ASSUME ChipInv, stage = "boot", saved # "UNKNOWN", ~cart.wild,
                      ~GuessedWrong(cart), ~Unannounced(cart)
               PROVE  Accepted
    BY DEF OwnSaveAccepted
  <2>1. cart \in Cartridge /\ Promised(cart)
    BY CartTyped DEF ChipInv, ChipTyped, AllPromised
  <2>2. saved = cart.chip
    BY DEF ChipInv, Board
  <2>3. type = BootGuess(cart).type /\ bank = BootGuess(cart).bank /\ eep = "512"
    BY DEF ChipInv, AsGuessed
  <2>4. CompatibleEv(cart.chip,
                     ClassOf(BootGuess(cart).type, BootGuess(cart).bank, "512"), TRUE,
                     EvidenceOf(BootGuess(cart).type, BootGuess(cart).bank))
    BY <2>1, GateTakesOwn
  <2> QED
    BY <2>2, <2>3, <2>4 DEF Accepted, live
<1> QED
  BY <1>1, ChipInductive, PTL

\* WholeChipCommitted: what is committed is a whole chip's worth, wherever the
\* session ended.
THEOREM WholeChips ==
  ASSUME AllPromised
  PROVE  ChipSpec => []WholeChipCommitted
<1>1. ChipInv => WholeChipCommitted
  <2> SUFFICES ASSUME ChipInv, saved # "UNKNOWN", ~cart.wild
               PROVE  Region(saved) >= Region(cart.chip)
    BY DEF WholeChipCommitted
  <2>1. cart.chip \in Known /\ saved = cart.chip
    BY CartTyped DEF ChipInv, Board
  <2>2. Region(cart.chip) \in Int
    BY <2>1 DEF Known, Classes, Region, Declared, BackupSize
  <2> QED
    BY <2>1, <2>2
<1> QED
  BY <1>1, ChipInductive, PTL

\* RestoredNeverShrinks: a session that restored a save never replaces it by a
\* shorter one, whatever the game writes.
THEOREM NeverShrinks ==
  ASSUME AllPromised
  PROVE  ChipSpec => RestoredNeverShrinks
<1>1. ChipInv /\ [ChipNext]_chipVars =>
        [saved' # saved /\ restored # "UNKNOWN" => Region(saved') >= Region(saved)
        ]_chipVars
  <2> SUFFICES ASSUME ChipInv, ChipNext, saved' # saved, restored # "UNKNOWN"
               PROVE  Region(saved') >= Region(saved)
    OBVIOUS
  <2>1. PICK clean \in BOOLEAN : EndSession(clean)
    <3>1. ~Restore /\ ~Launch
      BY DEF Restore, Launch
    <3>2. ~Guest
      BY GuestTyped DEF ChipInv
    <3> QED
      BY <3>1, <3>2 DEF ChipNext
  <2>2. stage = "play" /\ changed /\ live # "UNKNOWN" /\ saved' = live
    BY <2>1 DEF EndSession
  <2>3. restored = saved
    BY <2>2 DEF ChipInv
  <2>4. CASE ~cart.wild
    <3>1. saved = cart.chip /\ live = cart.chip
      BY <2>2, <2>3, <2>4, CommittedClass DEF ChipInv, Board
    <3> QED
      BY <2>2, <3>1
  <2>5. CASE cart.wild /\ SureOf128(cart)
    <3>1. saved = "FLASH128" /\ live = "FLASH128"
      BY <2>2, <2>3, <2>5, CommittedClass DEF ChipInv, Board, WildBoard
    <3> QED
      BY <2>2, <3>1
  <2>6. CASE cart.wild /\ ~SureOf128(cart)
    <3>1. saved \in {"SRAM", "FLASH64"} /\ saved' \in {"SRAM", "FLASH64"}
      BY <2>2, <2>3, <2>6, CommittedClass DEF ChipInv, Board, WildBoard
    <3>2. saved = "SRAM" /\ saved' = "FLASH64"
      BY <2>2, <2>3, <2>6, <3>1, CommittedClass
    <3> QED
      BY <3>2 DEF Region, Declared, BackupSize
  <2> QED
    BY <2>4, <2>5, <2>6
<1> QED
  BY <1>1, ChipInductive, PTL DEF ChipSpec, RestoredNeverShrinks

\* What a step makes of the type, on any cartridge.
Types == {"unkn", "sram", "flash", "eeprom"}

LEMMA TypeMoves ==
  ASSUME ChipNext, cart \in Carts, type \in Types
  PROVE  /\ cart' = cart /\ type' \in Types
         /\ stage = "play" /\ type = "flash" => type' # "sram"
<1>1. Settled \in Types /\ (type = "flash" => Settled = "flash")
  BY DEF Settled, Types
<1>2. \/ Restore \/ Launch
      \/ \E clean \in BOOLEAN : EndSession(clean)
      \/ ReadBackup \/ StartCall
      \/ \E a, v : WriteBackup(a, v)
      \/ \E s \in EepromSizes : WriteEeprom(s)
  BY DEF ChipNext, Guest, NextWrite, AnyWrite, EepromSizes
<1>3. CASE Restore
  BY <1>3 DEF Restore, Types
<1>4. CASE Launch
  <2>1. cart \in Cartridge
    BY CartsAssumption
  <2> QED
    BY <1>4, <2>1, GuessTyped DEF Launch, Types
<1>5. ASSUME NEW clean \in BOOLEAN, EndSession(clean)
      PROVE  cart' = cart /\ type' = type
  BY <1>5 DEF EndSession
<1>6. CASE ReadBackup
  BY <1>1, <1>6 DEF ReadBackup
<1>7. CASE StartCall
  BY <1>7 DEF StartCall
<1>8. ASSUME NEW a, NEW v, WriteBackup(a, v)
      PROVE  /\ cart' = cart /\ type' \in Types
             /\ type = "flash" => type' # "sram"
  BY <1>1, <1>8, WriteEffect DEF Types
<1>9. ASSUME NEW s \in EepromSizes, WriteEeprom(s)
      PROVE  cart' = cart /\ type' = "eeprom"
  BY <1>9 DEF WriteEeprom
<1> QED
  BY <1>2, <1>3, <1>4, <1>5, <1>6, <1>7, <1>8, <1>9 DEF Types

\* FlashStaysFlash: a chip once known as flash is not taken for SRAM again while
\* the game runs, for every cartridge, promised or not.
THEOREM FlashStays == ChipSpec => FlashStaysFlash
<1> DEFINE TypesInv == cart \in Carts /\ type \in Types
<1>1. ChipInit => TypesInv
  <2> SUFFICES ASSUME ChipInit PROVE TypesInv
    OBVIOUS
  <2>1. cart \in Carts /\ cart \in Cartridge /\ type = BootGuess(cart).type
    BY CartsAssumption DEF ChipInit
  <2> QED
    BY <2>1, GuessTyped DEF Types
<1>2. TypesInv /\ [ChipNext]_chipVars => TypesInv'
  <2>1. ASSUME TypesInv, ChipNext PROVE TypesInv'
    BY <2>1, TypeMoves
  <2>2. ASSUME TypesInv, UNCHANGED chipVars PROVE TypesInv'
    BY <2>2 DEF chipVars
  <2> QED
    BY <2>1, <2>2
<1>3. TypesInv /\ [ChipNext]_chipVars =>
        [stage = "play" /\ live = "FLASH64" => live' # "SRAM"]_chipVars
  <2> SUFFICES ASSUME TypesInv, ChipNext, stage = "play", live = "FLASH64"
               PROVE  live' # "SRAM"
    OBVIOUS
  <2>1. type = "flash"
    BY DEF live, ClassOf, Types
  <2>2. type' # "sram" /\ type' \in Types
    BY <2>1, TypeMoves
  <2> QED
    BY <2>2 DEF live, ClassOf, Types
<1> HIDE DEF TypesInv
<1> QED
  BY <1>1, <1>2, <1>3, PTL DEF ChipSpec, FlashStaysFlash
=============================================================================
