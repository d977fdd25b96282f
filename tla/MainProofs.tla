------------------------------ MODULE MainProofs -------------------------------
(***************************************************************************)
(* The program of apps/m16cgpsp/main.c: its loop over sessions (Session)   *)
(* and the two screens between them (Picker), for any library, any arena,  *)
(* any lengths of the loops, any fingers and any number of sessions.       *)
(*                                                                         *)
(* Session.  The checks between sessions compare what they find with what  *)
(* main.c expects to have been left.  IInv says, at each step, what is     *)
(* left: Opened that the marks of what is opened once agree with the flags *)
(* main.c keeps of it, ArenaKept where the bump pointer is against the     *)
(* first mark, StreamKept and IdentityKept what a session holds and since  *)
(* when, Silent that the audio ring is clean until the loop plays, Ended   *)
(* how the loop came to its verdict.                                       *)
(*                                                                         *)
(* Picker.  A read that is not answered looks like buttons let go, so      *)
(* "quiet" is not "released".  PickerInv counts: while a CROSS from before *)
(* the details screen is still down, each quiet frame was a lost one       *)
(* (StaleIsLost), so the screen arms only once that CROSS has been let go  *)
(* (ArmedIsNew), and the press in the machine of an armed screen is a new  *)
(* one (WaitIsNew), as long as the pad driver leaves fewer reads in a row  *)
(* unanswered than the screens wait to be quiet.                           *)
(***************************************************************************)
EXTENDS Session, Picker, TLAPS

-----------------------------------------------------------------------------
(* Session.                                                                *)


Menu    == {"storage", "scan", "video", "pad", "audio", "library", "clock",
            "enter", "picker"}
Playing == {"details", "gates", "restore", "play", "verdict"}
Steps   == Menu \cup InGame \cup {"boundary", "done"}

Typed ==
  /\ pc \in Steps
  /\ pos \in 0..Arena /\ bufs \in Nat
  /\ first \in 0..Untaken /\ mark \in 0..Untaken

\* What is opened once is there exactly when main.c remembers opening it.
Opened ==
  /\ "SCREEN" \in left <=> "screen" \in did
  /\ "NOISE" \in left <=> "sound" \in did
  /\ "BIOS" \in left <=> "bios" \in did
  /\ "WINDOW" \in left <=> "rom" \in did
  /\ "SIZE" \in left <=> "rom" \in did

\* A session starts where the first one did, takes its two buffers above its
\* mark, and has a mark to go back to, unless it took nothing.
ArenaKept ==
  /\ pc \in Menu \cup {"prepare"} => first \in {Untaken, pos}
  /\ pc \in {"picker", "prepare"} => mark = Untaken
  /\ pc \in {"core", "insert"} \cup Playing =>
       mark = first /\ mark <= Arena /\ bufs = 2 /\ mark + bufs <= pos
  /\ pc = "boundary" =>
       \/ mark = Untaken /\ first \in {Untaken, pos}
       \/ mark = first /\ mark <= pos

\* One stream is open, from the load to the boundary.
StreamKept ==
  /\ before = 0 /\ rfiles \in {0, 1}
  /\ pc \in Menu \cup {"prepare", "core", "insert"} => rfiles = 0
  /\ pc \in Playing => rfiles = 1

\* The save identity is the chosen cartridge's, from the load to the boundary.
IdentityKept ==
  /\ pc \in Menu => chosen = None \/ pc = "enter"
  /\ pc \in InGame \cup {"boundary"} => chosen \in Roms
  /\ pc \in Menu \cup {"prepare", "core", "insert"} => latched = None
  /\ pc \in Playing => latched = chosen /\ window = chosen

\* No audio before the loop plays.
Silent ==
  pc \in Menu \cup (InGame \ {"play", "verdict"}) => "AUDIO" \notin left

\* A session has ended by the watchdog until the chord was held long enough.
Ended ==
  /\ pc \in {"picker"} \cup (InGame \ {"verdict"}) => reason = "WATCHDOG"
  /\ pc = "verdict" /\ reason = "OPERATOR" => hold >= ExitHold

IInv == Typed /\ Opened /\ ArenaKept /\ StreamKept /\ IdentityKept
              /\ Silent /\ Ended /\ NoSessionStopsTheNext
-----------------------------------------------------------------------------
(***************************************************************************)
(* The initial states, and then one lemma per step that does something to  *)
(* what a session holds, one step of it per part of the invariant.         *)
(***************************************************************************)

\* The arena may have been used by the host; nothing else has been.
LEMMA Starts == Init => IInv
BY SessionAssumption DEF Init, IInv, Typed, Opened, ArenaKept, StreamKept,
   IdentityKept, Silent, Ended, NoSessionStopsTheNext, Menu, Playing, Steps,
   InGame, Internal, Untaken

\* Prepare finds the screen and the sound as main.c remembers them, and the
\* arena where the first session found it: of its ways to stop none is taken.
LEMMA PrepareStep ==
  ASSUME IInv, Prepare
  PROVE  IInv'
<1> USE SessionAssumption DEF IInv, InGame, Playing, Menu
<1>1. Found2 = Expect2 /\ UNCHANGED <<window, latched, rfiles, chosen, reason>>
  BY DEF Prepare, Opened, Found2, Expect2, loop
<1>2. /\ did' = did \cup {"screen"} /\ left' = left \cup {"SCREEN"}
      /\ mark' = pos /\ pos \in 0..Arena /\ first' \in {first, pos}
  BY <1>1 DEF Prepare, Typed
<1>3. first' = pos
  BY <1>1 DEF Prepare, ArenaKept, Typed, Untaken
<1>4. bufs' = Buffers /\ pos' = pos + bufs' /\ before' = rfiles
  BY <1>1, <1>3 DEF Prepare
<1>5. bufs' \in 0..2 /\ pos' \in 0..Arena /\ pos <= pos'
  BY <1>2, <1>4 DEF Buffers, Typed
<1>6. /\ pc' = "boundary" \/ (pc' = "core" /\ bufs' = 2)
      /\ pc = "prepare" /\ status' = status
  BY <1>1, <1>3, <1>5 DEF Prepare, Fail, Go
<1>7. Typed'
  BY <1>2, <1>3, <1>5, <1>6 DEF Typed, Steps, Untaken
<1>8. Opened'
  BY <1>2 DEF Opened
<1>9. ArenaKept'
  BY <1>2, <1>3, <1>4, <1>5, <1>6 DEF ArenaKept, Typed
<1>10. StreamKept' /\ IdentityKept'
  BY <1>1, <1>4, <1>6 DEF StreamKept, IdentityKept
<1>11. Silent' /\ Ended'
  BY <1>1, <1>2, <1>6 DEF Silent, Ended
<1>12. NoSessionStopsTheNext'
  BY <1>1, <1>3, <1>6 DEF NoSessionStopsTheNext, Internal
<1> QED
  BY <1>7, <1>8, <1>9, <1>10, <1>11, <1>12

\* Core finds the BIOS and the window as main.c remembers them.
LEMMA CoreStep ==
  ASSUME IInv, Core
  PROVE  IInv'
<1> USE DEF IInv, InGame, Playing, Menu
<1>1. Found3 = Expect3 /\ FoundMap = ExpectMap
  BY DEF Opened, Found3, Expect3, FoundMap, ExpectMap
<1>2. /\ pc = "core" /\ pc' \in {"insert", "done"}
      /\ status' \in {status, "BIOS_FAILED"}
      /\ UNCHANGED <<first, window, latched, bufs, pos, rfiles, session,
                     reason, loop>>
  BY <1>1 DEF Core, Go, Stop
<1>3. Opened'
  <2>1. /\ did' \in {did \cup {"sound"}, did \cup {"sound", "bios"}}
        /\ "bios" \in did' <=> "BIOS" \in left'
        /\ left' \ {"BIOS"} = ((left \cup {"NOISE"}) \ {"INPUT"}) \ {"BIOS"}
    BY <1>1 DEF Core, Opened
  <2> QED
    BY <2>1 DEF Opened
<1>4. Silent'
  BY <1>1, <1>2 DEF Core, Silent
<1>5. Typed' /\ ArenaKept' /\ StreamKept' /\ IdentityKept' /\ Ended'
  BY <1>2 DEF Typed, Steps, ArenaKept, StreamKept, IdentityKept, Ended, session,
     Untaken, loop
<1>6. NoSessionStopsTheNext'
  BY <1>2 DEF NoSessionStopsTheNext, Internal
<1> QED
  BY <1>3, <1>4, <1>5, <1>6

\* Insert finds the last cartridge's window where there was one, and buffers to
\* load into.
LEMMA InsertStep ==
  ASSUME IInv, Insert
  PROVE  IInv'
<1> USE DEF IInv, InGame, Playing, Menu
<1>1. Found4 = Expect4
  BY DEF Insert, Opened, ArenaKept, Found4, Expect4
<1>2. /\ pc = "insert" /\ pc' \in {"boundary", "details"} /\ status' = status
      /\ UNCHANGED <<first, bufs, pos, session, reason, loop>>
  BY <1>1 DEF Insert, LoadFailed, Fail, Go
<1>3. \/ /\ did' = did \cup {"rom"} /\ left' = left \cup {"SIZE", "WINDOW"}
         /\ window' = chosen /\ rfiles' = rfiles + 1 /\ latched' = chosen
      \/ /\ pc' = "boundary"
         /\ UNCHANGED <<did, left, window, latched, rfiles>>
  BY <1>1, <1>2 DEF Insert, LoadFailed, Fail, IdentityKept
<1>4. Opened' /\ Silent'
  BY <1>2, <1>3 DEF Opened, Silent
<1>5. StreamKept' /\ IdentityKept'
  BY <1>2, <1>3 DEF StreamKept, IdentityKept, session
<1>6. Typed' /\ ArenaKept' /\ Ended'
  BY <1>2 DEF Typed, Steps, ArenaKept, Ended, session, Untaken, loop
<1>7. NoSessionStopsTheNext'
  BY <1>2 DEF NoSessionStopsTheNext
<1> QED
  BY <1>4, <1>5, <1>6, <1>7

\* A frame takes arena, if anything, and ends the loop by the operator only
\* with the chord held long enough.
LEMMA PlayFrameStep ==
  ASSUME IInv, PlayFrame
  PROVE  IInv'
<1> USE DEF IInv, InGame, Playing, Menu
<1>1. /\ pc = "play" /\ pc' \in {"play", "verdict"} /\ status' = status
      /\ UNCHANGED <<flags, window, latched, bufs, rfiles, session>>
  BY DEF PlayFrame
<1>2. pos \in 0..Arena /\ pos' \in {pos, pos + 1} /\ pos' <= Arena
  <2>1. pos' = pos \/ (pos < Arena /\ pos' = pos + 1)
    BY DEF PlayFrame
  <2> QED
    BY <2>1, SessionAssumption DEF Typed
<1>3. Opened'
  BY <1>1 DEF PlayFrame, Opened, flags
<1>4. Typed' /\ ArenaKept'
  BY <1>1, <1>2 DEF Typed, Steps, ArenaKept, flags, session, Untaken
<1>5. StreamKept' /\ IdentityKept' /\ Silent'
  BY <1>1 DEF StreamKept, IdentityKept, Silent, session
<1>6. Ended'
  <2>1. reason = "WATCHDOG"
    BY <1>1 DEF Ended
  <2>2. /\ pc' = "play" => reason' = "WATCHDOG"
        /\ reason' = "OPERATOR" => hold' >= ExitHold
    BY <2>1 DEF PlayFrame, Broken
  <2> QED
    BY <1>1, <2>2 DEF Ended
<1>7. NoSessionStopsTheNext'
  BY <1>1 DEF NoSessionStopsTheNext
<1> QED
  BY <1>3, <1>4, <1>5, <1>6, <1>7

\* The boundary rewinds the arena to the first mark and finds nothing left:
\* of its checks none stops the program.
LEMMA BoundaryStep ==
  ASSUME IInv, Boundary
  PROVE  IInv'
<1> USE SessionAssumption DEF IInv, InGame, Playing, Menu
<1>1. /\ pc = "boundary" /\ before = 0
      /\ rfiles' = 0 /\ bufs' = 0 /\ latched' = None /\ left' = left \ Passing
      /\ UNCHANGED <<flags, window, session, reason, loop>>
  BY DEF Boundary, Term, Unlatch, StreamKept
<1>2. mark = Untaken \/ mark <= pos
  BY <1>1 DEF ArenaKept
<1>3. pos' = IF mark = Untaken THEN pos ELSE mark
  BY <1>1, <1>2 DEF Boundary, Typed
<1>4. first \in {Untaken, pos'} /\ pos' \in 0..Arena
  BY <1>1, <1>2, <1>3 DEF ArenaKept, Typed, Untaken
<1>5. pc' = "enter" /\ status' = status
  BY <1>1, <1>2 DEF Boundary, Go, Stop, Typed
<1>6. Typed' /\ ArenaKept'
  BY <1>1, <1>4, <1>5 DEF Typed, Steps, ArenaKept, flags, session, Untaken
<1>7. Opened' /\ Silent'
  BY <1>1, <1>5 DEF Opened, Silent, Passing, flags
<1>8. StreamKept' /\ IdentityKept' /\ Ended' /\ NoSessionStopsTheNext'
  BY <1>1, <1>5 DEF StreamKept, IdentityKept, Ended, NoSessionStopsTheNext,
     session
<1> QED
  BY <1>6, <1>7, <1>8
-----------------------------------------------------------------------------
(* The invariant.                                                          *)

\* Every step of the program, whatever the player and the devices do, leaves a
\* session's holdings as IInv says (main.c, gba_session.c).
THEOREM Inductive == Spec => []IInv
<1>1. IInv /\ [Next]_vars => IInv'
  <2> SUFFICES ASSUME IInv, [Next]_vars PROVE IInv'
    OBVIOUS
  <2>1. CASE Prepare
    BY <2>1, PrepareStep
  <2>2. CASE Core
    BY <2>2, CoreStep
  <2>3. CASE Insert
    BY <2>3, InsertStep
  <2>4. CASE PlayFrame
    BY <2>4, PlayFrameStep
  <2>5. CASE Boundary
    BY <2>5, BoundaryStep
  <2>6. ASSUME BringUp \/ Enter \/ Leave \/ (\E r \in Roms : Choose(r)) \/ Cancel
               \/ Confirm \/ Gates \/ RestoreSave \/ Unclean \/ Complete
               \/ CommitFailed \/ MountLost \/ UNCHANGED vars
        PROVE  IInv'
    <3> USE SessionAssumption DEF IInv, Typed, Steps, Opened, ArenaKept,
          StreamKept, IdentityKept, Silent, Ended, NoSessionStopsTheNext,
          Internal, Menu, InGame, Playing, Untaken, Go, Fail, Stop,
          core, flags, session, loop
    <3>1. CASE BringUp
      BY <3>1 DEF BringUp, Open
    <3>2. CASE Enter
      BY <3>2 DEF Enter, ResetReason
    <3>3. CASE Leave
      BY <3>3 DEF Leave
    <3>4. ASSUME NEW r \in Roms, Choose(r) PROVE IInv'
      BY <3>4 DEF Choose
    <3>5. CASE Cancel
      BY <3>5 DEF Cancel
    <3>6. CASE Confirm
      BY <3>6 DEF Confirm
    <3>7. CASE Gates
      BY <3>7 DEF Gates
    <3>8. CASE RestoreSave
      BY <3>8 DEF RestoreSave
    <3>9. CASE Unclean
      BY <3>9 DEF Unclean
    <3>10. CASE Complete
      BY <3>10 DEF Complete
    <3>11. CASE CommitFailed
      BY <3>11 DEF CommitFailed
    <3>12. CASE MountLost
      BY <3>12 DEF MountLost
    <3>13. CASE UNCHANGED vars
      BY <3>13 DEF vars
    <3> HIDE DEF IInv
    <3> QED
      BY <2>6, <3>1, <3>2, <3>3, <3>4, <3>5, <3>6, <3>7, <3>8, <3>9, <3>10,
         <3>11, <3>12, <3>13
  <2> QED
    BY <2>1, <2>2, <2>3, <2>4, <2>5, <2>6 DEF Next
<1> QED
  BY Starts, <1>1, PTL DEF Spec

\* No session, however it ended and wherever it failed, stops the program: the
\* checks main.c makes between sessions never find anything but what it
\* expects.
THEOREM NothingStops == Spec => []NoSessionStopsTheNext
BY Inductive, PTL DEF IInv

\* From the details screen to the commit, window, identity, choice, stream,
\* buffers and mark are those of one cartridge.
THEOREM OneAtATime == Spec => []OneCartridge
<1>1. IInv => OneCartridge
  BY DEF IInv, ArenaKept, StreamKept, IdentityKept, OneCartridge, Playing
<1> QED
  BY Inductive, <1>1, PTL

\* A save is committed only for the chosen cartridge, after a session the
\* player ended by the chord and in which every frame was shown.
THEOREM PlayersSave == Spec => SavedByThePlayer
<1>1. ASSUME IInv, [Next]_vars, disk' # disk
      PROVE  /\ hold >= ExitHold /\ shown
             /\ disk' = [disk EXCEPT ![chosen] = @ + 1]
  <2>1. Complete \/ CommitFailed \/ MountLost
    BY <1>1 DEF Next, vars, books, BringUp, Open, Enter, Leave, Choose, Prepare,
       Core, Insert, LoadFailed, Cancel, Confirm, Gates, RestoreSave, PlayFrame,
       Unclean, Boundary, Unexpected, Go, Fail, Stop
  <2>2. /\ pc = "verdict" /\ reason = "OPERATOR" /\ shown
        /\ disk' = [disk EXCEPT ![latched] = @ + 1]
    BY <1>1, <2>1 DEF Complete, CommitFailed, MountLost, Clean
  <2> QED
    BY <1>1, <2>2 DEF IInv, Ended, IdentityKept, Playing
<1> QED
  BY Inductive, <1>1, PTL DEF Spec, SavedByThePlayer
-----------------------------------------------------------------------------
(* The refinement.                                                         *)

\* Every step of the main loop is a step of the promise, or none: a game that
\* starts has its cartridge, leaves at most one save of its own, as the last
\* thing it does, and comes back to the menu or ends the program.
THEOREM Refinement == Spec => KeepsPromise
<1> USE DEF InGame
<1>1. Init => Promise!Init
  BY DEF Init, Promise!Init
<1>2. IInv /\ [Next]_vars => [Promise!Next]_(Promise!vars)
  <2> SUFFICES ASSUME IInv, [Next]_vars
               PROVE  Promise!Next \/ UNCHANGED Promise!vars
    OBVIOUS
  <2> USE DEF Promise!vars, Go, Fail, Stop, books
  <2>1. CASE BringUp \/ Enter \/ Leave
    BY <2>1 DEF BringUp, Open, Enter, Leave, Promise!Next, Promise!Off, IInv,
       IdentityKept, Menu, session
  <2>2. ASSUME NEW r \in Roms, Choose(r)
        PROVE  Promise!Next
    BY <2>2 DEF Choose, Promise!Next, Promise!Start
  <2>3. CASE Prepare \/ Core \/ Insert
    BY <2>3 DEF Prepare, Core, Insert, LoadFailed, Unexpected, Promise!Next,
       Promise!Finish, session
  <2>4. CASE Cancel \/ Confirm \/ Gates \/ RestoreSave \/ PlayFrame \/ Unclean
    BY <2>4 DEF Cancel, Confirm, Gates, RestoreSave, PlayFrame, Unclean,
       Promise!Next, Promise!Finish, session
  <2>5. CASE Complete \/ CommitFailed \/ MountLost
    <3>1. latched = chosen
      BY <2>5 DEF Complete, CommitFailed, MountLost, IInv, IdentityKept, Playing
    <3> QED
      BY <2>5, <3>1 DEF Complete, CommitFailed, MountLost, Promise!Next,
         Promise!Finish, session
  <2>6. CASE Boundary
    BY <2>6 DEF Boundary, Promise!Next, Promise!Return, Promise!Off, session
  <2>7. CASE UNCHANGED vars
    BY <2>7 DEF vars, session, books
  <2> QED
    BY <2>1, <2>2, <2>3, <2>4, <2>5, <2>6, <2>7 DEF Next
<1> QED
  BY Inductive, <1>1, <1>2, PTL DEF Spec, KeepsPromise, Promise!Spec
-----------------------------------------------------------------------------
(* Picker.                                                                 *)

\* A button under a finger since before this screen began to look.
Stale(b) == b \in held /\ b \notin fresh

PickerTyped ==
  /\ held \subseteq Buttons /\ lost \in 0..MaxLost /\ quiet \in Nat
  /\ sel \in 0..(Count - 1) /\ top \in Nat
  /\ cross \in [state : {"idle", "wait", "launch"}, frames : Nat]

\* The read before the last one, where it was answered.
PrevIsHeld == screen = "picker" /\ lost = 0 => prev = held

StaleIsLost == screen = "details" /\ ~armed /\ Stale("CROSS") => quiet <= lost

ArmedIsNew == screen = "details" /\ armed => ~Stale("CROSS")

WaitIsNew ==
  screen = "details" => /\ cross.state # "launch"
                        /\ cross.state = "wait" => armed /\ "CROSS" \in fresh

PickerInv == /\ PickerTyped /\ CursorDrawn
        /\ PrevIsHeld /\ StaleIsLost /\ ArmedIsNew /\ WaitIsNew
-----------------------------------------------------------------------------
(* The helpers.                                                            *)

\* m13b_scroll: wherever the window was, the cursor ends up inside it, and the
\* window inside the list.
LEMMA ScrollDraws ==
  ASSUME NEW s \in 0..(Count - 1), NEW t \in Nat
  PROVE  /\ Scroll(s, t) \in Nat
         /\ Scroll(s, t) <= s /\ s < Scroll(s, t) + Rows
         /\ Scroll(s, t) = 0 \/ Scroll(s, t) + Rows <= Count
BY PickerAssumption DEF Scroll

\* m13b_move: a move ends on a row.
LEMMA MoveStays ==
  ASSUME NEW s \in 0..(Count - 1), NEW n \in Nat
  PROVE  Up(s, n) \in 0..(Count - 1) /\ Down(s, n) \in 0..(Count - 1)
BY PickerAssumption DEF Up, Down

LEMMA MovedStays ==
  ASSUME NEW s \in 0..(Count - 1), NEW pressed
  PROVE  Moved(s, pressed) \in 0..(Count - 1)
<1> DEFINE a == IF "UP" \in pressed THEN Up(s, 1) ELSE s
           b == IF "DOWN" \in pressed THEN Down(a, 1) ELSE a
           c == IF "L1" \in pressed THEN Up(b, Rows) ELSE b
<1>1. a \in 0..(Count - 1)
  BY MoveStays
<1>2. b \in 0..(Count - 1)
  BY <1>1, MoveStays
<1>3. c \in 0..(Count - 1)
  BY <1>2, MoveStays, PickerAssumption
<1>4. Moved(s, pressed) = IF "R1" \in pressed THEN Down(c, Rows) ELSE c
  BY DEF Moved
<1> HIDE DEF c
<1> QED
  BY <1>3, <1>4, MoveStays, PickerAssumption

\* m13b_input_step: it launches on a release only, and waits on a press only.
LEMMA StepAnswers ==
  ASSUME NEW in \in [state : {"idle", "wait", "launch"}, frames : Nat],
         NEW r
  PROVE  LET out == Step(in, "CROSS" \in r) IN
         /\ out \in [state : {"idle", "wait", "launch", "timeout"}, frames : Nat]
         /\ out.state = "launch" => in.state \in {"launch", "wait"}
         /\ out.state = "wait" => "CROSS" \in r
BY DEF Step

\* A press that has been seen stays seen, a new one is seen at once, and a
\* button that is down in an answer is under a finger.
LEMMA ReadSees ==
  ASSUME NEW r, Read(r), lost \in 0..MaxLost
  PROVE  /\ held' \subseteq Buttons /\ lost' \in 0..MaxLost
         /\ \A b : Stale(b)' => Stale(b)
         /\ \A b \in r : b \in held' /\ (b \in fresh => b \in fresh')
         /\ \A b : Stale(b)' /\ b \notin r => lost' = lost + 1
         /\ lost' = 0 => r = held'
         /\ \A b \in r \ held : b \in fresh'
BY PickerAssumption DEF Read, Stale

LEMMA PrimingReadSees ==
  ASSUME NEW r, PrimingRead(r), lost \in 0..MaxLost
  PROVE  /\ held' \subseteq Buttons /\ lost' \in 0..MaxLost
         /\ lost' = 0 => r = held'
BY PickerAssumption DEF PrimingRead

-----------------------------------------------------------------------------
(* One lemma per step of the screens.                                      *)

LEMMA PickerStarts == PickerInit => PickerInv
<1> SUFFICES ASSUME PickerInit PROVE PickerInv
  OBVIOUS
<1>1. sel \in 0..(Count - 1) /\ top = Scroll(sel, 0)
  BY PickerAssumption DEF PickerInit
<1>2. PickerTyped /\ CursorDrawn
  BY <1>1, ScrollDraws, PickerAssumption DEF PickerInit, PickerTyped, NoCross, CursorDrawn
<1> QED
  BY <1>2 DEF PickerInit, PickerInv, PrevIsHeld, StaleIsLost, ArmedIsNew, WaitIsNew

\* Back to the picker's gate: the window is put around the cursor again.
LEMMA BackStep ==
  ASSUME PickerInv, Back, held' \subseteq Buttons, lost' \in 0..MaxLost
  PROVE  PickerInv'
<1>1. sel' = sel /\ top' = Scroll(sel, top) /\ screen' = "gate"
      /\ cross' = NoCross /\ quiet' = 0
  BY DEF Back
<1>2. PickerTyped' /\ CursorDrawn'
  BY <1>1, ScrollDraws DEF PickerInv, PickerTyped, CursorDrawn, NoCross
<1> QED
  BY <1>1, <1>2 DEF PickerInv, PrevIsHeld, StaleIsLost, ArmedIsNew, WaitIsNew

LEMMA GateStep ==
  ASSUME PickerInv, Gate
  PROVE  PickerInv'
<1> USE DEF PickerInv
<1>1. PICK r \in SUBSET Buttons :
        /\ screen = "gate" /\ Read(r)
        /\ quiet' = IF r \cap GateMask = {} THEN quiet + 1 ELSE 0
        /\ screen' \in {"prime", "gate"}
        /\ UNCHANGED <<cross, sel, top>>
  BY DEF Gate
<1>2. PickerTyped' /\ CursorDrawn'
  BY <1>1, ReadSees DEF PickerTyped, CursorDrawn
<1> QED
  BY <1>1, <1>2 DEF PrevIsHeld, StaleIsLost, ArmedIsNew, WaitIsNew

LEMMA PrimeStep ==
  ASSUME PickerInv, Prime
  PROVE  PickerInv'
<1> USE DEF PickerInv
<1>1. PICK r \in SUBSET Buttons :
        /\ screen' = "picker" /\ PrimingRead(r) /\ prev' = r /\ quiet' = 0
        /\ UNCHANGED <<cross, sel, top>>
  BY DEF Prime
<1>2. PickerTyped' /\ CursorDrawn' /\ PrevIsHeld'
  BY <1>1, PrimingReadSees DEF PickerTyped, CursorDrawn, PrevIsHeld
<1> QED
  BY <1>1, <1>2 DEF StaleIsLost, ArmedIsNew, WaitIsNew

\* A frame of the picker moves the cursor by rows and the window after it.
LEMMA PickerFrameStep ==
  ASSUME PickerInv, PickerFrame
  PROVE  PickerInv'
<1> USE DEF PickerInv
<1>1. PICK r \in SUBSET Buttons :
        /\ screen = "picker" /\ screen' \in {"exit", "picker", "load"}
        /\ Read(r) /\ prev' = r /\ quiet' = quiet
        /\ \/ UNCHANGED <<cross, sel, top>>
           \/ LET in == IF sel' \in Available \/ cross.state # "idle"
                          THEN Step(cross, "CROSS" \in r) ELSE cross
              IN  /\ sel' = Moved(sel, r \ prev) /\ top' = Scroll(sel', top)
                  /\ cross' = IF in.state = "timeout" THEN NoCross ELSE in
  BY DEF PickerFrame
<1>2. CursorDrawn' /\ sel' \in 0..(Count - 1) /\ top' \in Nat
  BY <1>1, MovedStays, ScrollDraws DEF PickerTyped, CursorDrawn
<1>3. cross' \in [state : {"idle", "wait", "launch"}, frames : Nat]
  <2> DEFINE in == IF sel' \in Available \/ cross.state # "idle"
                     THEN Step(cross, "CROSS" \in r) ELSE cross
  <2>1. in \in [state : {"idle", "wait", "launch", "timeout"}, frames : Nat]
    BY StepAnswers DEF PickerTyped
  <2>2. cross' = cross \/ cross' = IF in.state = "timeout" THEN NoCross ELSE in
    BY <1>1
  <2> HIDE DEF in
  <2> QED
    BY <2>1, <2>2 DEF PickerTyped, NoCross
<1>4. PickerTyped'
  BY <1>1, <1>2, <1>3, ReadSees DEF PickerTyped
<1>5. PrevIsHeld'
  BY <1>1, ReadSees DEF PrevIsHeld, PickerTyped
<1> QED
  BY <1>1, <1>2, <1>4, <1>5 DEF StaleIsLost, ArmedIsNew, WaitIsNew

LEMMA EnterDetailsStep ==
  ASSUME PickerInv, EnterDetails
  PROVE  PickerInv'
<1> USE DEF PickerInv
<1>1. PICK r \in SUBSET Buttons :
        /\ screen' = "details" /\ PrimingRead(r) /\ cross' = NoCross
        /\ quiet' = 0 /\ armed' = FALSE
        /\ UNCHANGED <<sel, top>>
  BY DEF EnterDetails
<1>2. PickerTyped' /\ CursorDrawn'
  BY <1>1, PrimingReadSees DEF PickerTyped, CursorDrawn, NoCross
<1>3. StaleIsLost'
  BY <1>1, <1>2 DEF StaleIsLost, PickerTyped
<1> QED
  BY <1>1, <1>2, <1>3 DEF PrevIsHeld, ArmedIsNew, WaitIsNew, NoCross

\* A frame of the details screen that has not armed: a quiet read of a CROSS
\* that is still down is a lost one, and fewer are lost in a row than arm it.
LEMMA UnarmedFrame ==
  ASSUME PickerInv, screen = "details", ~armed, NEW r, Read(r),
         quiet' = IF r \cap ArmMask = {} THEN quiet + 1 ELSE 0,
         armed' = (quiet' >= Settle),
         UNCHANGED <<screen, cross, list>>
  PROVE  PickerInv'
<1> USE DEF PickerInv
<1>1. PickerTyped' /\ CursorDrawn'
  BY ReadSees DEF PickerTyped, CursorDrawn, list
<1>2. Stale("CROSS")' => quiet' <= lost'
  <2>1. Stale("CROSS")' => Stale("CROSS") /\ quiet <= lost
    BY ReadSees DEF PickerTyped, StaleIsLost
  <2>2. CASE r \cap ArmMask = {}
    <3>1. "CROSS" \notin r
      BY <2>2 DEF ArmMask
    <3>2. Stale("CROSS")' => lost' = lost + 1
      BY <3>1, ReadSees DEF PickerTyped
    <3> QED
      BY <2>1, <2>2, <3>2 DEF PickerTyped
  <2>3. CASE r \cap ArmMask # {}
    BY <1>1, <2>3 DEF PickerTyped
  <2> QED
    BY <2>2, <2>3
<1>3. armed' => ~Stale("CROSS")'
  <2>1. armed' => quiet' >= Settle
    OBVIOUS
  <2>2. quiet' <= lost' => ~(quiet' >= Settle)
    BY <1>1, PickerAssumption DEF PickerTyped
  <2> QED
    BY <1>2, <2>1, <2>2
<1> QED
  BY <1>1, <1>2, <1>3 DEF StaleIsLost, ArmedIsNew, PrevIsHeld, WaitIsNew

\* A frame of the armed screen that stays: the machine goes to "wait" on a
\* CROSS that is down, which is a new one.
LEMMA ArmedFrame ==
  ASSUME PickerInv, screen = "details", armed, NEW r, Read(r),
         NEW in, in = Step(cross, "CROSS" \in r), in.state # "launch",
         cross' = IF in.state = "timeout" THEN NoCross ELSE in,
         UNCHANGED <<screen, quiet, armed, list>>
  PROVE  PickerInv'
<1> USE DEF PickerInv
<1>1. /\ in \in [state : {"idle", "wait", "timeout"}, frames : Nat]
      /\ in.state = "wait" => "CROSS" \in r
  BY StepAnswers DEF PickerTyped
<1>2. cross' \in [state : {"idle", "wait"}, frames : Nat]
  BY <1>1 DEF NoCross
<1>3. PickerTyped' /\ CursorDrawn'
  BY <1>2, ReadSees DEF PickerTyped, CursorDrawn, list
<1>4. ArmedIsNew'
  BY ReadSees DEF ArmedIsNew, PickerTyped
<1>5. cross'.state = "wait" => "CROSS" \in held'
  BY <1>1, ReadSees DEF NoCross, PickerTyped
<1>6. WaitIsNew'
  BY <1>2, <1>4, <1>5 DEF WaitIsNew, ArmedIsNew, Stale
<1> QED
  BY <1>3, <1>4, <1>6 DEF PrevIsHeld, StaleIsLost

LEMMA DetailsFrameStep ==
  ASSUME PickerInv, DetailsFrame
  PROVE  PickerInv'
<1> DEFINE in(r) == IF armed THEN Step(cross, "CROSS" \in r) ELSE cross
<1>1. PICK r \in SUBSET Buttons :
        /\ screen = "details" /\ Read(r)
        /\ \/ /\ armed /\ in(r).state = "launch"
              /\ screen' = "play" /\ cross' = in(r)
              /\ UNCHANGED <<pacing, list>>
           \/ Back
           \/ /\ armed /\ in(r).state # "launch"
              /\ cross' = IF in(r).state = "timeout" THEN NoCross ELSE in(r)
              /\ UNCHANGED <<screen, quiet, armed, list>>
           \/ /\ ~armed
              /\ quiet' = IF r \cap ArmMask = {} THEN quiet + 1 ELSE 0
              /\ armed' = (quiet' >= Settle)
              /\ UNCHANGED <<screen, cross, list>>
  BY DEF DetailsFrame
<1>2. held' \subseteq Buttons /\ lost' \in 0..MaxLost
  BY <1>1, ReadSees DEF PickerInv, PickerTyped
<1>3. CASE armed /\ in(r).state = "launch" /\ screen' = "play"
           /\ cross' = in(r) /\ UNCHANGED <<pacing, list>>
  <2>1. cross' \in [state : {"idle", "wait", "launch"}, frames : Nat]
    BY <1>3, StepAnswers DEF PickerInv, PickerTyped
  <2>2. PickerTyped' /\ CursorDrawn'
    BY <1>2, <1>3, <2>1 DEF PickerInv, PickerTyped, CursorDrawn, pacing, list
  <2> QED
    BY <1>3, <2>2 DEF PickerInv, PrevIsHeld, StaleIsLost, ArmedIsNew, WaitIsNew
<1>4. CASE armed /\ in(r).state # "launch"
           /\ cross' = (IF in(r).state = "timeout" THEN NoCross ELSE in(r))
           /\ UNCHANGED <<screen, quiet, armed, list>>
  BY <1>1, <1>4, ArmedFrame
<1> QED
  BY <1>1, <1>2, <1>3, <1>4, BackStep, UnarmedFrame
-----------------------------------------------------------------------------
(* The invariant of the screens.                                           *)

\* Every frame of the picker, its gate and the details screen, and every way
\* between them, keeps PickerInv.
THEOREM PickerInductive == PickerSpec => []PickerInv
<1>1. PickerInv /\ [PickerNext]_pickerVars => PickerInv'
  <2> SUFFICES ASSUME PickerInv, [PickerNext]_pickerVars PROVE PickerInv'
    OBVIOUS
  <2>1. CASE PickerExpires
    BY <2>1 DEF PickerExpires, pacing, list, PickerInv, PickerTyped, CursorDrawn, PrevIsHeld,
       StaleIsLost, ArmedIsNew, WaitIsNew
  <2>2. CASE LoadFails \/ DetailsExpires
    BY <2>2, BackStep DEF LoadFails, DetailsExpires, PickerInv, PickerTyped
  <2>3. CASE PlayEnds
    BY <2>3, BackStep, PickerAssumption DEF PlayEnds
  <2>4. CASE UNCHANGED pickerVars
    BY <2>4 DEF pickerVars, PickerInv, PickerTyped, CursorDrawn, PrevIsHeld, StaleIsLost,
       ArmedIsNew, WaitIsNew, Stale
  <2> QED
    BY <2>1, <2>2, <2>3, <2>4, GateStep, PrimeStep, PickerFrameStep,
       EnterDetailsStep, DetailsFrameStep DEF PickerNext
<1> QED
  BY PickerStarts, <1>1, PTL DEF PickerSpec

\* After any sequence of moves, pages and sessions the cursor is on a row that
\* is drawn, and the window is full.
THEOREM CursorIsDrawn == PickerSpec => []CursorDrawn
BY PickerInductive, PTL DEF PickerInv

\* The press that chose a cartridge never confirms it: a game starts only on a
\* CROSS pressed with the details screen up, however many reads are lost.
THEOREM NewPressConfirms == PickerSpec => ConfirmedByNewPress
<1>1. ASSUME PickerInv, [PickerNext]_pickerVars, screen = "details", screen' = "play"
      PROVE  "CROSS" \in fresh
  <2>1. DetailsFrame
    BY <1>1 DEF PickerNext, pickerVars, Gate, Prime, PickerFrame, PickerExpires,
       EnterDetails, LoadFails, DetailsExpires, PlayEnds, Back
  <2>2. \E r : armed /\ (IF armed THEN Step(cross, "CROSS" \in r)
                                   ELSE cross).state = "launch"
    BY <1>1, <2>1 DEF DetailsFrame, Back
  <2>3. cross.state \in {"launch", "wait"}
    BY <1>1, <2>2, StepAnswers DEF PickerInv, PickerTyped
  <2> QED
    BY <1>1, <2>3 DEF PickerInv, WaitIsNew
<1> QED
  BY PickerInductive, <1>1, PTL DEF PickerSpec, ConfirmedByNewPress

\* A CIRCLE held since before the picker came up does not end the program,
\* where the read before was answered.
THEOREM OldPressStays == PickerSpec => OldPressNeverExits
<1>1. ASSUME PickerInv, [PickerNext]_pickerVars, screen = "picker", screen' = "exit", lost = 0
      PROVE  "CIRCLE" \in fresh'
  <2>1. PICK r \in SUBSET Buttons : Read(r) /\ "CIRCLE" \in r \ prev
    BY <1>1 DEF PickerNext, pickerVars, Gate, Prime, PickerFrame, PickerExpires,
       EnterDetails, LoadFails, DetailsFrame, DetailsExpires, PlayEnds, Back
  <2>2. "CIRCLE" \in r \ held
    BY <1>1, <2>1 DEF PickerInv, PrevIsHeld
  <2> QED
    BY <1>1, <2>1, <2>2, ReadSees DEF PickerInv, PickerTyped
<1> QED
  BY PickerInductive, <1>1, PTL DEF PickerSpec, OldPressNeverExits
=============================================================================
