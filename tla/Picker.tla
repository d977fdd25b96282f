------------------------------- MODULE Picker -------------------------------
(***************************************************************************)
(* The two screens that decide whether a game starts: the picker, with its *)
(* re-entry gate, and the details screen that asks for a confirmation      *)
(* (apps/m16cgpsp/main.c), over the picker model of m13b_picker.inc and    *)
(* the pad reads of runtime/platform.c.                                    *)
(*                                                                         *)
(* One step is one frame: one read of the pad and everything the loop does *)
(* with it.  The player's fingers are the environment.                     *)
(***************************************************************************)
EXTENDS Naturals

CONSTANTS
  Buttons,       \* the buttons that are pressed at all
  Count,         \* rows of the library
  Available,     \* the rows that passed the ROM gate (m13b_item.sel)
  Rows,          \* M13B_ROWS: the height of the window, and a page
  Settle,        \* M16C_RELEASE_SETTLE
  GateMax,       \* M16C_RELEASE_MAX_FRAMES
  HoldMax,       \* M13B_RELEASE_FRAMES
  PickerMax,     \* M16C_PICKER_MAX_FRAMES
  DetailsMax,    \* M16C_DETAILS_MAX_FRAMES
  MaxLost        \* how many reads in a row the pad driver may leave unanswered

Pad       == {"CROSS", "CIRCLE", "UP", "DOWN", "L1", "R1", "L2", "R2"}
Chord     == {"L1", "R1", "L2", "R2"}
GateMask  == Chord \cup {"CROSS", "CIRCLE"}  \* M16C_RELEASE_MASK
ArmMask   == {"CROSS", "CIRCLE"}             \* M16C_DETAILS_ARM_MASK

ASSUME PickerAssumption ==
  /\ Buttons \subseteq Pad
  /\ Count \in Nat \ {0} /\ Rows \in Nat \ {0}
  /\ Available \subseteq 0..(Count - 1) /\ Available # {}
  /\ {Settle, GateMax, HoldMax, PickerMax, DetailsMax} \subseteq Nat \ {0}
  /\ MaxLost \in Nat /\ MaxLost < Settle

VARIABLES
  held,    \* the buttons under the player's fingers
  fresh,   \* of those, the ones pressed since this screen began to look
  lost,    \* unanswered reads in a row
  screen,  \* where the program is
  prev,    \* prev_buttons, det_prev
  cross,   \* struct m13b_input: the CROSS machine of this screen
  frame,   \* frames this loop has run
  quiet,   \* clear_run, det_clear: quiet frames in a row
  armed,   \* det_armed
  sel,     \* the cursor
  top,     \* the first row of the window
  firstEntry, \* first_entry
  chosenIdx   \* chosen_idx (Count: no choice)

pickerVars == <<held, fresh, lost, screen, prev, cross, frame, quiet, armed, sel,
                top, firstEntry, chosenIdx>>
pacing     == <<frame, quiet, armed>>
list       == <<sel, top>>

-----------------------------------------------------------------------------
(* m13b_picker.inc                                                         *)

NoCross == [state |-> "idle", frames |-> 0]

\* m13b_input_step: launch on release, and the two answers are terminal.
Step(in, down) ==
  CASE in.state = "idle" /\ down  -> [state |-> "wait", frames |-> 0]
    [] in.state = "wait" /\ ~down -> [in EXCEPT !.state = "launch"]
    [] in.state = "wait" /\ down  ->
         [state  |-> IF in.frames + 1 >= HoldMax THEN "timeout" ELSE "wait",
          frames |-> in.frames + 1]
    [] OTHER -> in

\* Mutant: the window follows the cursor down only.
ScrollLoose(s, t) ==
  IF Count <= Rows THEN 0 ELSE IF s >= t + Rows THEN s - (Rows - 1) ELSE t

\* m13b_scroll, for a cursor inside the list.
Scroll(s, t) ==
  LET u == IF s < t THEN s ELSE IF s >= t + Rows THEN s - (Rows - 1) ELSE t
  IN  IF Count <= Rows THEN 0
      ELSE IF u + Rows > Count THEN Count - Rows ELSE u

\* m13b_move, up and down.
Up(s, n)   == IF s >= n THEN s - n ELSE 0
Down(s, n) == IF s + n >= Count THEN Count - 1 ELSE s + n

\* The four moves of one picker frame, in the order they are tried.
Moved(s, pressed) ==
  LET a == IF "UP"   \in pressed THEN Up(s, 1)      ELSE s
      b == IF "DOWN" \in pressed THEN Down(a, 1)    ELSE a
      c == IF "L1"   \in pressed THEN Up(b, Rows)   ELSE b
  IN       IF "R1"   \in pressed THEN Down(c, Rows) ELSE c

-----------------------------------------------------------------------------
(* plat_pad_read: what is held, or no buttons when the driver has nothing. *)

Read(r) ==
  \E h \in SUBSET Buttons :
    /\ held' = h
    /\ fresh' = (h \ held) \cup (fresh \cap h)
    /\ \/ r = h /\ lost' = 0
       \/ r = {} /\ h # {} /\ lost < MaxLost /\ lost' = lost + 1

\* The read that primes prev when a screen begins: whatever it sees counts as
\* pressed before.
PrimingRead(r) ==
  \E h \in SUBSET Buttons :
    /\ held' = h /\ fresh' = {}
    /\ \/ r = h /\ lost' = 0
       \/ r = {} /\ h # {} /\ lost < MaxLost /\ lost' = lost + 1

-----------------------------------------------------------------------------
(* The picker.                                                             *)

PickerInit ==
  /\ held \in SUBSET Buttons /\ fresh = {} /\ lost = 0
  /\ screen = "prime" /\ prev = {} /\ cross = NoCross
  /\ frame = 0 /\ quiet = 0 /\ armed = FALSE
  /\ sel \in Available /\ (\A r \in Available : sel <= r)
  /\ top = Scroll(sel, 0)
  /\ firstEntry = TRUE /\ chosenIdx = Count

\* m16c_picker_reentry up to its gate, from wherever a session ended.
Back ==
  /\ cross' = NoCross /\ top' = Scroll(sel, top)
  /\ screen' = "gate" /\ frame' = 0 /\ quiet' = 0 /\ armed' = FALSE
  /\ chosenIdx' = Count
  /\ UNCHANGED <<sel, firstEntry, prev>>

\* Mutant: the gate waits for as long as a button is held.
GateUnbounded ==
  \E r \in SUBSET Buttons :
    /\ screen = "gate"
    /\ Read(r)
    /\ quiet' = IF r \cap GateMask = {} THEN quiet + 1 ELSE 0
    /\ screen' = IF quiet' >= Settle THEN "prime" ELSE "gate"
    /\ UNCHANGED <<prev, cross, frame, armed, sel, top, firstEntry, chosenIdx>>

\* The release gate: input is held back until the pad has been quiet, or the
\* gate has waited long enough.
Gate ==
  \E r \in SUBSET Buttons :
    /\ screen = "gate"
    /\ Read(r)
    /\ quiet' = IF r \cap GateMask = {} THEN quiet + 1 ELSE 0
    /\ frame' = frame + 1
    /\ screen' = IF quiet' >= Settle \/ frame' >= GateMax THEN "prime" ELSE "gate"
    /\ UNCHANGED <<prev, cross, armed, sel, top, firstEntry, chosenIdx>>

\* Mutant: prev_buttons starts from zero.
PrimeZero ==
  \E r \in SUBSET Buttons :
    /\ screen = "prime"
    /\ PrimingRead(r)
    /\ prev' = {} /\ screen' = "picker"
    /\ firstEntry' = FALSE /\ frame' = 0 /\ quiet' = 0
    /\ UNCHANGED <<cross, armed, sel, top, chosenIdx>>

\* The read that primes prev_buttons.
Prime ==
  \E r \in SUBSET Buttons :
    /\ screen = "prime"
    /\ PrimingRead(r)
    /\ prev' = r /\ screen' = "picker"
    /\ firstEntry' = FALSE /\ frame' = 0 /\ quiet' = 0
    /\ UNCHANGED <<cross, armed, sel, top, chosenIdx>>

\* A frame of the picker.  The CROSS machine is fed when the row under the
\* cursor is available, or when a press is already in it.
PickerFrame ==
  \E r \in SUBSET Buttons :
    LET pressed == r \ prev
        in == IF sel' \in Available \/ cross.state # "idle"
                THEN Step(cross, "CROSS" \in r) ELSE cross
    IN
    /\ screen = "picker" /\ frame < PickerMax
    /\ Read(r) /\ prev' = r
    /\ IF "CIRCLE" \in pressed
         THEN /\ screen' = "exit"
              /\ UNCHANGED <<cross, frame, sel, top, chosenIdx>>
         ELSE /\ sel' = Moved(sel, pressed)
              /\ top' = Scroll(sel', top)
              /\ cross' = IF in.state = "timeout" THEN NoCross ELSE in
              /\ IF in.state = "launch"
                   THEN screen' = "load" /\ chosenIdx' = sel' /\ frame' = frame
                   ELSE screen' = screen /\ chosenIdx' = chosenIdx /\ frame' = frame + 1
    /\ UNCHANGED <<quiet, armed, firstEntry>>

\* Nobody chose anything: the program ends.
PickerExpires ==
  /\ screen = "picker" /\ frame = PickerMax
  /\ screen' = "expired"
  /\ UNCHANGED <<held, fresh, lost, prev, cross, pacing, list, firstEntry, chosenIdx>>

-----------------------------------------------------------------------------
(* The details screen.                                                     *)

\* The cartridge was loaded without a look at the pad; the read below primes
\* det_prev.
EnterDetails ==
  \E r \in SUBSET Buttons :
    /\ screen = "load"
    /\ PrimingRead(r)
    /\ screen' = "details" /\ prev' = r /\ cross' = NoCross
    /\ frame' = 0 /\ quiet' = 0 /\ armed' = FALSE
    /\ UNCHANGED <<sel, top, firstEntry, chosenIdx>>

\* The load was refused: back to the picker.
LoadFails ==
  /\ screen = "load"
  /\ Back
  /\ UNCHANGED <<held, fresh, lost>>

\* Mutant: the CROSS machine is stepped before the screen is armed.
DetailsFrameAtOnce ==
  \E r \in SUBSET Buttons :
    LET in == Step(cross, "CROSS" \in r) IN
    /\ screen = "details" /\ frame < DetailsMax
    /\ Read(r)
    /\ IF in.state = "launch"
         THEN /\ screen' = "play" /\ cross' = in /\ prev' = r
              /\ UNCHANGED <<frame, quiet, armed, sel, top, firstEntry, chosenIdx>>
         ELSE /\ cross' = IF in.state = "timeout" THEN NoCross ELSE in
              /\ prev' = r /\ frame' = frame + 1
              /\ UNCHANGED <<screen, quiet, armed, sel, top, firstEntry, chosenIdx>>

\* A frame of the details screen: nothing until the pad was quiet, then CROSS
\* pressed and released launches and a new CIRCLE cancels.
DetailsFrame ==
  \E r \in SUBSET Buttons :
    LET pressed == r \ prev
        in == IF armed THEN Step(cross, "CROSS" \in r) ELSE cross
    IN
    /\ screen = "details" /\ frame < DetailsMax
    /\ Read(r)
    /\ \/ /\ armed /\ in.state = "launch"
          /\ screen' = "play" /\ cross' = in /\ prev' = r
          /\ UNCHANGED <<pacing, list, firstEntry, chosenIdx>>
       \/ /\ armed /\ in.state # "launch" /\ "CIRCLE" \in pressed
          /\ Back
       \/ /\ armed /\ in.state # "launch" /\ "CIRCLE" \notin pressed
          /\ cross' = IF in.state = "timeout" THEN NoCross ELSE in
          /\ prev' = r /\ frame' = frame + 1
          /\ UNCHANGED <<screen, quiet, armed, list, firstEntry, chosenIdx>>
       \/ /\ ~armed
          /\ quiet' = IF r \cap ArmMask = {} THEN quiet + 1 ELSE 0
          /\ armed' = (quiet' >= Settle)
          /\ prev' = r /\ frame' = frame + 1
          /\ UNCHANGED <<screen, cross, list, firstEntry, chosenIdx>>

\* Nobody answered: that is a cancel.
DetailsExpires ==
  /\ screen = "details" /\ frame = DetailsMax
  /\ Back
  /\ UNCHANGED <<held, fresh, lost>>

\* A game ends, with any buttons down: the exit chord among them.
PlayEnds ==
  /\ screen = "play"
  /\ held' \in SUBSET Buttons /\ fresh' = {} /\ lost' = 0
  /\ Back

PickerNext ==
  \/ Gate \/ Prime \/ PickerFrame \/ PickerExpires
  \/ EnterDetails \/ LoadFails \/ DetailsFrame \/ DetailsExpires \/ PlayEnds

\* The loops are paced by the display, which answers every frame: the program
\* always takes its next step.
PickerSpec == PickerInit /\ [][PickerNext]_pickerVars /\ WF_pickerVars(PickerNext)

-----------------------------------------------------------------------------
(* Properties.                                                             *)

\* After any sequence of moves and pages, through sessions that return to the
\* picker, the cursor is on a row that is drawn, and the window shows as many
\* rows as there are (m13b_scroll, m13b_move).
CursorDrawn ==
  /\ top <= sel /\ sel < top + Rows
  /\ top = 0 \/ top + Rows <= Count

\* The press that chose a cartridge, however long it is held and whatever the
\* player does while the ROM loads, never confirms it: a game starts only on
\* the release of a CROSS that was pressed with the details screen up
\* (main.c, the arming gate).
ConfirmedByNewPress ==
  [][screen = "details" /\ screen' = "play" => "CROSS" \in fresh]_pickerVars

\* A CIRCLE held since before the picker came up (to cancel the details, to
\* leave a summary, in the host's menu) does not end the program: the exit
\* takes a press made at the picker (main.c, the priming read), unless the read
\* before had no answer and prev_buttons forgot what is held.
OldPressNeverExits ==
  [][screen = "picker" /\ screen' = "exit" /\ lost = 0 => "CIRCLE" \in fresh']_pickerVars

\* No button the player holds for ever, and no absent player, parks the program
\* on a screen: each one ends by itself.
NoScreenForever ==
  /\ screen = "gate" ~> screen = "picker"
  /\ screen = "picker" ~> screen # "picker"
  /\ screen = "details" ~> screen \in {"gate", "play"}
=============================================================================
