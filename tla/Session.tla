------------------------------ MODULE Session -------------------------------
(***************************************************************************)
(* The launcher's main loop, _start of apps/m16cgpsp/main.c: what is opened*)
(* once, what every game session sets up, the checks that compare what it  *)
(* finds with what the sessions before it must have left, and the boundary *)
(* that puts everything back (gba_session.c).                              *)
(*                                                                         *)
(* A failure of a session abandons the game and returns to the picker; a   *)
(* failure of the program ends it.  The checks between sessions are of the *)
(* second kind: one wrong expectation and no other game can be started.    *)
(***************************************************************************)
EXTENDS Naturals, FiniteSets

CONSTANTS
  Roms,         \* the cartridges of the library
  None,         \* no cartridge
  Arena,        \* the arena, in ROM buffers (1 MB)
  MaxIters,     \* M16C_PLAY_MAX_ITERS
  Warmup,       \* M16C_PLAY_WARMUP
  ProbeEvery,   \* M16C_MAP_PROBE_EVERY
  ExitHold,     \* M16C_EXIT_HOLD
  MaxSessions   \* bound of the exploration

ASSUME SessionAssumption ==
  /\ None \notin Roms
  /\ {Arena, MaxIters, Warmup, ProbeEvery, ExitHold, MaxSessions} \subseteq Nat
  /\ ProbeEvery > 0 /\ ExitHold > 0

VARIABLES
  pc,       \* the step the program is at
  status,   \* ext->status, once it is decided
  did,      \* screen_on, sound_on, bios_on, rom_ever
  first,    \* m16c_mark_first (Arena + 1: not taken)
  left,     \* what gpSP and the adapters hold, as the probes see it
  window,   \* the cartridge mapped at 0x08000000, and its gamepak_size
  latched,  \* the save identity
  bufs,     \* gamepak_buffer_count
  pos,      \* arena_pos
  rfiles,   \* streams in use
  chosen,   \* m16c_chosen
  mark,     \* the session's arena mark (Arena + 1: not taken)
  before,   \* rfile_before
  reason,   \* m16c_rec.end_reason
  iter, shown, hold, warm, posPrev, posWarm,  \* the play loop's locals
  tally,    \* m16c_sessions_started, _clean, _failed
  last,     \* m16c_last_session_status
  disk      \* saves committed, by cartridge

core    == <<left, window, latched, bufs, pos, rfiles>>
flags   == <<did, first>>
session == <<chosen, mark, before>>
loop    == <<iter, shown, hold, warm, posPrev, posWarm>>
books   == <<tally, last, disk>>
vars    == <<pc, status, flags, core, session, reason, loop, books>>

Untaken == Arena + 1

\* What gba_session_end clears.
Passing == {"INPUT", "AUDIO", "ARMED", "BASEHASH", "APPLIED", "SRAMOBS"}

InGame == {"prepare", "core", "insert", "details", "gates", "restore", "play", "verdict"}

\* The statuses that say the loop itself is wrong.
Internal == {"PRE_UNEXPECTED", "BIOS_PROBE", "ARENA_LEAK", "ARENA_REWIND_BAD",
             "BOUNDARY_DIRTY", "IDENTITY_STALE", "SESSION_DIRTY"}
-----------------------------------------------------------------------------
(* The three ways on: the next step, the end of a session, of the program. *)

Go(step) == pc' = step /\ UNCHANGED <<status, books>>

\* m16c_session_fatal, up to its boundary.
Fail(st) ==
  /\ pc' = "boundary" /\ last' = st
  /\ tally' = [tally EXCEPT !.failed = @ + 1]
  /\ UNCHANGED <<status, disk>>

\* m16c_runtime_fatal and m16c_teardown.
Stop(st) ==
  /\ pc' = "done" /\ status' = st
  /\ UNCHANGED books

-----------------------------------------------------------------------------
(* Steps 444 to 448: once.                                                 *)

Init ==
  /\ pc = "storage" /\ status = "none"
  /\ did = {} /\ first = Untaken
  /\ left = {} /\ window = None /\ latched = None
  /\ bufs = 0 /\ pos \in 0..Arena /\ rfiles = 0
  /\ chosen = None /\ mark = Untaken /\ before = 0
  /\ reason = "none"
  /\ iter = 0 /\ shown = TRUE /\ hold = 0 /\ warm = FALSE /\ posPrev = 0 /\ posWarm = 0
  /\ tally = [started |-> 0, clean |-> 0, failed |-> 0] /\ last = "OK"
  /\ disk = [r \in Roms |-> 0]

\* One thing that is opened once: it works and the next is tried, or the
\* program ends.
Open(step, next, st) ==
  /\ pc = step
  /\ Go(next) \/ Stop(st)
  /\ UNCHANGED <<flags, core, session, reason, loop>>

BringUp ==
  \/ Open("storage", "scan", "SD_INIT_BAD")
  \/ Open("scan", "video", "SCAN_FAILED")
  \/ Open("video", "pad", "NO_VIDEO")
  \/ Open("pad", "audio", "NO_PAD")
  \/ Open("audio", "library", "NO_AUDIO")
  \/ Open("library", "clock", "NO_ROMS")
  \/ Open("clock", "enter", "TIME_INIT_BAD")

-----------------------------------------------------------------------------
(* Steps 449 and 450: the picker.                                          *)

\* m16c_session_reset: a session has ended by the watchdog until it is told
\* otherwise.
ResetReason == reason' = "WATCHDOG"

\* The top of the loop: the reset record and its verification.
Enter ==
  /\ pc = "enter"
  /\ ResetReason
  /\ \/ reason' = "WATCHDOG" /\ Go("picker")
     \/ reason' # "WATCHDOG" /\ Stop("SESSION_DIRTY")
  /\ chosen' = None /\ mark' = Untaken /\ before' = 0
  /\ UNCHANGED <<flags, core, loop>>

\* CIRCLE, or nobody there.
Leave ==
  /\ pc = "picker"
  /\ Stop("EXIT") \/ Stop("PICKER_TIMEOUT")
  /\ UNCHANGED <<flags, core, session, reason, loop>>

\* A cartridge is chosen; its path may be too long to keep.
Choose(r) ==
  /\ pc = "picker" /\ tally.started < MaxSessions
  /\ \/ /\ pc' = "prepare" /\ chosen' = r
        /\ tally' = [tally EXCEPT !.started = @ + 1]
        /\ UNCHANGED last
     \/ /\ pc' = "boundary" /\ chosen' = r /\ last' = "NAME_TOO_LONG"
        /\ tally' = [tally EXCEPT !.started = @ + 1, !.failed = @ + 1]
  /\ UNCHANGED <<status, flags, core, mark, before, reason, loop, disk>>

-----------------------------------------------------------------------------
(* Step 451: what the sessions before must have left, the buffers, the     *)
(* core and the cartridge.                                                 *)

\* Mutant: the pre-check expects a fresh process.
Expect2Fresh == {}

\* expect2, expect3, expect_map and expect4.
Expect2 == (IF "screen" \in did THEN {"SCREEN"} ELSE {}) \cup
           (IF "sound" \in did THEN {"NOISE"} ELSE {})
Expect3 == IF "bios" \in did THEN {"BIOS"} ELSE {}
ExpectMap == IF "rom" \in did THEN {"WINDOW"} ELSE {}
Expect4 == IF "rom" \in did THEN {"SIZE", "WINDOW"} ELSE {}

Found2 == left \cap {"SCREEN", "NOISE"}                    \* m2_probe_pre
Found3 == left \cap {"BIOS"}                               \* m3_bios_probe_pre
FoundMap == left \cap {"WINDOW"}                           \* m3_bios_probe_map
Found4 == (left \cap {"SIZE", "WINDOW"}) \cup
          (IF bufs = 0 THEN {"NO_BUFFERS"} ELSE {})        \* m4_rom_probe_pre

\* An expectation that is wrong on the first session blames the session, and
\* the program after it.
Unexpected(wasFirst) == IF wasFirst THEN Fail("ASSERT_FAILED") ELSE Stop("PRE_UNEXPECTED")

\* init_gamepak_buffer: what fits of the two it asks for.
Buffers == IF Arena - pos >= 2 THEN 2 ELSE Arena - pos

\* The screen, the arena mark and the ROM buffers.
Prepare ==
  /\ pc = "prepare"
  /\ \/ /\ Found2 # Expect2
        /\ Unexpected(did \cap {"screen", "sound"} = {})
        /\ UNCHANGED <<flags, core, mark, before>>
     \/ /\ Found2 = Expect2
        /\ did' = did \cup {"screen"} /\ left' = left \cup {"SCREEN"}
        /\ mark' = pos
        /\ first' = IF first = Untaken THEN pos ELSE first
        /\ \/ /\ first' # pos
              /\ Stop("ARENA_LEAK")
              /\ UNCHANGED <<bufs, pos, before>>
           \/ /\ first' = pos
              /\ before' = rfiles
              /\ bufs' = Buffers
              /\ pos' = pos + bufs'
              /\ IF bufs' < 2 THEN Fail("NO_BUFFERS") ELSE Go("core")
        /\ UNCHANGED <<window, latched, rfiles>>
  /\ UNCHANGED <<chosen, reason, loop>>

\* init_sound once, reset_gba, the BIOS once.
Core ==
  /\ pc = "core"
  /\ \E bios \in BOOLEAN :
       LET seen == (left \cup {"NOISE"}) \ {"INPUT"} IN
       \/ /\ Found3 # Expect3
          /\ left' = seen /\ did' = did \cup {"sound"}
          /\ Unexpected("bios" \notin did)
       \/ /\ Found3 = Expect3
          /\ bios \/ "bios" \in did
          /\ left' = seen \cup {"BIOS"} /\ did' = did \cup {"sound", "bios"}
          /\ IF FoundMap = ExpectMap THEN Go("insert") ELSE Stop("BIOS_PROBE")
       \/ /\ Found3 = Expect3
          /\ ~bios /\ "bios" \notin did
          /\ left' = seen /\ did' = did \cup {"sound"}
          /\ Stop("BIOS_FAILED")
  /\ UNCHANGED <<first, window, latched, bufs, pos, rfiles, session, reason, loop>>

\* Mutant: the result of the load is not looked at.
LoadIgnored ==
  /\ Found4 = Expect4 /\ Go("details")
  /\ UNCHANGED <<did, left, window, latched, rfiles>>

\* A load that fails leaves the last cartridge mapped.
LoadFailed ==
  /\ Found4 = Expect4 /\ Fail("ROM_LOAD_FAIL")
  /\ UNCHANGED <<did, left, window, latched, rfiles>>

\* The ROM is measured again, loaded, identified and checked, before and after
\* the second reset.
Insert ==
  /\ pc = "insert"
  /\ \/ /\ Fail("ROM_BAD_SOURCE")
        /\ UNCHANGED <<did, left, window, latched, rfiles>>
     \/ /\ Found4 # Expect4
        /\ Unexpected("rom" \notin did)
        /\ UNCHANGED <<did, left, window, latched, rfiles>>
     \/ LoadFailed
     \/ /\ Found4 = Expect4
        /\ did' = did \cup {"rom"}
        /\ left' = left \cup {"SIZE", "WINDOW"}
        /\ window' = chosen /\ rfiles' = rfiles + 1
        /\ latched' = IF latched = None THEN chosen ELSE latched
        /\ Fail("ASSERT_FAILED") \/ Go("details")
  /\ UNCHANGED <<first, bufs, pos, session, reason, loop>>

-----------------------------------------------------------------------------
(* Steps 452 to 454: the confirmation, the last gates, the save.           *)

\* Mutant: the player calls it off and the picker comes straight back.
CancelNoBoundary ==
  /\ pc = "details"
  /\ pc' = "enter"
  /\ tally' = [tally EXCEPT !.started = @ - 1]
  /\ UNCHANGED <<last, disk, status, flags, core, session, reason, loop>>

\* The player calls it off: nothing failed and nothing was started.
Cancel ==
  /\ pc = "details"
  /\ pc' = "boundary"
  /\ tally' = [tally EXCEPT !.started = @ - 1]
  /\ UNCHANGED <<last, disk, status, flags, core, session, reason, loop>>

Confirm ==
  /\ pc = "details"
  /\ Go("gates")
  /\ UNCHANGED <<flags, core, session, reason, loop>>

\* The clock, the execution and mapping gates, the audio ring, the neutral pad.
Gates ==
  /\ pc = "gates"
  /\ \/ Stop("CLOCK_DEAD") /\ UNCHANGED left
     \/ Fail("EXEC_UNSAFE") /\ UNCHANGED left
     \/ "AUDIO" \in left /\ Stop("BOUNDARY_DIRTY") /\ UNCHANGED left
     \/ "AUDIO" \notin left /\ Go("restore") /\ left' = left \ {"INPUT"}
  /\ UNCHANGED <<flags, window, latched, bufs, pos, rfiles, session, reason, loop>>

\* The save is restored, or not, and the play loop's locals start.
RestoreSave ==
  /\ pc = "restore"
  /\ Go("play")
  /\ \E applied \in SUBSET {"APPLIED"} :
       left' = left \cup {"ARMED", "BASEHASH", "SRAMOBS"} \cup applied
  /\ iter' = 0 /\ shown' = TRUE /\ hold' = 0 /\ warm' = FALSE
  /\ posPrev' = pos /\ posWarm' = pos
  /\ UNCHANGED <<flags, window, latched, bufs, pos, rfiles, session, reason>>

-----------------------------------------------------------------------------
(* Step 455: the play loop.                                                *)

\* What one frame of the guest and of the devices may bring: the exit chord
\* down, a flip refused, the audio ring overrun, arena taken, a page of the
\* window lost.
Events == {"chord", "flip", "overrun", "arena", "map"}

\* The first of the checks at the end of a frame that breaks the loop.
Broken(ev, grown, held, n) ==
  CASE "overrun" \in ev                          -> "OVERRUN"
    [] warm /\ grown # posPrev                   -> "ARENA"
    [] "map" \in ev /\ n % ProbeEvery = 0        -> "MAPFAIL"
    [] held >= ExitHold                          -> "OPERATOR"
    [] OTHER                                     -> "WATCHDOG"

\* Mutant: the watchdog counts the frames that were shown.
WatchdogShown == IF shown THEN iter + 1 ELSE iter

\* The watchdog counts every pass of the loop.
Watchdog == iter + 1

PlayFrame ==
  /\ pc = "play" /\ iter < MaxIters
  /\ \E ev \in SUBSET Events, keys \in SUBSET {"INPUT"} :
       LET held  == IF "chord" \in ev THEN hold + 1 ELSE 0
           grown == IF "arena" \in ev /\ pos < Arena THEN pos + 1 ELSE pos
           why   == Broken(ev, grown, held, iter + 1)
           early == why \in {"OVERRUN", "ARENA", "MAPFAIL"}
       IN
       /\ left' = (left \ {"INPUT"}) \cup keys \cup {"AUDIO"}
       /\ pos' = grown /\ iter' = Watchdog
       /\ shown' = (shown /\ "flip" \notin ev)
       /\ hold' = IF early THEN hold ELSE held
       /\ posPrev' = IF why \in {"OVERRUN", "ARENA"} THEN posPrev ELSE grown
       /\ warm' = (warm \/ (why # "OVERRUN" /\ iter + 1 >= Warmup))
       /\ posWarm' = IF warm' /\ ~warm THEN grown ELSE posWarm
       /\ reason' = IF why = "WATCHDOG" THEN reason ELSE why
       /\ pc' = IF why # "WATCHDOG" \/ iter' = MaxIters THEN "verdict" ELSE "play"
  /\ UNCHANGED <<status, flags, window, latched, bufs, rfiles, session, books>>

-----------------------------------------------------------------------------
(* Steps 456 and 457: the verdict, the save, the ledger.                   *)

\* Mutant: any end of the loop will do.
CleanAnyEnd(elapsed) == elapsed /\ shown /\ (warm => pos = posWarm)

\* The seven terms: the player ended it, the clock moved, every frame was
\* shown, at least one was, no overrun, no frame skipped, no arena taken after
\* the warm-up.
Clean(elapsed) ==
  /\ reason = "OPERATOR" /\ elapsed /\ shown /\ iter > 0
  /\ warm => pos = posWarm

\* A game that did not end well is not saved.
Unclean ==
  /\ pc = "verdict"
  /\ \E elapsed \in BOOLEAN : ~Clean(elapsed)
  /\ Fail("RUN_UNSTABLE")
  /\ UNCHANGED <<flags, core, session, reason, loop>>

\* A game that ended well, and had nothing to save, or saved it.
Complete ==
  /\ pc = "verdict" /\ Clean(TRUE)
  /\ pc' = "boundary" /\ last' = "OK"
  /\ tally' = [tally EXCEPT !.clean = @ + 1]
  /\ disk' \in {disk, [disk EXCEPT ![latched] = @ + 1]}
  /\ UNCHANGED <<status, flags, core, session, reason, loop>>

\* The commit failed, though the save may stand: the session was clean, and it
\* failed.
CommitFailed ==
  /\ pc = "verdict" /\ Clean(TRUE)
  /\ pc' = "boundary" /\ last' = "COMMIT_FAILED"
  /\ tally' = [tally EXCEPT !.clean = @ + 1, !.failed = @ + 1]
  /\ disk' \in {disk, [disk EXCEPT ![latched] = @ + 1]}
  /\ UNCHANGED <<status, flags, core, session, reason, loop>>

\* The commit could not bring the read-only mount back, whether it wrote the
\* save or not.
MountLost ==
  /\ pc = "verdict" /\ Clean(TRUE)
  /\ pc' = "done" /\ status' = "RO_NOT_BACK"
  /\ disk' \in {disk, [disk EXCEPT ![latched] = @ + 1]}
  /\ UNCHANGED <<tally, last, flags, core, session, reason, loop>>

-----------------------------------------------------------------------------
(* Step 458: the boundary.                                                 *)

\* memory_term: the stream and the buffers.
Term ==
  /\ rfiles' = IF rfiles > 0 THEN rfiles - 1 ELSE 0
  /\ bufs' = 0

\* gba_save_unlatch.
Unlatch == latched' = None

\* gba_session_end, the arena rewind, and the checks that nothing stayed.
Boundary ==
  /\ pc = "boundary"
  /\ Term /\ Unlatch
  /\ left' = left \ Passing
  /\ \/ /\ mark # Untaken /\ mark > pos
        /\ pos' = pos /\ Stop("ARENA_REWIND_BAD")
     \/ /\ mark = Untaken \/ mark <= pos
        /\ pos' = IF mark = Untaken THEN pos ELSE mark
        /\ CASE rfiles' # before                               -> Stop("BOUNDARY_DIRTY")
             [] rfiles' = before /\ latched' # None            -> Stop("IDENTITY_STALE")
             [] /\ rfiles' = before /\ latched' = None
                /\ bufs' # 0 \/ rfiles' # 0 \/ left' \cap Passing # {} -> Stop("BOUNDARY_DIRTY")
             [] OTHER                                          -> Go("enter")
  /\ UNCHANGED <<flags, window, session, reason, loop>>

Next ==
  \/ BringUp \/ Enter \/ Leave \/ (\E r \in Roms : Choose(r))
  \/ Prepare \/ Core \/ Insert \/ Cancel \/ Confirm \/ Gates \/ RestoreSave
  \/ PlayFrame \/ Unclean \/ Complete \/ CommitFailed \/ MountLost \/ Boundary

\* One thread runs the loop: it always takes its next step.
Spec == Init /\ [][Next]_vars /\ WF_vars(Next)

-----------------------------------------------------------------------------
(* Properties.                                                             *)

\* No session, however it ended and wherever it failed, stops the program: the
\* checks on what it left behind never find anything but what main.c expects.
NoSessionStopsTheNext == status \notin Internal

\* From the details screen to the commit, the window, the identity and the
\* choice are one cartridge's; its stream is open, its two buffers are below
\* the arena's watermark, and the sessions before it left the arena where the
\* first one found it.
OneCartridge ==
  pc \in {"details", "gates", "restore", "play", "verdict"} =>
    /\ window = chosen /\ latched = chosen /\ rfiles = before + 1
    /\ bufs = 2 /\ mark = first /\ mark + bufs <= pos

\* A save is committed only at the end of a session the player ended with the
\* chord held long enough, in this session, and in which every frame was shown.
SavedByThePlayer ==
  [][disk' # disk => hold >= ExitHold /\ shown /\ disk' = [disk EXCEPT ![chosen] = @ + 1]]_vars

\* A game that was chosen comes back to the picker, or the program ends: the
\* watchdog bounds the play loop.
SessionEnds == pc \in InGame ~> pc \in {"picker", "done"}

\* The loop implements the promise of module Console.
Promise == INSTANCE Console WITH
  phase <- IF pc \in InGame THEN "game" ELSE IF pc = "boundary" THEN "over"
           ELSE IF pc = "done" THEN "off" ELSE "menu",
  cart  <- IF pc \in InGame \cup {"boundary"} THEN chosen ELSE None
KeepsPromise == Promise!Spec
=============================================================================
