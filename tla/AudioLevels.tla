----------------------------- MODULE AudioLevels -----------------------------
(***************************************************************************)
(* The sound path of a play session as its session sees it: how many       *)
(* frames wait in gpSP's mix bus and in the adapter's ring, and the        *)
(* verdicts the session is judged by.  Every iteration of the play loop    *)
(* runs one emulated frame, feeds what it mixed to the ring through the    *)
(* 512:375 decimator, and drains whole grains to the port                  *)
(* (apps/m16cgpsp/main.c:5489-5525, adapters/gba/gba_audio.c).             *)
(*                                                                         *)
(* The samples themselves are left out: AudioRing keeps the cursors and    *)
(* the frames, and implements this module.  A "frame" below is one stereo  *)
(* sample pair, as in gba_audio.h.                                         *)
(***************************************************************************)
EXTENDS Integers

CONSTANTS
    RING,       \* GBA_AUDIO_RING_FRAMES
    PULL,       \* GBA_AUDIO_PULL_FRAMES
    GRAIN,      \* GBA_AUDIO_GRAIN_FRAMES
    TARGET,     \* GBA_AUDIO_TARGET_FILL
    MAXG,       \* GBA_AUDIO_MAX_GRAINS
    DECIN,      \* GBA_AUDIO_DEC_IN
    DECOUT,     \* GBA_AUDIO_DEC_OUT
    HOLD,       \* frames sound_read_samples holds back (512 entries)
    BUS,        \* frames the mix bus holds (BUFFER_SIZE entries)
    FirstYield, \* frames the first emulated frame of a session may mix
    Yield       \* frames any later emulated frame may mix

ASSUME LevelsAssumption ==
    /\ RING \in Nat \ {0} /\ PULL \in Nat \ {0} /\ GRAIN \in Nat \ {0}
    /\ TARGET \in Nat /\ MAXG \in Nat \ {0}
    /\ DECIN \in Nat \ {0} /\ DECOUT \in Nat \ {0}
    /\ DECOUT <= DECIN /\ DECIN <= 2 * DECOUT
    /\ HOLD \in Nat /\ BUS \in Nat \ {0}
    /\ FirstYield \subseteq Nat /\ Yield \subseteq Nat

VARIABLES
    at,         \* where the play loop stands
    bus,        \* frames mixed by gpSP and not yet read
    acc,        \* R.acc, the decimator's accumulator
    fill,       \* ring_fill()
    prefilled,  \* the one-shot gate of gba_audio_drain has opened
    overran,    \* S.overruns # 0
    underran    \* S.underruns # 0

vars == <<at, bus, acc, fill, prefilled, overran, underran>>

Least(a, b) == IF a < b THEN a ELSE b

\* What a read of the mix bus returns when it holds b frames.
Readable(b) == Least(PULL, IF b > HOLD THEN b - HOLD ELSE 0)

\* What the decimator emits, and keeps, when n frames go in at accumulator a.
Emitted(a, n) == (a + n * DECOUT) \div DECIN
Carried(a, n) == (a + n * DECOUT) % DECIN

\* Mutant: the cap is one grain lower (gba_audio.h, GBA_AUDIO_MAX_GRAINS).
GrainsThree(f) == Least(MAXG - 1, f \div GRAIN)

\* The grains one drain sends from a ring holding f frames.
Grains(f) == Least(MAXG, f \div GRAIN)

\* When the numbers fit together: an emulated frame mixes lo to hi frames (the
\* first of a session perhaps fewer), hi of which make no more than out in the
\* ring.  The bus and the pull hold such a frame, a drain can send what it makes
\* and the ring hold it on top of what the gate waits for; and the least frame
\* makes a grain.
RatesFit(lo, hi, out) ==
    /\ \A y \in Yield : lo <= y /\ y <= hi
    /\ \A y \in FirstYield : y <= hi
    /\ hi <= PULL /\ HOLD + hi < BUS
    /\ DECIN + hi * DECOUT <= DECIN * (out + 1)
    /\ out <= MAXG * GRAIN
    /\ GRAIN <= TARGET /\ TARGET + out <= RING
    /\ GRAIN * DECIN <= lo * DECOUT

-----------------------------------------------------------------------------

Init ==
    /\ at = "start" /\ bus = 0 /\ acc = 0 /\ fill = 0
    /\ prefilled = FALSE /\ overran = FALSE /\ underran = FALSE

\* m5_exec_run: gpSP runs one frame and mixes what it sounded like.
RunFrame ==
    /\ at \in {"start", "run"}
    /\ \E y \in (IF at = "start" THEN FirstYield ELSE Yield) : bus' = (bus + y) % BUS
    /\ at' = "feed"
    /\ UNCHANGED <<acc, fill, prefilled, overran, underran>>

\* gba_audio_pull and gba_audio_resample.
Feed ==
    LET got == Readable(bus)
        out == Emitted(acc, got)
    IN  /\ at = "feed"
        /\ bus' = bus - got
        /\ acc' = Carried(acc, got)
        /\ fill' = Least(RING, fill + out)
        /\ overran' = (overran \/ fill + out > RING)
        /\ at' = "drain"
        /\ UNCHANGED <<prefilled, underran>>

\* Mutant: no prefill gate (line 253).
DrainUngated ==
    /\ at = "drain"
    /\ prefilled' = TRUE
    /\ fill' = fill - GRAIN * Grains(fill)
    /\ underran' = (underran \/ Grains(fill) = 0)
    /\ at' = IF overran THEN "over" ELSE "run"
    /\ UNCHANGED <<bus, acc, overran>>

\* gba_audio_drain, then the loop's overrun test.
Drain ==
    /\ at = "drain"
    /\ prefilled' = (prefilled \/ fill >= TARGET)
    /\ fill' = IF prefilled' THEN fill - GRAIN * Grains(fill) ELSE fill
    /\ underran' = (underran \/ (prefilled' /\ Grains(fill) = 0))
    /\ at' = IF overran THEN "over" ELSE "run"
    /\ UNCHANGED <<bus, acc, overran>>

\* The session ends, for the operator or for any reason of its own, and
\* gba_session_end resets the sound path.
EndSession ==
    /\ at \in {"run", "over"}
    /\ at' = "start" /\ bus' = 0 /\ acc' = 0 /\ fill' = 0
    /\ prefilled' = FALSE /\ overran' = FALSE /\ underran' = FALSE

Next == RunFrame \/ Feed \/ Drain \/ EndSession

Spec == Init /\ [][Next]_vars

-----------------------------------------------------------------------------

\* A session that emulates at the console's rate never drops a frame.  Every
\* drop ends the session and forfeits its save (main.c:5522, 5724), so a ring
\* or a grain cap too small for the frame rate would lose saves.
NeverOverruns == ~overran

\* Once the gate has opened the port is fed at every iteration.
NeverUnderruns == ~underran
=============================================================================
