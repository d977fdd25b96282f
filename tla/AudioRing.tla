------------------------------ MODULE AudioRing ------------------------------
(***************************************************************************)
(* adapters/gba/gba_audio.c, sample by sample: the 512:375 decimator, the  *)
(* ring between the emulator and the sound port, and the drain that hands  *)
(* whole grains over, inside the play loop of apps/m16cgpsp/main.c.        *)
(*                                                                         *)
(* A frame in the ring is known by the session that produced it and its    *)
(* number in that session, so that a frame lost, repeated, moved or kept   *)
(* from the session before can be told apart.  What the decimator averages *)
(* is kept as the number of inputs in the sum (R.n).                       *)
(***************************************************************************)
EXTENDS Integers, Sequences

CONSTANTS
    RING, PULL, GRAIN, TARGET, MAXG, DECIN, DECOUT, HOLD, BUS,
    FirstYield, Yield,  \* as in AudioLevels
    CURSOR,             \* the cursors' range: 2^32 for u32
    MaxIters,           \* M16C_PLAY_MAX_ITERS
    Tags                \* bound: sessions told apart; tags are reused in turn

ASSUME RingAssumption ==
    /\ RING \in Nat \ {0} /\ PULL \in Nat \ {0} /\ GRAIN \in Nat \ {0}
    /\ TARGET \in Nat /\ MAXG \in Nat \ {0}
    /\ DECIN \in Nat \ {0} /\ DECOUT \in Nat \ {0}
    /\ DECOUT <= DECIN /\ DECIN <= 2 * DECOUT
    /\ HOLD \in Nat /\ BUS \in Nat \ {0}
    /\ FirstYield \subseteq Nat /\ Yield \subseteq Nat
    /\ CURSOR \in Nat /\ CURSOR > RING /\ CURSOR % RING = 0
    /\ MaxIters \in Nat \ {0} /\ Tags \in Nat \ {0}

VARIABLES
    pc,         \* where the play loop, or the call it is in, stands
    iter,       \* iterations this session
    session,    \* the running session (history)
    bus,        \* frames mixed by gpSP and not yet read
    left,       \* inputs of the running resample not yet taken
    acc, n,     \* R.acc, R.n
    ring,       \* the ring's slots
    head, tail, \* ring_head, ring_tail
    prefilled,  \* the one-shot gate
    sent,       \* grains the running drain has sent
    grain,      \* grain_buf: the last grain handed to the port
    S           \* the counters of gba_audio_stats

loop     == <<iter, session>>
resample == <<left, acc, n>>
queue    == <<ring, head, tail>>
vars     == <<pc, loop, bus, resample, queue, prefilled, sent, grain, S>>

Blank    == <<0, 0>>
Silence  == [i \in 0..(RING - 1) |-> Blank]
NoCounts == [produced |-> 0, consumed |-> 0, pulled |-> 0, grains |-> 0,
             overruns |-> 0, underruns |-> 0]
Counts   == [produced : Nat, consumed : Nat, pulled : Nat, grains : Nat,
             overruns : Nat, underruns : Nat]

fill == (head - tail) % CURSOR

Least(a, b) == IF a < b THEN a ELSE b

-----------------------------------------------------------------------------

Init ==
    /\ pc = "start" /\ iter = 0 /\ session = 1 /\ bus = 0
    /\ left = 0 /\ acc = 0 /\ n = 0
    /\ ring = Silence /\ head = 0 /\ tail = 0
    /\ prefilled = FALSE /\ sent = 0 /\ grain = <<>> /\ S = NoCounts

\* m5_exec_run: gpSP runs one frame and mixes what it sounded like.
RunFrame ==
    /\ pc \in {"start", "run"} /\ iter < MaxIters
    /\ \E y \in (IF pc = "start" THEN FirstYield ELSE Yield) : bus' = (bus + y) % BUS
    /\ iter' = iter + 1
    /\ pc' = "pull"
    /\ UNCHANGED <<session, resample, queue, prefilled, sent, grain, S>>

\* gba_audio_pull: all the mix bus holds but the last HOLD frames, PULL at most.
Pull ==
    LET got == Least(PULL, IF bus > HOLD THEN bus - HOLD ELSE 0)
    IN  /\ pc = "pull"
        /\ bus' = bus - got
        /\ left' = got
        /\ S' = [S EXCEPT !.pulled = @ + got]
        /\ pc' = IF got = 0 THEN "drain" ELSE "resample"
        /\ UNCHANGED <<loop, acc, n, queue, prefilled, sent, grain>>

\* ring_push: one finished frame, dropped when the ring is full.
Push ==
    IF fill >= RING
    THEN S' = [S EXCEPT !.overruns = @ + 1] /\ UNCHANGED <<ring, head>>
    ELSE /\ ring' = [ring EXCEPT ![head % RING] = <<session, S.produced>>]
         /\ head' = (head + 1) % CURSOR
         /\ S' = [S EXCEPT !.produced = @ + 1]

\* Mutant: the accumulator restarts at zero at every output (line 179).
SampleRestarting ==
    /\ pc = "resample"
    /\ left' = left - 1
    /\ IF acc + DECOUT >= DECIN
       THEN acc' = 0 /\ n' = 0 /\ Push
       ELSE acc' = acc + DECOUT /\ n' = n + 1 /\ UNCHANGED <<ring, head, S>>
    /\ pc' = IF left = 1 THEN "drain" ELSE "resample"
    /\ UNCHANGED <<loop, bus, tail, prefilled, sent, grain>>

\* One turn of gba_audio_resample's loop: take an input, emit on carry.
Sample ==
    /\ pc = "resample"
    /\ left' = left - 1
    /\ IF acc + DECOUT >= DECIN
       THEN acc' = acc + DECOUT - DECIN /\ n' = 0 /\ Push
       ELSE acc' = acc + DECOUT /\ n' = n + 1 /\ UNCHANGED <<ring, head, S>>
    /\ pc' = IF left = 1 THEN "drain" ELSE "resample"
    /\ UNCHANGED <<loop, bus, tail, prefilled, sent, grain>>

\* The loop's overrun test, after a drain.
Turn == pc' = IF S.overruns > 0 THEN "over" ELSE "run"

\* gba_audio_drain, the gate still shut: nothing is sent and nothing counted.
DrainShut ==
    /\ pc = "drain" /\ ~prefilled /\ fill < TARGET
    /\ Turn
    /\ UNCHANGED <<loop, bus, resample, queue, prefilled, sent, grain, S>>

\* Mutant: the gate shuts again whenever the ring is below the target.
DrainOpenServo ==
    /\ pc = "drain" /\ fill >= TARGET
    /\ prefilled' = FALSE
    /\ sent' = 0
    /\ pc' = "send"
    /\ UNCHANGED <<loop, bus, resample, queue, grain, S>>

\* gba_audio_drain, the gate open, or opening now and for good.
DrainOpen ==
    /\ pc = "drain" /\ (prefilled \/ fill >= TARGET)
    /\ prefilled' = TRUE
    /\ sent' = 0
    /\ pc' = "send"
    /\ UNCHANGED <<loop, bus, resample, queue, grain, S>>

\* Mutant: the last slot before the wrap is skipped (line 267).
GrainSkipping ==
    [i \in 1..GRAIN |-> ring[(tail + i - 1) % (RING - 1)]]

\* The frames a grain is filled with.
GrainFrames ==
    [i \in 1..GRAIN |-> ring[((tail + i - 1) % CURSOR) % RING]]

\* Mutant: the loop sends one grain past its cap (line 262).
SendGrainExtra ==
    /\ pc = "send" /\ sent <= MAXG /\ fill >= GRAIN
    /\ grain' = GrainFrames
    /\ tail' = (tail + GRAIN) % CURSOR
    /\ \E accepted \in {0, 1} :
         S' = [S EXCEPT !.consumed = @ + GRAIN, !.grains = @ + accepted]
    /\ sent' = sent + 1
    /\ UNCHANGED <<pc, loop, bus, resample, ring, head, prefilled>>

\* One turn of the drain's loop: a whole grain goes to the port, which may
\* refuse it (plat_audio_submit); its frames are consumed either way.
SendGrain ==
    /\ pc = "send" /\ sent < MAXG /\ fill >= GRAIN
    /\ grain' = GrainFrames
    /\ tail' = (tail + GRAIN) % CURSOR
    /\ \E accepted \in {0, 1} :
         S' = [S EXCEPT !.consumed = @ + GRAIN, !.grains = @ + accepted]
    /\ sent' = sent + 1
    /\ UNCHANGED <<pc, loop, bus, resample, ring, head, prefilled>>

\* The drain returns; sending nothing is what counts as an underrun.
DrainEnd ==
    /\ pc = "send" /\ (sent >= MAXG \/ fill < GRAIN)
    /\ S' = [S EXCEPT !.underruns = @ + (IF sent = 0 THEN 1 ELSE 0)]
    /\ Turn
    /\ UNCHANGED <<loop, bus, resample, queue, prefilled, sent, grain>>

\* The session ends, for the operator or for any reason of its own, and
\* gba_session_end calls gba_audio_reset before another can start.
EndSession ==
    /\ pc \in {"run", "over"}
    /\ pc' = "start" /\ iter' = 0 /\ session' = 1 + (session % Tags) /\ bus' = 0
    /\ left' = 0 /\ acc' = 0 /\ n' = 0
    /\ ring' = Silence /\ head' = 0 /\ tail' = 0
    /\ prefilled' = FALSE /\ sent' = 0 /\ grain' = <<>> /\ S' = NoCounts

Next ==
    RunFrame \/ Pull \/ Sample \/ DrainShut \/ DrainOpen \/ SendGrain \/ DrainEnd
    \/ EndSession

Spec == Init /\ [][Next]_vars

-----------------------------------------------------------------------------

TypeOK ==
    /\ pc \in {"start", "run", "pull", "resample", "drain", "send", "over"}
    /\ iter \in 0..MaxIters /\ session \in 1..Tags
    /\ bus \in 0..(BUS - 1) /\ left \in 0..PULL
    /\ acc \in 0..(DECIN - 1) /\ n \in Nat
    /\ ring \in [0..(RING - 1) -> (0..Tags) \X Nat]
    /\ head \in 0..(CURSOR - 1) /\ tail \in 0..(CURSOR - 1)
    /\ prefilled \in BOOLEAN /\ sent \in 0..MAXG
    /\ grain \in Seq((0..Tags) \X Nat)
    /\ S \in Counts

\* The port hears the frames of the running session, each once and in the
\* order the decimator made them, whatever was dropped, refused by the port or
\* left in the ring by the session before (gba_audio.c:116-132, 262-282, 330).
GrainsInOrder ==
    grain # <<>> =>
      grain = [i \in 1..GRAIN |-> <<session, S.consumed - GRAIN + i - 1>>]

\* The converter drifts by nothing: the inputs taken and the outputs made,
\* dropped ones included, stay in the exact ratio, the difference being what
\* the accumulator holds (gba_audio.c:147-156).
RateExact ==
    DECOUT * (S.pulled - left) = DECIN * (S.produced + S.overruns) + acc

\* An output is one input or the mean of two, never of three, so the shift that
\* divides the sum is right (gba_audio.c:158-160).
SumsAtMostTwo == n <= 1 /\ (n = 0 <=> acc < DECOUT)

-----------------------------------------------------------------------------
(* The ring implements the levels.  Between two calls the levels are those of *)
(* the cursors.  Inside gba_audio_resample and gba_audio_drain, which the     *)
(* session sees as one step each, they are what the rest of the call, already *)
(* decided when it was entered, will make of them.                            *)

Pending   == (acc + left * DECOUT) \div DECIN
ToSend    == Least(MAXG - sent, fill \div GRAIN)

AtLevel ==
    CASE pc = "pull" -> "feed"
      [] pc = "resample" -> "drain"
      [] pc = "send" -> IF S.overruns > 0 THEN "over" ELSE "run"
      [] OTHER -> pc

FillLevel ==
    CASE pc = "resample" -> Least(RING, fill + Pending)
      [] pc = "send" -> fill - GRAIN * ToSend
      [] OTHER -> fill

AccLevel == (acc + left * DECOUT) % DECIN

OverranLevel  == S.overruns > 0 \/ (pc = "resample" /\ fill + Pending > RING)
UnderranLevel == S.underruns > 0 \/ (pc = "send" /\ sent = 0 /\ fill < GRAIN)

Levels == INSTANCE AudioLevels WITH
    at <- AtLevel, acc <- AccLevel, fill <- FillLevel,
    overran <- OverranLevel, underran <- UnderranLevel

\* gba_audio.c behaves as the session's view of it does.
ImplementsLevels == Levels!Spec
=============================================================================
