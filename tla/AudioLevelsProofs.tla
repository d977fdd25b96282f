-------------------------- MODULE AudioLevelsProofs --------------------------
(***************************************************************************)
(* That the ring of a play session neither overruns nor runs dry, for any  *)
(* sizes of ring, grain, gate and read and any decimation ratio, as long   *)
(* as the numbers fit together (RatesFit).                                 *)
(*                                                                         *)
(* NeverOverruns is not inductive: a ring that did not overrun may be full.*)
(* Bounded says where the levels stand at each step of the loop: after a   *)
(* drain the ring is below what the gate waits for, because a drain sends  *)
(* either a full load, no less than a frame makes, or all but a rest of a  *)
(* grain; and once the ring has been fed the mix bus never falls below     *)
(* what a read holds back, so that every read returns a whole frame.       *)
(***************************************************************************)
EXTENDS AudioLevels, TLAPS
-----------------------------------------------------------------------------
(* Division with remainder. *)

\* Division with remainder.
LEMMA ModDef ==
  ASSUME NEW a \in Int, NEW m \in Nat \ {0}
  PROVE  a % m \in 0..(m - 1) /\ a \div m \in Int /\ a = m * (a \div m) + (a % m)
  OBVIOUS

\* A product distributes over a sum and a difference.
LEMMA Distribute ==
  ASSUME NEW m \in Int, NEW x \in Int, NEW y \in Int
  PROVE  m * (x + y) = m * x + m * y /\ m * (x - y) = m * x - m * y
  OBVIOUS

\* What is smaller than the divisor is its own remainder, and only that has no
\* quotient.
LEMMA DivSmall ==
  ASSUME NEW a \in Nat, NEW m \in Nat \ {0}
  PROVE  /\ a \div m \in Nat
         /\ a < m <=> a \div m = 0
         /\ a < m => a % m = a
  OBVIOUS

-----------------------------------------------------------------------------
(* The inductive invariant. *)

\* The ring has been fed, and then the mix bus is never drained below what a
\* read holds back.
Warm == prefilled \/ fill > 0

\* Where the levels stand.  The bus holds at most one frame beyond what a read
\* holds back, and the ring what the gate waits for, with one frame's outputs on
\* top until it has been drained.
Bounded(lo, hi, out) ==
    /\ at \in {"start", "run", "feed", "drain", "over"}
    /\ fill \in Nat
    /\ acc \in 0..(DECIN - 1)
    /\ prefilled \in BOOLEAN
    /\ bus \in Nat /\ bus <= HOLD + (IF at = "feed" THEN hi ELSE 0)
    /\ fill < TARGET + (IF at = "drain" THEN out ELSE 0)
    /\ at = "start" => ~Warm
    /\ Warm => bus >= HOLD + (IF at = "feed" THEN lo ELSE 0)
    /\ at = "drain" /\ prefilled => fill >= GRAIN
    /\ overran = FALSE /\ underran = FALSE

\* What the rate's bounds make of one read: no more than out, at least a grain
\* if it was a whole frame, and nothing if it was nothing.
LEMMA RateBounds ==
  ASSUME NEW lo \in Nat, NEW hi \in Nat, NEW out \in Nat, RatesFit(lo, hi, out),
         NEW a \in 0..(DECIN - 1), NEW g \in 0..hi
  PROVE  /\ (a + g * DECOUT) \div DECIN \in 0..out
         /\ g >= lo => (a + g * DECOUT) \div DECIN >= GRAIN
         /\ g = 0 => (a + g * DECOUT) \div DECIN = 0
<1> DEFINE t == a + g * DECOUT  q == t \div DECIN  r == t % DECIN
<1>1. /\ DECIN + hi * DECOUT <= DECIN * (out + 1)
      /\ GRAIN * DECIN <= lo * DECOUT
      /\ DECIN \in Nat \ {0} /\ DECOUT \in Nat \ {0} /\ GRAIN \in Nat \ {0}
  BY LevelsAssumption DEF RatesFit
<1>2. t \in Nat
  <2>1. g \in Nat /\ a \in Nat
    BY <1>1
  <2>2. g * DECOUT \in Nat
    BY <1>1, <2>1
  <2> QED
    BY <2>1, <2>2
<1>3. t = DECIN * q + r /\ q \in Int /\ r \in 0..(DECIN - 1)
  <2>1. t \in Int /\ DECIN \in Nat \ {0}
    BY <1>1, <1>2
  <2> HIDE DEF t
  <2> QED
    BY <2>1, ModDef
<1>4. q \in Nat
  BY <1>1, <1>2, DivSmall
<1>5. ASSUME NEW x \in Nat, NEW y \in Nat, x <= y
      PROVE  x * DECOUT <= y * DECOUT
  <2>1. DECOUT * (y - x) = DECOUT * y - DECOUT * x
    BY <1>1, Distribute
  <2>2. y - x \in Nat
    BY <1>5
  <2>3. DECOUT * (y - x) >= 0
    BY <1>1, <2>2
  <2> QED
    BY <1>1, <2>1, <2>3
<1>6. g * DECOUT <= hi * DECOUT
  BY <1>5
<1>7. t < DECIN * (out + 1)
  BY <1>1, <1>6
<1>8. ASSUME NEW k \in Int, t < DECIN * k
      PROVE  q < k
  <2>1. DECIN * (k - q) = DECIN * k - DECIN * q /\ k - q \in Int
    BY <1>1, <1>3, Distribute
  <2>2. DECIN * (k - q) > 0
    <3> HIDE DEF t, q, r
    <3> QED
      BY <1>1, <1>3, <1>8, <2>1
  <2>3. CASE k - q <= 0
    <3>1. DECIN * (k - q) <= 0
      BY <1>1, <2>1, <2>3
    <3> QED
      BY <1>1, <2>1, <2>2, <3>1
  <2> QED
    BY <1>3, <2>1, <2>3
<1>9. q <= out
  <2>1. out + 1 \in Int
    OBVIOUS
  <2>2. q < out + 1
    BY <1>7, <1>8, <2>1
  <2> QED
    BY <1>4, <2>2
<1>10. g >= lo => q >= GRAIN
  <2> SUFFICES ASSUME g >= lo PROVE q >= GRAIN
    OBVIOUS
  <2>1. lo * DECOUT <= g * DECOUT
    BY <1>5
  <2>2. DECIN * GRAIN <= t
    BY <1>1, <2>1
  <2>3. DECIN * (q + 1) = DECIN * q + DECIN * 1
    BY <1>1, <1>3, Distribute
  <2>4. DECIN * (q + 1 - GRAIN) = DECIN * (q + 1) - DECIN * GRAIN /\ q + 1 - GRAIN \in Int
    BY <1>1, <1>3, Distribute
  <2>5. DECIN * (q + 1 - GRAIN) > 0
    <3> HIDE DEF t, q, r
    <3> QED
      BY <1>1, <1>2, <1>3, <2>2, <2>3, <2>4
  <2>6. CASE q + 1 - GRAIN <= 0
    <3>1. DECIN * (q + 1 - GRAIN) <= 0
      BY <1>1, <2>4, <2>6
    <3> QED
      BY <1>1, <2>4, <2>5, <3>1
  <2> QED
    BY <1>1, <1>3, <2>4, <2>6
<1>11. g = 0 => q = 0
  <2> SUFFICES ASSUME g = 0 PROVE q = 0
    OBVIOUS
  <2>1. t = a
    BY <1>1
  <2> QED
    BY <1>1, <2>1, DivSmall
<1> QED
  BY <1>4, <1>9, <1>10, <1>11

\* What a drain leaves: all it had less whole grains, at most MAXG of them, so
\* that either a full load went or less than a grain is left.
LEMMA DrainBounds ==
  ASSUME NEW f \in Nat
  PROVE  /\ f - GRAIN * Grains(f) \in 0..f
         /\ f >= GRAIN => Grains(f) # 0
         /\ \/ f - GRAIN * Grains(f) = f - MAXG * GRAIN
            \/ f - GRAIN * Grains(f) < GRAIN
<1> DEFINE q == f \div GRAIN  r == f % GRAIN  g == Grains(f)
<1>1. GRAIN \in Nat \ {0} /\ MAXG \in Nat \ {0}
  BY LevelsAssumption
<1>2. f = GRAIN * q + r /\ q \in Nat /\ r \in 0..(GRAIN - 1) /\ (f < GRAIN <=> q = 0)
  <2>1. q \in Nat /\ (f < GRAIN <=> q = 0)
    BY <1>1, DivSmall
  <2>2. f = GRAIN * q + r /\ r \in 0..(GRAIN - 1)
    BY <1>1, ModDef
  <2> QED
    BY <2>1, <2>2
<1>3. g = IF MAXG < q THEN MAXG ELSE q
  BY DEF Grains, Least
<1> HIDE DEF q, r, g
<1>4. g # 0 <=> q # 0
  BY <1>1, <1>2, <1>3
<1>5. CASE MAXG < q
  <2>1. GRAIN * (q - MAXG) = GRAIN * q - GRAIN * MAXG /\ GRAIN * MAXG = MAXG * GRAIN
        /\ GRAIN * MAXG \in Nat /\ GRAIN * q \in Nat
    BY <1>1, <1>2, Distribute
  <2>2. GRAIN * (q - MAXG) >= 0
    BY <1>1, <1>2, <1>5
  <2>3. g = MAXG
    BY <1>3, <1>5
  <2> QED
    BY <1>1, <1>2, <1>4, <2>1, <2>2, <2>3 DEF g
<1>6. CASE ~(MAXG < q)
  <2>1. g = q /\ GRAIN * q \in Nat
    BY <1>1, <1>2, <1>3, <1>6
  <2>2. f - GRAIN * g = r
    BY <1>1, <1>2, <2>1
  <2> QED
    BY <1>1, <1>2, <1>4, <2>1, <2>2 DEF g
<1> QED
  BY <1>5, <1>6

\* The numbers as the proofs below use them.
LEMMA FitFacts ==
  ASSUME NEW lo \in Nat, NEW hi \in Nat, NEW out \in Nat, RatesFit(lo, hi, out)
  PROVE  /\ \A y \in Yield : y \in Nat /\ lo <= y /\ y <= hi
         /\ \A y \in FirstYield : y \in Nat /\ y <= hi
         /\ PULL \in Nat /\ HOLD \in Nat /\ BUS \in Nat /\ hi <= PULL /\ HOLD + hi < BUS
         /\ MAXG * GRAIN \in Nat /\ out <= MAXG * GRAIN
         /\ GRAIN \in Nat \ {0} /\ TARGET \in Nat /\ RING \in Nat
         /\ GRAIN <= TARGET /\ TARGET + out <= RING
  BY LevelsAssumption DEF RatesFit

\* A frame is mixed: the bus gains what the frame yields, and does not wrap.
LEMMA RunFrameBounded ==
  ASSUME NEW lo \in Nat, NEW hi \in Nat, NEW out \in Nat, RatesFit(lo, hi, out),
         Bounded(lo, hi, out), RunFrame
  PROVE  Bounded(lo, hi, out)'
<1>1. /\ at \in {"start", "run"} /\ at' = "feed"
      /\ UNCHANGED <<acc, fill, prefilled, overran, underran>>
  BY DEF RunFrame
<1>2. PICK y \in (IF at = "start" THEN FirstYield ELSE Yield) : bus' = (bus + y) % BUS
  BY DEF RunFrame
<1>3. y \in Nat /\ y <= hi /\ (at # "start" => y >= lo)
  BY <1>2, FitFacts
<1>4. bus \in Nat /\ bus <= HOLD /\ (Warm => bus >= HOLD) /\ (Warm => at # "start")
      /\ fill < TARGET
  BY <1>1, FitFacts DEF Bounded
<1>5. bus' = bus + y
  <2>1. bus + y \in Nat /\ bus + y < BUS /\ BUS \in Nat \ {0}
    BY <1>3, <1>4, FitFacts
  <2> QED
    BY <1>2, <2>1, DivSmall
<1>6. bus' \in Nat /\ bus' <= HOLD + hi /\ (Warm => bus' >= HOLD + lo)
  BY <1>3, <1>4, <1>5, FitFacts
<1>7. Warm' = Warm
  BY <1>1 DEF Warm
<1>8. fill' \in Nat /\ fill' < TARGET + 0
  BY <1>1, <1>4, FitFacts DEF Bounded
<1> QED
  BY <1>1, <1>6, <1>7, <1>8 DEF Bounded

\* The feed: the bus is back to what a read holds, and the ring has room.
LEMMA FeedBounded ==
  ASSUME NEW lo \in Nat, NEW hi \in Nat, NEW out \in Nat, RatesFit(lo, hi, out),
         Bounded(lo, hi, out), Feed
  PROVE  Bounded(lo, hi, out)'
<1>1. PICK b \in Nat, a \in 0..(DECIN - 1), f \in Nat :
        b = bus /\ a = acc /\ f = fill
  BY DEF Bounded
<1>2. at = "feed" /\ b <= HOLD + hi /\ f < TARGET /\ (Warm => b >= HOLD + lo)
      /\ overran = FALSE /\ underran = FALSE
  <2>1. at = "feed"
    BY DEF Feed
  <2> QED
    BY <1>1, <2>1, FitFacts DEF Bounded
<1>3. PICK g \in 0..hi : /\ g = Readable(b)
                         /\ g = (IF b > HOLD THEN b - HOLD ELSE 0)
  <2>1. HOLD \in Nat /\ PULL \in Nat /\ hi <= PULL
    BY FitFacts
  <2>2. ASSUME NEW x \in 0..hi PROVE Least(PULL, x) = x
    BY <2>1 DEF Least
  <2>3. (IF b > HOLD THEN b - HOLD ELSE 0) \in 0..hi
    BY <1>2, <2>1
  <2> QED
    BY <2>2, <2>3 DEF Readable
<1>4. PICK e \in 0..out : /\ e = (a + g * DECOUT) \div DECIN
                          /\ g >= lo => e >= GRAIN
                          /\ g = 0 => e = 0
  BY RateBounds
<1>5. f + e \in Nat /\ f + e < TARGET + out /\ ~(f + e > RING)
  BY <1>2, FitFacts
<1>6. /\ bus' = b - g /\ at' = "drain" /\ prefilled' = prefilled
      /\ acc' = (a + g * DECOUT) % DECIN
      /\ fill' = f + e
      /\ overran' = FALSE /\ underran' = FALSE
  <2>1. /\ bus' = bus - Readable(bus)
        /\ acc' = Carried(acc, Readable(bus))
        /\ fill' = Least(RING, fill + Emitted(acc, Readable(bus)))
        /\ overran' = (overran \/ fill + Emitted(acc, Readable(bus)) > RING)
        /\ at' = "drain"
        /\ UNCHANGED <<prefilled, underran>>
    BY DEF Feed
  <2>2. Emitted(a, g) = e /\ Carried(a, g) = (a + g * DECOUT) % DECIN
    BY <1>4 DEF Emitted, Carried
  <2>3. Least(RING, f + e) = f + e
    BY <1>5, FitFacts DEF Least
  <2> QED
    BY <1>1, <1>2, <1>3, <1>5, <2>1, <2>2, <2>3
<1>7. acc' \in 0..(DECIN - 1)
  <2>1. a + g * DECOUT \in Int /\ DECIN \in Nat \ {0}
    BY LevelsAssumption
  <2> QED
    BY <1>6, <2>1, ModDef
<1>8. bus' \in Nat /\ bus' <= HOLD
  BY <1>2, <1>3, <1>6, FitFacts
<1>9. Warm' => bus' >= HOLD
  <2>1. CASE b >= HOLD
    BY <1>3, <1>6, <2>1, FitFacts
  <2>2. CASE b < HOLD
    <3>1. ~Warm
      BY <1>2, <2>2, FitFacts
    <3>2. e = 0
      BY <1>3, <1>4, <2>2, FitFacts
    <3>3. fill' = f
      BY <1>6, <3>2
    <3>4. ~Warm'
      BY <1>1, <1>6, <3>1, <3>3 DEF Warm
    <3> QED
      BY <3>4
  <2> QED
    BY <1>1, <2>1, <2>2, FitFacts
<1>10. prefilled' => fill' >= GRAIN
  <2> SUFFICES ASSUME prefilled' PROVE fill' >= GRAIN
    OBVIOUS
  <2>1. b >= HOLD + lo
    BY <1>2, <1>6 DEF Warm
  <2>2. g >= lo
    BY <1>3, <2>1, FitFacts
  <2> QED
    BY <1>4, <1>6, <2>2, FitFacts
<1>11. HOLD + 0 = HOLD
  BY FitFacts
<1> QED
  BY <1>5, <1>6, <1>7, <1>8, <1>9, <1>10, <1>11 DEF Bounded

\* The drain: a full load, or all but a rest; never nothing once the gate is open.
LEMMA DrainBounded ==
  ASSUME NEW lo \in Nat, NEW hi \in Nat, NEW out \in Nat, RatesFit(lo, hi, out),
         Bounded(lo, hi, out), Drain
  PROVE  Bounded(lo, hi, out)'
<1>1. PICK b \in Nat, f \in Nat : b = bus /\ f = fill
  BY DEF Bounded
<1>2. /\ at = "drain" /\ b <= HOLD /\ f < TARGET + out /\ (Warm => b >= HOLD)
      /\ acc \in 0..(DECIN - 1) /\ (prefilled => f >= GRAIN)
      /\ overran = FALSE /\ underran = FALSE
  <2>1. at = "drain"
    BY DEF Drain
  <2> QED
    BY <1>1, <2>1, FitFacts DEF Bounded
<1>3. PICK h \in 0..f : /\ h = f - GRAIN * Grains(f)
                        /\ h = f - MAXG * GRAIN \/ h < GRAIN
  BY DrainBounds
<1>4. /\ prefilled' = (prefilled \/ f >= TARGET)
      /\ fill' = IF prefilled' THEN h ELSE f
      /\ underran' = (underran \/ (prefilled' /\ Grains(f) = 0))
      /\ at' = "run" /\ bus' = b
      /\ UNCHANGED <<acc, overran>>
  BY <1>1, <1>2, <1>3 DEF Drain
<1>5. prefilled' => f >= GRAIN
  <2>1. prefilled' => prefilled \/ f >= TARGET
    BY <1>4
  <2> QED
    BY <1>2, <2>1, FitFacts
<1>6. underran' = FALSE
  <2>1. f >= GRAIN => Grains(f) # 0
    BY DrainBounds
  <2>2. ~(prefilled' /\ Grains(f) = 0)
    BY <1>5, <2>1
  <2> QED
    BY <1>2, <1>4, <2>2
<1>7. fill' \in Nat /\ fill' < TARGET
  <2>1. CASE prefilled'
    <3>1. PICK m \in Nat : m = MAXG * GRAIN /\ out <= m
      BY FitFacts
    <3>2. TARGET \in Nat /\ GRAIN \in Nat /\ GRAIN <= TARGET
      BY FitFacts
    <3>3. h < TARGET
      BY <1>2, <1>3, <3>1, <3>2
    <3> QED
      BY <1>3, <1>4, <2>1, <3>3
  <2>2. CASE ~prefilled'
    <3>1. ~(f >= TARGET) /\ fill' = f
      BY <1>4, <2>2
    <3> QED
      BY <3>1, FitFacts
  <2> QED
    BY <2>1, <2>2
<1>8. Warm' => b >= HOLD
  <2> SUFFICES ASSUME Warm' PROVE Warm
    BY <1>2
  <2>1. CASE prefilled'
    BY <1>1, <1>4, <1>5, <2>1, FitFacts DEF Warm
  <2>2. CASE ~prefilled'
    BY <1>1, <1>4, <2>2 DEF Warm
  <2> QED
    BY <2>1, <2>2
<1>9. TARGET + 0 = TARGET /\ HOLD + 0 = HOLD
  BY FitFacts
<1> QED
  BY <1>2, <1>4, <1>6, <1>7, <1>8, <1>9 DEF Bounded

\* The numbers of a program whose ring holds: at rates that fit, whatever the
\* ring's size, the grain and the gate.
LEMMA StaysBounded ==
  ASSUME NEW lo \in Nat, NEW hi \in Nat, NEW out \in Nat, RatesFit(lo, hi, out)
  PROVE  Spec => []Bounded(lo, hi, out)
<1>1. Init => Bounded(lo, hi, out)
  <2> SUFFICES ASSUME Init PROVE Bounded(lo, hi, out)
    OBVIOUS
  <2>1. /\ at = "start" /\ bus = 0 /\ acc = 0 /\ fill = 0
        /\ prefilled = FALSE /\ overran = FALSE /\ underran = FALSE
    BY DEF Init
  <2>2. 0 \in 0..(DECIN - 1) /\ 0 <= HOLD + 0 /\ 0 < TARGET + 0
    BY LevelsAssumption, FitFacts
  <2>3. ~Warm
    BY <2>1 DEF Warm
  <2> QED
    BY <2>1, <2>2, <2>3 DEF Bounded
<1>2. Bounded(lo, hi, out) /\ [Next]_vars => Bounded(lo, hi, out)'
  <2> SUFFICES ASSUME Bounded(lo, hi, out), [Next]_vars
               PROVE  Bounded(lo, hi, out)'
    OBVIOUS
  <2>1. CASE RunFrame
    BY <2>1, RunFrameBounded
  <2>2. CASE Feed
    BY <2>2, FeedBounded
  <2>3. CASE Drain
    BY <2>3, DrainBounded
  <2>4. CASE EndSession
    <3>1. /\ at' = "start" /\ bus' = 0 /\ acc' = 0 /\ fill' = 0
          /\ prefilled' = FALSE /\ overran' = FALSE /\ underran' = FALSE
      BY <2>4 DEF EndSession
    <3>2. 0 \in 0..(DECIN - 1) /\ 0 <= HOLD + 0 /\ 0 < TARGET + 0
      BY LevelsAssumption, FitFacts
    <3>3. ~Warm'
      BY <3>1 DEF Warm
    <3> QED
      BY <3>1, <3>2, <3>3 DEF Bounded
  <2>5. CASE UNCHANGED vars
    BY <2>5 DEF vars, Bounded, Warm
  <2> QED
    BY <2>1, <2>2, <2>3, <2>4, <2>5 DEF Next
<1> QED
  BY <1>1, <1>2, PTL DEF Spec

\* A session never drops a frame, and so never loses its save to a full ring,
\* for any numbers that fit: GBA_AUDIO_RING_FRAMES, the grain cap and the rate
\* of gpSP's mixer do (main.c:5522, 5724).
THEOREM NoOverruns ==
  ASSUME NEW lo \in Nat, NEW hi \in Nat, NEW out \in Nat, RatesFit(lo, hi, out)
  PROVE  Spec => []NeverOverruns
<1>1. Bounded(lo, hi, out) => NeverOverruns
  BY DEF Bounded, NeverOverruns
<1> QED
  BY StaysBounded, <1>1, PTL

\* Once its gate has opened, every drain has a grain for the port, for any
\* numbers that fit (gba_audio.c:262-293).
THEOREM NoUnderruns ==
  ASSUME NEW lo \in Nat, NEW hi \in Nat, NEW out \in Nat, RatesFit(lo, hi, out)
  PROVE  Spec => []NeverUnderruns
<1>1. Bounded(lo, hi, out) => NeverUnderruns
  BY DEF Bounded, NeverUnderruns
<1> QED
  BY StaysBounded, <1>1, PTL
=============================================================================
