--------------------------- MODULE AudioRingProofs ---------------------------
(***************************************************************************)
(* The sound ring's promises, for every size of the ring, the grain and    *)
(* the cursors, every decimation ratio between one and two, and sessions   *)
(* of any length.                                                          *)
(*                                                                         *)
(* GrainsInOrder is not inductive: that the grain just sent was right says *)
(* nothing of the next.  What is: the wrapped cursors are the counters     *)
(* modulo their range, at most a ring apart (Cursors), and every slot      *)
(* between them holds the frame of its own number (Window).                *)
(***************************************************************************)
EXTENDS AudioRing, TLAPS
-----------------------------------------------------------------------------
(* Cursors that wrap. *)

\* Division with remainder.
LEMMA ModDef ==
  ASSUME NEW a \in Int, NEW m \in Nat \ {0}
  PROVE  a % m \in 0..(m - 1) /\ a \div m \in Int /\ a = m * (a \div m) + (a % m)
  OBVIOUS

\* The remainder is the only one.
LEMMA ModUnique ==
  ASSUME NEW m \in Nat \ {0}, NEW q \in Int, NEW r \in 0..(m - 1)
  PROVE  (m * q + r) % m = r
  OBVIOUS

\* A product distributes over a sum and a difference.
LEMMA Distribute ==
  ASSUME NEW m \in Int, NEW x \in Int, NEW y \in Int
  PROVE  m * (x + y) = m * x + m * y /\ m * (x - y) = m * x - m * y
  OBVIOUS

\* A cursor kept modulo m advances as the unbounded count does.
LEMMA ModShift ==
  ASSUME NEW a \in Int, NEW b \in Int, NEW m \in Nat \ {0}
  PROVE  ((a % m) + b) % m = (a + b) % m
<1> DEFINE qa == a \div m  ra == a % m  c == ra + b  qc == c \div m  rc == c % m
<1>1. a = m * qa + ra /\ qa \in Int /\ ra \in Int
  BY ModDef
<1>2. c \in Int
  BY <1>1
<1>3. c = m * qc + rc /\ qc \in Int /\ rc \in 0..(m - 1)
  BY <1>2, ModDef
<1> HIDE DEF qa, ra, qc, rc
<1>4. m * (qa + qc) = m * qa + m * qc
  BY <1>1, <1>3, Distribute
<1>5. a + b = m * (qa + qc) + rc /\ qa + qc \in Int
  BY <1>1, <1>3, <1>4
<1>6. (a + b) % m = rc
  BY <1>3, <1>5, ModUnique
<1> QED
  BY <1>6 DEF ra, rc, c

\* The difference of two wrapped cursors is that of the counts, while the counts
\* are less than a whole range apart.
LEMMA ModDiff ==
  ASSUME NEW a \in Int, NEW b \in Int, NEW m \in Nat \ {0}, a - b \in 0..(m - 1)
  PROVE  ((a % m) - (b % m)) % m = a - b
<1> DEFINE qa == a \div m  ra == a % m  qb == b \div m  rb == b % m
<1>1. a = m * qa + ra /\ qa \in Int /\ ra \in Int
  BY ModDef
<1>2. b = m * qb + rb /\ qb \in Int /\ rb \in Int
  BY ModDef
<1> HIDE DEF qa, ra, qb, rb
<1>3. m * (qb - qa) = m * qb - m * qa /\ qb - qa \in Int
  BY <1>1, <1>2, Distribute
<1>4. ra - rb = m * (qb - qa) + (a - b)
  BY <1>1, <1>2, <1>3
<1>5. (ra - rb) % m = a - b
  BY <1>3, <1>4, ModUnique
<1> QED
  BY <1>5 DEF ra, rb

\* Wrapping at a multiple of r leaves the slot modulo r alone.
LEMMA ModMod ==
  ASSUME NEW a \in Int, NEW r \in Nat \ {0}, NEW c \in Nat \ {0}, c % r = 0
  PROVE  (a % c) % r = a % r
<1> DEFINE k == c \div r  q == a \div c  s == a % c  p == s \div r  t == s % r
<1>1. c = r * k /\ k \in Int
  BY ModDef
<1>2. a = c * q + s /\ q \in Int /\ s \in Int
  BY ModDef
<1>3. s = r * p + t /\ p \in Int /\ t \in 0..(r - 1)
  BY <1>2, ModDef
<1> HIDE DEF k, q, s, p, t
<1>4. k * q \in Int /\ c * q = r * (k * q)
  BY <1>1, <1>2
<1>5. r * (k * q + p) = r * (k * q) + r * p /\ k * q + p \in Int
  BY <1>3, <1>4, Distribute
<1>6. a = r * (k * q + p) + t
  BY <1>2, <1>3, <1>4, <1>5
<1>7. a % r = t
  BY <1>3, <1>5, <1>6, ModUnique
<1> QED
  BY <1>7 DEF s, t

\* Two counts less than m apart fall into different slots.
LEMMA ModDistinct ==
  ASSUME NEW a \in Int, NEW b \in Int, NEW m \in Nat \ {0}, a - b \in 1..(m - 1)
  PROVE  a % m # b % m
<1> SUFFICES ASSUME a % m = b % m PROVE FALSE
  OBVIOUS
<1> DEFINE qa == a \div m  qb == b \div m  r == a % m
<1>1. a = m * qa + r /\ qa \in Int /\ r \in Int
  BY ModDef
<1>2. b = m * qb + r /\ qb \in Int
  BY ModDef
<1> HIDE DEF qa, qb, r
<1>3. m * (qa - qb) = m * qa - m * qb /\ qa - qb \in Int
  BY <1>1, <1>2, Distribute
<1>4. m * (qa - qb) = a - b
  BY <1>1, <1>2, <1>3
<1>5. CASE qa - qb >= 1
  <2>1. m * (qa - qb) >= m
    BY <1>3, <1>5
  <2> QED
    BY <1>4, <2>1
<1>6. CASE qa - qb <= 0
  <2>1. m * (qa - qb) <= 0
    BY <1>3, <1>6
  <2> QED
    BY <1>4, <2>1
<1> QED
  BY <1>3, <1>5, <1>6
-----------------------------------------------------------------------------
(* The ring. *)

\* The inputs of a resample are pending exactly while it runs.
Busy == pc = "resample" <=> left > 0

\* The cursors are the counters, wrapped, and no more than a ring apart.
Cursors ==
    /\ S.produced - S.consumed \in 0..RING
    /\ head = S.produced % CURSOR
    /\ tail = S.consumed % CURSOR

\* The slot of every frame produced and not consumed holds that frame.
Window ==
    \A k \in S.consumed..(S.produced - 1) : ring[k % RING] = <<session, k>>

IInv ==
    TypeOK /\ Busy /\ RateExact /\ SumsAtMostTwo /\ Cursors /\ Window /\ GrainsInOrder

-----------------------------------------------------------------------------

\* ring_fill() is the number of frames produced and not consumed, although the
\* cursors it subtracts have wrapped.
LEMMA FillIsDifference ==
  ASSUME TypeOK, Cursors
  PROVE  fill = S.produced - S.consumed /\ fill \in 0..RING
<1>1. S.produced - S.consumed \in 0..(CURSOR - 1)
  BY RingAssumption DEF Cursors
<1>2. S.produced \in Int /\ S.consumed \in Int /\ CURSOR \in Nat \ {0}
  BY RingAssumption DEF TypeOK, Counts
<1>3. ((S.produced % CURSOR) - (S.consumed % CURSOR)) % CURSOR = S.produced - S.consumed
  BY <1>1, <1>2, ModDiff
<1> QED
  BY <1>3 DEF Cursors, fill

\* The types the cursor lemmas ask for.
LEMMA CountTypes ==
  ASSUME TypeOK
  PROVE  /\ S.produced \in Int /\ S.consumed \in Int
         /\ S.produced \in Nat /\ S.consumed \in Nat
         /\ CURSOR \in Nat \ {0} /\ RING \in Nat \ {0} /\ GRAIN \in Nat \ {0}
         /\ CURSOR % RING = 0
  BY RingAssumption DEF TypeOK, Counts

\* A frame dropped is counted and changes nothing else.
LEMMA DropCounts ==
  ASSUME S \in Counts, S' = [S EXCEPT !.overruns = @ + 1]
  PROVE  /\ S' \in Counts /\ S'.overruns = S.overruns + 1
         /\ S'.produced = S.produced /\ S'.consumed = S.consumed /\ S'.pulled = S.pulled
  BY DEF Counts

\* A frame stored is counted and changes no other counter.
LEMMA StoreCounts ==
  ASSUME S \in Counts, S' = [S EXCEPT !.produced = @ + 1]
  PROVE  /\ S' \in Counts /\ S'.produced = S.produced + 1
         /\ S'.overruns = S.overruns /\ S'.consumed = S.consumed /\ S'.pulled = S.pulled
  BY DEF Counts

\* A push keeps the ring well formed and counts the frame, stored or dropped.
LEMMA PushKeeps ==
  ASSUME TypeOK, Cursors, Window, Push, UNCHANGED <<tail, session>>
  PROVE  /\ S' \in Counts
         /\ S'.produced + S'.overruns = S.produced + S.overruns + 1
         /\ S'.pulled = S.pulled /\ S'.consumed = S.consumed
         /\ ring' \in [0..(RING - 1) -> (0..Tags) \X Nat]
         /\ head' \in 0..(CURSOR - 1)
         /\ Cursors' /\ Window'
<1>1. fill = S.produced - S.consumed /\ fill \in 0..RING
  BY FillIsDifference
<1>2. S \in Counts /\ S.produced \in Nat /\ S.overruns \in Nat
  BY DEF TypeOK, Counts
<1>3. CASE fill >= RING
  <2>1. S' = [S EXCEPT !.overruns = @ + 1] /\ UNCHANGED <<ring, head>>
    BY <1>3 DEF Push
  <2>2. /\ S' \in Counts /\ S'.overruns = S.overruns + 1
        /\ S'.produced = S.produced /\ S'.consumed = S.consumed /\ S'.pulled = S.pulled
    BY <1>2, <2>1, DropCounts
  <2>3. Cursors' /\ Window'
    BY <2>1, <2>2 DEF Cursors, Window
  <2>4. S'.produced + S'.overruns = S.produced + S.overruns + 1
    BY <1>2, <2>2
  <2> QED
    BY <2>1, <2>2, <2>3, <2>4 DEF TypeOK
<1>4. CASE ~(fill >= RING)
  <2> DEFINE slot == head % RING
  <2>1. /\ ring' = [ring EXCEPT ![slot] = <<session, S.produced>>]
        /\ head' = (head + 1) % CURSOR
        /\ S' = [S EXCEPT !.produced = @ + 1]
    BY <1>4 DEF Push
  <2>2. /\ S' \in Counts /\ S'.produced = S.produced + 1
        /\ S'.overruns = S.overruns /\ S'.consumed = S.consumed /\ S'.pulled = S.pulled
    BY <1>2, <2>1, StoreCounts
  <2>3. slot = S.produced % RING
    <3>1. (S.produced % CURSOR) % RING = S.produced % RING
      BY CountTypes, ModMod
    <3> QED
      BY <3>1 DEF Cursors
  <2>4. slot \in 0..(RING - 1)
    <3>1. S.produced % RING \in 0..(RING - 1)
      BY CountTypes, ModDef
    <3> QED
      BY <2>3, <3>1
  <2>5. head' = (S.produced + 1) % CURSOR
    <3>1. ((S.produced % CURSOR) + 1) % CURSOR = (S.produced + 1) % CURSOR
      BY CountTypes, ModShift, 1 \in Int
    <3> QED
      BY <2>1, <3>1 DEF Cursors
  <2>6. head' \in 0..(CURSOR - 1)
    <3>1. S.produced + 1 \in Int
      BY CountTypes
    <3>2. (S.produced + 1) % CURSOR \in 0..(CURSOR - 1)
      BY <3>1, CountTypes, ModDef
    <3> QED
      BY <2>5, <3>2
  <2> HIDE DEF slot
  <2>7. Cursors'
    <3>1. S'.produced - S'.consumed \in 0..RING
      BY <1>1, <1>4, <2>2, CountTypes
    <3>2. tail' = S'.consumed % CURSOR
      BY <2>2 DEF Cursors
    <3> QED
      BY <2>2, <2>5, <3>1, <3>2 DEF Cursors
  <2>8. ring' \in [0..(RING - 1) -> (0..Tags) \X Nat]
    <3>1. <<session, S.produced>> \in (0..Tags) \X Nat
      BY RingAssumption, CountTypes DEF TypeOK
    <3>2. ring \in [0..(RING - 1) -> (0..Tags) \X Nat]
      BY DEF TypeOK
    <3> QED
      BY <2>1, <2>4, <3>1, <3>2
  <2>9. Window'
    <3> SUFFICES ASSUME NEW k \in S'.consumed..(S'.produced - 1)
                 PROVE  ring'[k % RING] = <<session', k>>
      BY DEF Window
    <3>1. k \in Int /\ k \in S.consumed..S.produced
      BY <2>2, CountTypes
    <3>2. k % RING \in 0..(RING - 1)
      BY <3>1, CountTypes, ModDef
    <3>3. ring \in [0..(RING - 1) -> (0..Tags) \X Nat] /\ session' = session
      BY DEF TypeOK
    <3>4. CASE k = S.produced
      BY <2>1, <2>3, <2>4, <3>2, <3>3, <3>4
    <3>5. CASE k # S.produced
      <4>1. k \in S.consumed..(S.produced - 1)
        BY <3>1, <3>5, CountTypes
      <4>2. S.produced - k \in 1..(RING - 1)
        BY <1>1, <1>4, <4>1, CountTypes
      <4>3. S.produced % RING # k % RING
        BY <3>1, <4>2, CountTypes, ModDistinct
      <4>4. ring'[k % RING] = ring[k % RING]
        BY <2>1, <2>3, <2>4, <3>2, <3>3, <4>3
      <4> QED
        BY <3>3, <4>1, <4>4 DEF Window
    <3> QED
      BY <3>4, <3>5
  <2>10. S'.produced + S'.overruns = S.produced + S.overruns + 1
    BY <1>2, <2>2
  <2> QED
    BY <2>2, <2>6, <2>7, <2>8, <2>9, <2>10
<1> QED
  BY <1>3, <1>4

\* A grain holds the frames that follow those consumed.
LEMMA GrainIsNext ==
  ASSUME TypeOK, Cursors, Window, fill >= GRAIN
  PROVE  GrainFrames = [i \in 1..GRAIN |-> <<session, S.consumed + i - 1>>]
<1>1. fill = S.produced - S.consumed
  BY FillIsDifference
<1>2. ASSUME NEW i \in 1..GRAIN
      PROVE  ring[((tail + i - 1) % CURSOR) % RING] = <<session, S.consumed + i - 1>>
  <2>1. /\ S.consumed + i - 1 \in S.consumed..(S.produced - 1)
        /\ S.consumed + i - 1 \in Int
        /\ i - 1 \in Int
        /\ S.consumed + i - 1 = S.consumed + (i - 1)
    BY <1>1, CountTypes
  <2>2. ((S.consumed % CURSOR) + (i - 1)) % CURSOR = (S.consumed + (i - 1)) % CURSOR
    BY <2>1, CountTypes, ModShift
  <2>3. tail + i - 1 = tail + (i - 1)
    BY <2>1, RingAssumption DEF TypeOK
  <2>4. (tail + i - 1) % CURSOR = (S.consumed + i - 1) % CURSOR
    BY <2>1, <2>2, <2>3 DEF Cursors
  <2>5. ((S.consumed + i - 1) % CURSOR) % RING = (S.consumed + i - 1) % RING
    BY CountTypes, <2>1, ModMod
  <2> QED
    BY <2>1, <2>4, <2>5 DEF Window
<1> QED
  BY <1>2 DEF GrainFrames

-----------------------------------------------------------------------------

\* The ranges hold what a session starts with.
LEMMA StartRanges ==
  /\ 0 \in 0..MaxIters /\ 1 \in 1..Tags /\ 0 \in 0..(BUS - 1) /\ 0 \in 0..PULL
  /\ 0 \in 0..(DECIN - 1) /\ 0 \in 0..(CURSOR - 1) /\ 0 \in 0..MAXG
  BY RingAssumption

\* A session starts with the invariant.
LEMMA InitInv == Init => IInv
<1> SUFFICES ASSUME Init PROVE IInv
  OBVIOUS
<1> USE RingAssumption
<1>1. S = NoCounts /\ S \in Counts
  BY DEF Init, NoCounts, Counts
<1>2. /\ S.produced = 0 /\ S.consumed = 0 /\ S.pulled = 0 /\ S.overruns = 0
  BY <1>1 DEF NoCounts
<1>3. TypeOK
  <2>1. ring \in [0..(RING - 1) -> (0..Tags) \X Nat]
    BY DEF Init, Silence, Blank
  <2>2. grain \in Seq((0..Tags) \X Nat)
    BY DEF Init
  <2> QED
    BY <1>1, <2>1, <2>2, StartRanges DEF Init, TypeOK
<1>4. Busy /\ RateExact /\ SumsAtMostTwo /\ Window /\ GrainsInOrder
  BY <1>2 DEF Init, Busy, RateExact, SumsAtMostTwo, Window, GrainsInOrder
<1>5. Cursors
  BY <1>2 DEF Init, Cursors
<1> QED
  BY <1>3, <1>4, <1>5 DEF IInv

\* Nothing but the samples, the counters and the cursors matters to the parts
\* after TypeOK and Busy.
LEMMA Unmoved ==
  ASSUME IInv, UNCHANGED <<acc, n, queue, session, grain>>,
         S'.produced = S.produced, S'.consumed = S.consumed,
         S'.overruns = S.overruns, S'.pulled - left' = S.pulled - left
  PROVE  RateExact' /\ SumsAtMostTwo' /\ Cursors' /\ Window' /\ GrainsInOrder'
  BY DEF IInv, queue, RateExact, SumsAtMostTwo, Cursors, Window, GrainsInOrder

LEMMA RunFrameInv == IInv /\ RunFrame => IInv'
<1> SUFFICES ASSUME IInv, RunFrame PROVE IInv'
  OBVIOUS
<1>1. UNCHANGED <<session, left, acc, n, queue, prefilled, sent, grain, S>>
  BY DEF RunFrame, resample
<1>2. bus' \in 0..(BUS - 1)
  <2>1. PICK y \in FirstYield \cup Yield : bus' = (bus + y) % BUS
    BY DEF RunFrame
  <2>2. bus + y \in Int /\ BUS \in Nat \ {0}
    BY RingAssumption DEF IInv, TypeOK
  <2> QED
    BY <2>1, <2>2, ModDef
<1>3. TypeOK'
  BY <1>1, <1>2, RingAssumption DEF RunFrame, queue, IInv, TypeOK
<1>4. Busy'
  BY <1>1 DEF RunFrame, IInv, Busy
<1> QED
  BY <1>1, <1>3, <1>4, Unmoved DEF IInv

LEMMA PullInv == IInv /\ Pull => IInv'
<1> SUFFICES ASSUME IInv, Pull PROVE IInv'
  OBVIOUS
<1> DEFINE got == Least(PULL, IF bus > HOLD THEN bus - HOLD ELSE 0)
<1>1. /\ pc = "pull" /\ bus' = bus - got /\ left' = got
      /\ S' = [S EXCEPT !.pulled = @ + got]
      /\ pc' = IF got = 0 THEN "drain" ELSE "resample"
      /\ UNCHANGED <<loop, acc, n, queue, prefilled, sent, grain>>
  BY DEF Pull
<1>2. got \in 0..PULL /\ bus - got \in 0..(BUS - 1)
  BY RingAssumption DEF IInv, TypeOK, Least
<1> HIDE DEF got
<1>3. S \in Counts /\ S.pulled \in Nat /\ left = 0
  BY <1>1 DEF IInv, TypeOK, Busy, Counts
<1>4. /\ S' \in Counts /\ S'.pulled = S.pulled + got /\ S'.produced = S.produced
      /\ S'.consumed = S.consumed /\ S'.overruns = S.overruns
  BY <1>1, <1>2, <1>3 DEF Counts
<1>5. TypeOK'
  BY <1>1, <1>2, <1>4 DEF loop, queue, IInv, TypeOK
<1>6. Busy'
  BY <1>1, <1>2 DEF Busy
<1>7. S'.pulled - left' = S.pulled - left
  BY <1>1, <1>2, <1>3, <1>4
<1> QED
  BY <1>1, <1>4, <1>5, <1>6, <1>7, Unmoved DEF loop, IInv

LEMMA SampleInv == IInv /\ Sample => IInv'
<1> SUFFICES ASSUME IInv, Sample PROVE IInv'
  OBVIOUS
<1>1. /\ pc = "resample" /\ left' = left - 1
      /\ pc' = IF left = 1 THEN "drain" ELSE "resample"
      /\ UNCHANGED <<loop, bus, tail, prefilled, sent, grain>>
  BY DEF Sample
<1>2. /\ left \in 1..PULL /\ acc \in 0..(DECIN - 1) /\ n \in 0..1
      /\ S \in Counts /\ (n = 0 <=> acc < DECOUT)
  BY <1>1 DEF IInv, TypeOK, Busy, SumsAtMostTwo
<1>3. /\ DECIN \in Nat \ {0} /\ DECOUT \in Nat \ {0}
      /\ DECOUT <= DECIN /\ DECIN <= 2 * DECOUT
  BY RingAssumption
<1>4. S.pulled \in Int /\ S.produced \in Int /\ S.overruns \in Int
  BY <1>2 DEF Counts
<1>5. DECOUT * ((S.pulled - left) + 1) = DECOUT * (S.pulled - left) + DECOUT
  <2>1. S.pulled - left \in Int
    BY <1>2, <1>4
  <2> QED
    BY <1>3, <2>1
<1>6. DECOUT * (S.pulled - left) = DECIN * (S.produced + S.overruns) + acc
  BY DEF IInv, RateExact
<1>7. Busy' /\ left' \in 0..PULL
  <2>1. left' \in 0..PULL /\ (left' > 0 <=> left # 1)
    BY <1>1, <1>2, RingAssumption
  <2>2. pc' = "resample" <=> left # 1
    BY <1>1
  <2> QED
    BY <2>1, <2>2 DEF Busy
<1>8. CASE acc + DECOUT >= DECIN
  <2>1. acc' = acc + DECOUT - DECIN /\ n' = 0 /\ Push
    BY <1>8 DEF Sample
  <2>2. /\ S' \in Counts /\ S'.produced + S'.overruns = S.produced + S.overruns + 1
        /\ S'.pulled = S.pulled /\ S'.consumed = S.consumed
        /\ ring' \in [0..(RING - 1) -> (0..Tags) \X Nat]
        /\ head' \in 0..(CURSOR - 1) /\ Cursors' /\ Window'
    BY <1>1, <2>1, PushKeeps DEF loop, IInv
  <2>3. TypeOK'
    BY <1>1, <1>2, <1>3, <1>7, <1>8, <2>1, <2>2 DEF loop, IInv, TypeOK
  <2>4. SumsAtMostTwo'
    BY <1>2, <1>3, <1>8, <2>1 DEF SumsAtMostTwo
  <2>5. RateExact'
    <3>1. DECIN * ((S.produced + S.overruns) + 1)
            = DECIN * (S.produced + S.overruns) + DECIN
      <4>1. S.produced + S.overruns \in Int
        BY <1>4
      <4> QED
        BY <1>3, <4>1
    <3>2. S'.pulled - left' = (S.pulled - left) + 1
      BY <1>1, <1>2, <1>4, <2>2
    <3>3. /\ DECOUT * (S.pulled - left) \in Int
          /\ DECIN * (S.produced + S.overruns) \in Int
      BY <1>2, <1>3, <1>4
    <3>4. DECOUT * (S'.pulled - left')
            = DECIN * (S'.produced + S'.overruns) + acc'
      BY <1>2, <1>3, <1>5, <1>6, <2>1, <2>2, <3>1, <3>2, <3>3
    <3> QED
      BY <3>4 DEF RateExact
  <2>6. GrainsInOrder'
    BY <1>1, <2>2 DEF loop, IInv, GrainsInOrder
  <2> QED
    BY <1>7, <2>2, <2>3, <2>4, <2>5, <2>6 DEF IInv
<1>9. CASE ~(acc + DECOUT >= DECIN)
  <2>1. acc' = acc + DECOUT /\ n' = n + 1 /\ UNCHANGED <<ring, head, S>>
    BY <1>9 DEF Sample
  <2>2. TypeOK'
    BY <1>1, <1>2, <1>3, <1>7, <1>9, <2>1 DEF loop, IInv, TypeOK
  <2>3. SumsAtMostTwo'
    BY <1>2, <1>3, <1>9, <2>1 DEF SumsAtMostTwo
  <2>4. RateExact'
    <3>1. S'.pulled - left' = (S.pulled - left) + 1
      BY <1>1, <1>2, <1>4, <2>1
    <3>2. DECIN * (S.produced + S.overruns) \in Int
      BY <1>3, <1>4
    <3>3. DECOUT * (S'.pulled - left') = DECIN * (S.produced + S.overruns) + acc'
      BY <1>2, <1>3, <1>5, <1>6, <2>1, <3>1, <3>2
    <3> QED
      BY <2>1, <3>3 DEF RateExact
  <2>5. Cursors' /\ Window' /\ GrainsInOrder'
    BY <1>1, <2>1 DEF loop, IInv, Cursors, Window, GrainsInOrder
  <2> QED
    BY <1>7, <2>2, <2>3, <2>4, <2>5 DEF IInv
<1> QED
  BY <1>8, <1>9

LEMMA DrainShutInv == IInv /\ DrainShut => IInv'
<1> SUFFICES ASSUME IInv, DrainShut PROVE IInv'
  OBVIOUS
<1>1. /\ pc = "drain" /\ pc' \in {"over", "run"}
      /\ UNCHANGED <<loop, bus, left, acc, n, queue, prefilled, sent, grain, S>>
  BY DEF DrainShut, Turn, resample
<1>2. TypeOK' /\ Busy'
  BY <1>1 DEF loop, queue, IInv, TypeOK, Busy
<1> QED
  BY <1>1, <1>2, Unmoved DEF loop, IInv

LEMMA DrainOpenInv == IInv /\ DrainOpen => IInv'
<1> SUFFICES ASSUME IInv, DrainOpen PROVE IInv'
  OBVIOUS
<1>1. /\ pc = "drain" /\ pc' = "send" /\ prefilled' = TRUE /\ sent' = 0
      /\ UNCHANGED <<loop, bus, left, acc, n, queue, grain, S>>
  BY DEF DrainOpen, resample
<1>2. TypeOK' /\ Busy'
  BY <1>1, RingAssumption DEF loop, queue, IInv, TypeOK, Busy
<1> QED
  BY <1>1, <1>2, Unmoved DEF loop, IInv

LEMMA SendGrainInv == IInv /\ SendGrain => IInv'
<1> SUFFICES ASSUME IInv, SendGrain PROVE IInv'
  OBVIOUS
<1>1. /\ pc = "send" /\ sent < MAXG /\ fill >= GRAIN
      /\ grain' = GrainFrames /\ tail' = (tail + GRAIN) % CURSOR /\ sent' = sent + 1
      /\ UNCHANGED <<pc, loop, bus, left, acc, n, ring, head, prefilled>>
  BY DEF SendGrain, resample
<1>2. PICK accepted \in {0, 1} :
        S' = [S EXCEPT !.consumed = @ + GRAIN, !.grains = @ + accepted]
  BY DEF SendGrain
<1>3. S \in Counts /\ GRAIN \in Nat \ {0}
  BY RingAssumption DEF IInv, TypeOK
<1>4. /\ S' \in Counts /\ S'.consumed = S.consumed + GRAIN /\ S'.produced = S.produced
      /\ S'.overruns = S.overruns /\ S'.pulled = S.pulled
  <2>1. S.consumed + GRAIN \in Nat /\ S.grains + accepted \in Nat
    BY <1>3 DEF Counts
  <2>2. S' = [S EXCEPT !.consumed = S.consumed + GRAIN, !.grains = S.grains + accepted]
    BY <1>2
  <2> QED
    BY <1>3, <2>1, <2>2 DEF Counts
<1>5. fill = S.produced - S.consumed /\ fill \in 0..RING
  BY FillIsDifference DEF IInv
<1>6. /\ S.produced \in Int /\ S.consumed \in Int /\ GRAIN \in Int
      /\ S.consumed \in Nat /\ CURSOR \in Nat \ {0}
  BY <1>3, CountTypes DEF IInv
<1>7. tail' = S'.consumed % CURSOR /\ tail' \in 0..(CURSOR - 1)
  <2>1. ((S.consumed % CURSOR) + GRAIN) % CURSOR = (S.consumed + GRAIN) % CURSOR
    BY <1>6, ModShift
  <2>2. S.consumed + GRAIN \in Int
    BY <1>6
  <2>3. (S.consumed + GRAIN) % CURSOR \in 0..(CURSOR - 1)
    BY <1>6, <2>2, ModDef
  <2> QED
    BY <1>1, <1>4, <2>1, <2>3 DEF IInv, Cursors
<1>8. grain' = [i \in 1..GRAIN |-> <<session, S.consumed + i - 1>>]
  BY <1>1, GrainIsNext DEF IInv
<1>9. TypeOK'
  <2>1. grain' \in Seq((0..Tags) \X Nat)
    <3>1. \A i \in 1..GRAIN : <<session, S.consumed + i - 1>> \in (0..Tags) \X Nat
      BY <1>3, <1>6 DEF IInv, TypeOK
    <3>2. [i \in 1..GRAIN |-> <<session, S.consumed + i - 1>>]
            \in [1..GRAIN -> (0..Tags) \X Nat]
      BY <3>1
    <3> QED
      BY <1>3, <1>8, <3>2
  <2>2. sent' \in 0..MAXG
    BY <1>1, RingAssumption DEF IInv, TypeOK
  <2> QED
    BY <1>1, <1>4, <1>7, <2>1, <2>2 DEF loop, IInv, TypeOK
<1>10. Busy' /\ RateExact' /\ SumsAtMostTwo'
  <2>1. Busy' /\ SumsAtMostTwo'
    BY <1>1 DEF IInv, Busy, SumsAtMostTwo
  <2>2. RateExact'
    BY <1>1, <1>4 DEF IInv, RateExact
  <2> QED
    BY <2>1, <2>2
<1>11. Cursors'
  <2>1. S'.produced - S'.consumed = fill - GRAIN
    BY <1>4, <1>5, <1>6
  <2>2. fill - GRAIN \in 0..RING
    BY <1>1, <1>3, <1>5, RingAssumption
  <2> QED
    BY <1>1, <1>4, <1>7, <2>1, <2>2 DEF IInv, Cursors
<1>12. Window'
  <2> SUFFICES ASSUME NEW k \in S'.consumed..(S'.produced - 1)
               PROVE  ring'[k % RING] = <<session', k>>
    BY DEF Window
  <2>1. k \in S.consumed..(S.produced - 1)
    BY <1>3, <1>4, <1>6
  <2> QED
    BY <1>1, <2>1 DEF loop, IInv, Window
<1>13. GrainsInOrder'
  <2>1. \A i \in 1..GRAIN : S.consumed + i - 1 = S'.consumed - GRAIN + i - 1
    BY <1>3, <1>4, <1>6
  <2>2. grain' = [i \in 1..GRAIN |-> <<session, S'.consumed - GRAIN + i - 1>>]
    BY <1>8, <2>1
  <2> QED
    BY <1>1, <2>2 DEF loop, GrainsInOrder
<1> QED
  BY <1>9, <1>10, <1>11, <1>12, <1>13 DEF IInv

LEMMA DrainEndInv == IInv /\ DrainEnd => IInv'
<1> SUFFICES ASSUME IInv, DrainEnd PROVE IInv'
  OBVIOUS
<1>1. /\ pc = "send" /\ pc' \in {"over", "run"}
      /\ S' = [S EXCEPT !.underruns = @ + (IF sent = 0 THEN 1 ELSE 0)]
      /\ UNCHANGED <<loop, bus, left, acc, n, queue, prefilled, sent, grain>>
  BY DEF DrainEnd, Turn, resample
<1>2. S \in Counts /\ (IF sent = 0 THEN 1 ELSE 0) \in Nat
  BY DEF IInv, TypeOK
<1>3. /\ S' \in Counts /\ S'.consumed = S.consumed /\ S'.produced = S.produced
      /\ S'.overruns = S.overruns /\ S'.pulled = S.pulled
  BY <1>1, <1>2 DEF Counts
<1>4. TypeOK' /\ Busy'
  BY <1>1, <1>3 DEF loop, queue, IInv, TypeOK, Busy
<1> QED
  BY <1>1, <1>3, <1>4, Unmoved DEF loop, IInv

LEMMA EndSessionInv == IInv /\ EndSession => IInv'
<1> SUFFICES ASSUME IInv, EndSession PROVE IInv'
  OBVIOUS
<1> USE RingAssumption
<1>1. /\ pc' = "start" /\ iter' = 0 /\ session' = 1 + (session % Tags) /\ bus' = 0
      /\ left' = 0 /\ acc' = 0 /\ n' = 0 /\ ring' = Silence /\ head' = 0 /\ tail' = 0
      /\ prefilled' = FALSE /\ sent' = 0 /\ grain' = <<>> /\ S' = NoCounts
  BY DEF EndSession
<1>2. S' \in Counts /\ S'.produced = 0 /\ S'.consumed = 0 /\ S'.pulled = 0 /\ S'.overruns = 0
  BY <1>1 DEF NoCounts, Counts
<1>3. session' \in 1..Tags
  <2>1. session \in Int /\ Tags \in Nat \ {0}
    BY DEF IInv, TypeOK
  <2>2. session % Tags \in 0..(Tags - 1)
    BY <2>1, ModDef
  <2> QED
    BY <1>1, <2>1, <2>2
<1>4. TypeOK'
  <2>1. ring' \in [0..(RING - 1) -> (0..Tags) \X Nat]
    BY <1>1 DEF Silence, Blank
  <2>2. grain' \in Seq((0..Tags) \X Nat)
    BY <1>1
  <2> QED
    BY <1>1, <1>2, <1>3, <2>1, <2>2, StartRanges DEF TypeOK
<1>5. Busy' /\ RateExact' /\ SumsAtMostTwo' /\ Window' /\ GrainsInOrder'
  BY <1>1, <1>2 DEF Busy, RateExact, SumsAtMostTwo, Window, GrainsInOrder
<1>6. Cursors'
  BY <1>1, <1>2 DEF Cursors
<1> QED
  BY <1>4, <1>5, <1>6 DEF IInv

\* A stutter changes nothing.
LEMMA StutterInv == IInv /\ UNCHANGED vars => IInv'
<1> SUFFICES ASSUME IInv, UNCHANGED vars PROVE IInv'
  OBVIOUS
<1>1. UNCHANGED <<pc, iter, session, bus, left, acc, n, queue, prefilled, sent, grain, S>>
  BY DEF vars, loop, resample
<1>2. TypeOK' /\ Busy'
  BY <1>1 DEF queue, IInv, TypeOK, Busy
<1> QED
  BY <1>1, <1>2, Unmoved DEF IInv

\* IInv is an invariant of the ring.
THEOREM Inductive == Spec => []IInv
<1>1. IInv /\ [Next]_vars => IInv'
  <2> SUFFICES ASSUME IInv, [Next]_vars PROVE IInv'
    OBVIOUS
  <2>1. CASE RunFrame    BY <2>1, RunFrameInv
  <2>2. CASE Pull        BY <2>2, PullInv
  <2>3. CASE Sample      BY <2>3, SampleInv
  <2>4. CASE DrainShut   BY <2>4, DrainShutInv
  <2>5. CASE DrainOpen   BY <2>5, DrainOpenInv
  <2>6. CASE SendGrain   BY <2>6, SendGrainInv
  <2>7. CASE DrainEnd    BY <2>7, DrainEndInv
  <2>8. CASE EndSession  BY <2>8, EndSessionInv
  <2>9. CASE UNCHANGED vars  BY <2>9, StutterInv
  <2> QED
    BY <2>1, <2>2, <2>3, <2>4, <2>5, <2>6, <2>7, <2>8, <2>9 DEF Next
<1> QED
  BY InitInv, <1>1, PTL DEF Spec

\* Every variable keeps its type, for every size of the ring and the cursors.
THEOREM TypeCorrect == Spec => []TypeOK
<1>1. IInv => TypeOK
  BY DEF IInv
<1> QED
  BY Inductive, <1>1, PTL

\* The port hears each session's frames once and in order, whatever is dropped,
\* refused or left behind, and wherever the cursors wrap (gba_audio.c:116-282).
THEOREM InOrder == Spec => []GrainsInOrder
<1>1. IInv => GrainsInOrder
  BY DEF IInv
<1> QED
  BY Inductive, <1>1, PTL

\* The converter never drifts, whatever the ratio (gba_audio.c:166-190).
THEOREM NoDrift == Spec => []RateExact
<1>1. IInv => RateExact
  BY DEF IInv
<1> QED
  BY Inductive, <1>1, PTL

\* No output averages more than two inputs, whatever the ratio between one and
\* two (gba_audio.c:180-183).
THEOREM AtMostTwo == Spec => []SumsAtMostTwo
<1>1. IInv => SumsAtMostTwo
  BY DEF IInv
<1> QED
  BY Inductive, <1>1, PTL

\* What is in the ring is what was produced and not consumed: the cursors,
\* which wrap, and the counters, which do not, agree (gba_audio.c:102-104).
CursorsAgree == fill = S.produced - S.consumed

\* The wrapped cursors and the counters agree on what is in the ring.
THEOREM LevelRight == Spec => []CursorsAgree
<1>1. IInv => CursorsAgree
  BY FillIsDifference DEF IInv, CursorsAgree
<1> QED
  BY Inductive, <1>1, PTL
-----------------------------------------------------------------------------
(* The refinement: the ring implements the levels.                         *)

\* A quotient moves with whole multiples of the divisor; the remainder does not.
LEMMA DivShift ==
  ASSUME NEW a \in Int, NEW k \in Int, NEW m \in Nat \ {0}
  PROVE  (a - m * k) \div m = (a \div m) - k /\ (a - m * k) % m = a % m
<1> DEFINE q == a \div m  r == a % m  b == a - m * k  p == b \div m  t == b % m
<1>1. a = m * q + r /\ q \in Int /\ r \in 0..(m - 1)
  BY ModDef
<1>2. b \in Int
  OBVIOUS
<1>3. b = m * p + t /\ p \in Int /\ t \in 0..(m - 1)
  BY <1>2, ModDef
<1>4. m * (q - k) = m * q - m * k /\ q - k \in Int
  BY <1>1, Distribute
<1>5. b = m * (q - k) + r
  BY <1>1, <1>4
<1>6. t = r
  BY <1>1, <1>4, <1>5, ModUnique
<1>7. m * (p - (q - k)) = m * p - m * (q - k) /\ p - (q - k) \in Int
  BY <1>3, <1>4, Distribute
<1>8. m * (p - (q - k)) = 0
  BY <1>3, <1>4, <1>5, <1>6, <1>7
<1> HIDE DEF q, r, b, p, t
<1>9. p - (q - k) = 0
  BY <1>7, <1>8
<1>10. p = q - k
  BY <1>1, <1>3, <1>9
<1> QED
  BY <1>6, <1>10 DEF q, r, b, p, t

\* What is smaller than the divisor is its own remainder, and only that has no
\* quotient.
LEMMA DivSmall ==
  ASSUME NEW a \in Nat, NEW m \in Nat \ {0}
  PROVE  /\ a \div m \in Nat
         /\ a < m <=> a \div m = 0
         /\ a < m => a % m = a
  OBVIOUS

\* What the levels are between two calls of the sound path.
AtRest ==
    pc \notin {"resample", "send"} =>
      /\ left = 0 /\ AccLevel = acc /\ FillLevel = fill
      /\ OverranLevel = (S.overruns > 0) /\ UnderranLevel = (S.underruns > 0)

LEMMA LevelsAtRest == IInv => AtRest
<1> SUFFICES ASSUME IInv, pc \notin {"resample", "send"} PROVE AtRest
  BY DEF AtRest
<1>1. left = 0
  BY DEF IInv, TypeOK, Busy
<1>2. acc + left * DECOUT = acc /\ acc \in Nat /\ acc < DECIN
  BY <1>1, RingAssumption DEF IInv, TypeOK
<1>3. AccLevel = acc
  BY <1>2, DivSmall, RingAssumption DEF AccLevel
<1> QED
  BY <1>1, <1>3 DEF AtRest, FillLevel, OverranLevel, UnderranLevel

\* The same of the next state.
LEMMA LevelsAtRestNext == IInv' => AtRest'
  BY LevelsAtRest, PTL

\* The fill is a natural no larger than the ring.
FillFits == fill = S.produced - S.consumed /\ fill \in 0..RING

LEMMA FillRange == IInv => FillFits
  BY FillIsDifference DEF IInv, FillFits

\* The same of the next state.
LEMMA FillRangeNext == IInv' => FillFits'
  BY FillRange, PTL

\* An emulated frame is one for the session too.
LEMMA RunFrameMaps ==
  ASSUME IInv, IInv', RunFrame
  PROVE  Levels!RunFrame
<1>1. /\ pc \in {"start", "run"} /\ pc' = "pull"
      /\ UNCHANGED <<acc, fill, prefilled, S>>
  BY DEF RunFrame, resample, queue, fill
<1>2. \E y \in (IF pc = "start" THEN FirstYield ELSE Yield) : bus' = (bus + y) % BUS
  BY DEF RunFrame
<1>3. AtLevel = pc /\ AtLevel' = "feed"
  BY <1>1 DEF AtLevel
<1>4. UNCHANGED <<AccLevel, FillLevel, OverranLevel, UnderranLevel>>
  BY <1>1, LevelsAtRest, LevelsAtRestNext DEF AtRest
<1> QED
  BY <1>1, <1>2, <1>3, <1>4 DEF Levels!RunFrame

\* What gba_audio_pull reads of the mix bus.
Taken == Least(PULL, IF bus > HOLD THEN bus - HOLD ELSE 0)

\* What is in the accumulator and in the inputs to come, and what the next
\* input takes out of it.
Total == acc + left * DECOUT
Carry == IF acc + DECOUT >= DECIN THEN 1 ELSE 0

\* gba_audio_pull fixes what the whole feed will do: the resample that follows
\* it has its inputs, and so its outputs.
LEMMA PullMaps ==
  ASSUME IInv, IInv', Pull
  PROVE  Levels!Feed
<1> DEFINE out == (acc + Taken * DECOUT) \div DECIN
<1>1. /\ pc = "pull" /\ bus' = bus - Taken /\ left' = Taken
      /\ S'.overruns = S.overruns /\ S'.underruns = S.underruns
      /\ pc' = IF Taken = 0 THEN "drain" ELSE "resample"
      /\ UNCHANGED <<acc, fill, prefilled>>
  <2>1. S' = [S EXCEPT !.pulled = @ + Taken] /\ S \in Counts
    BY DEF Pull, Taken, IInv, TypeOK
  <2>2. S'.overruns = S.overruns /\ S'.underruns = S.underruns
    BY <2>1 DEF Counts
  <2> QED
    BY <2>2 DEF Pull, Taken, queue, fill
<1>2. left = 0 /\ AccLevel = acc /\ FillLevel = fill
      /\ OverranLevel = (S.overruns > 0) /\ UnderranLevel = (S.underruns > 0)
  BY <1>1, LevelsAtRest DEF AtRest
<1>3. Taken = Levels!Readable(bus)
  BY DEF Taken, Levels!Readable, Levels!Least, Least
<1>4. Taken \in Nat /\ acc \in Nat /\ acc < DECIN /\ fill \in 0..RING
  <2>1. bus \in Nat /\ PULL \in Nat /\ HOLD \in Nat
    BY RingAssumption DEF IInv, TypeOK
  <2>2. Taken \in Nat
    BY <2>1 DEF Taken, Least
  <2>3. acc \in Nat /\ acc < DECIN
    BY RingAssumption DEF IInv, TypeOK
  <2> QED
    BY <2>2, <2>3, FillRange DEF FillFits
<1>5. AccLevel' = (acc + Taken * DECOUT) % DECIN
  BY <1>1 DEF AccLevel
<1>6. UnderranLevel' = (S.underruns > 0)
  BY <1>1 DEF UnderranLevel
<1>7. /\ FillLevel' = Least(RING, fill + out)
      /\ OverranLevel' = (S.overruns > 0 \/ fill + out > RING)
  <2>1. CASE Taken = 0
    <3>1. acc + Taken * DECOUT = acc
      BY <1>4, <2>1, RingAssumption
    <3>2. out = 0
      BY <1>4, <3>1, DivSmall, RingAssumption
    <3>3. FillLevel' = fill /\ OverranLevel' = (S.overruns > 0)
      BY <1>1, <2>1 DEF FillLevel, OverranLevel
    <3> HIDE DEF out
    <3> QED
      BY <1>4, <3>2, <3>3, RingAssumption DEF Least
  <2>2. CASE Taken # 0
    <3>1. pc' = "resample" /\ Pending' = out
      BY <1>1, <2>2 DEF Pending
    <3> HIDE DEF out
    <3> QED
      BY <1>1, <3>1 DEF FillLevel, OverranLevel, Least
  <2> QED
    BY <2>1, <2>2
<1>8. AtLevel = "feed" /\ AtLevel' = "drain"
  BY <1>1 DEF AtLevel
<1> QED
  BY <1>1, <1>2, <1>3, <1>5, <1>6, <1>7, <1>8 DEF Levels!Feed, Levels!Emitted,
     Levels!Carried, Levels!Least, Least

\* One turn of the resample changes no level: what it stores or drops was
\* counted when its inputs were read.
LEMMA SampleMaps ==
  ASSUME IInv, IInv', Sample
  PROVE  UNCHANGED Levels!vars
<1>1. /\ pc = "resample" /\ left' = left - 1
      /\ pc' = IF left = 1 THEN "drain" ELSE "resample"
      /\ UNCHANGED <<bus, tail, prefilled>>
      /\ acc' = acc + DECOUT - DECIN * Carry
      /\ Carry = 1 => Push
      /\ Carry = 0 => UNCHANGED <<head, S>>
  <2>1. acc \in Int /\ DECIN \in Int /\ DECOUT \in Int
    BY RingAssumption DEF IInv, TypeOK
  <2>2. CASE acc + DECOUT >= DECIN
    BY <2>1, <2>2 DEF Sample, Carry
  <2>3. CASE ~(acc + DECOUT >= DECIN)
    BY <2>1, <2>3 DEF Sample, Carry
  <2> QED
    BY <2>2, <2>3
<1>2. /\ left \in Nat /\ left > 0 /\ acc \in Nat /\ acc < DECIN /\ Carry \in {0, 1}
      /\ fill \in 0..RING /\ fill' \in 0..RING
      /\ acc' \in Nat /\ acc' < DECIN
      /\ DECOUT \in Nat /\ DECIN \in Nat \ {0} /\ RING \in Nat \ {0}
  <2>1. left \in Nat /\ left > 0 /\ acc \in Nat /\ acc < DECIN
    BY <1>1, RingAssumption DEF IInv, TypeOK, Busy
  <2>2. acc' \in Nat /\ acc' < DECIN
    BY RingAssumption DEF IInv, TypeOK
  <2>3. fill \in 0..RING /\ fill' \in 0..RING
    BY FillRange, FillRangeNext DEF FillFits
  <2> QED
    BY <2>1, <2>2, <2>3, RingAssumption DEF Carry
<1>3. Total \in Nat /\ Total' = Total - DECIN * Carry /\ Total >= acc + DECOUT
  <2>1. left * DECOUT \in Nat /\ (left - 1) * DECOUT \in Nat
    BY <1>2
  <2>2. DECOUT * (left - 1) = DECOUT * left - DECOUT * 1
    BY <1>2, Distribute
  <2>3. (left - 1) * DECOUT = left * DECOUT - DECOUT
    BY <1>2, <2>2
  <2>4. Total' = acc' + (left - 1) * DECOUT /\ Total = acc + left * DECOUT
    BY <1>1 DEF Total
  <2>5. left * DECOUT >= DECOUT
    BY <1>2, <2>1, <2>3
  <2> QED
    BY <1>1, <1>2, <2>1, <2>3, <2>4, <2>5
<1>4. AccLevel = Total % DECIN /\ AccLevel' = (Total') % DECIN
  BY DEF AccLevel, Total
<1>5. Pending = Total \div DECIN /\ Pending' = (Total') \div DECIN
  BY DEF Pending, Total
<1>6. Pending' = Pending - Carry /\ AccLevel' = AccLevel
  <2>1. /\ (Total - DECIN * Carry) \div DECIN = (Total \div DECIN) - Carry
        /\ (Total - DECIN * Carry) % DECIN = Total % DECIN
    <3>1. Total \in Int /\ Carry \in Int /\ DECIN \in Nat \ {0}
      BY <1>2, <1>3
    <3> QED
      BY <3>1, DivShift
  <2> QED
    BY <1>3, <1>4, <1>5, <2>1
<1>7. Pending \in Nat /\ Pending' \in Nat
  <2>1. Total' \in Int /\ Total' >= 0
    <3>1. left' * DECOUT \in Nat
      BY <1>1, <1>2
    <3> QED
      BY <1>2, <3>1 DEF Total
  <2> QED
    BY <1>2, <1>3, <1>5, <2>1, DivSmall
<1>8. left = 1 => Pending' = 0
  <2>1. SUFFICES ASSUME left = 1 PROVE Pending' = 0
    OBVIOUS
  <2>2. Total' = acc'
    BY <1>1, <1>2, <2>1 DEF Total
  <2> QED
    BY <1>2, <1>5, <2>2, DivSmall
<1>9. Carry = 1 => Pending >= 1
  BY <1>6, <1>7, <1>2
<1>10. S'.underruns = S.underruns /\ S.overruns \in Nat
       /\ \/ /\ fill' + Pending' = fill + Pending /\ S'.overruns = S.overruns
          \/ /\ fill = RING /\ fill' = RING /\ Pending >= 1 /\ S'.overruns > 0
  <2>1. S \in Counts
    BY DEF IInv, TypeOK
  <2>2. CASE Carry = 0
    <3>1. UNCHANGED <<fill, S>>
      BY <1>1, <2>2 DEF fill
    <3> QED
      BY <1>6, <1>7, <2>1, <2>2, <3>1 DEF Counts
  <2>3. CASE Carry = 1 /\ fill >= RING
    <3>1. S' = [S EXCEPT !.overruns = @ + 1] /\ UNCHANGED head
      BY <1>1, <2>3 DEF Push
    <3>2. S'.overruns = S.overruns + 1 /\ S'.underruns = S.underruns
          /\ S.overruns \in Nat
      BY <2>1, <3>1 DEF Counts
    <3>3. fill' = fill
      BY <1>1, <3>1 DEF fill
    <3> QED
      BY <1>2, <1>9, <2>3, <3>2, <3>3
  <2>4. CASE Carry = 1 /\ ~(fill >= RING)
    <3>1. S' = [S EXCEPT !.produced = @ + 1]
      BY <1>1, <2>4 DEF Push
    <3>2. /\ S'.produced = S.produced + 1 /\ S'.consumed = S.consumed
          /\ S'.overruns = S.overruns /\ S'.underruns = S.underruns
          /\ S.overruns \in Nat /\ S.produced \in Nat /\ S.consumed \in Nat
      BY <2>1, <3>1 DEF Counts
    <3>3. fill' = fill + 1
      BY <3>2, FillRange, FillRangeNext DEF FillFits
    <3> QED
      BY <1>2, <1>6, <1>7, <2>4, <3>2, <3>3
  <2> QED
    BY <1>2, <2>2, <2>3, <2>4
<1>11. FillLevel = Least(RING, fill + Pending)
       /\ OverranLevel = (S.overruns > 0 \/ fill + Pending > RING)
  BY <1>1 DEF FillLevel, OverranLevel
<1>12. FillLevel' = Least(RING, fill' + Pending')
       /\ OverranLevel' = (S'.overruns > 0 \/ fill' + Pending' > RING)
  <2>1. CASE left = 1
    <3>1. pc' = "drain"
      BY <1>1, <2>1
    <3>2. FillLevel' = fill' /\ OverranLevel' = (S'.overruns > 0)
      BY <3>1 DEF FillLevel, OverranLevel
    <3> QED
      <4>1. PICK f \in 0..RING : f = fill'
        BY <1>2
      <4>2. f + 0 = f /\ ~(f > RING) /\ Least(RING, f) = f
        BY <1>2 DEF Least
      <4>3. Pending' = 0
        BY <1>8, <2>1
      <4> QED
        BY <3>2, <4>1, <4>2, <4>3
  <2>2. CASE left # 1
    <3>1. pc' = "resample"
      BY <1>1, <2>2
    <3> QED
      BY <3>1 DEF FillLevel, OverranLevel, Least
  <2> QED
    BY <2>1, <2>2
<1>13. UNCHANGED <<FillLevel, OverranLevel>>
  <2>1. FillLevel' = FillLevel
    <3>1. CASE fill' + Pending' = fill + Pending
      BY <1>11, <1>12, <3>1
    <3>2. CASE fill = RING /\ fill' = RING /\ Pending >= 1
      <4>1. ASSUME NEW k \in Nat PROVE Least(RING, RING + k) = RING
        BY <1>2 DEF Least
      <4>2. Least(RING, fill + Pending) = RING /\ Least(RING, fill' + Pending') = RING
        BY <1>7, <3>2, <4>1
      <4> QED
        BY <1>11, <1>12, <4>2
    <3> QED
      BY <1>10, <3>1, <3>2
  <2>2. OverranLevel' = OverranLevel
    <3>1. CASE fill' + Pending' = fill + Pending /\ S'.overruns = S.overruns
      BY <1>11, <1>12, <3>1
    <3>2. CASE fill = RING /\ Pending >= 1 /\ S'.overruns > 0
      <4>1. fill + Pending > RING
        BY <1>2, <1>7, <3>2
      <4> QED
        BY <1>11, <1>12, <3>2, <4>1
    <3> QED
      BY <1>10, <3>1, <3>2
  <2> QED
    BY <2>1, <2>2
<1>14. UNCHANGED <<AtLevel, UnderranLevel>>
  BY <1>1, <1>10 DEF AtLevel, UnderranLevel
<1> QED
  BY <1>1, <1>6, <1>13, <1>14 DEF Levels!vars

\* The verdict of the loop's overrun test is the levels' verdict.
LEMMA TurnMaps ==
  ASSUME IInv, IInv', pc \in {"drain", "send"}, Turn, UNCHANGED <<S, fill>>
  PROVE  /\ AtLevel' = (IF S.overruns > 0 THEN "over" ELSE "run")
         /\ FillLevel' = fill
         /\ OverranLevel' = (S.overruns > 0) /\ UnderranLevel' = (S.underruns > 0)
<1>1. pc' = (IF S.overruns > 0 THEN "over" ELSE "run")
  BY DEF Turn
<1>2. AtLevel' = pc'
  BY <1>1 DEF AtLevel
<1>3. FillLevel' = fill'
  BY <1>1, LevelsAtRestNext DEF AtRest
<1>4. OverranLevel' = (S'.overruns > 0) /\ UnderranLevel' = (S'.underruns > 0)
  BY <1>1, LevelsAtRestNext DEF AtRest
<1> QED
  BY <1>1, <1>2, <1>3, <1>4

\* A drain whose gate stays shut changes nothing but the turn.
LEMMA DrainShutMaps ==
  ASSUME IInv, IInv', DrainShut
  PROVE  Levels!Drain
<1>1. /\ pc = "drain" /\ ~prefilled /\ fill < TARGET /\ Turn
      /\ UNCHANGED <<bus, left, acc, fill, prefilled, S>>
  BY DEF DrainShut, resample, queue, fill
<1>2. /\ FillLevel = fill /\ OverranLevel = (S.overruns > 0)
      /\ UnderranLevel = (S.underruns > 0)
  BY <1>1, LevelsAtRest DEF AtRest
<1>3. /\ AtLevel' = (IF S.overruns > 0 THEN "over" ELSE "run")
      /\ FillLevel' = fill
      /\ OverranLevel' = (S.overruns > 0) /\ UnderranLevel' = (S.underruns > 0)
  BY <1>1, TurnMaps
<1>4. AccLevel' = AccLevel /\ AtLevel = "drain"
  BY <1>1 DEF AccLevel, AtLevel
<1>5. ~(fill >= TARGET)
  BY <1>1, FillRange, RingAssumption DEF FillFits
<1>6. prefilled = FALSE /\ prefilled' = FALSE
  BY <1>1 DEF IInv, TypeOK
<1>7. prefilled' = (prefilled \/ FillLevel >= TARGET)
  BY <1>2, <1>5, <1>6
<1>8. FillLevel' = IF prefilled' THEN FillLevel - GRAIN * Levels!Grains(FillLevel)
                   ELSE FillLevel
  BY <1>2, <1>3, <1>6
<1>9. UnderranLevel' =
        (UnderranLevel \/ (prefilled' /\ Levels!Grains(FillLevel) = 0))
  <2>1. UnderranLevel' = UnderranLevel /\ UnderranLevel \in BOOLEAN
    BY <1>2, <1>3 DEF UnderranLevel
  <2> QED
    BY <1>6, <2>1, Zenon
<1>10. AtLevel' = (IF OverranLevel THEN "over" ELSE "run") /\ OverranLevel' = OverranLevel
  BY <1>2, <1>3
<1> QED
  BY <1>1, <1>4, <1>7, <1>8, <1>9, <1>10 DEF Levels!Drain

\* What an open drain is going to send is decided as it is entered.
LEMMA DrainOpenMaps ==
  ASSUME IInv, IInv', DrainOpen
  PROVE  Levels!Drain
<1>1. /\ pc = "drain" /\ pc' = "send" /\ (prefilled \/ fill >= TARGET)
      /\ prefilled' = TRUE /\ sent' = 0
      /\ UNCHANGED <<bus, left, acc, fill, S>>
  BY DEF DrainOpen, resample, queue, fill
<1>2. /\ FillLevel = fill /\ OverranLevel = (S.overruns > 0)
      /\ UnderranLevel = (S.underruns > 0)
  BY <1>1, LevelsAtRest DEF AtRest
<1>3. Levels!Grains(fill) = Least(MAXG, fill \div GRAIN)
  BY DEF Levels!Grains, Levels!Least, Least
<1>4. FillLevel' = fill - GRAIN * Levels!Grains(fill)
  <2>1. ToSend' = Least(MAXG - 0, fill \div GRAIN)
    BY <1>1 DEF ToSend
  <2>2. MAXG - 0 = MAXG
    BY RingAssumption
  <2>3. FillLevel' = fill' - GRAIN * ToSend'
    BY <1>1 DEF FillLevel
  <2> QED
    BY <1>1, <1>3, <2>1, <2>2, <2>3
<1>5. (Levels!Grains(fill) = 0) <=> fill < GRAIN
  <2>1. PICK f \in Nat : f = fill
    BY FillRange, RingAssumption DEF FillFits
  <2>2. f \div GRAIN \in Nat /\ (f < GRAIN <=> f \div GRAIN = 0)
    BY DivSmall, RingAssumption
  <2>3. Least(MAXG, f \div GRAIN) = 0 <=> f \div GRAIN = 0
    BY <2>2, RingAssumption DEF Least
  <2> QED
    BY <1>3, <2>1, <2>2, <2>3
<1>6. /\ AtLevel = "drain" /\ AtLevel' = (IF S.overruns > 0 THEN "over" ELSE "run")
      /\ AccLevel' = AccLevel
  BY <1>1 DEF AtLevel, AccLevel
<1>7. OverranLevel' = (S.overruns > 0)
  BY <1>1 DEF OverranLevel
<1>8. UnderranLevel' = (S.underruns > 0 \/ fill < GRAIN)
  BY <1>1 DEF UnderranLevel
<1> QED
  BY <1>1, <1>2, <1>4, <1>5, <1>6, <1>7, <1>8 DEF Levels!Drain

\* A grain sent is one of those decided: there is one less to go.
LEMMA SendGrainMaps ==
  ASSUME IInv, IInv', SendGrain
  PROVE  UNCHANGED Levels!vars
<1>1. /\ pc = "send" /\ sent < MAXG /\ fill >= GRAIN /\ sent' = sent + 1
      /\ UNCHANGED <<pc, bus, left, acc, prefilled>>
  BY DEF SendGrain, resample
<1>2. /\ S'.produced = S.produced /\ S'.consumed = S.consumed + GRAIN
      /\ S'.overruns = S.overruns /\ S'.underruns = S.underruns
      /\ S.produced \in Nat /\ S.consumed \in Nat
  <2>1. PICK accepted \in {0, 1} :
          S' = [S EXCEPT !.consumed = @ + GRAIN, !.grains = @ + accepted]
    BY DEF SendGrain
  <2>2. S \in Counts
    BY DEF IInv, TypeOK
  <2> QED
    BY <2>1, <2>2 DEF Counts
<1>3. PICK f \in Nat : f = fill
  BY FillRange, RingAssumption DEF FillFits
<1>4. fill' = f - GRAIN
  <2>1. f = S.produced - S.consumed
    BY <1>3, FillRange DEF FillFits
  <2>2. fill' = S.produced - (S.consumed + GRAIN)
    BY <1>2, FillRangeNext DEF FillFits
  <2>3. PICK p \in Nat, c \in Nat : p = S.produced /\ c = S.consumed
    BY <1>2
  <2>4. p - (c + GRAIN) = (p - c) - GRAIN
    BY RingAssumption
  <2> QED
    BY <2>1, <2>2, <2>3, <2>4
<1>5. PICK q \in Nat : q = f \div GRAIN /\ (f - GRAIN) \div GRAIN = q - 1
  <2>1. (f - GRAIN * 1) \div GRAIN = (f \div GRAIN) - 1
    <3>1. f \in Int /\ 1 \in Int /\ GRAIN \in Nat \ {0}
      BY RingAssumption
    <3> QED
      BY <3>1, DivShift
  <2>2. f \div GRAIN \in Nat
    BY DivSmall, RingAssumption
  <2>3. f - GRAIN * 1 = f - GRAIN
    BY RingAssumption
  <2> QED
    BY <2>1, <2>2, <2>3
<1>6. PICK k \in Nat : k = sent /\ k < MAXG
  BY <1>1, RingAssumption DEF IInv, TypeOK
<1>7. PICK t \in Int : t = Least(MAXG - k, q) /\ Least(MAXG - (k + 1), q - 1) = t - 1
  <2>1. MAXG - k \in Int /\ MAXG - (k + 1) = (MAXG - k) - 1
    BY RingAssumption
  <2>2. ASSUME NEW a \in Int, NEW b \in Int
        PROVE  Least(a, b) \in Int /\ Least(a - 1, b - 1) = Least(a, b) - 1
    BY DEF Least
  <2>3. Least(MAXG - k, q) \in Int /\ Least((MAXG - k) - 1, q - 1) = Least(MAXG - k, q) - 1
    <3>1. MAXG - k \in Int /\ q \in Int
      BY <2>1
    <3> QED
      BY <2>2, <3>1
  <2> QED
    BY <2>1, <2>3
<1>8. ToSend = t /\ ToSend' = t - 1
  BY <1>1, <1>3, <1>4, <1>5, <1>6, <1>7 DEF ToSend
<1>9. FillLevel = f - GRAIN * t /\ FillLevel' = (f - GRAIN) - GRAIN * (t - 1)
  BY <1>1, <1>3, <1>4, <1>8 DEF FillLevel
<1>10. FillLevel' = FillLevel
  <2>1. GRAIN * (t - 1) = GRAIN * t - GRAIN * 1 /\ GRAIN * t \in Int
    BY RingAssumption, Distribute
  <2> QED
    BY <1>9, <2>1, RingAssumption
<1>11. AtLevel' = AtLevel /\ AccLevel' = AccLevel
  BY <1>1, <1>2 DEF AtLevel, AccLevel
<1>12. OverranLevel' = OverranLevel
  BY <1>1, <1>2 DEF OverranLevel
<1>13. UnderranLevel' = UnderranLevel
  <2>1. ~(sent' = 0) /\ ~(fill < GRAIN)
    BY <1>1, <1>3, <1>6, RingAssumption
  <2> QED
    BY <1>1, <1>2, <2>1 DEF UnderranLevel
<1> QED
  BY <1>1, <1>10, <1>11, <1>12, <1>13 DEF Levels!vars

\* The end of a drain is no step of the session's: nothing was left to send.
LEMMA DrainEndMaps ==
  ASSUME IInv, IInv', DrainEnd
  PROVE  UNCHANGED Levels!vars
<1>1. /\ pc = "send" /\ (sent >= MAXG \/ fill < GRAIN)
      /\ pc' = (IF S.overruns > 0 THEN "over" ELSE "run")
      /\ UNCHANGED <<bus, left, acc, fill, prefilled>>
  BY DEF DrainEnd, Turn, resample, queue, fill
<1>2. /\ S'.overruns = S.overruns /\ S.underruns \in Nat
      /\ S'.underruns = S.underruns + (IF sent = 0 THEN 1 ELSE 0)
  <2>1. S' = [S EXCEPT !.underruns = @ + (IF sent = 0 THEN 1 ELSE 0)]
    BY DEF DrainEnd
  <2>2. S \in Counts
    BY DEF IInv, TypeOK
  <2> QED
    BY <2>1, <2>2 DEF Counts
<1>3. PICK f \in Nat : f = fill
  BY FillRange, RingAssumption DEF FillFits
<1>4. sent \in 0..MAXG /\ MAXG \in Nat \ {0} /\ GRAIN \in Nat \ {0}
  BY RingAssumption DEF IInv, TypeOK
<1>5. ToSend = 0
  <2>1. f \div GRAIN \in Nat /\ (f < GRAIN <=> f \div GRAIN = 0)
    BY <1>4, DivSmall
  <2>2. CASE f < GRAIN
    BY <1>3, <1>4, <2>1, <2>2 DEF ToSend, Least
  <2>3. CASE sent >= MAXG
    <3>1. MAXG - sent = 0
      BY <1>4, <2>3
    <3> QED
      BY <1>3, <2>1, <3>1 DEF ToSend, Least
  <2> QED
    BY <1>1, <1>3, <2>2, <2>3
<1>6. FillLevel = f
  <2>1. FillLevel = fill - GRAIN * ToSend
    BY <1>1 DEF FillLevel
  <2> QED
    BY <1>3, <1>4, <1>5, <2>1
<1>7. FillLevel' = f /\ OverranLevel' = (S'.overruns > 0)
      /\ UnderranLevel' = (S'.underruns > 0)
  BY <1>1, <1>3, LevelsAtRestNext DEF AtRest
<1>8. OverranLevel = (S.overruns > 0)
  BY <1>1 DEF OverranLevel
<1>9. UnderranLevel = (S'.underruns > 0)
  <2>1. sent = 0 => fill < GRAIN
    BY <1>1, <1>4
  <2> QED
    BY <1>1, <1>2, <2>1 DEF UnderranLevel
<1>10. AtLevel' = AtLevel /\ AccLevel' = AccLevel
  BY <1>1 DEF AtLevel, AccLevel
<1> QED
  BY <1>1, <1>2, <1>6, <1>7, <1>8, <1>9, <1>10 DEF Levels!vars

\* The reset between two sessions resets every level.
LEMMA EndSessionMaps ==
  ASSUME IInv, IInv', EndSession
  PROVE  Levels!EndSession
<1>1. /\ pc \in {"run", "over"} /\ pc' = "start" /\ bus' = 0 /\ acc' = 0
      /\ head' = 0 /\ tail' = 0 /\ prefilled' = FALSE /\ S' = NoCounts
  BY DEF EndSession
<1>2. S'.produced = 0 /\ S'.consumed = 0 /\ S'.overruns = 0 /\ S'.underruns = 0
  BY <1>1 DEF NoCounts
<1>3. fill' = 0
  BY <1>2, FillRangeNext DEF FillFits
<1>4. /\ AccLevel' = 0 /\ FillLevel' = 0 /\ OverranLevel' = FALSE
      /\ UnderranLevel' = FALSE
  <2>1. /\ AccLevel' = acc' /\ FillLevel' = fill' /\ OverranLevel' = (S'.overruns > 0)
        /\ UnderranLevel' = (S'.underruns > 0)
    BY <1>1, LevelsAtRestNext DEF AtRest
  <2>2. (0 > 0) = FALSE
    OBVIOUS
  <2> QED
    BY <1>1, <1>2, <1>3, <2>1, <2>2
<1>5. AtLevel = pc /\ AtLevel' = "start"
  BY <1>1 DEF AtLevel
<1> QED
  BY <1>1, <1>4, <1>5 DEF Levels!EndSession

\* gba_audio.c, sample by sample, behaves as the levels its session is judged
\* by: a resample and a drain are one step each, decided as they are entered,
\* whatever the ring's size, the grain, the cursors' range and the ratio.
THEOREM Refinement == Spec => ImplementsLevels
<1>1. Init => Levels!Init
  <2> SUFFICES ASSUME Init PROVE Levels!Init
    OBVIOUS
  <2>1. IInv
    BY InitInv
  <2>2. /\ pc = "start" /\ bus = 0 /\ acc = 0 /\ prefilled = FALSE
        /\ S.overruns = 0 /\ S.underruns = 0 /\ S.produced = 0 /\ S.consumed = 0
    BY DEF Init, NoCounts
  <2>3. fill = 0
    BY <2>1, <2>2, FillRange DEF FillFits
  <2>4. AccLevel = 0 /\ FillLevel = 0 /\ OverranLevel = FALSE /\ UnderranLevel = FALSE
    <3>1. /\ AccLevel = acc /\ FillLevel = fill /\ OverranLevel = (S.overruns > 0)
          /\ UnderranLevel = (S.underruns > 0)
      BY <2>1, <2>2, LevelsAtRest DEF AtRest
    <3>2. (0 > 0) = FALSE
      OBVIOUS
    <3> QED
      BY <2>2, <2>3, <3>1, <3>2
  <2>5. AtLevel = "start"
    BY <2>2 DEF AtLevel
  <2> QED
    BY <2>2, <2>4, <2>5 DEF Levels!Init
<1>2. IInv /\ IInv' /\ [Next]_vars => [Levels!Next]_(Levels!vars)
  <2> SUFFICES ASSUME IInv, IInv', [Next]_vars
               PROVE  Levels!Next \/ UNCHANGED Levels!vars
    OBVIOUS
  <2>1. CASE RunFrame    BY <2>1, RunFrameMaps DEF Levels!Next
  <2>2. CASE Pull        BY <2>2, PullMaps DEF Levels!Next
  <2>3. CASE Sample      BY <2>3, SampleMaps
  <2>4. CASE DrainShut   BY <2>4, DrainShutMaps DEF Levels!Next
  <2>5. CASE DrainOpen   BY <2>5, DrainOpenMaps DEF Levels!Next
  <2>6. CASE SendGrain   BY <2>6, SendGrainMaps
  <2>7. CASE DrainEnd    BY <2>7, DrainEndMaps
  <2>8. CASE EndSession  BY <2>8, EndSessionMaps DEF Levels!Next
  <2>9. CASE UNCHANGED vars
    BY <2>9 DEF vars, loop, resample, queue, Levels!vars, AtLevel, AccLevel,
       FillLevel, OverranLevel, UnderranLevel, fill, Pending, ToSend
  <2> QED
    BY <2>1, <2>2, <2>3, <2>4, <2>5, <2>6, <2>7, <2>8, <2>9 DEF Next
<1> QED
  BY Inductive, <1>1, <1>2, PTL DEF Spec, ImplementsLevels, Levels!Spec

-----------------------------------------------------------------------------
(* The levels' theorems, of the ring.                                      *)

LP == INSTANCE AudioLevelsProofs WITH
    at <- AtLevel, acc <- AccLevel, fill <- FillLevel,
    overran <- OverranLevel, underran <- UnderranLevel

\* What AudioLevels assumes of its constants the ring's satisfy.
LEMMA LevelsConstants == LP!LevelsAssumption
BY RingAssumption DEF LP!LevelsAssumption

\* One module, instanced twice: by AudioRing, and under its proofs.
LEMMA SameLevels == Levels!Spec => LP!Spec
<1>1. Levels!Init => LP!Init
  BY DEF Levels!Init, LP!Init
<1>2. [Levels!Next]_(Levels!vars) => [LP!Next]_(LP!vars)
  BY DEF Levels!Next, LP!Next, Levels!vars, LP!vars, Levels!RunFrame, LP!RunFrame,
     Levels!Feed, LP!Feed, Levels!Drain, LP!Drain, Levels!EndSession, LP!EndSession,
     Levels!Readable, LP!Readable, Levels!Emitted, LP!Emitted, Levels!Carried,
     LP!Carried, Levels!Grains, LP!Grains, Levels!Least, LP!Least
<1> QED
  BY <1>1, <1>2, PTL DEF Levels!Spec, LP!Spec

LEMMA SameNumbers ==
  ASSUME NEW lo \in Nat, NEW hi \in Nat, NEW out \in Nat, Levels!RatesFit(lo, hi, out)
  PROVE  LP!RatesFit(lo, hi, out)
BY DEF Levels!RatesFit, LP!RatesFit

\* A session never drops a frame, and so never loses its save to a full ring,
\* for any numbers that fit: GBA_AUDIO_RING_FRAMES, the grain cap and the rate
\* of gpSP's mixer do (main.c:5522, 5724).
THEOREM NoOverruns ==
  ASSUME NEW lo \in Nat, NEW hi \in Nat, NEW out \in Nat, Levels!RatesFit(lo, hi, out)
  PROVE  Spec => []Levels!NeverOverruns
<1>1. LP!Spec => []LP!NeverOverruns
  BY SameNumbers, LevelsConstants, LP!NoOverruns
<1>2. LP!NeverOverruns => Levels!NeverOverruns
  BY DEF LP!NeverOverruns, Levels!NeverOverruns
<1> QED
  BY Refinement, SameLevels, <1>1, <1>2, PTL DEF ImplementsLevels

\* Once its gate has opened, every drain has a grain for the port, for any
\* numbers that fit (gba_audio.c:262-293).
THEOREM NoUnderruns ==
  ASSUME NEW lo \in Nat, NEW hi \in Nat, NEW out \in Nat, Levels!RatesFit(lo, hi, out)
  PROVE  Spec => []Levels!NeverUnderruns
<1>1. LP!Spec => []LP!NeverUnderruns
  BY SameNumbers, LevelsConstants, LP!NoUnderruns
<1>2. LP!NeverUnderruns => Levels!NeverUnderruns
  BY DEF LP!NeverUnderruns, Levels!NeverUnderruns
<1> QED
  BY Refinement, SameLevels, <1>1, <1>2, PTL DEF ImplementsLevels
=============================================================================
