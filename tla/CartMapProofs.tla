---------------------------- MODULE CartMapProofs ----------------------------
(***************************************************************************)
(* That demand paging keeps the map of the cartridge exact, for windows    *)
(* and caches of any size, any cartridges whose size divides the window,   *)
(* and any sequence of them.                                               *)
(*                                                                         *)
(* A slot has one page that can be mapped there (MirrorOwner), so the      *)
(* mirrors of two pages never meet.  MapExact is the invariant: a slot     *)
(* holds the entry of the page that owns it, while that page is resident,  *)
(* and NULL otherwise.  Full says which entries hold pages, and that a     *)
(* cartridge that fits never faults; CodeHeld that the page the program    *)
(* runs in is marked, so that no fault takes its entry.                    *)
(***************************************************************************)
EXTENDS CartMap, FiniteSetTheorems, WellFoundedInduction, TLAPS
-----------------------------------------------------------------------------
(* Arithmetic. *)

\* Division with remainder.
LEMMA ModDef ==
  ASSUME NEW a \in Int, NEW m \in Nat \ {0}
  PROVE  a % m \in 0..(m - 1) /\ a \div m \in Int /\ a = m * (a \div m) + (a % m)
  OBVIOUS

\* The remainder is the only one.
LEMMA ModUnique ==
  ASSUME NEW m \in Nat \ {0}, NEW q \in Int, NEW r \in 0..(m - 1)
  PROVE  (m * q + r) % m = r
  OBVIOUS

\* A product distributes over a sum and a difference.
LEMMA Distribute ==
  ASSUME NEW m \in Int, NEW x \in Int, NEW y \in Int
  PROVE  m * (x + y) = m * x + m * y /\ m * (x - y) = m * x - m * y
  OBVIOUS

\* A set of naturals has a least element.
LEMMA LeastElement ==
  ASSUME NEW S \in SUBSET Nat, S # {}
  PROVE  \E x \in S : \A y \in S : x <= y
<1> DEFINE Less == OpToRel(<, Nat)
<1>1. PICK x \in S : \A y \in S : ~ (<<y, x>> \in Less)
  BY NatLessThanWellFounded, WFMin
<1>2. ASSUME NEW y \in S
      PROVE  x <= y
  <2>1. y < x => <<y, x>> \in Less
    BY DEF OpToRel
  <2>2. ~(y < x)
    BY <1>1, <2>1
  <2> QED
    BY <2>2
<1> QED
  BY <1>2
-----------------------------------------------------------------------------
(* The map. *)

Typed ==
  /\ size \in Sizes /\ head \in Entries
  /\ phy \in [Entries -> Int] /\ map \in [Slots -> Entries \cup {None}]

\* As many entries hold pages as the load left, of the cartridge, and each its
\* own; a cartridge that fits is there whole.
Full ==
  /\ \A e \in Entries : phy[e] # None <=> e < Resident(size)
  /\ \A e \in Held : phy[e] \in 0 .. size - 1
  /\ \A e, f \in Held : phy[e] = phy[f] => e = f
  /\ size <= N => \A e \in 0 .. size - 1 : phy[e] = e

\* A slot holds an entry exactly if it mirrors the page of that entry.
MapExact ==
  \A s \in Slots, e \in Entries :
    map[s] = e <=> e \in Held /\ s \in Mirrors(phy[e], size)

Cache == Typed /\ Full /\ MapExact

\* The page under the program counter is in its entry, and marked.
CodeHeld == pc # None => block \in Entries /\ phy[block] = pc /\ pc \in sticky

IInv ==
  /\ phase \in {"idle", "game", "stuck"}
  /\ phase = "idle" => pc = None
  /\ phase = "game" => Cache /\ CodeHeld
-----------------------------------------------------------------------------
(* Sizes and mirrors.                                                      *)

LEMMA NumberOfEntries == N \in Nat \ {0} /\ Entries = 0 .. N - 1
BY CartAssumption DEF N, Entries

LEMMA ResidentType ==
  ASSUME NEW b \in Sizes
  PROVE  Resident(b) \in 1 .. N /\ Resident(b) <= b /\ b \in 1 .. Win
BY CartAssumption, NumberOfEntries DEF Resident

\* map_rom_entry: a slot it writes for page p can only ever hold page p.
LEMMA MirrorOwner ==
  ASSUME NEW b \in Sizes, NEW p \in 0 .. b - 1, NEW s \in Mirrors(p, b)
  PROVE  s \in Slots /\ (s % Win) % b = p
<1>1. Win \in Nat /\ Win > 1 /\ b \in 1 .. Win /\ Win % b = 0
  BY CartAssumption
<1>2. PICK m \in 0 .. Win - 1 :
        m % b = 0 /\ (s = p + m \/ s = Win + p + m \/ s = 2 * Win + p + m)
  <2>1. Win \div 2 <= Win
    BY <1>1
  <2>2. \/ \E m \in {k \in 0 .. Win - 1 : k % b = 0} : s = p + m
        \/ \E m \in {k \in 0 .. Win - 1 : k % b = 0} : s = Win + p + m
        \/ \E m \in {k \in 0 .. Win \div 2 - 1 : k % b = 0} : s = 2 * Win + p + m
    BY DEF Mirrors
  <2>3. \A m \in 0 .. Win \div 2 - 1 : m \in 0 .. Win - 1
    BY <1>1, <2>1
  <2>4. \E m \in 0 .. Win - 1 :
          m % b = 0 /\ (s = p + m \/ s = Win + p + m \/ s = 2 * Win + p + m)
    BY <2>2, <2>3, Zenon
  <2> QED
    BY <2>4
<1> DEFINE j == m \div b  k == Win \div b
<1>3. j \in Int /\ m = b * j /\ k \in Int /\ Win = b * k
  BY <1>1, <1>2, ModDef
<1> HIDE DEF j, k
<1>4. m + b <= Win
  <2>1. b * (k - j) = b * k - b * j
    BY <1>1, <1>3, Distribute
  <2>2. CASE k - j <= 0
    <3>1. b * (k - j) <= 0
      BY <1>1, <1>3, <2>2
    <3> QED
      BY <1>2, <1>3, <2>1, <3>1
  <2>3. CASE k - j >= 1
    <3>1. b * (k - j) >= b
      BY <1>1, <1>3, <2>3
    <3> QED
      BY <1>1, <1>3, <2>1, <3>1
  <2> QED
    BY <1>3, <2>2, <2>3
<1>5. p + m \in 0 .. Win - 1
  BY <1>1, <1>2, <1>4
<1>6. s % Win = p + m
  <2> DEFINE x == p + m
  <2>1. x \in 0 .. Win - 1 /\ (s = x \/ s = Win + x \/ s = 2 * Win + x)
    BY <1>1, <1>2, <1>5
  <2> HIDE DEF x
  <2>2. s = Win * 0 + x \/ s = Win * 1 + x \/ s = Win * 2 + x
    BY <1>1, <2>1
  <2>3. \A w \in Int : (Win * w + x) % Win = x
    BY <1>1, <2>1, ModUnique
  <2> QED
    BY <2>2, <2>3 DEF x
<1>7. (p + m) % b = p
  BY <1>1, <1>3, ModUnique
<1>8. s \in Slots
  BY <1>1, <1>2, <1>5 DEF Slots
<1> QED
  BY <1>6, <1>7, <1>8

\* And the other way: inside the cartridge, and outside the map tail, a slot is
\* written for the page its address is of.
LEMMA OwnMirror ==
  ASSUME NEW b \in Sizes, NEW s \in Slots, s % Win < b \/ s \notin Tail
  PROVE  (s % Win) % b \in 0 .. b - 1 /\ s \in Mirrors((s % Win) % b, b)
<1>1. Win \in Nat /\ Win > 1 /\ b \in 1 .. Win
  BY CartAssumption
<1> DEFINE w == s \div Win  x == s % Win  q == x \div b  p == x % b
<1>2. s = Win * w + x /\ w \in Int /\ x \in 0 .. Win - 1
  <2>1. s \in Int /\ Win \in Nat \ {0}
    BY <1>1 DEF Slots
  <2> QED
    BY <2>1, ModDef
<1>3. x = b * q + p /\ q \in Int /\ p \in 0 .. b - 1
  <2>1. x \in Int /\ b \in Nat \ {0}
    BY <1>1, <1>2
  <2> QED
    BY <2>1, ModDef
<1>4. w \in 0 .. 2
  BY <1>1, <1>2 DEF Slots
<1> HIDE DEF w, x, q, p
<1>5. b * q \in Int /\ b * q = x - p
  BY <1>1, <1>3
<1>6. (b * q) % b = 0
  <2>1. b * q = b * q + 0
    BY <1>5
  <2> QED
    BY <1>1, <1>3, <2>1, ModUnique
<1>7. b * q \in 0 .. Win - 1
  <2>1. q >= 0
    <3>1. q <= -1 => b * q <= -b
      BY <1>1, <1>3
    <3> QED
      BY <1>1, <1>2, <1>3, <3>1
  <2>2. b * q >= 0
    BY <1>1, <1>3, <2>1
  <2> QED
    BY <1>1, <1>2, <1>3, <1>5, <2>2
<1>8. w = 2 => b * q \in 0 .. (Win \div 2) - 1
  <2>1. CASE x < b
    <3>1. q >= 1 => b * q >= b
      BY <1>1, <1>3
    <3>2. q = 0 => b * q = 0
      BY <1>1
    <3>3. b * q = 0
      BY <1>1, <1>2, <1>3, <1>5, <1>7, <2>1, <3>1, <3>2
    <3> QED
      BY <1>1, <3>3
  <2>2. CASE s \notin Tail
    BY <1>1, <1>2, <1>3, <1>5, <1>7, <2>2 DEF Tail, Slots
  <2> QED
    BY <2>1, <2>2 DEF x
<1>9. \/ w = 0 /\ s = p + b * q
      \/ w = 1 /\ s = Win + p + b * q
      \/ w = 2 /\ s = 2 * Win + p + b * q
  BY <1>1, <1>2, <1>4, <1>5, <1>3
<1>10. s \in Mirrors(p, b)
  BY <1>6, <1>7, <1>8, <1>9 DEF Mirrors
<1> QED
  BY <1>3, <1>10 DEF p, x
-----------------------------------------------------------------------------
(* Faults.                                                                 *)

\* The search for a victim ends at an entry that is not pinned, if there is one.
LEMMA VictimIsFree ==
  ASSUME head \in Entries, Turns # {}
  PROVE  Victim \in Entries /\ ~Pinned(Victim)
<1>1. Turns \subseteq Nat
  BY NumberOfEntries DEF Turns
<1>2. Min(Turns) \in Turns
  <2>1. \E x \in Turns : \A y \in Turns : x <= y
    BY <1>1, LeastElement
  <2> QED
    BY <2>1 DEF Min
<1> DEFINE i == Min(Turns)
<1>3. i \in Nat /\ ~Pinned((head + i) % N)
  BY <1>1, <1>2 DEF Turns
<1> HIDE DEF i
<1>4. head + i \in Int
  BY <1>3, NumberOfEntries
<1>5. (head + i) % N \in Entries
  BY <1>4, NumberOfEntries, ModDef
<1> QED
  BY <1>3, <1>5 DEF Victim, i

\* What the probe calls the owners of a slot: at most one entry.
LEMMA OneOwner ==
  ASSUME Cache, NEW e \in Held, NEW f \in Held, NEW s,
         s \in Mirrors(phy[e], size), s \in Mirrors(phy[f], size)
  PROVE  e = f
BY MirrorOwner DEF Cache, Typed, Full

\* A slot that is not mapped is of a page that is not resident, and then the
\* cartridge does not fit and every entry holds a page.
LEMMA FaultIsMiss ==
  ASSUME Cache, NEW s \in Slots, map[s] = None,
         s % Win < size \/ s \notin Tail
  PROVE  /\ (s % Win) % size \in 0 .. size - 1
         /\ \A e \in Held : phy[e] # (s % Win) % size
         /\ size > N /\ Held = Entries
<1> DEFINE q == (s % Win) % size
<1>1. size \in Sizes /\ N \in Nat \ {0} /\ Entries = 0 .. N - 1
  BY NumberOfEntries DEF Cache, Typed
<1>2. q \in 0 .. size - 1 /\ s \in Mirrors(q, size)
  BY <1>1, OwnMirror
<1> HIDE DEF q
<1>3. ASSUME NEW e \in Held
      PROVE  phy[e] # q
  BY <1>2, <1>1, <1>3 DEF Cache, MapExact, Held, None
<1>4. size > N
  <2> SUFFICES ASSUME size <= N PROVE FALSE
    BY <1>1, ResidentType
  <2>1. q \in Entries
    BY <1>1, <1>2, ResidentType
  <2>2. phy[q] = q
    BY <1>2 DEF Cache, Full
  <2> QED
    BY <1>1, <1>2, <1>3, <2>1, <2>2, ResidentType DEF Held, None
<1>5. Held = Entries
  BY <1>1, <1>4, ResidentType DEF Cache, Full, Held, Resident
<1> QED
  BY <1>2, <1>3, <1>4, <1>5 DEF q

\* load_gamepak_page leaves the map exact, puts the page into the slot that
\* faulted, and takes no entry whose page is marked.
LEMMA FaultStep ==
  ASSUME Cache, NEW s \in Slots, map[s] = None,
         s % Win < size \/ s \notin Tail,
         Fault(s % Win), Turns # {}, size' = size
  PROVE  /\ Cache'
         /\ map'[s] \in Entries /\ phy'[map'[s]] = (s % Win) % size
         /\ \A e \in Entries : Pinned(e) => phy'[e] = phy[e]
<1> DEFINE q == (s % Win) % size  v == Victim  old == phy[v]
<1>1. /\ q \in 0 .. size - 1 /\ \A e \in Held : phy[e] # q
      /\ size > N /\ Held = Entries
  BY FaultIsMiss
<1>2. v \in Entries /\ ~Pinned(v)
  BY VictimIsFree DEF Cache, Typed
<1>3. /\ head' = Past(v) /\ phy' = [phy EXCEPT ![v] = q]
      /\ map' = Entered(Unmap(map, old, size), Mirrors(q, size), v)
  BY DEF Fault
<1>4. s \in Mirrors(q, size) /\ size \in Sizes
  BY OwnMirror DEF Cache, Typed
<1>5. old # None /\ old \in 0 .. size - 1
  BY <1>1, <1>2 DEF Held, Cache, Full
<1> HIDE DEF q, v, old
<1>6. \A t \in Slots : map'[t] = IF t \in Mirrors(q, size) THEN v
                               ELSE IF t \in Mirrors(old, size) THEN None
                               ELSE map[t]
  BY <1>3, <1>5 DEF Entered, Unmap
<1>7. \A e \in Entries : phy'[e] = IF e = v THEN q ELSE phy[e]
  BY <1>2, <1>3 DEF Cache, Typed
<1>8. Typed'
  <2>1. head' \in Entries
    <3>1. v + 1 \in Int
      BY <1>2, NumberOfEntries
    <3> QED
      BY <1>3, <3>1, NumberOfEntries, ModDef DEF Past
  <2>2. phy' \in [Entries -> Int]
    BY <1>1, <1>2, <1>3, <1>4, ResidentType DEF Cache, Typed
  <2>3. map' \in [Slots -> Entries \cup {None}]
    <3>1. map' = [t \in Slots |-> map'[t]]
      BY <1>3 DEF Entered
    <3>2. \A t \in Slots : map'[t] \in Entries \cup {None}
      BY <1>2, <1>6 DEF Cache, Typed
    <3> QED
      BY <3>1, <3>2
  <2> QED
    BY <1>4, <2>1, <2>2, <2>3 DEF Typed
<1>9. Full'
  <2>1. \A e \in Entries : phy'[e] # None
    BY <1>1, <1>7 DEF Held, None
  <2>2. Held' = Entries
    BY <2>1 DEF Held
  <2>3. \A e \in Entries : e < Resident(size)
    BY <1>1, <1>4, NumberOfEntries, ResidentType DEF Resident
  <2>4. \A e \in Held' : phy'[e] \in 0 .. size - 1
    BY <1>1, <1>7, <2>2 DEF Cache, Full
  <2>5. \A e, f \in Held' : phy'[e] = phy'[f] => e = f
    BY <1>1, <1>7, <2>2 DEF Cache, Full
  <2>6. ~(size <= N)
    BY <1>1, <1>4, NumberOfEntries, ResidentType
  <2> QED
    BY <2>1, <2>3, <2>4, <2>5, <2>6 DEF Full, Resident, N
<1>10. MapExact'
  <2> SUFFICES ASSUME NEW t \in Slots, NEW e \in Entries
               PROVE  map'[t] = e <=> t \in Mirrors(phy'[e], size)
    BY <1>9, <1>1, <1>7 DEF MapExact, Held, None
  <2>1. None \notin Entries
    BY NumberOfEntries DEF None
  <2>2. CASE e = v
    <3>1. t \notin Mirrors(old, size) => map[t] # v
      BY <1>1, <1>2 DEF Cache, MapExact, old
    <3> QED
      BY <1>2, <1>6, <1>7, <2>1, <2>2, <3>1
  <2>3. CASE e # v
    <3>1. phy'[e] = phy[e] /\ phy[e] \in 0 .. size - 1 /\ phy[e] # q
      BY <1>1, <1>7, <2>3 DEF Cache, Full
    <3>2. t \in Mirrors(phy[e], size) => t \notin Mirrors(q, size)
      BY <1>1, <1>4, <3>1, MirrorOwner
    <3>3. t \in Mirrors(phy[e], size) => t \notin Mirrors(old, size)
      BY <1>1, <1>2, <2>3, OneOwner DEF old
    <3>4. map[t] = e <=> t \in Mirrors(phy[e], size)
      BY <1>1 DEF Cache, MapExact
    <3> QED
      BY <1>2, <1>6, <2>1, <2>3, <3>1, <3>2, <3>3, <3>4
  <2> QED
    BY <2>2, <2>3
<1>11. map'[s] = v /\ phy'[v] = q
  BY <1>2, <1>4, <1>6, <1>7
<1>12. \A e \in Entries : Pinned(e) => phy'[e] = phy[e]
  BY <1>2, <1>7
<1> QED
  BY <1>2, <1>8, <1>9, <1>10, <1>11, <1>12 DEF Cache, q
-----------------------------------------------------------------------------
(* Loads.                                                                  *)

\* A page that is in the cartridge is the remainder of its own address.
LEMMA InsidePage ==
  ASSUME NEW b \in Sizes, NEW s \in Slots, s % Win < b
  PROVE  (s % Win) % b = s % Win /\ s % Win \in 0 .. b - 1
<1>1. Win \in Nat \ {0} /\ b \in Nat \ {0} /\ s \in Int
  BY CartAssumption DEF Slots
<1>2. s % Win \in 0 .. b - 1
  <2>1. s % Win \in 0 .. Win - 1
    BY <1>1, ModDef
  <2> QED
    BY <1>1, <2>1
<1> DEFINE x == s % Win
<1> HIDE DEF x
<1>3. x \in 0 .. b - 1
  BY <1>2 DEF x
<1>4. (b * 0 + x) % b = x /\ b * 0 + x = x
  BY <1>1, <1>3, ModUnique
<1> QED
  BY <1>2, <1>4 DEF x

\* load_gamepak_raw, over a map whose tail was cleared: every slot is settled,
\* whatever cartridge was there before.
LEMMA LoadStep ==
  ASSUME NEW b \in Sizes, Load(b)
  PROVE  Cache'
<1>1. /\ size' = b /\ head' = Resident(b) % N
      /\ phy' = [e \in Entries |-> IF e < Resident(b) THEN e ELSE None]
      /\ map' = Loaded(TailCleared(map), b)
  BY DEF Load
<1>2. Resident(b) \in 1 .. N /\ Resident(b) <= b /\ b \in Nat
  BY ResidentType, CartAssumption
<1>3. \A e \in Entries : e \in Held' <=> e < Resident(b)
  BY <1>1, NumberOfEntries DEF Held, None
<1>4. Full'
  <2>1. \A e \in Held' : phy'[e] = e /\ e \in 0 .. b - 1 /\ e \in Entries
    BY <1>1, <1>2, <1>3, NumberOfEntries DEF Held
  <2>2. b <= N => \A e \in 0 .. b - 1 : phy'[e] = e
    BY <1>1, <1>2, NumberOfEntries DEF Resident
  <2>3. \A e \in Entries : phy'[e] # None <=> e < Resident(b)
    BY <1>3 DEF Held
  <2> QED
    BY <1>1, <2>1, <2>2, <2>3 DEF Full, N, Resident
<1>5. ASSUME NEW s \in Slots
      PROVE  /\ map'[s] \in Entries \cup {None}
             /\ \A e \in Entries :
                  map'[s] = e <=> e < Resident(b) /\ s \in Mirrors(e, b)
  <2> DEFINE over == {p \in 0 .. Resident(b) - 1 : s \in Mirrors(p, b)}
  <2>1. \A p, q \in over : p = q
    BY <1>2, MirrorOwner
  <2>2. map'[s] = IF over # {} THEN Max(over)
                  ELSE IF s \in Tail THEN TailCleared(map)[s] ELSE None
    BY <1>1 DEF Loaded
  <2>3. \A e \in Entries : e \in over <=> e < Resident(b) /\ s \in Mirrors(e, b)
    BY <1>2, NumberOfEntries
  <2>4. \A p \in over : p \in Entries
    BY <1>2, NumberOfEntries
  <2>5. CASE over = {}
    <3>1. map'[s] = None
      BY <2>2, <2>5 DEF TailCleared, Entered
    <3> QED
      BY <2>3, <2>5, <3>1, NumberOfEntries DEF None
  <2>6. CASE over # {}
    <3>1. PICK p \in over : over = {p}
      BY <2>1, <2>6
    <3>2. p \in Entries
      BY <2>4
    <3>3. Max(over) = p
      <4>1. \A y \in over : p >= y
        BY <3>1, <3>2, NumberOfEntries
      <4> HIDE DEF over
      <4> QED
        BY <3>1, <4>1 DEF Max
    <3> HIDE DEF over
    <3> QED
      BY <2>2, <2>3, <2>6, <3>1, <3>2, <3>3
  <2> QED
    BY <2>5, <2>6
<1>6. Typed'
  <2>1. head' \in Entries
    <3>1. Resident(b) \in Int /\ N \in Nat \ {0}
      BY <1>2, NumberOfEntries
    <3>2. Resident(b) % N \in 0 .. N - 1
      BY <3>1, ModDef
    <3> QED
      BY <1>1, <3>2, NumberOfEntries
  <2>2. phy' \in [Entries -> Int]
    BY <1>1, NumberOfEntries DEF None
  <2>3. map' \in [Slots -> Entries \cup {None}]
    <3>1. map' = [s \in Slots |-> map'[s]]
      BY <1>1 DEF Loaded
    <3> QED
      BY <1>5, <3>1
  <2> QED
    BY <1>1, <2>1, <2>2, <2>3 DEF Typed
<1>7. MapExact'
  BY <1>1, <1>3, <1>5 DEF MapExact
<1> QED
  BY <1>4, <1>6, <1>7 DEF Cache
-----------------------------------------------------------------------------
(* The invariant.                                                          *)

\* A data read or a DMA that faults: the map stays exact, and the page the
\* program runs in stays in its entry.
LEMMA DataFault ==
  ASSUME IInv, phase = "game", NEW s \in Slots, map[s] = None,
         s % Win < size \/ s \notin Tail,
         Fault(s % Win), UNCHANGED <<size, cpu>>
  PROVE  IInv'
<1>1. CASE Turns = {}
  BY <1>1 DEF Fault, IInv
<1>2. CASE Turns # {}
  <2>1. Cache' /\ \A e \in Entries : Pinned(e) => phy'[e] = phy[e]
    BY <1>2, FaultStep DEF IInv
  <2>2. CodeHeld'
    <3>1. pc # None => Pinned(block)
      BY DEF IInv, CodeHeld, Pinned
    <3> QED
      BY <2>1, <3>1 DEF IInv, CodeHeld, cpu
  <2> QED
    BY <1>2, <2>1, <2>2 DEF IInv, Fault, cpu
<1> QED
  BY <1>1, <1>2

\* A fetch: the page it enters is in the entry it is read from, and marked.
LEMMA FetchStep ==
  ASSUME IInv, NEW s \in Slots, Fetch(s)
  PROVE  IInv'
<1>1. /\ phase = "game" /\ s % Win < size /\ size' = size
      /\ sticky' = sticky \cup {s % Win} /\ pc' = s % Win /\ block' = map'[s]
      /\ Cache /\ size \in Sizes
  BY DEF Fetch, IInv, Cache, Typed
<1>2. (s % Win) % size = s % Win
  BY <1>1, InsidePage
<1>3. CASE map[s] = None /\ Turns = {}
  BY <1>1, <1>3 DEF Fetch, Fault, IInv
<1>4. CASE map[s] = None /\ Turns # {}
  <2>1. Fault(s % Win) /\ phase' = phase
    BY <1>4 DEF Fetch, Fault
  <2>2. Cache' /\ map'[s] \in Entries /\ phy'[map'[s]] = s % Win
    BY <1>1, <1>2, <1>4, <2>1, FaultStep
  <2> QED
    BY <1>1, <2>1, <2>2 DEF IInv, CodeHeld
<1>5. CASE map[s] # None
  <2>1. UNCHANGED <<phase, head, phy, map>>
    BY <1>5 DEF Fetch
  <2>2. map[s] \in Held /\ s \in Mirrors(phy[map[s]], size)
    BY <1>1, <1>5 DEF Cache, Typed, MapExact
  <2>3. phy[map[s]] = s % Win
    BY <1>1, <1>2, <2>2, MirrorOwner DEF Cache, Full
  <2>4. Cache'
    BY <1>1, <2>1 DEF Cache, Typed, Full, MapExact, Held
  <2> QED
    BY <1>1, <2>1, <2>2, <2>3, <2>4 DEF IInv, CodeHeld, Held
<1> QED
  BY <1>3, <1>4, <1>5

\* Paging keeps the map exact and the running page in place, through any
\* cartridges, faults and marks (gba_memory.c, main.c).
THEOREM Inductive == Spec => []IInv
<1>1. Init => IInv
  BY DEF Init, IInv
<1>2. IInv /\ [Next]_vars => IInv'
  <2> SUFFICES ASSUME IInv, [Next]_vars PROVE IInv'
    OBVIOUS
  <2>1. ASSUME NEW b \in Sizes, Load(b)
        PROVE  IInv'
    <3>1. Cache'
      BY <2>1, LoadStep
    <3> QED
      BY <2>1, <3>1 DEF Load, IInv, CodeHeld, cpu
  <2>2. CASE Abandon \/ Unload
    BY <2>2 DEF Abandon, Unload, IInv, cpu
  <2>3. ASSUME NEW s \in Slots, Read(s) \/ Cross(s)
        PROVE  IInv'
    BY <2>3, DataFault DEF Read, Cross
  <2>4. ASSUME NEW p \in Code, Elsewhere(p)
        PROVE  IInv'
    BY <2>4 DEF Elsewhere, IInv, Cache, Typed, Full, MapExact, Held, CodeHeld
  <2>5. CASE UNCHANGED vars
    BY <2>5 DEF vars, cpu, IInv, Cache, Typed, Full, MapExact, Held, CodeHeld
  <2> QED
    BY <2>1, <2>2, <2>3, <2>4, <2>5, FetchStep DEF Next
<1> QED
  BY <1>1, <1>2, PTL DEF Spec

\* m10map_probe has nothing to report, after any cartridges and any faults: no
\* session is refused or broken off for the state of the map.
THEOREM NothingToReport == Spec => []ProbeClean
<1>1. IInv => ProbeClean
  <2> SUFFICES ASSUME IInv, phase = "game"
               PROVE  NoTwoEntries /\ ResidentExact /\ SlotsAgree
    BY DEF ProbeClean
  <2>1. Cache /\ size \in Sizes
    BY DEF IInv, Cache, Typed
  <2>2. NoTwoEntries
    BY <2>1, ResidentType DEF NoTwoEntries, Cache, Full
  <2>3. ResidentExact
    <3>1. Held = 0 .. Resident(size) - 1
      BY <2>1, ResidentType, NumberOfEntries DEF Held, Cache, Full
    <3> QED
      BY <2>1, <3>1, ResidentType, FS_Interval DEF ResidentExact
  <2>4. SlotsAgree
    <3>1. ASSUME NEW s \in Slots, NEW e \in Owners(s)
          PROVE  map[s] = e
      BY <2>1, <3>1 DEF Owners, Held, Cache, MapExact
    <3>2. ASSUME NEW s \in Slots, Owners(s) = {}
          PROVE  map[s] = None
      BY <2>1, <3>2 DEF Owners, Held, Cache, Typed, MapExact
    <3> QED
      BY <3>1, <3>2 DEF SlotsAgree
  <2> QED
    BY <2>2, <2>3, <2>4
<1> QED
  BY Inductive, <1>1, PTL

\* A read inside the cartridge never finds another page, or a page of the
\* cartridge before.
THEOREM ReadsItsPage == Spec => []RightPage
<1>1. IInv => RightPage
  <2> SUFFICES ASSUME IInv, phase = "game", NEW s \in Slots, map[s] # None,
                      s % Win < size
               PROVE  phy[map[s]] = s % Win
    BY DEF RightPage
  <2>1. Cache /\ size \in Sizes
    BY DEF IInv, Cache, Typed
  <2>2. map[s] \in Held /\ s \in Mirrors(phy[map[s]], size)
    BY <2>1 DEF Cache, Typed, MapExact
  <2> QED
    BY <2>1, <2>2, MirrorOwner, InsidePage DEF Cache, Full
<1> QED
  BY Inductive, <1>1, PTL

\* The page under the program counter is not replaced while it runs.
THEOREM CodeStays == Spec => []CodeInPlace
<1>1. IInv => CodeInPlace
  BY DEF IInv, CodeHeld, CodeInPlace
<1> QED
  BY Inductive, <1>1, PTL
=============================================================================
