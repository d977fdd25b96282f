------------------------------ MODULE CartMap -------------------------------
(***************************************************************************)
(* The cartridge's page cache: gpSP's demand paging of a ROM that does not *)
(* fit its buffers (gpsp/gba_memory.c), the launcher's clearing of the map *)
(* between cartridges (main.c), and the probe that decides whether a game  *)
(* may start and go on (gba_m10map.c).                                     *)
(*                                                                         *)
(* A slot of the map stands for 32 KB of the address space; NULL makes an  *)
(* access fault and load the page.  A pointer is the entry of the cache it *)
(* points at: every session's buffers are at the same addresses.           *)
(***************************************************************************)
EXTENDS Integers, FiniteSets, FiniteSetsExt

CONSTANTS
  Win,        \* slots of the windows at 0x08 and at 0x0A (1024)
  PerBuffer,  \* pages of a ROM buffer (32)
  Buffers,    \* ROM_BUFFER_SIZE (2)
  Sizes,      \* cartridge sizes in pages, gamepak_size >> 15
  Code        \* the pages games execute, of all windows

\* A size that does not divide the window has a page in a slot of another's
\* (README, where documentation and code disagree).
ASSUME CartAssumption ==
  /\ Win \in Nat /\ Win > 1 /\ Win % 2 = 0
  /\ PerBuffer \in Nat \ {0} /\ Buffers \in Nat \ {0}
  /\ Sizes \subseteq 1..Win /\ Code \subseteq 0..Win-1
  /\ \A b \in Sizes : Win % b = 0

VARIABLES
  phase,   \* "idle", "game", or "stuck" in evict_gamepak_page
  size,    \* gamepak_size >> 15
  head,    \* gamepak_lru_head
  phy,     \* gamepak_blk_queue[].phy_rom
  map,     \* memory_map_read[4096 .. 7167]
  sticky,  \* gamepak_sticky_bit
  pc,      \* the cartridge page the program counter is in, if it is in one
  block    \* pc_address_block: the entry the interpreter reads it from

cpu  == <<sticky, pc, block>>
vars == <<phase, size, head, phy, map, cpu>>

None    == -1                        \* no page; NULL
Entries == 0 .. Buffers * PerBuffer - 1
Slots   == 0 .. 3 * Win - 1          \* 0x08, 0x0A, then 0x0C and 0x0D
Tail    == 2 * Win + Win \div 2 .. 3 * Win - 1    \* 0x0D, the map tail

N == Buffers * PerBuffer

-----------------------------------------------------------------------------
(* The map.                                                                *)

\* The slots map_rom_entry writes for page p of a cartridge of b pages.  The
\* loops test mcount and write idx + mcount: when b does not divide the window
\* they run into the next one.
Mirrors(p, b) ==
  LET steps(w) == {k \in 0 .. w - 1 : k % b = 0}
  IN  {p + m : m \in steps(Win)} \cup {Win + p + m : m \in steps(Win)} \cup
      {2 * Win + p + m : m \in steps(Win \div 2)}

Entered(mp, slots, e) == [s \in Slots |-> IF s \in slots THEN e ELSE mp[s]]

\* Mutant: the page that is evicted stays mapped in the upper windows.
UnmapLow(mp, p, b) == Entered(mp, IF p = None THEN {} ELSE Mirrors(p, b) \cap 0 .. Win - 1, None)

\* The page that is evicted leaves the map.
Unmap(mp, p, b) == Entered(mp, IF p = None THEN {} ELSE Mirrors(p, b), None)

-----------------------------------------------------------------------------
(* The ring of entries.  init_gamepak_buffer links them 0, 1, 2, ... and   *)
(* every eviction moves the head to the tail: the ring only turns.         *)

\* Mutant: a code page is a victim like another.
PinsNothing(e) == FALSE

\* The entries evict_gamepak_page passes over.
Pinned(e) == phy[e] # None /\ phy[e] \in sticky

\* The entry after e.
Past(e) == (e + 1) % N

\* How far the head turns until it finds a victim.
Turns == {i \in 0 .. N - 1 : ~Pinned((head + i) % N)}
Victim == (head + Min(Turns)) % N

\* load_gamepak_page, on a map that says the page is not there.  With every
\* entry pinned the search for a victim does not end.
Fault(p) ==
  IF Turns = {}
  THEN phase' = "stuck" /\ UNCHANGED <<head, phy, map>>
  ELSE /\ head' = Past(Victim)
       /\ phy' = [phy EXCEPT ![Victim] = p % size]
       /\ map' = Entered(Unmap(map, phy[Victim], size), Mirrors(p % size, size), Victim)
       /\ phase' = phase

-----------------------------------------------------------------------------
(* Sessions.                                                               *)

Init ==
  /\ phase = "idle" /\ size = 0 /\ head = 0
  /\ phy = [e \in Entries |-> None]
  /\ map = [s \in Slots |-> None]
  /\ sticky = {} /\ pc = None /\ block = None

\* How many pages a load brings in: what the file and the buffers have.
Resident(b) == IF b < N THEN b ELSE N

\* Mutant: the map tail is left as it is.
TailKept(mp) == mp

\* m16c_clear_map_tail.
TailCleared(mp) == Entered(mp, Tail, None)

\* map_null over 0x08 .. 0x0C, then every page of the load enters the map, the
\* last one written winning a slot.
Loaded(mp, b) ==
  [s \in Slots |->
     LET over == {p \in 0 .. Resident(b) - 1 : s \in Mirrors(p, b)}
     IN  IF over # {} THEN Max(over)
         ELSE IF s \in Tail THEN mp[s] ELSE None]

\* A session's buffers are initialised, the tail is cleared, the cartridge is
\* loaded.
Load(b) ==
  /\ phase = "idle"
  /\ phase' = "game" /\ size' = b
  /\ phy' = [e \in Entries |-> IF e < Resident(b) THEN e ELSE None]
  /\ head' = Resident(b) % N
  /\ map' = Loaded(TailCleared(map), b)
  /\ UNCHANGED cpu

\* A session that fails before the load has initialised the buffers, and may
\* have cleared the tail.
Abandon ==
  /\ phase = "idle"
  /\ phy' = [e \in Entries |-> None] /\ head' = 0
  /\ map' \in {map, TailCleared(map)}
  /\ UNCHANGED <<phase, size, cpu>>

\* memory_term: the buffers go, the map and the queue stay as they are.
Unload ==
  /\ phase = "game" /\ phase' = "idle"
  /\ pc' = None /\ block' = None
  /\ UNCHANGED <<size, head, phy, map, sticky>>

-----------------------------------------------------------------------------
(* The game.                                                               *)

\* The CPU reads the cartridge where it is not mapped.
Read(s) ==
  /\ phase = "game" /\ map[s] = None
  /\ s % Win < size
  /\ Fault(s % Win)
  /\ UNCHANGED <<size, cpu>>

\* A DMA runs into the next page, which is not mapped; it does not look at the
\* size again.
Cross(s) ==
  /\ phase = "game" /\ map[s] = None
  /\ s \notin Tail
  /\ Fault(s % Win)
  /\ UNCHANGED <<size, cpu>>

\* The CPU enters a page of the cartridge: the page is marked, and loaded.
Fetch(s) ==
  /\ phase = "game" /\ s % Win < size
  /\ sticky' = sticky \cup {s % Win}
  /\ IF map[s] = None THEN Fault(s % Win) ELSE UNCHANGED <<phase, head, phy, map>>
  /\ pc' = s % Win /\ block' = map'[s]
  /\ UNCHANGED size

\* The CPU enters the BIOS or the work memory, whose regions are marked with
\* the page of their last ten bits.
Elsewhere(p) ==
  /\ phase = "game"
  /\ sticky' = sticky \cup {p}
  /\ pc' = None /\ block' = None
  /\ UNCHANGED <<phase, size, head, phy, map>>

Next ==
  \/ \E b \in Sizes : Load(b)
  \/ Abandon \/ Unload
  \/ \E s \in Slots : Read(s) \/ Cross(s)
  \/ \E s \in {t \in Slots : t % Win \in Code} : Fetch(s)
  \/ \E p \in Code : Elsewhere(p)

Spec == Init /\ [][Next]_vars

-----------------------------------------------------------------------------
(* The probe: what m10map_probe would report.                              *)

Held == {e \in Entries : phy[e] # None}

\* M10MAP_QUEUE: a page outside the cartridge, or two entries with one page.
NoTwoEntries ==
  phase = "game" =>
    \A e, f \in Held : phy[e] < size /\ (e # f => phy[e] # phy[f])

\* M10MAP_RESIDENT: as many pages as the cache can hold, at every instant.
ResidentExact == Cardinality(Held) = Resident(size)

Owners(s) == {e \in Held : s \in Mirrors(phy[e], size)}

\* M10MAP_RESPTR and M10MAP_FAULTSLOT: a slot that one resident page owns holds
\* its pointer, a slot that none owns is NULL.
SlotsAgree ==
  \A s \in Slots :
    /\ \A e \in Owners(s) : Owners(s) = {e} => map[s] = e
    /\ Owners(s) = {} => map[s] = None

-----------------------------------------------------------------------------
(* Properties.                                                             *)

\* Through any sequence of cartridges and of faults, the probe has nothing to
\* report: no session is refused for what an earlier one left in the map, and
\* none is broken off for what paging did to it.
ProbeClean == phase = "game" => NoTwoEntries /\ ResidentExact /\ SlotsAgree

\* A read inside the cartridge never finds another page, or a page of the
\* cartridge before.
RightPage ==
  phase = "game" =>
    \A s \in Slots : map[s] # None /\ s % Win < size => phy[map[s]] = s % Win

\* The page under the program counter is not replaced while it runs: what the
\* interpreter reads through pc_address_block is that page.
CodeInPlace == phase = "game" /\ pc # None => phy[block] = pc

\* What gba_m10map.h says of load_gamepak_page: it evicts one entry, always.
AlwaysAVictim == phase # "stuck"
=============================================================================
