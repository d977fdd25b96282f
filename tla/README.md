# LUAp0rt GBA: specifications

LUAp0rt GBA runs the gpSP Game Boy Advance emulator inside a host title on a
console. A PC program sends it over the network; a Lua script of the host title
maps it and jumps into it. From then on one thread does everything: it shows a
list of cartridges, loads the one the player picks, plays it, and writes its
save into the host title's savedata container before the list comes back.

These modules specify that program (`src/source-snapshot`), above all what
happens to a player's save, which is the part that cannot be played again when
it goes wrong, and the threads of the PC program (`src/launcher`). Paths below
are relative to `src/source-snapshot/` unless they start with `src/`.

Contents: [the system](#the-system), [the modules](#the-modules), [the
runs](#the-runs), [fairness](#fairness), [the proofs](#the-proofs),
[disagreements](#disagreements-between-code-and-text), [not
modelled](#not-modelled), [plan](#plan).

## The system

One line per component: its state; its operations; who it talks to; what is hard
about it; what makes it correct.

**Savedata window** (`runtime/savedata.c`). State: `depth` of nested windows,
`sd_dir` (the region that mounted last), and the kernel's mount table.
Operations: `plat_savedata_init`, `begin_write`, `end_write`. The host title
keeps its container mounted read-only; a write window unmounts it, mounts it
read-write, and closing it unmounts again, *asynchronously*, polls until the
mount point is gone, and mounts read-only. Hard: the unmount completes between
any two native calls or never; each mount may be refused; calls nest. Correct: a
window reported open is writable, and an OK close means the bytes landed.

**Save class and restore gate** (`adapters/gba/gba_savehdr.c`). Pure functions
from what is known of a cartridge to the class of its save, its size, and
whether a save of one class may be given to a cartridge of another. Correct: a
save the program wrote is one the program accepts.

**gpSP backup circuit** (`gpsp/gba_memory.c`). State: `backup_type`,
`flash_bank_cnt`, `eeprom_size`, `flash_mode`, `flash_command_position`. Guessed
at load from the ROM image and a database, then changed by every access of the
running game. Hard: the class at the commit need not be the one at the restore,
a session may end between any two writes, and the guess is redone every launch.

**Save identity, writer, restore** (`adapters/gba/gba_save.c`, `gba_savefile.c`,
`gba_restore.c`, `gba_restorefile.c`). State: the latched identity and baseline
hashes, the backup array, two files per cartridge (`<ID>.sav`, then `<ID>.hdr`
which carries the payload's hash). Operations: latch, restore (refusal ladder,
pass 1 proves, pass 2 applies, rollback), commit (refusals, window, `.sav`,
`.hdr`, close). Hard: every read and write may fail, the power may be cut at any
moment, an unmount that timed out may still land, two files are not written
atomically. Correct: what is accepted and restored is a recent save of that very
cartridge, whole, or nothing.

**Session loop** (`apps/m16cgpsp/main.c`, `adapters/gba/gba_session.c`). State:
about forty variables of `_start`, gpSP's globals, the arena. Operations: steps
444 to 459: bring-up, then picker, prepare, core, insert, details, gates,
restore, play, commit, boundary, and back. Hard: twenty exits reach the boundary
with different things taken, and every later session *checks* what the ones
before it left and ends the program at the first surprise. Correct: no session
stops the next; only a session the player ended commits a save.

**Picker and details screen** (`apps/m16cgpsp/main.c`,
`apps/m13bgpsp/m13b_picker.inc`, `runtime/platform.c`). State: cursor, window,
the CROSS machine, `prev_buttons`, the release gate and the arming gate. Hard: a
button held across a change of screen, a read of the pad without an answer,
screens that nobody answers. Correct: one press does not count for two screens;
every screen ends by itself.

**Audio** (`adapters/gba/gba_audio.c`, `gpsp/sound.c`, `runtime/audio.c`).
State: the mix bus, the 512:375 accumulator, a ring with two free-running
cursors, a one-shot prefill gate, counters. Operations, once per frame: pull,
resample and push, drain. Hard: the cursors wrap, the port refuses grains, a
dropped frame ends the session *and forfeits its save*. Correct: frames reach
the port once and in order; at the console's rate nothing is ever dropped.

**Cartridge paging** (`gpsp/gba_memory.c`, `gpsp/cpu.cc`,
`adapters/gba/gba_m10map.c`). State: a map of 3072 slots, a ring of 64 cached
pages, the sticky bits of pages that hold code. Operations: load, fault and
evict, the launcher's clearing of the map's tail, the probe that runs before and
during a game. Hard: the map and the sticky bits outlive a cartridge; the
interpreter keeps a pointer into a page a data read may evict. Correct: a read
finds its own page; the probe has nothing to report.

**Launcher jobs** (`src/launcher/luap0rt_launcher.py`, `tools/send.py`). State:
the runner's current job and its rows, the batch (`opened`, `closed`, `sock`),
the record of what was sent; on the console, the scripts the loader has taken
and the files they write. Operations: start, cancel, the job thread's steps, the
receiver script's. Hard: each job has a thread of its own, a cancelled one no
longer counts as running while its thread goes on, every socket call may fail,
and the folder changes under it. Correct: what is shown done and recorded was
written whole; neither the loader nor the launcher stays taken.

**Launcher console checks** (`src/launcher/luap0rt_launcher.py`). State:
`verify_lock`, `verify_pending`, the payload tracker, the console's report.
Operations: check, removal, clean-up, a batch's opening, the lines of the UDP
log. Hard: one slot for all of them, which a batch keeps after it has given the
lock back; lines come late, out of order or not at all. Correct: answers go to
the call that asked and say what was so; a launcher that wrongly believes the
emulator runs finds out.

**Launcher page and tray.** HTTP plumbing, status window, settings: nothing
another part decides by.

**Smaller parts.** The arena (`runtime/shim.c`), file streams
(`gba_filestream.c`), ROM load and probes (`gba_rom.c`, `gba_probe.c`,
`gba_bios.c`), library scan (`gba_library.c`, `m13store.c`), presentation
(`gba_present.c`, `runtime/gfx.c`), the pad maps (`gba_input.c`,
`gba_r7input.c`), checks of the core (`gba_exec.c`, `gba_compat.c`), boot
(`runtime/boot.inc`, `lua/m16c.lua.in`).

How they interact. Everything on the console is called by the session loop, in
one thread. The concurrency is in the environment: the kernel's asynchronous
unmount, the pad, the display, the port, the power switch, and the running game,
which may touch the backup bus and the map at any instruction. The restore reads
and the writer writes through the savedata window; both use the class that the
backup circuit has *by then*; the session loop decides from the end of play
whether the writer runs; the paging probe and the audio ring can each end a
session, and an ended session that was not ended by the player saves nothing.
The PC's side is concurrent in itself: the web page's requests, a thread per
job, the log's thread, and on the other end the loader, which runs one script
after the other, and stops taking any while the emulator runs.

## The modules

```
SaveWindow  <== Savedata           the window's contract, and the window
SaveWindow  --- Vault --- SaveClass --- BackupChip
Console     <== Session            the launcher's promise, and its loop
AudioLevels <== AudioRing          the ring by its counts, and sample by sample
Delivery    <== Jobs               what a job promises, and its threads
Picker, CartMap, Checks            on their own
SavedataProofs, SaveProofs (Vault, BackupChip), AudioLevelsProofs,
AudioRingProofs, MainProofs (Session, Picker), CartMapProofs, JobsProofs,
ChecksProofs                       theorems and lemmas
MCSavedata, MCBackupChip, MCVault, MCAudioLevels, MCAudioRing,
MCPicker, MCSession, MCCartMap, MCJobs, MCChecks
                                   constants of the runs
```

`<==` is a refinement some run checks; `---` is shared state or operators.

**SaveWindow** is the contract between the window and those who use it: an
abstract machine in which a window is requested, granted or refused, written
through, detached, and reported closed, and in which the image lands in the
container at a moment of its own. It says what an `OK`, an `ESTATTIMEOUT` and an
`ERESTORE` mean. **Savedata** is `runtime/savedata.c`: an action is one native
call (`mount`, `umount`, `stat`) with everything the C code does until the next,
so that the asynchronous unmount (`Drained`) can complete between any two.
`call`, `attempt` and `polls` are the program counter inside `begin_write`,
`end_write` and `sd_mount_any`; `mount` and `drain` are the kernel's side. Its
refinement mapping (`Window`) hides the calls, the polls and the nesting.

**SaveClass** is the pure part of `gba_savehdr.c` and its copies: what class a
pair (backup type, bank count) has, its declared size, the region stored, and
which class may be given to which. No strings, no bytes. **BackupChip** is the
part of `gba_memory.c` that decides that pair: `BootGuess` is the detection at
load (signature, database, game code), `Guest` is one access of the game, which
follows the command sequences of the libraries Nintendo shipped, or writes
anything at all when the cartridge is `wild`; `Restore` and `EndSession` are
where the class meets the gate. The bus is reduced to the four addresses and ten
values the decoder tells apart.

**Vault** puts the identity, the writer and the restore over `SaveWindow` and
`SaveClass`. Every refusal of `gba_savefile_commit` and `gba_restorefile_run` is
a disjunct; every file write is an action that may fail half way; `PowerCycle`
may come at any moment and takes the window's state with it. The array is a
sequence of chunks of 64 units, and a hash is modelled by what it hashes: two
hashes are equal when the chunks and the length are. That a 32-bit hash may
collide is the one thing this hides. `recent` and `sure` are history: the saves
of a cartridge a restore may legitimately hand back, and whether the last
attempt to write it was reported OK.

**Session** is `_start` from step 444: an action is a step, with its failures as
disjuncts, and `left` is the set of things gpSP and the adapters still hold, as
the probes at the top of the next session see them. `End`, `Fail` and `Halt` are
the three ways out. **Console** is what a player is told: a menu, a game, a save
per cartridge, and power-off; `KeepsPromise` maps the twenty-odd steps to those
four phases.

**Picker** is the release gate, the picker and the details screen. A frame of a
loop is an action: the fingers move, the read is answered or not, and the loop
body runs to its end. `fresh` is history: the buttons pressed since this screen
began to look at the pad.

**AudioLevels** keeps the fill of the ring, the accumulator and the counters,
and takes an iteration of the play loop per step: it can be run at the real
sizes. **AudioRing** keeps every sample, tagged with its session and its number,
and the cursors with their range; it takes a step per sample and per grain.
`AtLevel`, `AccLevel`, `FillLevel`, `OverranLevel` and `UnderranLevel` are what
it looks like as AudioLevels: a resample and a drain are decided as they are
entered.

**CartMap** is the 3072 map slots of the three ROM windows, the entries of the
page cache and their order, and the sticky bits. `Load`, `Abandon` and `Unload`
are the launcher's side, `Read`, `Cross`, `Fetch` and `Elsewhere` are what the
running game does. A page is its number.

**Delivery** is what a job promises: rows taken in order, a row done only for a
file the console closed whole, nothing behind a row that failed, and the
emulator only behind all its files. **Jobs** is the job threads over a network
and a console: `pc[j]` is where `JobRunner._run` and the batch are (between two
values of it any other thread may run, as it may between two socket calls of the
code), `inbox[j]` and `rx.in` are the two directions of one connection, and `rx`
is the script the loader runs: a receiver (`accept`, `header`, `body`) or
`send.py`'s image loader (`blob`, then `playing`; `foreign` when it was a job's
header it took). The walk over the ports is `Header`, which finds the one script
that listens, whenever that is, and `Walk`, which gives up a port that took the
header and did not answer and goes on with the same header. A file is a version,
its bytes are tagged with it, so that a file torn or mixed is told from a whole
one. `landed` is history: the files the receiver closed whole.

**Checks** is `_console_script` and those who call it. A call is a token, `call`
where its thread is; `slot` is `verify_pending`, `heard` the answers collected
for each call, `net` the log lines under way, each with the token of the script
that sent it. A batch gives its slot back by a test and a clearing that no lock
keeps together, in the job's thread and, when it is cancelled, in the page's:
`giving` is where each of the two stands (`Test`, `Wipe`), and `pend` the
batches whose `open` has returned, for before that a batch's own slot is None
and so equal to an empty one. What a call heard is used after the lock is given
back (`Collect`, then `Commit`). The console holds one game. A clean-up says one
word, which stands for a script that has nothing to say of games. `seen` is
history: whether the game was there, at the moments since each call's script was
sent.

### Where to look in the code

Every definition that models code is listed with its lines in `PROJECT.json`
(`map`). The main correspondences:

| module | variables | in the code |
|---|---|---|
| Savedata | `depth`, `sdDir`, `ready` | `sd_depth`, `sd_dir`, `sd_ready` |
| | `mount`, `drain`, `image`, `container` | the kernel |
| BackupChip | `type`, `bank`, `eep`, `used`, `mode`, `cmd` | `backup_type`, `flash_bank_cnt`, `eeprom_size`, `eeprom_really_used`, `flash_mode`, `flash_command_position` |
| Vault | `id`, `latchBase`, `base`, `array` | `gs_id`, `gs_base_hash`, `gr_base_hash`, `gamepak_backup` |
| | `container[d][r].sav`, `.hdr` | `<ID>.sav`, `<ID>.hdr` |
| Session | `pos`, `mark`, `first`, `rfiles`, `bufs` | `arena_pos`, the arena marks, open streams, `gamepak_buffer_count` |
| Picker | `cross`, `prev`, `sel`, `top`, `quiet`, `armed` | `struct m13b_input`, `prev_buttons`, cursor, window, `det_clear`, `det_armed` |
| AudioRing | `ring`, `head`, `tail`, `acc`, `prefilled`, `S` | `R`, `ring_head`, `ring_tail`, `gba_audio_stats` |
| Jobs | `current`, `rows`, `cancelled` | `JobRunner.current`, `Job.progress[i].state`, `Job.cancelled` |
| | `batch`, `out`, `record` | `BatchUpload.opened`, `closed`, `sock`; the row and its return code; `Config.uploads` |
| | `queue`, `rx`, `disk` | the loader's scripts, `BATCH_LUA`, `/temp0` |
| Checks | `lock`, `slot`, `heard` | `verify_lock`, `verify_pending`, the `results` of each call |
| | `giving`, `pend` | the threads in `BatchUpload.close`, `abort`; `BatchUpload.pend` |
| | `tracker`, `report`, `record` | `PayloadTracker.state`, `console_scan`, `Config.uploads` |
| CartMap | `map`, `phy`, `head`, `sticky`, `block` | `memory_map_read`, `gamepak_blk_queue`, `gamepak_lru_head`, `gamepak_sticky_bit`, `pc_address_block` |

## The runs

To check a module: `tlc -workers 2 -config X.cfg M`. State counts are distinct
states.

**savedata** (MCSavedata, 17,736 states). Every mount may be refused, every
unmount fail, complete late, or never. Two regions, both present, so that a
window opened on one can be closed while the fallback order would pick the
other; three polls (first, middle, last); nesting to depth 2, which is what
tells the outermost call from an inner one. Checked: a window reported open is
writable; an OK close means the image landed; a call returns (`CallReturns`);
the contract (`ImplementsWindow`). That a read-write mount behind a closed
window was reported, and that the region mounted last is the one remembered, is
proved.

**backup** (MCBackupChip, 36,296 states). 75 cartridges: every chip, every way
of announcing it or failing to, the wrong guesses, the altered ROMs, and games
that write anything to the window. Any number of sessions, each ending after any
write; an SRAM game may store what a flash command would hold, but for the
unlock byte (`backup_sram_byte`). Checked: a cartridge's own save passes the
gate at the next launch (but for the two cartridges `OwnSaveAccepted` names, see
*disagreements*); the committed region covers the chip; a restored save is never
replaced by a shorter one. That a chip once known as 64 KB flash is not taken
for SRAM while the game runs (`FlashStaysFlash`), which Vault takes for granted
of the class it is given, is proved.

**vault** (MCVault, 311,799 states). Two cartridges, one that is not recognised
when it is loaded and one taken for SRAM, either of which may turn out to have a
flash part while it is played; two sessions in any order; two values of a chunk
and the torn one; reads and writes that fail; the power cut at any point. Two
sessions are enough for each of the pairs (write, restore), (fail, restore),
(write, fail), and with a torn pair left from the first session the second one's
restore meets every rung of the ladder. One region: the choice among regions is
Savedata's. Checked: an accepted pair on disk is a recent save of its cartridge;
so is what a restore hands to the game; a failed restore leaves the array blank;
a commit reported OK stands until the next attempt; a session writes no file but
its own cartridge's.

**audio_levels** (MCAudioLevels, 794,729 states). The real constants: ring 8192,
pull 2048, grain 256, target 1536, at most 4 grains per drain, 512:375, a bus of
32768. The frames a GBA frame puts on the bus are those the clock division gives
(`Yield`, and `FirstYield` for the first frame of a session). The state space is
finite without a bound on the length: the levels recur. Checked: no frame is
ever dropped by the ring; once the prefill gate is open, each iteration sends a
grain. These two are about the real numbers, so nothing smaller would do.

**audio_ring** (MCAudioRing, 390,444 states). A ring of 8 with cursors modulo 16
(they wrap twice in a session), the ratio 4:3, grains of 2, nine iterations, two
session tags used in turn, so a frame of the session before is told from one of
this. The emulator mixes nothing, the steady amount, or more than the drain can
send, so the ring both overruns and underruns. Checked: the port hears each
session's frames once, in order; the converter never drifts from the exact
ratio; the ring implements AudioLevels. That a sum has at most two inputs is
proved.

**picker** (MCPicker, 50,832 states, a minute). Fingers on CROSS, CIRCLE, DOWN
and L1 in any combination (a confirm, a cancel, a move, and a member of the exit
chord); one read in a row without an answer; four rows, one of them rejected, in
a window of two; settle times of two frames. Two is the least settle time that
is more than an unanswered read; the window of two over four rows makes each
scrolling case happen. Checked: the cursor is always drawn; a button held from
another screen never leaves this one while the reads are answered; a session
starts only with a CROSS pressed on the details screen; no screen stays for
ever. UP and R1 are the mirror images of DOWN and L1.

**session** (MCSession, 73.7 thousand states). Two cartridges, two sessions,
each failing at any step or none, including the failures that end the program.
The arena is four buffers, the least that admits two and shows what a leak
takes; the play loop runs at most four iterations with a warm-up of two and a
probe every two, so that each end condition can come first. Two sessions are
enough: the second starts from the state every longer run starts from, which is
what `NoSessionStopsTheNext` and `OneCartridge` say. Checked too:
`SavedByThePlayer`, `SessionEnds`, `KeepsPromise`.

**cart_map** (MCCartMap, 26,743 states). A page of the model stands for 128 of
them: cartridges of 8, 4, 2 and 1 pages (32, 16, 8 and 4 MB) in any order,
windows of eight slots, three cache entries; the pages games execute are 0, 1
and 5, so the cache never consists of executed pages only (that is cart_stuck).
Assumed of the guest: no DMA runs from the third ROM window into 0x0D000000,
code runs inside the cartridge, and sizes are powers of two. Checked: the probe
reports nothing, whatever was loaded before; a read finds its page; the entry
the interpreter reads from still holds its page.

**jobs** (MCJobs, 337,022 states, two minutes). Two jobs: the first
sends two games and launches, the second sends one of them or launches, and
starts when the first has ended or has been cancelled, its thread still running.
One game is replaced in the folder once, at any moment, by a longer one, so that
the size announced, the bytes sent and the stat recorded can each be of either.
Every socket call may fail at either end, and the player leaves the game and
arms the loader again at any time, or never. Two jobs are what an overlap takes;
two files are what tells the last one, behind which the batch closes, from
another; two chunks are the least that can be torn. Checked: a record that
matches the folder means the console once closed that very content
(`RecordMeansWhole`); the rows keep Delivery's promise (`KeepsPromise`); a
receiver always gives the loader back (`LoaderComesBack`); a job does not stay
busy (`JobSettles`).

**checks** (MCChecks, 223,770 states, two minutes). Two calls at a time, their
tokens used again once nothing carries them, so histories are of any length: a
check, a batch or a launch under one token, a removal or a clean-up under the
other, and under either the checks `upload_gate` makes, which are no requests
(`MCRequests`). Any line may be late or lost, and lines are heard in any order;
a batch may be cancelled at any moment, and its test and clearing of the slot
have anything between them. Two calls are enough for each pair that meets at the
slot: who holds it and who comes, a batch that was superseded and who superseded
it, a script that is late and the one waited for. Not every kind is asked under
either token because of what liveness costs; `SlotIsKept` and `AnswersAreTrue`
are proved for any requests. Checked: a call that has lock and slot loses the
slot to nobody but a batch that had found the slot its own before, and no slot
outlives its call (`SlotIsKept`); present is reported and a record forgotten
only for what was so since that call's script was sent (`AnswersAreTrue`); the
gate opens (`GateOpens`). Absence is not claimed: a listing that lost a line
says absent of a game that is there, and the code takes it for that.

**backup_sram_byte, cart_stuck** are expected to fail: see *disagreements*.

CHECK_DEADLOCK is FALSE where the system really stops: Picker and Session end
when the program does, CartMap when `evict_gamepak_page` finds no victim (in the
code that loop spins; nothing else moves), Jobs and Checks when nobody asks for
anything more.

## Fairness

Savedata has weak fairness on `SavedataFunction`: a function that was called
keeps running, because nothing in the one thread interrupts it. `Drained` has
none. The kernel may never finish an unmount, and `CallReturns` holds all the
same, because the polls are counted. Picker and Session have weak fairness on
the whole next-state relation: one thread runs, and each loop is paced by the
display, which answers every frame. This gives the player no fairness: nobody
has to press anything, and the screens end by their frame limits, the game by
its watchdog.

Jobs has weak fairness on each job's thread and on the console's script: threads
are scheduled, every socket call of the launcher has a time limit, and what the
receiver waits for without one (its `read`, lines 368 and 403) ends with the
connection. That is an assumption about the network: a connection the launcher
cut is seen by the console. A console that never learns of it keeps its receiver
in `read` and the loader with it, and `LoaderComesBack` says nothing of that.
Nobody has to press Cancel, and the emulator need never return: neither Cancel
nor `Rearm` is fair.

Checks has weak fairness on each call's thread, on each thread that gives a slot
back, on the script at the head of the loader's queue, and on each call's lines,
which are heard or lost. `GateOpens` needs more, and says of what: an operator
who is refused presses Send again (strong fairness of the re-check while the
launcher is at rest), the loader takes a script sent again and again, and of the
scripts taken and the answers given again and again some run, arrive and are
collected in time, with the slot still the call's. Without the last ones a
network that loses every datagram, or a batch cancelled before every check that
clears every check's slot, keeps the gate shut for ever, as they do in the code.
The property also supposes the launcher at rest infinitely often, since a page
that asks for checks without a pause can always hold the slot, and claims
nothing while a job is busy, which asks no gate.

BackupChip, Vault, AudioLevels, AudioRing and CartMap are checked
for safety only and have no fairness.

## The proofs

`tlapm M.tla` checks a module. The theorems hold for every value of the
constants the modules' assumptions admit. TLC met each invariant first.

**SavedataProofs.** Everything the savedata run checks but `CallReturns`. None
of the properties is inductive: an OK close is right because of what the last
poll saw, and the poll is right because of where the image was then. `IInv` adds
to the type invariant where a call may stand (`CallShape`), that an open window
has a read-write mount and nothing draining (`OpenMeansWritable`), where the
image is at every moment, attached, draining or landed (`ImagePlace`), what each
return code says (`CloseReport`), that a poll which saw the mount point gone
rules out an image in flight (`PollSawGone`), and which region `sdDir` names
(`RegionKnown`). `OkIsDurable` and `Refinement` assume `StatResolved \/
~Overlap`: without `sceKernelStat` the program does not poll, and then an OK
says nothing unless the kernel refuses to mount over an unmount in flight.
`Refinement` shows that the initial states of Savedata are initial in SaveWindow
and that each step is one of the contract's or a stutter.

**SaveProofs, Vault.** Every property of the vault run, for any number of
cartridges, classes, chunks and sessions, under `OneContainer`: there is one
region with a container, because the program never passes the flag that would
create another. The argument is about the pair: the header is written last and
carries the hash of its payload, so a header on disk either matches no payload
or matches the one written with it. `IInv` says so of each place a pair can be,
container and image (`HeadersRecent`, `SureStands`), ties the identity and the
baselines to the cartridge in each step (`Latched`, `ClassShape`), says how far
the running pass has come (`Progress`), what the window allows in each step
(`WindowShape`), and what a restore has put in the array when it is accepted,
and when it is not (`RestoreShape`).

**SaveProofs, BackupChip.** Every property of the backup run, for any set of
cartridges and any bytes an SRAM game stores, under `AllPromised`: the detection
is honest or misleads in the one way the code repairs (`Promised`), and no SRAM
game stores the unlock byte at the command port. TLC refutes the promise without
the second condition (`backup_sram_byte`). `ChipInv` says, board by board, what
the game can have made of the guess. An SRAM board's type is dropped to SRAM at
the first access that is not ignored, and never becomes flash (`SramBoard`). A
flash board's library opens every call with an unlock, which makes the type
flash before anything is stored (`FlashBoard`); a 128 KB library selects a bank
first, so nothing is stored while the bank count is still 64 KB. That one needs
where the library is in its call and where gpSP is in its command sequence at
each of the three writes (`Flash128Board`). For games that follow no library
`WildBoard` says that a restored 64 KB save settles the type. From these,
`CommittedClass`: a changed chip is known as the board's own. `GateTakesOwn` is
the other half of `OwnSaveAccepted`: the gate lets the class of a promised
cartridge through, on its type or on the evidence. A launch begins afresh, so
the step invariant leads to `ChipInv` or to `Fresh`, and `Loaded` derives the
one from the other. `FlashStaysFlash` needs no condition on the cartridges.

**AudioLevelsProofs.** `NeverOverruns` and `NeverUnderruns`, for all numbers
that fit (`RatesFit` of AudioLevels: what a frame makes is at most what a drain
may send, the ring has room for it above the gate's target, the least frame
makes a grain). `Bounded` is the invariant: after a read the bus is back to what
a read holds back, so a frame's yield is also what the next read gets, and every
drain either sends its full load or leaves less than a grain. MCAudioLevels has
TLC evaluate `RatesFit` for this program's numbers, with 350 to 1398 frames
mixed per emulated frame; the mixer yields 1097 or 1098.

**AudioRingProofs.** Order, rate and the two-input bound, for any ring size and
any cursor range it divides, ratios between 1:1 and 2:1, and any yields.
`Cursors` ties the wrapped cursors to the unwrapped counters, `Window` says
which frame each slot between them holds, and `FillIsDifference` is the lemma on
which both rest: the distance of two wrapped cursors is the difference of the
counters as long as it fits in the ring. `LevelRight` states it of the
specification. Then that the ring implements AudioLevels (`Refinement`): a
sample, stored or dropped, takes from what is pending what it adds to the fill
or to the drops (`SampleMaps`, on `DivShift`: a quotient moves with whole
multiples of the divisor), and a grain sent is one of those decided
(`SendGrainMaps`). Over that refinement the theorems of AudioLevelsProofs are
the ring's: it never drops a frame, and never runs dry (`NoOverruns`,
`NoUnderruns`).

**MainProofs, Session.** Everything the session run checks but `SessionEnds`,
for any library, any arena, any lengths of the loops and any number of sessions.
The checks between sessions compare what they find with what `main.c` expects an
earlier session to have left, so the invariant says at each step what is left:
`Opened` ties the marks of what is opened once to the flags `main.c` keeps of
it, `ArenaKept` the bump pointer to the first mark, `StreamKept` and
`IdentityKept` say what a session holds from the load to the boundary, `Silent`
that no sound is there before the loop plays, `Ended` by what reasons a verdict
is reached. `Refinement` maps the steps to those of Console.

**MainProofs, Picker.** `CursorDrawn`, `ConfirmedByNewPress` and
`OldPressNeverExits` for any list, window, loop lengths and fingers, provided
fewer reads in a row are lost than a screen waits to be quiet
(`PickerAssumption`): a read that is not answered looks like buttons let go.
`StaleIsLost` is the counting part: while a CROSS from before the screen is
down, each quiet frame was a lost one, so the screen cannot arm (`ArmedIsNew`),
and what its CROSS machine waits for is a press of its own (`WaitIsNew`).

**CartMapProofs.** `ProbeClean`, `RightPage` and `CodeInPlace` for any window,
cache, code and sequence of cartridges whose sizes divide the window. A slot
has one page that can be mapped there (`MirrorOwner`), so the mirrors of two
pages never meet, and `MapExact` is inductive: a slot holds the entry of the
page that owns it while that page is resident, and NULL otherwise. `Full` counts
the entries in use. That sizes divide the window is a condition the code needs:
TLC finds a wrong page for one that does not (below).

**JobsProofs.** `RecordMeansWhole` and the safety part of the refinement of
Delivery, for any jobs, files, contents and sizes, whatever is cancelled, cut,
replaced or started beside it. A row is shown done on one 'D', which does not
say what it is about. `Talk` says why it is about this row: what is under way on
a connection is one row's at a time, by where its thread is (`AckTalk`,
`WaitTalk`, `Quiet`), and a connection that was given up is never spoken on
again. `Order` says that the rows in front of the current one are done and those
behind it untouched, `Receiver` that the console only has, and only will get,
files of rows that were begun, `Outcome` that a row that came back well was
closed whole, with the content it had when the job was asked for if the file is
still the same, and that the header a walk sends again has that content's size.

**ChecksProofs.** `SlotIsKept`, `AnswersAreTrue` and the types, for any number
of calls and of lines under way. `AnswersAreTrue` is about the moment an answer
is used; the invariant carries it back to the moment the script was sent.
`Said`: every word a call has heard, and every line under way for it, was so
since then. A new script starts with nothing heard, and with nothing under way
because its token is fresh (`Unsent`), which is why the token has to be
compared. `SlotKept` is what is left of the slot's ownership when test and
clearing are two steps: with nobody between them, a batch that has lost the slot
finds that it is not its own (`Opens`: a batch knows a slot only once its wait
is over, so one that still waits tests for None), and `SlotLive` says who may
have the slot at all, the lock's holder or a batch that will still test for it.
`EmulatorQueued` is that the script which started the emulator is the one its
exit line is from.

Only model-checked:

- `CallReturns`, `NoScreenForever`, `SessionEnds`, `LoaderComesBack`,
  `JobSettles`, `GateOpens`: liveness under fairness, and the ENABLED in it, are
  out of the prover's reach.

## Disagreements between code and text

Two runs show the program doing something other than its own text says.

- **backup_sram_byte.** `README.md:178-179` promises that progress survives
  relaunching. A plain SRAM game that stores the byte 0xAA at offset 0x5555 is
  taken for a flash cartridge from then on (`gpsp/gba_memory.c:1146`): its later
  stores are dropped, its save is committed as FLASH64 and refused at the next
  launch, where it is SRAM again.
- **cart_stuck.** `gba_m10map.h:101` says a fault evicts exactly one entry. When
  the pages in every entry have been executed, by this game or by those before
  it, `evict_gamepak_page` (`gpsp/gba_memory.c:2308`) never returns, and the
  frame the watchdog would count never comes.

Others met while reading, stated here and by no run. Where one bears on a
property, the property is stated of what the code does.

- `apps/m16cgpsp/main.c:6655` tells the player that the previous save on disk is
  still intact. `gba_savefile.c:104` opens the only `.sav` with "wb", so a write
  that fails later (Vault's `OpenSav`, then `WriteChunk`) has already destroyed
  it.
- `apps/m16cgpsp/main.c:6284-6290` says the lost read-only mount outranks
  everything. `gba_savefile.c:364-372` returns an inner error first, and
  `main.c:6295` looks for ERESTORE only: Vault reaches the picker with a close
  that reported ERESTORE.
- `runtime/savedata.h:116-118` against `savedata.c:170`: a refused window can
  leave nothing mounted.
- `runtime/savedata.h:128-130` against `savedata.c:211-214`: after ERESTORE the
  data need not be in the container yet.
- `README.md:178-179` against `gpsp/gba_memory.c:2930-2936`: a cartridge whose
  EEPROM was guessed wrong, and a 128 KB flash part nothing announces, have
  their saves refused at the relaunch (`GuessedWrong`, `Unannounced` in
  BackupChip).
- `apps/m16cgpsp/main.c:5303-5304` against `gba_restorefile.c:424`: ENOSAVE is
  also what a restore says when nothing is mounted.
- `gba_audio.c:86-87` against `262-264`: the prefill gate opens once a session,
  so the cushion is not there after an underrun.
- `gba_audio.h:121-143` predicts that the ring grows by 171 frames a second and
  saturates in 39 seconds, and says itself that this is a hypothesis. It does
  not happen: each iteration drains up to four grains, more than a frame of
  emulation makes (`NeverOverruns`, at the real numbers and for any length).
- `main.c:2648-2649` and `2677-2678` against `m13b_picker.inc:408`: a CROSS held
  when the picker's own release wait times out chooses.
- `main.c:3560-3562` against `3563`: a row the ROM gate rejected can be chosen.
- `main.c:4441-4443` against `4527`: the details screen can wait from a held pad
  once the release gate timed out.
- `main.c:2623-2626` against `platform.c:496`: an unanswered read turns a held
  CIRCLE into a press (`OldPressNeverExits` is stated for answered reads).
- `main.c:274-281` against `6652`: COMMIT_FAILED is in another band than the
  comment gives it.
- `gba_m10map.c:540-542` and `607-609` against `gpsp/cpu.cc:583`: the head of
  the queue may move by more than one in a fault.
- `gba_m10map.h:82` against `gpsp/gba_memory.c:2257`: with a size that does not
  divide the window, a page is loaded twice, and the slot at the start of the
  window at 0x0A holds a wrong one. CartMap assumes sizes that divide the
  window (`CartAssumption`), as powers of two do.

Of the launcher (`src/launcher/luap0rt_launcher.py`, lines of that file):

- 2110 says of `verify_pending` "the check in flight", and 2610-2611 that a
  batch "clears it when the batch ends". `BatchUpload.close` and `abort`
  (1105-1106, 1120-1121) test whether the slot is theirs and then clear it,
  without `verify_lock`, while another call may set it (2593). TLC shows it when
  Checks.cfg is given the invariant `SlotIsTheCheckInFlight`: a batch is
  cancelled before its `open` has returned, finds None where its own slot is
  None too, a clean-up takes the slot, and the batch clears it. The clean-up's
  answers are dropped, it waits for its time limit, and reports that nothing
  came back. A check can be hit in the same way, since `cancel` sets `cancelled`
  (1422), which lets requests in, before it calls `abort` (1429). The window is
  a few instructions of the interpreter wide. What holds all the same is
  `SlotIsKept`, which says who may take the slot away, and `AnswersAreTrue`.
- `src/launcher/README.md:257` says Cancel stops the current transfer and marks
  the rest as not sent. While a batch is being opened or its connection made,
  `abort` (1110) finds no socket and the file in progress is sent whole; and a
  cancel seen at the head of the loop (1306) leaves the rows behind it pending.
- A cancel in the middle of a send takes the socket from under the thread
  (1119), which then calls a method of `None`; `run_step` (1135) does not catch
  that and the thread ends. The job is cancelled, so nothing waits for it.
- A batch whose port line was lost walks the ports (1021-1045) and takes the 'K'
  of the emulator's image loader for a receiver's: the row fails, and the loader
  has the header for its image. `tools/upload.py:106-108` says "live receiver"
  of the same walk.
- A file sent again over a good one and torn leaves the record of the good one
  (a row that fails does not touch it), and the torn file is skipped next time.
  `RecordMeansWhole` says "once".
- A listing that lost one line makes its game absent (2755 on), and a removal
  whose answer was lost keeps the record of a game that is gone.
- A removal forgets the record (2697) after the lock is given back (2631): a
  batch that sends the same game in between records it, and the record is
  forgotten again. It costs a second send; `AnswersAreTrue` allows it, for the
  game was gone at one moment since the removal was sent.

## Not modelled

- **The audio port, presentation, video.** Thin calls; their refusals are
  choices of AudioRing and Session. Scaling is a pure function of a frame.
- **Execution and compatibility checks, ROM header checks.** Checks of one value
  after one run of the core; their outcome is a choice in Session.
- **M8's map probe, save observers, network.** `main.c:5024` calls
  `m8map_probe()` and prints what it finds, and nothing is decided by it; the
  observers decide nothing; the network is not linked.
- **Boot and fault handling.** Relocation and the jump out of the host's Lua: no
  states to explore.
- **The emulator core** but for the backup chip, the page cache and what the
  mixer yields. Vendored.
- **Build and test tools.**
- **File streams, library scan and sort, pad maps.** Planned.
- **The launcher's page, tray, settings and probes of port 9026.** The probes
  and the ping decide only whether a send is tried; in Jobs and Checks a send
  may fail at any time. Left out as well: resuming and `tools/upload.py`, the
  BIOS (a file like another in Jobs), the payload's own boot report, the
  order in which a call makes another (the clean-up before a batch and the check
  behind a removal are calls of their own in Checks; the second is subject
  there to `busy()`, which the code does not ask again), the deselection of a
  removed game, and forgetting a record by hand. `PayloadTracker.active` counts
  a line of the last 30 seconds as running where no state is known (914): with
  the one console, whose launches the launcher makes itself, a state is known
  before the first line.

Within the modelled parts: bytes, pixels and names; hash collisions; the
reserved fields of headers; the values in the probes' reports.

## Plan

Done: the modules above, in the order Savedata, SaveClass, BackupChip, Vault,
AudioLevels, AudioRing, Picker, Session, CartMap, Delivery, Jobs, Checks, and
the eight proof modules.

Next, most important first:

1. **Streams** (`gba_filestream.c`): the slot table, with leaks across sessions,
   composed with Session, which now only counts.
2. **Library** and **Pads**: the scan and sort as functions against a reference
   definition; the pad maps and the chord, against "no key the player does not
   hold".
3. Proofs: every safety property and refinement of the passing runs has its
   theorem; what is left is what items 1, 2 and 4 will add. Induction over
   naturals can be had as in CartMapProofs, from a least counterexample.
4. A composition of Session and Vault, so that the steps of the one are the
   steps of the other: today Vault keeps only the session steps a save depends
   on.
