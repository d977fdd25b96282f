------------------------------ MODULE Savedata ------------------------------
(***************************************************************************)
(* runtime/savedata.c: the read-write window on the host title's savedata  *)
(* container.                                                              *)
(*                                                                         *)
(* The console mounts the container read-only at /savedata0.  To write, a  *)
(* caller opens a window (unmount, mount read-write), writes, and closes   *)
(* it (unmount, wait, mount read-only).  Nothing reaches the container     *)
(* until the closing unmount has completed, and that unmount is            *)
(* asynchronous: the call returns while the mount point is still there.    *)
(*                                                                         *)
(* Each native call the functions make is a step of its own, so that the   *)
(* asynchronous unmount can complete between any two of them.  The native  *)
(* services (sceSaveDataMount, sceSaveDataUmount, sceKernelStat) are       *)
(* external; what is assumed of them is in the operators marked so.        *)
(***************************************************************************)
EXTENDS Integers, Sequences

CONSTANTS
  Dirs,          \* savedata directory names of the regions
  Fallbacks,     \* the order sd_mount_any tries them in: <<US, EU>>
  Present,       \* the regions whose container exists on this console
  NoDir,         \* sd_dir before plat_savedata_init: the empty string
  Contents,      \* what a container can hold (opaque here)
  PollTries,     \* SD_POLL_TRIES: the number of stat polls in end_write
  StatResolved,  \* sd_stat_fn # NULL: sceKernelStat was found
  Overlap,       \* the kernel may accept a read-only mount while an earlier
                 \* unmount is still in flight
  MaxDepth       \* bound: nesting depth explored

ASSUME SavedataAssumption ==
  /\ Fallbacks \in Seq(Dirs) /\ Fallbacks # <<>>
  /\ Present \subseteq Dirs /\ Present # {}
  /\ NoDir \notin Dirs
  /\ PollTries \in Nat \ {0}
  /\ StatResolved \in BOOLEAN /\ Overlap \in BOOLEAN
  /\ MaxDepth \in Nat \ {0}

VARIABLES
  ready,      \* sd_ready
  depth,      \* sd_depth
  sdDir,      \* sd_dir: the region that mounted last
  mount,      \* what is mounted at /savedata0
  drain,      \* the mount an asynchronous unmount is still tearing down
  image,      \* the contents written through the last read-write mount
  written,    \* the region of that mount (history; NoDir: none yet)
  container,  \* the contents each container durably holds
  call,       \* the native call the running function makes next
  attempt,    \* position in the candidate list of sd_mount_any
  polls,      \* stat polls made by the running end_write
  timedOut,   \* end_write's rc so far is ESTATTIMEOUT
  beginRc,    \* what the last outermost begin_write returned
  endRc       \* what the last outermost end_write returned

sdVars == <<ready, depth, sdDir, mount, drain, image, written, container,
            call, attempt, polls, timedOut, beginRc, endRc>>

rcs == <<beginRc, endRc>>

NoMount == [dir |-> NoDir, mode |-> "none"]
Mounts  == {NoMount} \cup [dir : Dirs, mode : {"ro", "rw"}]

\* PLAT_SD_* codes the two functions return ("none": not called yet)
BeginCodes == {"none", "OK", "ENOTREADY", "ERWMOUNT"}
EndCodes   == {"none", "OK", "ENOTREADY", "ESTATTIMEOUT", "ERESTORE"}

Calls == {"idle", "begin.umount", "begin.rw", "begin.ro",
          "end.umount", "end.poll", "end.ro"}

BeginReturns(rc) == call' = "idle" /\ beginRc' = rc /\ UNCHANGED endRc
EndReturns(rc)   == call' = "idle" /\ endRc' = rc /\ UNCHANGED beginRc

-----------------------------------------------------------------------------
(* The native services (external).                                         *)

\* The mount point is gone: what a non-zero sceKernelStat reports.
PointGone == mount = NoMount /\ drain = NoMount

\* The asynchronous tear-down of an unmounted container completes.  If it was
\* mounted read-write, this is the moment its bytes reach the container.
Drained ==
  /\ drain # NoMount
  /\ drain' = NoMount
  /\ container' = IF drain.mode = "rw"
                  THEN [container EXCEPT ![drain.dir] = image]
                  ELSE container
  /\ UNCHANGED <<ready, depth, sdDir, mount, image, written, call, attempt,
                 polls, timedOut, rcs>>

\* sceSaveDataUmount starts tearing the mount down, or fails and leaves it.
\* Neither caller looks at the result.  (A read-only tear-down behind a
\* read-write one that is still in flight changes nothing that matters.)
Umount ==
  \/ /\ mount # NoMount
     /\ mount' = NoMount
     /\ drain' = IF drain.mode = "rw" THEN drain ELSE mount
  \/ UNCHANGED <<mount, drain>>

-----------------------------------------------------------------------------
(* sd_mount_any(mode): the remembered region first, then each fallback.    *)

Candidate == IF attempt = 1 THEN sdDir ELSE Fallbacks[attempt - 1]

\* sceSaveDataMount succeeds: only on an existing container, only where
\* nothing is mounted, and read-write never over an unmount in flight.
MountOk(mode) ==
  /\ Candidate \in Present
  /\ mount = NoMount
  /\ drain = NoMount \/ (Overlap /\ mode = "ro")
  /\ mount' = [dir |-> Candidate, mode |-> mode]
  /\ sdDir' = Candidate
  /\ IF mode = "rw"
       THEN image' = container[Candidate] /\ written' = Candidate
       ELSE UNCHANGED <<image, written>>
  /\ attempt' = 1

\* The mount is refused (it may be, whatever the state) and another is left.
MountRefusedNext ==
  /\ attempt <= Len(Fallbacks)
  /\ attempt' = attempt + 1
  /\ UNCHANGED <<ready, depth, sdDir, mount, drain, image, written,
                 container, call, polls, timedOut, rcs>>

\* The last candidate is refused: sd_mount_any returns 0.
MountAllRefused ==
  /\ attempt = Len(Fallbacks) + 1
  /\ attempt' = 1

-----------------------------------------------------------------------------
(* plat_savedata_init: run once by the launcher, before any window.        *)

SavedataInit ==
  /\ call = "idle" /\ ~ready
  /\ depth' = 0
  /\ \/ ready' = TRUE /\ sdDir' = Fallbacks[1]
     \/ ready' = FALSE /\ sdDir' = sdDir
  /\ UNCHANGED <<mount, drain, image, written, container, call, attempt,
                 polls, timedOut, rcs>>

-----------------------------------------------------------------------------
(* plat_savedata_begin_write                                               *)

BeginCall ==
  /\ call = "idle"
  /\ \/ /\ ~ready /\ UNCHANGED depth
        /\ BeginReturns("ENOTREADY")
     \/ /\ ready /\ depth' = depth + 1
        /\ call' = IF depth > 0 THEN "idle" ELSE "begin.umount"
        /\ UNCHANGED rcs
  /\ UNCHANGED <<ready, sdDir, mount, drain, image, written, container,
                 attempt, polls, timedOut>>

BeginUmount ==
  /\ call = "begin.umount" /\ call' = "begin.rw"
  /\ Umount
  /\ UNCHANGED <<ready, depth, sdDir, image, written, container, attempt,
                 polls, timedOut, rcs>>

BeginMountRW ==
  /\ call = "begin.rw"
  /\ \/ /\ MountOk("rw") /\ BeginReturns("OK")
        /\ UNCHANGED <<ready, depth, drain, container, polls, timedOut>>
     \/ MountRefusedNext
     \/ /\ MountAllRefused /\ call' = "begin.ro"
        /\ UNCHANGED <<ready, depth, sdDir, mount, drain, image, written,
                       container, polls, timedOut, rcs>>

\* Mutant: the depth is not reset when the window is refused (line 171).
BeginMountROKeepsDepth ==
  /\ call = "begin.ro"
  /\ \/ /\ MountOk("ro") /\ BeginReturns("ERWMOUNT")
        /\ UNCHANGED <<ready, depth, drain, container, polls, timedOut>>
     \/ MountRefusedNext
     \/ /\ MountAllRefused /\ BeginReturns("ERWMOUNT")
        /\ UNCHANGED <<ready, depth, sdDir, mount, drain, image, written,
                       container, polls, timedOut>>

\* The read-only mount is put back, and the result of doing so is not looked
\* at: the function returns ERWMOUNT either way.
BeginMountRO ==
  /\ call = "begin.ro"
  /\ \/ /\ MountOk("ro") /\ depth' = 0 /\ BeginReturns("ERWMOUNT")
        /\ UNCHANGED <<ready, drain, container, polls, timedOut>>
     \/ MountRefusedNext
     \/ /\ MountAllRefused /\ depth' = 0 /\ BeginReturns("ERWMOUNT")
        /\ UNCHANGED <<ready, sdDir, mount, drain, image, written,
                       container, polls, timedOut>>

-----------------------------------------------------------------------------
(* plat_savedata_end_write                                                 *)

\* Mutant: a close without a window leaves the depth negative (line 180).
EndCallUnderflow ==
  /\ call = "idle" /\ ready
  /\ depth' = depth - 1
  /\ call' = IF depth = 1 THEN "end.umount" ELSE "idle"
  /\ polls' = 0 /\ timedOut' = FALSE
  /\ UNCHANGED <<ready, sdDir, mount, drain, image, written, container,
                 attempt, rcs>>

EndCall ==
  /\ call = "idle"
  /\ \/ /\ ~ready /\ UNCHANGED depth
        /\ EndReturns("ENOTREADY")
     \/ /\ ready /\ depth' = IF depth > 0 THEN depth - 1 ELSE 0
        /\ call' = IF depth = 1 THEN "end.umount" ELSE "idle"
        /\ UNCHANGED rcs
  /\ polls' = 0 /\ timedOut' = FALSE
  /\ UNCHANGED <<ready, sdDir, mount, drain, image, written, container,
                 attempt>>

EndUmount ==
  /\ call = "end.umount"
  /\ call' = IF StatResolved THEN "end.poll" ELSE "end.ro"
  /\ Umount
  /\ UNCHANGED <<ready, depth, sdDir, image, written, container, attempt,
                 polls, timedOut, rcs>>

\* Mutant: running out of polls is not reported (line 203).
EndPollSilent ==
  /\ call = "end.poll"
  /\ polls' = polls + 1
  /\ call' = IF PointGone \/ polls + 1 = PollTries THEN "end.ro"
                                                   ELSE "end.poll"
  /\ UNCHANGED <<ready, depth, sdDir, mount, drain, image, written,
                 container, attempt, timedOut, rcs>>

\* Mutant: the stat result is read the other way round (line 192).
EndPollInverted ==
  /\ call = "end.poll"
  /\ polls' = polls + 1
  /\ call' = IF ~PointGone \/ polls + 1 = PollTries THEN "end.ro"
                                                    ELSE "end.poll"
  /\ timedOut' = (PointGone /\ polls + 1 = PollTries)
  /\ UNCHANGED <<ready, depth, sdDir, mount, drain, image, written,
                 container, attempt, rcs>>

\* Mutant: the poll has no bound (line 190).
EndPollForever ==
  /\ call = "end.poll"
  /\ call' = IF PointGone THEN "end.ro" ELSE "end.poll"
  /\ UNCHANGED <<ready, depth, sdDir, mount, drain, image, written,
                 container, attempt, polls, timedOut, rcs>>

EndPoll ==
  /\ call = "end.poll"
  /\ polls' = polls + 1
  /\ call' = IF PointGone \/ polls + 1 = PollTries THEN "end.ro"
                                                   ELSE "end.poll"
  /\ timedOut' = (~PointGone /\ polls + 1 = PollTries)
  /\ UNCHANGED <<ready, depth, sdDir, mount, drain, image, written,
                 container, attempt, rcs>>

\* A read-only mount that does not come back is reported over a timeout.
EndMountRO ==
  /\ call = "end.ro"
  /\ \/ /\ MountOk("ro")
        /\ EndReturns(IF timedOut THEN "ESTATTIMEOUT" ELSE "OK")
        /\ UNCHANGED <<ready, depth, drain, container, polls, timedOut>>
     \/ MountRefusedNext
     \/ /\ MountAllRefused /\ EndReturns("ERESTORE")
        /\ UNCHANGED <<ready, depth, sdDir, mount, drain, image, written,
                       container, polls, timedOut>>

-----------------------------------------------------------------------------
\* A caller writes through an open window.
Write(c) ==
  /\ call = "idle" /\ depth > 0 /\ mount.mode = "rw"
  /\ image' = c
  /\ UNCHANGED <<ready, depth, sdDir, mount, drain, written, container,
                 call, attempt, polls, timedOut, rcs>>

\* The console has the container of some region mounted read-only.
SavedataStart ==
  /\ ready = FALSE /\ depth = 0 /\ sdDir = NoDir
  /\ mount \in [dir : Present, mode : {"ro"}]
  /\ drain = NoMount /\ written = NoDir
  /\ call = "idle" /\ attempt = 1 /\ polls = 0 /\ timedOut = FALSE
  /\ beginRc = "none" /\ endRc = "none"

SavedataFunction == BeginUmount \/ BeginMountRW \/ BeginMountRO \/
                    EndUmount \/ EndPoll \/ EndMountRO

Init ==
  /\ SavedataStart
  /\ container \in [Dirs -> Contents]
  /\ image \in Contents

Next ==
  \/ SavedataInit
  \/ depth < MaxDepth /\ BeginCall
  \/ EndCall
  \/ SavedataFunction
  \/ Drained
  \/ \E c \in Contents : Write(c)

\* A function that was called runs on: it is straight-line code with bounded
\* loops.  Nothing is assumed of Drained: the unmount may never complete.
Spec == Init /\ [][Next]_sdVars /\ WF_sdVars(SavedataFunction)

-----------------------------------------------------------------------------
(* Properties.                                                             *)

\* The region whose bytes have still to land: mounted read-write, or being
\* torn down after it was.
Attached == IF mount.mode = "rw" THEN mount.dir
            ELSE IF drain.mode = "rw" THEN drain.dir
            ELSE NoDir

\* Every variable stays in its type.
TypeOK ==
  /\ ready \in BOOLEAN
  /\ depth \in Nat
  /\ sdDir \in Dirs \cup {NoDir}
  /\ mount \in Mounts
  /\ drain \in Mounts
  /\ image \in Contents /\ written \in Dirs \cup {NoDir}
  /\ container \in [Dirs -> Contents]
  /\ call \in Calls
  /\ attempt \in 1 .. Len(Fallbacks) + 1
  /\ polls \in 0 .. PollTries
  /\ timedOut \in BOOLEAN
  /\ beginRc \in BeginCodes /\ endRc \in EndCodes

\* Between calls, a positive depth means the window really is open: the
\* container is mounted read-write and no tear-down of an earlier window can
\* still overwrite it (plat_savedata_begin_write's OK, nested or not).
OpenMeansWritable ==
  call = "idle" /\ depth > 0 => mount.mode = "rw" /\ drain.mode # "rw"

\* Read-write outlives the window only when the caller was told so: a
\* container mounted read-write behind a closed window means the last close
\* returned ERESTORE.
ReadWriteOnlyWhileOpen ==
  call = "idle" /\ depth = 0 /\ mount.mode = "rw" => endRc = "ERESTORE"

\* When the outermost end_write has returned OK, everything written through
\* the window is in the container it was opened on, and nothing still in
\* flight can change it: success is reported only after the poll saw the
\* asynchronous unmount complete.
ClosedOkIsDurable ==
  call = "idle" /\ depth = 0 /\ endRc = "OK" =>
    Attached = NoDir /\ container[written] = image

\* The region remembered in sd_dir is the region that is mounted, so the next
\* window first asks for the container the last one wrote.
RemembersRegion ==
  call = "idle" /\ (depth > 0 \/ endRc \in {"OK", "ESTATTIMEOUT"})
    => (mount # NoMount => sdDir = mount.dir)

\* Every call returns, even when the unmount it started never completes: the
\* poll is bounded.
CallReturns == call # "idle" ~> call = "idle"

\* The window contract: every behaviour of the calls is one of SaveWindow.
WindowPhase ==
  IF call \in {"begin.umount", "begin.rw", "begin.ro"} THEN "opening"
  ELSE IF call \in {"end.umount", "end.poll", "end.ro"} THEN "closing"
  ELSE IF depth > 0 THEN "open" ELSE "idle"

Window == INSTANCE SaveWindow WITH
  phase    <- WindowPhase,
  view     <- IF call = "idle" THEN mount.dir ELSE NoDir,
  attached <- Attached,
  closeRc  <- endRc

\* Savedata implements the contract its callers rely on.
ImplementsWindow == Window!Spec
=============================================================================
