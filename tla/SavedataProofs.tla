--------------------------- MODULE SavedataProofs ---------------------------
(***************************************************************************)
(* Proofs about module Savedata, for any set of regions, any order of      *)
(* fallbacks, any number of polls and any nesting depth.                   *)
(*                                                                         *)
(* The inductive invariant IInv ties the C-level state of the window       *)
(* (depth, the call in progress) to the kernel's (mount, drain) and says   *)
(* where the written image is at every step of the two functions.          *)
(***************************************************************************)
EXTENDS Savedata, TLAPS

\* Inside begin_write the depth is 1, inside end_write it is 0, and before
\* plat_savedata_init succeeded no window was ever opened.
CallShape ==
  /\ call \in {"begin.umount", "begin.rw", "begin.ro"} => ready /\ depth = 1
  /\ call \in {"end.umount", "end.poll", "end.ro"} =>
       ready /\ depth = 0 /\ written # NoDir
  /\ call \in {"end.umount", "end.poll"} => polls < PollTries
  /\ ~ready => /\ call = "idle" /\ depth = 0 /\ written = NoDir
               /\ mount.mode # "rw" /\ drain.mode # "rw"
               /\ endRc \in {"none", "ENOTREADY"}

\* Only the last read-write mount has bytes to land, and once it has none its
\* image is in its container.
ImagePlace ==
  /\ drain.mode = "rw" => mount.mode # "rw"
  /\ mount.mode = "rw" => written = mount.dir
  /\ drain.mode = "rw" => written = drain.dir
  /\ Attached = NoDir /\ written # NoDir => container[written] = image

\* An OK close means a completed unmount: the poll asked sceKernelStat, or the
\* kernel never mounts over an unmount in flight.
Waited == StatResolved \/ ~Overlap

\* What an outermost close that returned said, until the next window opens.
CloseReport ==
  /\ Waited /\ WindowPhase \in {"idle", "opening"} /\ endRc = "OK" =>
       Attached = NoDir
  /\ WindowPhase \in {"idle", "opening"} /\ mount.mode = "rw" =>
       endRc = "ERESTORE"
  /\ endRc \in {"OK", "ESTATTIMEOUT"} => written # NoDir

\* A poll that ended without a timeout saw the mount point gone.
PollSawGone ==
  call = "end.ro" /\ ~timedOut /\ StatResolved => PointGone

\* From the first read-write mount on, what is mounted is the region in sd_dir.
RegionKnown ==
  /\ WindowPhase = "open" => written # NoDir
  /\ written # NoDir /\ mount # NoMount => sdDir = mount.dir

IInv ==
  /\ TypeOK
  /\ CallShape
  /\ OpenMeansWritable
  /\ ImagePlace
  /\ CloseReport
  /\ PollSawGone
  /\ RegionKnown

-----------------------------------------------------------------------------
\* What Mounts says of a record, in the form the steps below use.
LEMMA MountFields ==
  /\ NoMount \in Mounts /\ NoMount.mode = "none" /\ NoMount.dir = NoDir
  /\ \A m \in Mounts : /\ m.dir \in Dirs \cup {NoDir}
                       /\ m.mode \in {"none", "ro", "rw"}
                       /\ m.mode \in {"ro", "rw"} => m.dir \in Dirs
                       /\ m.mode = "none" => m = NoMount
  /\ \A d \in Dirs, mode \in {"ro", "rw"} :
       /\ [dir |-> d, mode |-> mode] \in Mounts
       /\ [dir |-> d, mode |-> mode] # NoMount
BY SavedataAssumption DEF Mounts, NoMount

LEMMA InitInv == Init => IInv
<1> SUFFICES ASSUME Init PROVE IInv
  OBVIOUS
<1>1. TypeOK
  <2>1. mount \in Mounts /\ mount.dir \in Dirs
    BY SavedataAssumption DEF Init, SavedataStart, Mounts
  <2>2. Len(Fallbacks) \in Nat
    BY SavedataAssumption
  <2>3. attempt \in 1 .. Len(Fallbacks) + 1 /\ polls \in 0 .. PollTries
    BY <2>2, SavedataAssumption DEF Init, SavedataStart
  <2>4. call \in Calls /\ beginRc \in BeginCodes /\ endRc \in EndCodes
    BY DEF Init, SavedataStart, Calls, BeginCodes, EndCodes
  <2>5. ready \in BOOLEAN /\ depth \in Nat /\ timedOut \in BOOLEAN
    BY DEF Init, SavedataStart
  <2> QED
    BY <2>1, <2>3, <2>4, <2>5, MountFields DEF Init, SavedataStart, TypeOK
<1>2. mount.mode = "ro" /\ drain.mode = "none"
  BY MountFields DEF Init, SavedataStart
<1> QED
  BY <1>1, <1>2 DEF Init, SavedataStart, IInv, CallShape, OpenMeansWritable,
     ImagePlace, CloseReport, PollSawGone, RegionKnown, Attached, WindowPhase

\* The unmount completes.
LEMMA DrainedInv == IInv /\ Drained => IInv'
<1> SUFFICES ASSUME IInv, Drained PROVE IInv'
  OBVIOUS
<1>1. TypeOK'
  BY SavedataAssumption, MountFields DEF IInv, TypeOK, CallShape, Drained, rcs
<1>2. (CallShape /\ OpenMeansWritable)'
  BY SavedataAssumption, MountFields DEF IInv, TypeOK, CallShape, OpenMeansWritable, Drained, rcs, PointGone
<1>3. ImagePlace'
  BY SavedataAssumption, MountFields
  DEF IInv, TypeOK, CallShape, ImagePlace, OpenMeansWritable, Attached,
      Drained, rcs, PointGone
<1>4. (CloseReport /\ PollSawGone /\ RegionKnown)'
  BY SavedataAssumption, MountFields, <1>2, <1>3
  DEF IInv, TypeOK, CallShape, OpenMeansWritable, ImagePlace, CloseReport,
       PollSawGone, RegionKnown, Attached, WindowPhase, Drained, rcs, PointGone
<1> QED
  BY <1>1, <1>2, <1>3, <1>4 DEF IInv

\* plat_savedata_init.
LEMMA InitCallInv == IInv /\ SavedataInit => IInv'
<1> SUFFICES ASSUME IInv, SavedataInit PROVE IInv'
  OBVIOUS
<1>1. TypeOK'
  <2>1. Fallbacks[1] \in Dirs
    BY SavedataAssumption
  <2> QED
    BY <2>1 DEF IInv, TypeOK, CallShape, SavedataInit, rcs
<1>2. (CallShape /\ OpenMeansWritable)'
  BY SavedataAssumption, MountFields DEF IInv, TypeOK, CallShape, OpenMeansWritable, SavedataInit, rcs, PointGone
<1>3. ImagePlace'
  BY SavedataAssumption, MountFields
  DEF IInv, TypeOK, CallShape, ImagePlace, OpenMeansWritable, Attached,
      SavedataInit, rcs, PointGone
<1>4. (CloseReport /\ PollSawGone /\ RegionKnown)'
  BY SavedataAssumption, MountFields, <1>2, <1>3
  DEF IInv, TypeOK, CallShape, OpenMeansWritable, ImagePlace, CloseReport,
       PollSawGone, RegionKnown, Attached, WindowPhase, SavedataInit, rcs, PointGone
<1> QED
  BY <1>1, <1>2, <1>3, <1>4 DEF IInv

\* plat_savedata_begin_write is called.
LEMMA BeginCallInv == IInv /\ BeginCall => IInv'
<1> SUFFICES ASSUME IInv, BeginCall PROVE IInv'
  OBVIOUS
<1>1. TypeOK'
  BY SavedataAssumption, MountFields DEF IInv, TypeOK, CallShape, BeginCall, BeginReturns, BeginCodes, Calls, rcs
<1>2. (CallShape /\ OpenMeansWritable)'
  BY SavedataAssumption, MountFields DEF IInv, TypeOK, CallShape, OpenMeansWritable, BeginCall, BeginReturns, rcs, PointGone
<1>3. ImagePlace'
  BY SavedataAssumption, MountFields
  DEF IInv, TypeOK, CallShape, ImagePlace, OpenMeansWritable, Attached,
      BeginCall, BeginReturns, rcs, PointGone
<1>4. (CloseReport /\ PollSawGone /\ RegionKnown)'
  BY SavedataAssumption, MountFields, <1>2, <1>3
  DEF IInv, TypeOK, CallShape, OpenMeansWritable, ImagePlace, CloseReport,
       PollSawGone, RegionKnown, Attached, WindowPhase, BeginCall, BeginReturns, rcs, PointGone
<1> QED
  BY <1>1, <1>2, <1>3, <1>4 DEF IInv

\* The read-only mount is dropped.
LEMMA BeginUmountInv == IInv /\ BeginUmount => IInv'
<1> SUFFICES ASSUME IInv, BeginUmount PROVE IInv'
  OBVIOUS
<1>1. TypeOK'
  BY SavedataAssumption, MountFields DEF IInv, TypeOK, CallShape, BeginUmount, Umount, Calls, rcs
<1>2. (CallShape /\ OpenMeansWritable)'
  BY SavedataAssumption, MountFields DEF IInv, TypeOK, CallShape, OpenMeansWritable, BeginUmount, Umount, rcs, PointGone
<1>3. ImagePlace'
  BY SavedataAssumption, MountFields
  DEF IInv, TypeOK, CallShape, ImagePlace, OpenMeansWritable, Attached,
      BeginUmount, Umount, rcs, PointGone
<1>4. (CloseReport /\ PollSawGone /\ RegionKnown)'
  BY SavedataAssumption, MountFields, <1>2, <1>3
  DEF IInv, TypeOK, CallShape, OpenMeansWritable, ImagePlace, CloseReport,
       PollSawGone, RegionKnown, Attached, WindowPhase, BeginUmount, Umount, rcs, PointGone
<1> QED
  BY <1>1, <1>2, <1>3, <1>4 DEF IInv

\* plat_savedata_end_write is called.
LEMMA EndCallInv == IInv /\ EndCall => IInv'
<1> SUFFICES ASSUME IInv, EndCall PROVE IInv'
  OBVIOUS
<1>1. TypeOK'
  <2>1. depth' \in Nat
    BY DEF IInv, TypeOK, EndCall
  <2>2. polls' \in 0 .. PollTries /\ timedOut' \in BOOLEAN
    <3>1. polls' = 0 /\ timedOut' = FALSE
      BY DEF EndCall
    <3>2. 0 \in 0 .. PollTries
      BY SavedataAssumption
    <3>3. timedOut' \in BOOLEAN
      BY <3>1
    <3> QED
      BY <3>1, <3>2, <3>3, Zenon
  <2>3. call' \in Calls /\ beginRc' \in BeginCodes /\ endRc' \in EndCodes
    BY DEF IInv, TypeOK, EndCall, EndReturns, EndCodes, Calls, rcs
  <2> QED
    BY <2>1, <2>2, <2>3 DEF IInv, TypeOK, EndCall
<1>2. (CallShape /\ OpenMeansWritable)'
  <2>1. CASE ~ready
    BY <2>1 DEF IInv, TypeOK, CallShape, OpenMeansWritable, EndCall,
       EndReturns
  <2>2. CASE ready /\ depth = 1
    BY <2>2, SavedataAssumption
    DEF IInv, TypeOK, CallShape, OpenMeansWritable, RegionKnown, WindowPhase,
        EndCall, rcs
  <2>3. CASE ready /\ depth # 1
    BY <2>3 DEF IInv, TypeOK, CallShape, OpenMeansWritable, EndCall, rcs
  <2> QED
    BY <2>1, <2>2, <2>3 DEF IInv, TypeOK
<1>3. ImagePlace'
  BY SavedataAssumption, MountFields
  DEF IInv, TypeOK, CallShape, ImagePlace, OpenMeansWritable, Attached,
      EndCall, EndReturns, rcs, PointGone
<1>4. (CloseReport /\ PollSawGone /\ RegionKnown)'
  BY SavedataAssumption, MountFields, <1>2, <1>3
  DEF IInv, TypeOK, CallShape, OpenMeansWritable, ImagePlace, CloseReport,
       PollSawGone, RegionKnown, Attached, WindowPhase, EndCall, EndReturns, rcs, PointGone
<1> QED
  BY <1>1, <1>2, <1>3, <1>4 DEF IInv

\* The unmount that commits is started.
LEMMA EndUmountInv == IInv /\ EndUmount => IInv'
<1> SUFFICES ASSUME IInv, EndUmount PROVE IInv'
  OBVIOUS
<1>1. TypeOK'
  BY SavedataAssumption, MountFields DEF IInv, TypeOK, CallShape, EndUmount, Umount, Calls, rcs
<1>2. (CallShape /\ OpenMeansWritable)'
  BY SavedataAssumption, MountFields DEF IInv, TypeOK, CallShape, OpenMeansWritable, EndUmount, Umount, rcs, PointGone
<1>3. ImagePlace'
  BY SavedataAssumption, MountFields
  DEF IInv, TypeOK, CallShape, ImagePlace, OpenMeansWritable, Attached,
      EndUmount, Umount, rcs, PointGone
<1>4. (CloseReport /\ PollSawGone /\ RegionKnown)'
  BY SavedataAssumption, MountFields, <1>2, <1>3
  DEF IInv, TypeOK, CallShape, OpenMeansWritable, ImagePlace, CloseReport,
       PollSawGone, RegionKnown, Attached, WindowPhase, EndUmount, Umount, rcs, PointGone
<1> QED
  BY <1>1, <1>2, <1>3, <1>4 DEF IInv

\* One stat poll.
LEMMA EndPollInv == IInv /\ EndPoll => IInv'
<1> SUFFICES ASSUME IInv, EndPoll PROVE IInv'
  OBVIOUS
<1>1. TypeOK'
  BY SavedataAssumption, MountFields DEF IInv, TypeOK, CallShape, EndPoll, Calls, rcs
<1>2. (CallShape /\ OpenMeansWritable)'
  BY SavedataAssumption, MountFields DEF IInv, TypeOK, CallShape, OpenMeansWritable, EndPoll, rcs, PointGone
<1>3. ImagePlace'
  BY SavedataAssumption, MountFields
  DEF IInv, TypeOK, CallShape, ImagePlace, OpenMeansWritable, Attached,
      EndPoll, rcs, PointGone
<1>4. (CloseReport /\ PollSawGone /\ RegionKnown)'
  BY SavedataAssumption, MountFields, <1>2, <1>3
  DEF IInv, TypeOK, CallShape, OpenMeansWritable, ImagePlace, CloseReport,
       PollSawGone, RegionKnown, Attached, WindowPhase, EndPoll, rcs, PointGone
<1> QED
  BY <1>1, <1>2, <1>3, <1>4 DEF IInv

\* A refused candidate changes nothing but the position in the list.
LEMMA RefusedInv ==
  ASSUME IInv, MountRefusedNext, UNCHANGED <<ready, depth>>
  PROVE  IInv'
<1>1. TypeOK'
  <2>1. attempt' \in 1 .. Len(Fallbacks) + 1
    <3>1. Len(Fallbacks) \in Nat
      BY SavedataAssumption
    <3> QED
      BY <3>1 DEF IInv, TypeOK, MountRefusedNext
  <2> QED
    BY <2>1 DEF IInv, TypeOK, MountRefusedNext, rcs
<1> QED
  BY <1>1 DEF IInv, TypeOK, CallShape, OpenMeansWritable, ImagePlace,
     CloseReport, PollSawGone, RegionKnown, Attached, WindowPhase, PointGone,
     MountRefusedNext, rcs

\* A mount that succeeds is on a region that exists; the one attempted first
\* is attempted first again by the next call.
LEMMA MountedType ==
  ASSUME IInv, NEW mode \in {"ro", "rw"}, MountOk(mode)
  PROVE  /\ Candidate \in Dirs
         /\ mount' \in Mounts /\ mount'.mode = mode /\ mount'.dir = Candidate
         /\ sdDir' \in Dirs
         /\ image' \in Contents /\ written' \in Dirs \cup {NoDir}
         /\ attempt' \in 1 .. Len(Fallbacks) + 1
<1>1. Candidate \in Dirs
  BY SavedataAssumption DEF MountOk
<1>2. Len(Fallbacks) \in Nat
  BY SavedataAssumption
<1>3. attempt' \in 1 .. Len(Fallbacks) + 1
  BY <1>2 DEF MountOk
<1>4. mount' \in Mounts /\ mount'.mode = mode /\ mount'.dir = Candidate
  BY <1>1, MountFields DEF MountOk
<1> QED
  BY <1>1, <1>3, <1>4 DEF MountOk, IInv, TypeOK

\* The read-write mount: granted, refused once more, or refused by all.
LEMMA BeginMountRWInv == IInv /\ BeginMountRW => IInv'
<1> SUFFICES ASSUME IInv, BeginMountRW PROVE IInv'
  OBVIOUS
<1>1. CASE MountOk("rw") /\ BeginReturns("OK")
           /\ UNCHANGED <<ready, depth, drain, container, polls, timedOut>>
  <2>1. /\ Candidate \in Dirs
        /\ mount' \in Mounts /\ mount'.mode = "rw" /\ mount'.dir = Candidate
        /\ sdDir' = Candidate /\ written' = Candidate
        /\ image' = container[Candidate] /\ drain = NoMount
    BY <1>1, MountedType DEF MountOk
  <2>2. TypeOK'
    BY <1>1, <2>1, MountedType
    DEF IInv, TypeOK, BeginReturns, BeginCodes, Calls
  <2>3. (CallShape /\ OpenMeansWritable /\ ImagePlace)'
    BY <1>1, <2>1, MountFields, SavedataAssumption
    DEF IInv, TypeOK, CallShape, OpenMeansWritable, ImagePlace, Attached,
        BeginReturns, BeginMountRW
  <2>4. (CloseReport /\ PollSawGone /\ RegionKnown)'
    BY <1>1, <2>1, MountFields, SavedataAssumption
    DEF IInv, TypeOK, CallShape, CloseReport, PollSawGone, RegionKnown,
        WindowPhase, BeginReturns, BeginMountRW
  <2> QED
    BY <2>2, <2>3, <2>4 DEF IInv
<1>2. CASE MountRefusedNext
  BY <1>2, RefusedInv DEF MountRefusedNext
<1>3. CASE MountAllRefused /\ call' = "begin.ro"
           /\ UNCHANGED <<ready, depth, sdDir, mount, drain, image, written,
                          container, polls, timedOut, rcs>>
  <2>1. TypeOK'
    <3>1. attempt' \in 1 .. Len(Fallbacks) + 1
      BY <1>3, SavedataAssumption DEF MountAllRefused
    <3> QED
      BY <1>3, <3>1 DEF IInv, TypeOK, Calls, rcs
  <2> QED
    BY <1>3, <2>1
    DEF IInv, TypeOK, CallShape, OpenMeansWritable, ImagePlace, CloseReport,
        PollSawGone, RegionKnown, Attached, WindowPhase, BeginMountRW, rcs
<1> QED
  BY <1>1, <1>2, <1>3 DEF BeginMountRW

\* The read-only mount of a refused window: back, or not.
LEMMA BeginMountROInv == IInv /\ BeginMountRO => IInv'
<1> SUFFICES ASSUME IInv, BeginMountRO PROVE IInv'
  OBVIOUS
<1>1. CASE MountOk("ro") /\ depth' = 0 /\ BeginReturns("ERWMOUNT")
           /\ UNCHANGED <<ready, drain, container, polls, timedOut>>
  <2>1. /\ Candidate \in Dirs /\ mount = NoMount
        /\ mount' \in Mounts /\ mount'.mode = "ro" /\ mount'.dir = Candidate
        /\ sdDir' = Candidate /\ UNCHANGED <<image, written>>
    BY <1>1, MountedType DEF MountOk
  <2>2. TypeOK'
    BY <1>1, <2>1, MountedType
    DEF IInv, TypeOK, BeginReturns, BeginCodes, Calls
  <2>3. (CallShape /\ OpenMeansWritable /\ ImagePlace)'
    BY <1>1, <2>1, MountFields, SavedataAssumption
    DEF IInv, TypeOK, CallShape, OpenMeansWritable, ImagePlace, Attached,
        BeginReturns, BeginMountRO
  <2>4. (CloseReport /\ PollSawGone /\ RegionKnown)'
    BY <1>1, <2>1, MountFields, SavedataAssumption
    DEF IInv, TypeOK, CallShape, CloseReport, PollSawGone, RegionKnown,
        WindowPhase, Attached, BeginReturns, BeginMountRO
  <2> QED
    BY <2>2, <2>3, <2>4 DEF IInv
<1>2. CASE MountRefusedNext
  BY <1>2, RefusedInv DEF MountRefusedNext
<1>3. CASE MountAllRefused /\ depth' = 0 /\ BeginReturns("ERWMOUNT")
           /\ UNCHANGED <<ready, sdDir, mount, drain, image, written,
                          container, polls, timedOut>>
  <2>1. TypeOK'
    <3>1. attempt' \in 1 .. Len(Fallbacks) + 1
      BY <1>3, SavedataAssumption DEF MountAllRefused
    <3> QED
      BY <1>3, <3>1 DEF IInv, TypeOK, Calls, BeginReturns, BeginCodes
  <2> QED
    BY <1>3, <2>1
    DEF IInv, TypeOK, CallShape, OpenMeansWritable, ImagePlace, CloseReport,
        PollSawGone, RegionKnown, Attached, WindowPhase, BeginMountRO,
        BeginReturns
<1> QED
  BY <1>1, <1>2, <1>3 DEF BeginMountRO

\* The read-only mount after the commit: back, or not.  This is where a close
\* reports OK, and with ~timedOut either the poll saw the mount point gone or
\* (no poll) the kernel would not have mounted over an unmount in flight.
LEMMA EndMountROInv == IInv /\ EndMountRO => IInv'
<1> SUFFICES ASSUME IInv, EndMountRO PROVE IInv'
  OBVIOUS
<1>1. CASE MountOk("ro")
           /\ EndReturns(IF timedOut THEN "ESTATTIMEOUT" ELSE "OK")
           /\ UNCHANGED <<ready, depth, drain, container, polls, timedOut>>
  <2>1. /\ Candidate \in Dirs /\ mount = NoMount
        /\ mount' \in Mounts /\ mount'.mode = "ro" /\ mount'.dir = Candidate
        /\ sdDir' = Candidate /\ UNCHANGED <<image, written>>
    BY <1>1, MountedType DEF MountOk
  <2>2. TypeOK'
    <3>1. call' \in Calls /\ endRc' \in EndCodes /\ UNCHANGED beginRc
      BY <1>1 DEF EndReturns, EndCodes, Calls
    <3> QED
      BY <1>1, <2>1, <3>1, MountedType DEF IInv, TypeOK
  <2>3. (CallShape /\ OpenMeansWritable /\ ImagePlace)'
    BY <1>1, <2>1, MountFields, SavedataAssumption
    DEF IInv, TypeOK, CallShape, OpenMeansWritable, ImagePlace, Attached,
        EndReturns, EndMountRO
  <2>4. Waited /\ endRc' = "OK" => Attached' = NoDir
    <3>1. Waited /\ endRc' = "OK" => drain.mode = "none"
      BY <1>1, MountFields, SavedataAssumption
      DEF Waited, IInv, PollSawGone, PointGone, EndReturns, EndMountRO, MountOk
    <3> QED
      BY <1>1, <2>1, <3>1
      DEF IInv, CallShape, Attached, EndMountRO
  <2>5. (CloseReport /\ PollSawGone /\ RegionKnown)'
    BY <1>1, <2>1, <2>4, MountFields, SavedataAssumption
    DEF IInv, TypeOK, CallShape, CloseReport, PollSawGone, RegionKnown,
        WindowPhase, EndReturns, EndMountRO
  <2> QED
    BY <2>2, <2>3, <2>5 DEF IInv
<1>2. CASE MountRefusedNext /\ UNCHANGED <<ready, depth>>
  BY <1>2, RefusedInv
<1>3. CASE MountAllRefused /\ EndReturns("ERESTORE")
           /\ UNCHANGED <<ready, depth, sdDir, mount, drain, image, written,
                          container, polls, timedOut>>
  <2>1. TypeOK'
    <3>1. attempt' \in 1 .. Len(Fallbacks) + 1
      BY <1>3, SavedataAssumption DEF MountAllRefused
    <3> QED
      BY <1>3, <3>1 DEF IInv, TypeOK, Calls, EndReturns, EndCodes
  <2> QED
    BY <1>3, <2>1
    DEF IInv, TypeOK, CallShape, OpenMeansWritable, ImagePlace, CloseReport,
        PollSawGone, RegionKnown, Attached, WindowPhase, EndMountRO,
        EndReturns
<1> QED
  BY <1>1, <1>2, <1>3 DEF EndMountRO, MountRefusedNext

\* A caller writes.
LEMMA WriteInv ==
  ASSUME IInv, NEW c \in Contents, Write(c)
  PROVE  IInv'
BY DEF IInv, TypeOK, CallShape, OpenMeansWritable, ImagePlace, CloseReport,
   PollSawGone, RegionKnown, Attached, WindowPhase, PointGone, Write, rcs

LEMMA StutterInv == IInv /\ UNCHANGED sdVars => IInv'
BY DEF IInv, TypeOK, CallShape, OpenMeansWritable, ImagePlace, CloseReport,
   PollSawGone, RegionKnown, Attached, WindowPhase, PointGone, sdVars

\* The invariant holds of every behaviour.
THEOREM Inductive == Spec => []IInv
<1>1. IInv /\ [Next]_sdVars => IInv'
  <2> SUFFICES ASSUME IInv, [Next]_sdVars PROVE IInv'
    OBVIOUS
  <2>1. CASE SavedataInit
    BY <2>1, InitCallInv
  <2>2. CASE BeginCall
    BY <2>2, BeginCallInv
  <2>3. CASE EndCall
    BY <2>3, EndCallInv
  <2>4. CASE SavedataFunction
    BY <2>4, BeginUmountInv, BeginMountRWInv, BeginMountROInv, EndUmountInv,
       EndPollInv, EndMountROInv DEF SavedataFunction
  <2>5. CASE Drained
    BY <2>5, DrainedInv
  <2>6. CASE \E c \in Contents : Write(c)
    BY <2>6, WriteInv
  <2>7. CASE UNCHANGED sdVars
    BY <2>7, StutterInv
  <2> QED
    BY <2>1, <2>2, <2>3, <2>4, <2>5, <2>6, <2>7 DEF Next
<1> QED
  BY <1>1, InitInv, PTL DEF Spec

-----------------------------------------------------------------------------
\* Type correctness of the window's state, whatever the kernel answers.
THEOREM TypeCorrect == Spec => []TypeOK
<1>1. IInv => TypeOK
  BY DEF IInv
<1> QED
  BY <1>1, Inductive, PTL

\* plat_savedata_begin_write's OK, nested or not, means a container mounted
\* read-write that no earlier tear-down can still overwrite.
THEOREM WindowIsWritable == Spec => []OpenMeansWritable
<1>1. IInv => OpenMeansWritable
  BY DEF IInv
<1> QED
  BY <1>1, Inductive, PTL

\* A container left mounted read-write behind a closed window was reported:
\* the last close returned ERESTORE.
THEOREM ReadWriteIsReported == Spec => []ReadWriteOnlyWhileOpen
<1>1. IInv => ReadWriteOnlyWhileOpen
  BY DEF IInv, CloseReport, WindowPhase, ReadWriteOnlyWhileOpen
<1> QED
  BY <1>1, Inductive, PTL

\* The remembered region is the mounted one.
THEOREM RegionIsRemembered == Spec => []RemembersRegion
<1>1. IInv => RemembersRegion
  BY DEF IInv, CloseReport, RegionKnown, WindowPhase, RemembersRegion
<1> QED
  BY <1>1, Inductive, PTL

\* plat_savedata_end_write's OK means the bytes are in the container, provided
\* the unmount was waited for: sceKernelStat was found (or the kernel refuses
\* to mount while an unmount is in flight).
THEOREM OkIsDurable ==
  ASSUME StatResolved \/ ~Overlap
  PROVE  Spec => []ClosedOkIsDurable
<1>1. IInv => ClosedOkIsDurable
  BY DEF IInv, ImagePlace, CloseReport, WindowPhase, Waited,
     ClosedOkIsDurable
<1> QED
  BY <1>1, Inductive, PTL

-----------------------------------------------------------------------------
(* Savedata implements SaveWindow.                                         *)

LEMMA WindowInit == Init => Window!Init
<1> SUFFICES ASSUME Init PROVE Window!Init
  OBVIOUS
<1>1. mount.mode = "ro" /\ drain.mode = "none" /\ mount.dir \in Dirs
  BY SavedataAssumption DEF Init, SavedataStart, NoMount
<1> QED
  BY <1>1
  DEF Init, SavedataStart, Window!Init, Window!WindowStart, Attached,
      WindowPhase

\* An unmount moves the bytes that have to land from mounted to in flight.
LEMMA UmountKeepsAttached ==
  ASSUME IInv, Umount
  PROVE  Attached' = Attached
BY MountFields DEF IInv, TypeOK, ImagePlace, Attached, Umount

LEMMA WindowStepBegin ==
  ASSUME IInv, BeginCall \/ BeginUmount \/ BeginMountRW \/ BeginMountRO
  PROVE  [Window!Next]_(Window!windowVars)
<1>1. CASE BeginCall
  <2>1. CASE ~ready \/ depth > 0
    BY <1>1, <2>1
    DEF BeginCall, BeginReturns, IInv, TypeOK, CallShape, Window!windowVars,
        WindowPhase, Attached, rcs
  <2>2. CASE ready /\ ~(depth > 0)
    <3>1. Window!Request
      BY <1>1, <2>2
      DEF BeginCall, IInv, TypeOK, WindowPhase, Attached, Window!Request,
          rcs
    <3> QED
      BY <3>1 DEF Window!Next
  <2> QED
    BY <2>1, <2>2
<1>2. CASE BeginUmount
  BY <1>2, UmountKeepsAttached
  DEF BeginUmount, IInv, TypeOK, CallShape, Window!windowVars, WindowPhase,
      rcs
<1>3. CASE BeginMountRW
  <2>1. CASE MountOk("rw") /\ BeginReturns("OK")
             /\ UNCHANGED <<ready, depth, drain, container, polls, timedOut>>
    <3>1. /\ Candidate \in Dirs /\ mount = NoMount /\ drain = NoMount
          /\ mount'.mode = "rw" /\ mount'.dir = Candidate
          /\ image' = container[Candidate]
      BY <2>1, MountedType DEF MountOk
    <3>2. Window!Grant(Candidate)
      BY <1>3, <2>1, <3>1, MountFields
      DEF BeginMountRW, BeginReturns, IInv, TypeOK, CallShape, WindowPhase,
          Attached, Window!Grant
    <3> QED
      BY <3>1, <3>2 DEF Window!Next
  <2>2. CASE MountRefusedNext \/ (MountAllRefused /\ call' = "begin.ro"
             /\ UNCHANGED <<ready, depth, sdDir, mount, drain, image, written,
                            container, polls, timedOut, rcs>>)
    BY <1>3, <2>2
    DEF BeginMountRW, MountRefusedNext, IInv, TypeOK, CallShape,
        Window!windowVars, WindowPhase, Attached, rcs
  <2> QED
    BY <1>3, <2>1, <2>2 DEF BeginMountRW
<1>4. CASE BeginMountRO
  <2>1. CASE MountOk("ro") /\ depth' = 0 /\ BeginReturns("ERWMOUNT")
             /\ UNCHANGED <<ready, drain, container, polls, timedOut>>
    <3>1. /\ Candidate \in Dirs /\ mount = NoMount
          /\ mount'.mode = "ro" /\ mount'.dir = Candidate
          /\ UNCHANGED <<image, written>>
      BY <2>1, MountedType DEF MountOk
    <3>2. Window!Refuse(Candidate)
      BY <1>4, <2>1, <3>1, MountFields
      DEF BeginMountRO, BeginReturns, IInv, TypeOK, CallShape, WindowPhase,
          Attached, Window!Refuse
    <3> QED
      BY <3>1, <3>2 DEF Window!Next
  <2>2. CASE MountRefusedNext
    BY <1>4, <2>2
    DEF BeginMountRO, MountRefusedNext, IInv, TypeOK, CallShape,
        Window!windowVars, WindowPhase, Attached, rcs
  <2>3. CASE MountAllRefused /\ depth' = 0 /\ BeginReturns("ERWMOUNT")
             /\ UNCHANGED <<ready, sdDir, mount, drain, image, written,
                            container, polls, timedOut>>
    <3>1. mount.dir \in Dirs \cup {NoDir}
      BY MountFields DEF IInv, TypeOK
    <3>2. Window!Refuse(mount.dir)
      BY <1>4, <2>3
      DEF BeginMountRO, BeginReturns, IInv, TypeOK, CallShape, WindowPhase,
          Attached, Window!Refuse
    <3> QED
      BY <3>1, <3>2 DEF Window!Next
  <2> QED
    BY <1>4, <2>1, <2>2, <2>3 DEF BeginMountRO
<1> QED
  BY <1>1, <1>2, <1>3, <1>4

LEMMA WindowStepEnd ==
  ASSUME Waited, IInv, EndCall \/ EndUmount \/ EndPoll \/ EndMountRO
  PROVE  [Window!Next]_(Window!windowVars)
<1>1. CASE EndCall
  <2>1. CASE ~ready
    <3>1. Window!NotReady
      BY <1>1, <2>1
      DEF EndCall, EndReturns, IInv, TypeOK, CallShape, WindowPhase,
          Attached, Window!NotReady
    <3> QED
      BY <3>1 DEF Window!Next
  <2>2. CASE ready /\ depth = 1
    <3>1. Window!Detach
      BY <1>1, <2>2
      DEF EndCall, IInv, TypeOK, WindowPhase, Attached, Window!Detach, rcs
    <3> QED
      BY <3>1 DEF Window!Next
  <2>3. CASE ready /\ depth # 1
    BY <1>1, <2>3
    DEF EndCall, IInv, TypeOK, Window!windowVars, WindowPhase, Attached, rcs
  <2> QED
    BY <2>1, <2>2, <2>3 DEF IInv, TypeOK
<1>2. CASE EndUmount
  BY <1>2, UmountKeepsAttached
  DEF EndUmount, IInv, TypeOK, CallShape, Window!windowVars, WindowPhase,
      rcs
<1>3. CASE EndPoll
  BY <1>3
  DEF EndPoll, IInv, TypeOK, CallShape, Window!windowVars, WindowPhase,
      Attached, rcs
<1>4. CASE EndMountRO
  <2>1. CASE MountOk("ro")
             /\ EndReturns(IF timedOut THEN "ESTATTIMEOUT" ELSE "OK")
             /\ UNCHANGED <<ready, depth, drain, container, polls, timedOut>>
    <3>1. /\ Candidate \in Dirs /\ mount = NoMount
          /\ mount'.mode = "ro" /\ mount'.dir = Candidate
          /\ UNCHANGED <<image, written>>
      BY <2>1, MountedType DEF MountOk
    <3>2. endRc' = "OK" => drain.mode = "none"
      BY <1>4, <2>1, MountFields, SavedataAssumption
      DEF Waited, IInv, PollSawGone, PointGone, EndReturns, EndMountRO,
          MountOk
    <3>3. endRc' \in {"OK", "ESTATTIMEOUT"}
      BY <2>1 DEF EndReturns
    <3>4. Window!Report(endRc', Candidate)
      BY <1>4, <2>1, <3>1, <3>2, <3>3, MountFields, SavedataAssumption
      DEF EndMountRO, EndReturns, IInv, TypeOK, CallShape, WindowPhase,
          Attached, Window!Report
    <3> QED
      BY <3>1, <3>3, <3>4 DEF Window!Next, Window!CloseCodes
  <2>2. CASE MountRefusedNext
    BY <1>4, <2>2
    DEF EndMountRO, MountRefusedNext, IInv, TypeOK, CallShape,
        Window!windowVars, WindowPhase, Attached, rcs
  <2>3. CASE MountAllRefused /\ EndReturns("ERESTORE")
             /\ UNCHANGED <<ready, depth, sdDir, mount, drain, image, written,
                            container, polls, timedOut>>
    <3>1. mount.dir \in Dirs \cup {NoDir}
      BY MountFields DEF IInv, TypeOK
    <3>2. Window!Report("ERESTORE", mount.dir)
      BY <1>4, <2>3
      DEF EndMountRO, EndReturns, IInv, TypeOK, CallShape, WindowPhase,
          Attached, Window!Report
    <3> QED
      BY <3>1, <3>2 DEF Window!Next, Window!CloseCodes
  <2> QED
    BY <1>4, <2>1, <2>2, <2>3 DEF EndMountRO
<1> QED
  BY <1>1, <1>2, <1>3, <1>4

LEMMA WindowStepOther ==
  ASSUME IInv, SavedataInit \/ Drained \/ \E c \in Contents : Write(c)
  PROVE  [Window!Next]_(Window!windowVars)
<1>1. CASE SavedataInit
  BY <1>1
  DEF SavedataInit, IInv, TypeOK, CallShape, Window!windowVars, WindowPhase,
      Attached, rcs
<1>2. CASE Drained
  <2>1. CASE drain.mode = "rw"
    <3>1. WindowPhase # "open"
      BY <2>1 DEF IInv, TypeOK, OpenMeansWritable, CallShape, WindowPhase,
         Calls
    <3>2. /\ Attached = drain.dir /\ drain.dir \in Dirs
          /\ Attached' = NoDir
      BY <1>2, <2>1, MountFields
      DEF Drained, IInv, TypeOK, ImagePlace, Attached
    <3>3. Window!Land
      BY <1>2, <2>1, <3>1, <3>2, SavedataAssumption
      DEF Drained, IInv, TypeOK, WindowPhase, Window!Land, rcs
    <3> QED
      BY <3>3 DEF Window!Next
  <2>2. CASE drain.mode # "rw"
    BY <1>2, <2>2, MountFields
    DEF Drained, IInv, TypeOK, Window!windowVars, WindowPhase, Attached, rcs
  <2> QED
    BY <2>1, <2>2
<1>3. CASE \E c \in Contents : Write(c)
  <2>1. PICK c \in Contents : Write(c)
    BY <1>3
  <2>2. Window!Store(c)
    BY <2>1
    DEF Write, IInv, TypeOK, WindowPhase, Attached, Window!Store, rcs
  <2> QED
    BY <2>2 DEF Window!Next
<1> QED
  BY <1>1, <1>2, <1>3

\* The calls of runtime/savedata.c implement the window contract the save
\* files are written against, provided the unmount is waited for.
THEOREM Refinement ==
  ASSUME StatResolved \/ ~Overlap
  PROVE  Spec => ImplementsWindow
<1>1. IInv /\ [Next]_sdVars => [Window!Next]_(Window!windowVars)
  <2> SUFFICES ASSUME IInv, [Next]_sdVars
               PROVE  [Window!Next]_(Window!windowVars)
    OBVIOUS
  <2>1. CASE UNCHANGED sdVars
    BY <2>1 DEF sdVars, Window!windowVars, WindowPhase, Attached
  <2> QED
    BY <2>1, WindowStepBegin, WindowStepEnd, WindowStepOther
    DEF Next, SavedataFunction, Waited
<1> QED
  BY <1>1, WindowInit, Inductive, PTL
  DEF Spec, ImplementsWindow, Window!Spec
=============================================================================
