----------------------------- MODULE SaveWindow -----------------------------
(***************************************************************************)
(* What runtime/savedata.c promises its callers: a write window on one of  *)
(* the host title's savedata containers.  A caller requests the window, is *)
(* granted or refused it, writes an image while it is open, and closes it. *)
(* The image reaches the container some time after the close, once, and    *)
(* the close reports OK only when that has happened.                       *)
(*                                                                         *)
(* Module Savedata implements this specification; module Vault is written  *)
(* against it, so that the save files are modelled over the contract and   *)
(* not over the polling loop.                                              *)
(***************************************************************************)
EXTENDS Integers

CONSTANTS
  Dirs,      \* savedata directory names of the regions
  NoDir,     \* no region
  Contents   \* what a container can hold

VARIABLES
  phase,      \* where the caller is: idle, opening, open, closing
  view,       \* the region readable at /savedata0 (NoDir: nothing is)
  attached,   \* the region whose image has still to land (NoDir: none)
  image,      \* the contents written through the last window
  container,  \* the contents each container durably holds
  closeRc     \* what the last outermost close returned

windowVars == <<phase, view, attached, image, container, closeRc>>

Phases     == {"idle", "opening", "open", "closing"}
CloseCodes == {"none", "OK", "ENOTREADY", "ESTATTIMEOUT", "ERESTORE"}

\* plat_savedata_begin_write drops the read-only mount first.
Request ==
  /\ phase = "idle" /\ phase' = "opening"
  /\ view' = NoDir
  /\ UNCHANGED <<attached, image, container, closeRc>>

\* ...and returns OK: the container is mounted read-write.
Grant(d) ==
  /\ phase = "opening" /\ phase' = "open"
  /\ attached = NoDir /\ attached' = d
  /\ view' = d
  /\ image' = container[d]
  /\ UNCHANGED <<container, closeRc>>

\* ...or refuses, with or without a readable container left behind.
Refuse(d) ==
  /\ phase = "opening" /\ phase' = "idle"
  /\ view' = d
  /\ UNCHANGED <<attached, image, container, closeRc>>

\* A caller writes through the open window.
Store(c) ==
  /\ phase = "open"
  /\ image' = c
  /\ UNCHANGED <<phase, view, attached, container, closeRc>>

\* plat_savedata_end_write starts the unmount that commits.
Detach ==
  /\ phase = "open" /\ phase' = "closing"
  /\ view' = NoDir
  /\ UNCHANGED <<attached, image, container, closeRc>>

\* The asynchronous unmount completes, in or after the call that started it.
Land ==
  /\ phase # "open" /\ attached # NoDir
  /\ container' = [container EXCEPT ![attached] = image]
  /\ attached' = NoDir
  /\ UNCHANGED <<phase, view, image, closeRc>>

\* plat_savedata_end_write returns.  OK: the image landed and a container is
\* readable again.  ESTATTIMEOUT: one is readable, the image may be in flight.
\* ERESTORE: no read-only mount came back.
Report(rc, d) ==
  /\ phase = "closing" /\ phase' = "idle"
  /\ rc \in {"OK", "ESTATTIMEOUT", "ERESTORE"}
  /\ rc = "OK" => attached = NoDir
  /\ rc # "ERESTORE" => d # NoDir
  /\ closeRc' = rc /\ view' = d
  /\ UNCHANGED <<attached, image, container>>

\* A close that was never opened, before the service is up.
NotReady ==
  /\ phase = "idle"
  /\ closeRc' = "ENOTREADY"
  /\ UNCHANGED <<phase, view, attached, image, container>>

WindowStart ==
  /\ phase = "idle" /\ view \in Dirs /\ attached = NoDir /\ closeRc = "none"

Init ==
  /\ WindowStart
  /\ image \in Contents
  /\ container \in [Dirs -> Contents]

Next ==
  \/ Request \/ Detach \/ Land \/ NotReady
  \/ \E d \in Dirs : Grant(d)
  \/ \E d \in Dirs \cup {NoDir} :
       Refuse(d) \/ \E rc \in CloseCodes : Report(rc, d)
  \/ \E c \in Contents : Store(c)

Spec == Init /\ [][Next]_windowVars
=============================================================================
