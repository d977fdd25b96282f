------------------------------- MODULE Checks -------------------------------
(***************************************************************************)
(* The scripts the PC launcher has the console's loader run, and the one   *)
(* slot their answers come back through.  A check (verify_console), a      *)
(* removal (delete_console), a clean-up (cleanup_console) and the receiver *)
(* of a batch (BatchUpload.open) are all sent by _console_script, which    *)
(* holds verify_lock and points verify_pending at the call; the answers    *)
(* are UDP lines of the log port, tagged with the call's token, and may    *)
(* come late, out of order, or not at all.  A batch keeps the slot after   *)
(* it has given the lock back, and gives it up when it ends or is          *)
(* cancelled: two threads, neither of which takes the lock for it.  The    *)
(* same log tells the launcher whether the emulator runs (PayloadTracker), *)
(* and while it says so nothing is sent (upload_gate).                     *)
(*                                                                         *)
(* The console holds one game; a call is named by its token.               *)
(***************************************************************************)
EXTENDS FiniteSets, Naturals, Sequences

CONSTANTS Calls,     \* tokens: one is used again once nothing carries it
          Requests,  \* what the operator may ask, under which token: a bound
          None

ASSUME ChecksAssumption == None \notin Calls /\ IsFiniteSet(Calls)

VARIABLES
  call,     \* what each call is doing
  cancelled,\* the batches and launches that were cancelled
  giving,   \* what a thread that gives a batch's slot back does next
  pend,     \* BatchUpload.pend: the batches that know which slot is theirs
  lock,     \* who holds verify_lock
  slot,     \* verify_pending: whose answers are being collected
  heard,    \* the answers each call has collected
  queue,    \* the scripts the loader has taken; the first one runs
  loader,   \* what the console does: listen, emulate, or neither
  net,      \* log lines under way
  disk,     \* the game is on the console
  record,   \* the launcher has recorded it as sent
  report,   \* console_scan: the game is present, absent, or not known
  tracker,  \* PayloadTracker.state
  seen      \* history: was the game there, since a script about it was sent

jobs   == <<cancelled, giving, pend>>
waits  == <<lock, slot, heard>>
world  == <<queue, loader, net, disk>>
view   == <<report, tracker>>
vars   == <<call, jobs, waits, world, record, view, seen>>

Kinds == {"verify", "delete", "cleanup", "batch", "launch"}

\* Who gives a slot back: the thread of the job and that of a cancel.
Threads == {"job", "page"}

Line(c, what) == [call |-> c, what |-> what]
Is(c, kind, st) == call[c] = [kind |-> kind, st |-> st]
Batch(c)   == call[c].kind = "batch"
Looks(c)   == call[c].kind \in {"verify", "delete"}
Waiting(c) == call[c].st = "wait"
Live(c)    == call[c].st # "over"

\* JobRunner.busy: a job of files, or a launch, neither ended nor cancelled.
Busy == \E c \in Calls \ cancelled :
          Live(c) /\ call[c].kind \in {"batch", "launch"}

\* PayloadTracker.active.  Its last return, a line of the payload within the
\* last 30 s, is for a tracker that knows no launch; here the launcher makes
\* every launch of its one console, and mark_sent comes before the first line.
Active == tracker \in {"starting", "running"}

\* A token that no call uses: its kind says nothing.
Unused == [kind |-> "verify", st |-> "over"]

Init == /\ call = [c \in Calls |-> Unused]
        /\ cancelled = {} /\ pend = {}
        /\ giving = [c \in Calls |-> [t \in Threads |-> "idle"]]
        /\ lock = None /\ slot = None
        /\ heard = [c \in Calls |-> {}]
        /\ queue = <<>> /\ loader = "listens" /\ net = {}
        /\ disk = FALSE /\ record = FALSE
        /\ report = "unknown" /\ tracker = "none"
        /\ seen = [c \in Calls |-> {}]

\* What the loader takes of a call.
Script(c) == [call |-> c, kind |-> call[c].kind]

Set(c, st) == call' = [call EXCEPT ![c].st = st]

\* The call has ended, and its answers with it.
Over(c) == /\ call' = [call EXCEPT ![c] = Unused]
           /\ heard' = [heard EXCEPT ![c] = {}]
           /\ seen' = [seen EXCEPT ![c] = {}]
-----------------------------------------------------------------------------
(* A request: do_POST reads busy() and the gate, and only then sends.      *)

\* Nothing carries the token any more.
Fresh(c) == /\ ~Live(c) /\ c # slot /\ giving[c]["page"] = "idle"
            /\ \A l \in net : l.call # c
            /\ \A i \in DOMAIN queue : queue[i].call # c

\* A check asks no gate; a removal and a batch are refused while the emulator
\* is believed to run, and make a check first if its log has gone silent; a
\* clean-up looks at nothing.
MayAsk(kind) ==
  CASE kind = "verify"  -> ~Busy
    [] kind = "delete"  -> ~Busy /\ ~Active
    [] kind = "batch"   -> ~Busy /\ ~Active
    [] kind = "launch"  -> ~Busy
    [] kind = "cleanup" -> TRUE

Enter(c, kind) == /\ call' = [call EXCEPT ![c] = [kind |-> kind,
                                                    st   |-> "asked"]]
                  /\ pend' = pend \ {c}
                  /\ UNCHANGED <<cancelled, giving, waits, world, record, view,
                                 seen>>

Ask(c, kind) ==
  <<c, kind>> \in Requests /\ Fresh(c) /\ MayAsk(kind) /\ Enter(c, kind)

\* upload_gate with the emulator believed to run and silent: a check of its
\* own, which a busy slot forbids.
Recheck(c) == Fresh(c) /\ Active /\ ~Busy /\ slot = None /\ Enter(c, "verify")

\* The page cancels a job: it counts as cancelled first, and only then is its
\* batch told to abort.
Cancel(c) ==
  /\ Live(c) /\ (Batch(c) \/ Is(c, "launch", "sending"))
  /\ giving[c]["page"] = "idle"
  /\ cancelled' = cancelled \cup {c}
  /\ giving' = IF Batch(c) THEN [giving EXCEPT ![c]["page"] = "test"] ELSE giving
  /\ UNCHANGED <<call, pend, waits, world, record, view, seen>>

-----------------------------------------------------------------------------
(* close and abort: is the slot the batch's, and then None for the slot,   *)
(* two steps that no lock keeps together.                                  *)

\* Before open has returned the batch's own slot is None, as no slot is.
Own(c) == IF c \in pend THEN c ELSE None

\* Mutant: the slot is cleared whoever has it (lines 1105, 1120).
TestAnyone(c, t) ==
  /\ giving[c][t] = "test"
  /\ giving' = [giving EXCEPT ![c][t] = "clear"]
  /\ UNCHANGED <<call, cancelled, pend, waits, world, record, view, seen>>

Test(c, t) ==
  /\ giving[c][t] = "test"
  /\ giving' = [giving EXCEPT ![c][t] = IF slot = Own(c) THEN "clear" ELSE "idle"]
  /\ UNCHANGED <<call, cancelled, pend, waits, world, record, view, seen>>

Wipe(c, t) ==
  /\ giving[c][t] = "clear"
  /\ giving' = [giving EXCEPT ![c][t] = "idle"]
  /\ slot' = None
  /\ UNCHANGED <<call, cancelled, pend, lock, heard, world, record, view, seen>>

\* The job's thread closes or aborts its batch, and is at st meanwhile; what
\* the page has cancelled it may leave to the page.
GivesBack(c, st) ==
  /\ Set(c, st)
  /\ \E next \in {"test"} \cup {n \in {"idle"} : c \in cancelled} :
       giving' = [giving EXCEPT ![c]["job"] = next]

\* A call that fails is over; a batch gives back what may be its slot.
Fails(c) == IF Batch(c) THEN GivesBack(c, "failing") /\ UNCHANGED <<heard, seen>>
                        ELSE Over(c) /\ UNCHANGED giving
-----------------------------------------------------------------------------
(* _console_script *)

\* Another script is being waited for: the call is refused.
Refused(c) ==
  /\ call[c].st = "asked" /\ call[c].kind # "launch" /\ lock # None
  /\ Fails(c)
  /\ UNCHANGED <<cancelled, pend, lock, slot, world, record, view>>

\* The lock is had, and the slot is the call's, whoever else had it; it has no
\* answers yet.
Take(c) ==
  /\ call[c].st = "asked" /\ call[c].kind # "launch" /\ lock = None
  /\ lock' = c /\ slot' = c
  /\ heard' = [heard EXCEPT ![c] = {}]
  /\ Set(c, "taken")
  /\ UNCHANGED <<jobs, world, record, view, seen>>

\* The loader takes the script, or does not listen, and slot and lock are
\* given back.
Send(c) ==
  /\ call[c].st = "taken"
  /\ \/ /\ loader = "listens"
        /\ queue' = Append(queue, Script(c))
        /\ seen' = [seen EXCEPT ![c] = IF Looks(c) THEN {disk} ELSE {}]
        /\ Set(c, "wait")
        /\ UNCHANGED <<giving, waits>>
     \/ /\ slot' = None /\ lock' = None
        /\ Fails(c)
        /\ UNCHANGED queue
  /\ UNCHANGED <<cancelled, pend, loader, net, disk, record, view>>

\* Mutant: an emulator that was only sent is not taken for gone (line 930).
MarkGoneRunning == tracker' = IF tracker = "running" THEN "exited" ELSE tracker

\* Mutant: the tracker is given the loader's word (line 931).
MarkGoneWord == tracker' = IF Active THEN "listens" ELSE tracker

\* A script just ran: the emulator is not running.
MarkGone == tracker' = IF Active THEN "exited" ELSE tracker

\* The wait ends, by the last line or by its limit; slot and lock are given
\* back, and a call that has heard nothing is over.
Collect(c) ==
  /\ Waiting(c) /\ ~Batch(c)
  /\ slot' = None /\ lock' = None
  /\ IF heard[c] = {} THEN Over(c) /\ UNCHANGED tracker
                      ELSE Set(c, "heard") /\ MarkGone /\ UNCHANGED <<heard, seen>>
  /\ UNCHANGED <<jobs, world, record, report>>

\* With the lock given back: a check makes the report, taking no word of the
\* game in a listing that was opened for its absence; a removal forgets the
\* record and the choice of what it heard go.
Commit(c) ==
  /\ call[c].st = "heard" /\ ~Batch(c)
  /\ IF call[c].kind = "verify" /\ heard[c] \cap {"dir", "present"} # {}
     THEN report' = IF "present" \in heard[c] THEN "present" ELSE "absent"
     ELSE UNCHANGED report
  /\ record' = (record /\ ~(call[c].kind = "delete" /\ "removed" \in heard[c]))
  /\ Over(c)
  /\ UNCHANGED <<jobs, lock, slot, world, tracker>>

\* A batch waits for its port only, and keeps the slot.
PortKnown(c) ==
  /\ Waiting(c) /\ Batch(c)
  /\ lock' = None
  /\ Set(c, "heard")
  /\ IF "port" \in heard[c] THEN MarkGone ELSE UNCHANGED tracker
  /\ UNCHANGED <<jobs, slot, heard, world, record, report, seen>>

\* Its open returns: now the batch knows its slot, and sends its file.
Opened(c) ==
  /\ Is(c, "batch", "heard")
  /\ pend' = pend \cup {c}
  /\ Set(c, "sending")
  /\ UNCHANGED <<cancelled, giving, waits, world, record, view, seen>>

-----------------------------------------------------------------------------
(* JobRunner._run *)

\* What every call that waits for an answer may have seen of the game.
Look(there) ==
  seen' = [c \in Calls |-> IF seen[c] = {} THEN {} ELSE seen[c] \cup {there}]

\* A job cancelled before its first step.
Skip(c) ==
  /\ Is(c, "batch", "asked") /\ c \in cancelled
  /\ Set(c, "ending")
  /\ giving' = [giving EXCEPT ![c]["job"] = "test"]
  /\ UNCHANGED <<cancelled, pend, waits, world, record, view, seen>>

\* The file is written, or the batch fails; either way the slot is given back.
FileSent(c) ==
  /\ Is(c, "batch", "sending")
  /\ \/ /\ queue # <<>> /\ Head(queue).call = c /\ loader = "listens"
        /\ disk' = TRUE /\ Look(TRUE)
        /\ GivesBack(c, "closing")
     \/ GivesBack(c, "failing") /\ UNCHANGED <<disk, seen>>
  /\ UNCHANGED <<cancelled, pend, waits, queue, loader, net, record, view>>

\* The step is over: the file is recorded unless the job was cancelled, and a
\* job that failed or was cancelled aborts its batch.
StepEnds(c) ==
  LET done == call[c].st = "closing" /\ c \notin cancelled IN
  /\ call[c].st \in {"closing", "failing"} /\ giving[c]["job"] = "idle"
  /\ record' = (record \/ done)
  /\ Set(c, "ending")
  /\ giving' = [giving EXCEPT ![c]["job"] = IF done THEN "idle" ELSE "test"]
  /\ UNCHANGED <<cancelled, pend, waits, world, view, seen>>

JobEnds(c) ==
  /\ call[c].st = "ending" /\ giving[c]["job"] = "idle"
  /\ Over(c)
  /\ cancelled' = cancelled \ {c}
  /\ UNCHANGED <<giving, pend, lock, slot, world, record, view>>

\* launch: the tracker is told before tools/send.py is started.
Launch(c) ==
  /\ Is(c, "launch", "asked")
  /\ tracker' = "starting"
  /\ report' = "unknown"
  /\ \/ /\ loader = "listens"
        /\ queue' = Append(queue, Script(c))
        /\ Set(c, "sending") /\ UNCHANGED <<heard, seen>>
     \/ Over(c) /\ UNCHANGED queue
  /\ UNCHANGED <<jobs, lock, slot, loader, net, disk, record>>

\* send.py ends: the image was taken, or nobody took it in time.
LaunchEnds(c) ==
  /\ Is(c, "launch", "sending")
  /\ Over(c)
  /\ cancelled' = cancelled \ {c}
  /\ \/ /\ queue # <<>> /\ Head(queue).call = c /\ loader = "listens"
        /\ loader' = "emulates"
        /\ net' = net \cup {Line(c, "boot")}
     \/ UNCHANGED <<loader, net>>
  /\ UNCHANGED <<giving, pend, lock, slot, queue, disk, record, view>>
-----------------------------------------------------------------------------
(* The console and its log. *)

\* What a script says: a check opens the directory and lists the game, a
\* removal what became of it, a receiver its port.  The closing line, which
\* only ends the wait, stands for a script with nothing else to say.
Says(kind) ==
  CASE kind = "verify"  -> {"dir"} \cup {w \in {"present"} : disk}
    [] kind = "delete"  -> {IF disk THEN "removed" ELSE "failed"}
    [] kind = "cleanup" -> {"done"}
    [] kind = "batch"   -> {"port"}
    [] kind = "launch"  -> {}

\* A receiver and a payload's script stay until the call is over.
Stays(s) == s.kind \in {"batch", "launch"} /\ Live(s.call)

\* The script at the head runs.
Run == LET s == Head(queue) IN
  /\ queue # <<>> /\ loader = "listens"
  /\ net' = net \cup {Line(s.call, w) : w \in Says(s.kind)}
  /\ IF Stays(s)
     THEN UNCHANGED <<queue, disk, seen>>
     ELSE /\ disk' = (disk /\ s.kind # "delete")
          /\ Look(disk')
          /\ queue' = Tail(queue)
  /\ UNCHANGED <<call, jobs, waits, loader, record, view>>

\* The emulator returns; scripts sent since are lost with the connections,
\* and the loader listens again when the player has armed it.
Return == /\ loader = "emulates"
          /\ loader' = "idle" /\ queue' = <<>>
          /\ net' = net \cup {Line(Head(queue).call, "exit")}
          /\ UNCHANGED <<call, jobs, waits, disk, record, view, seen>>

Arm == /\ loader = "idle" /\ loader' = "listens"
       /\ UNCHANGED <<call, jobs, waits, queue, net, disk, record, view,
                      seen>>

\* Mutant: the token is not looked at (line 2543).
HearAny(l) ==
  /\ l \in net /\ net' = net \ {l}
  /\ heard' = [c \in Calls |-> IF c = slot THEN heard[c] \cup {l.what} ELSE heard[c]]
  /\ tracker' = CASE l.what = "boot" -> "running"
                  [] l.what = "exit" -> "exited"
                  [] OTHER           -> tracker
  /\ UNCHANGED <<call, jobs, lock, slot, queue, loader, disk, record, report,
                 seen>>

\* _log_line: the line goes to the call in the slot if it bears its token,
\* and to the tracker, which knows no token.
Hear(l) ==
  /\ l \in net /\ net' = net \ {l}
  /\ heard' = IF l.call = slot THEN [heard EXCEPT ![slot] = @ \cup {l.what}]
                               ELSE heard
  /\ tracker' = CASE l.what = "boot" -> "running"
                  [] l.what = "exit" -> "exited"
                  [] OTHER           -> tracker
  /\ UNCHANGED <<call, jobs, lock, slot, queue, loader, disk, record, report,
                 seen>>

\* The log is UDP.
Lose(l) == /\ l \in net /\ net' = net \ {l}
           /\ UNCHANGED <<call, jobs, waits, queue, loader, disk, record,
                          view, seen>>
-----------------------------------------------------------------------------
Sends(c)  == \/ Refused(c) \/ Take(c) \/ Send(c) \/ Collect(c) \/ Commit(c)
             \/ PortKnown(c) \/ Opened(c)
Job(c)    == \/ Skip(c) \/ FileSent(c) \/ StepEnds(c) \/ JobEnds(c)
             \/ Launch(c) \/ LaunchEnds(c)
Step(c)   == Sends(c) \/ Job(c)

Next == \/ \E c \in Calls : Step(c) \/ Recheck(c) \/ Cancel(c)
        \/ \E c \in Calls, t \in Threads : Test(c, t) \/ Wipe(c, t)
        \/ \E c \in Calls, k \in Kinds : Ask(c, k)
        \/ Run \/ Return \/ Arm
        \/ \E l \in net : Hear(l) \/ Lose(l)

\* Threads and the loader go on, and a line does not stay under way.  The
\* operator who is refused presses Send again, and neither the network nor a
\* batch that clears another's slot takes every answer: of the scripts that are
\* taken, run, heard or answered again and again, some are in time.
AtRest   == queue = <<>> /\ \A c \in Calls : ~Live(c)
Arrive(c) == \E l \in net : l.call = c /\ (Hear(l) \/ Lose(l))
Taken    == \E c \in Calls : Send(c) /\ Waiting(c)'
Ran      == Run /\ Head(queue).call = slot
Heard    == \E l \in net : Hear(l) /\ l.call = slot
Answered == \E c \in Calls : Collect(c) /\ heard[c] # {}

Fairness == /\ \A c \in Calls : WF_vars(Step(c))
            /\ \A c \in Calls, t \in Threads : WF_vars(Test(c, t) \/ Wipe(c, t))
            /\ WF_vars(Run)
            /\ \A c \in Calls : WF_vars(Arrive(c))
            /\ SF_vars(AtRest /\ \E c \in Calls : Recheck(c))
            /\ SF_vars(Taken) /\ SF_vars(Ran)
            /\ SF_vars(Heard) /\ SF_vars(Answered)

Spec == Init /\ [][Next]_vars /\ Fairness
-----------------------------------------------------------------------------
(* Properties. *)

States == {"asked", "taken", "wait", "heard", "sending", "closing", "failing",
           "ending", "over"}
Words  == {"dir", "present", "removed", "failed", "done",
           "port", "boot", "exit"}

\* Every variable holds a value the code can give it.
TypeOK == /\ call \in [Calls -> [kind : Kinds, st : States]]
          /\ cancelled \subseteq Calls /\ pend \subseteq Calls
          /\ giving \in [Calls -> [Threads -> {"idle", "test", "clear"}]]
          /\ lock \in Calls \cup {None} /\ slot \in Calls \cup {None}
          /\ heard \in [Calls -> SUBSET Words]
          /\ queue \in Seq([call : Calls, kind : Kinds])
          /\ loader \in {"listens", "emulates", "idle"}
          /\ net \subseteq [call : Calls, what : Words]
          /\ disk \in BOOLEAN /\ record \in BOOLEAN
          /\ report \in {"unknown", "present", "absent"}
          /\ tracker \in {"none", "starting", "running", "exited"}
          /\ seen \in [Calls -> SUBSET BOOLEAN]

\* A thread stands between its test of the slot and its clearing.
Clearing == \E c \in Calls, t \in Threads : giving[c][t] = "clear"

\* One slot serves checks and batches that overlap.  A call that holds the
\* lock and has its slot, with no batch between its test and its clearing,
\* keeps it until it gives the lock back, whatever batches end or are
\* cancelled meanwhile; and the slot is never left to a call that is over, or
\* upload_gate could never look again.
SlotIsKept ==
  [][/\ lock # None /\ slot = lock /\ lock' = lock /\ ~Clearing =>
          slot' = slot /\ ~Clearing'
     /\ slot' # None => Live(slot)']_vars

\* verify_pending is "the check in flight" (line 2110): a check, a removal or a
\* clean-up that waits has the slot its answers come through.  The code does
\* not keep this, and no run claims it; as an invariant of Checks.cfg it fails
\* after seven steps, with a Wipe by a batch whose Test came before the Take.
SlotIsTheCheckInFlight ==
  \A c \in Calls : Waiting(c) /\ ~Batch(c) => slot = c

\* A call that has its answers makes use of them.
Commits(c) == call[c].st = "heard" /\ ~Live(c)'

\* The answers are believed for what they say: the game is reported present
\* only if it was there, and its record forgotten only if it was not, at some
\* moment since the script that is believed was sent, however late the lines
\* of other scripts come and whatever runs between its answers and their use.
AnswersAreTrue ==
  [][/\ report' = "present" /\ report # "present" =>
          \E c \in Calls : Commits(c) /\ TRUE \in seen[c]
     /\ record /\ ~record' =>
          \E c \in Calls : Commits(c) /\ FALSE \in seen[c]]_vars

\* The console can be reached again: when the tracker says that the emulator
\* runs while the loader listens, the sends that are refused find it out, if
\* the launcher is at rest now and then, unless a job is at it or the emulator
\* does start.
GateOpens ==
  []<>AtRest => (Active /\ loader = "listens" ~>
                   ~Active \/ Busy \/ loader = "emulates")
=============================================================================
