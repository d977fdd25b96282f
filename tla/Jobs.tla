-------------------------------- MODULE Jobs --------------------------------
(***************************************************************************)
(* The PC launcher sending files to the console.  A request of the web     *)
(* page makes a job; a thread of its own (JobRunner._run) takes its rows   *)
(* in order: every file goes over one connection to one receiver script    *)
(* (BATCH_LUA) the loader runs, and the last row may start the emulator.   *)
(* Requests, cancellations, the job threads, the receiver and the network  *)
(* interleave freely; a cancelled job no longer counts as running although *)
(* its thread does, so a second job may overlap it.                        *)
(*                                                                         *)
(* A file in the ROM folder is a version, its bytes Size[version] chunks.  *)
(* Jobs are numbered in the order they are asked for.                      *)
(***************************************************************************)
EXTENDS Naturals, Sequences

CONSTANTS MaxJobs,     \* the jobs that may be asked for
          Roms,        \* file names, the same in the folder and on the console
          Last,        \* [Roms -> the contents a file goes through, 1 and up]
          Size,        \* [Versions -> chunks of that content]
          Requests,    \* [Jobs -> what may be asked: files, and a launch]
          None         \* no job, no file

Jobs     == 1..MaxJobs
Versions == UNION {1..Last[f] : f \in Roms}

ASSUME JobsAssumption ==
  /\ MaxJobs \in Nat
  /\ None \notin Jobs \cup Roms
  /\ Last \in [Roms -> Nat \ {0}]
  /\ Size \in [Versions -> Nat \ {0}]
  /\ Requests \in [Jobs -> SUBSET [files : Seq(Roms), launch : BOOLEAN]]

VARIABLES
  current,    \* JobRunner.current
  req,        \* what each job was asked: files, their stat, launch
  pc,         \* where the job's thread is
  rows,       \* Job.progress[i].state
  cancelled,  \* Job.cancelled
  batch,      \* BatchUpload: opened, closed, sock
  out,        \* send_file's locals and the row's return code
  inbox,      \* replies on its connection the job has not read
  queue,      \* scripts the loader has taken; the first one runs
  rx,         \* the script that runs
  disk,       \* /temp0 on the console: chunks by file, <<>> when absent
  landed,     \* history: the files the receiver closed whole
  local,      \* the ROM folder: version by file
  record      \* Config uploads: version recorded by file, 0 for none

request == <<current, req>>
thread  == <<pc, rows, cancelled, out>>
link    == <<batch, inbox>>
console == <<queue, rx, disk, landed>>
vars    == <<request, thread, link, console, local, record>>

Image(v) == [k \in 1..Size[v] |-> [kind |-> "bytes", v |-> v]]
Idle == [st |-> "off", job |-> None, in |-> <<>>,
         row |-> 0, file |-> None, size |-> 0]

Files(j)  == req[j].files
NRows(j)  == Len(rows[j])
Now(j)    == out[j].row
Exists(j) == pc[j] # "none"

\* JobRunner.busy: a cancelled job does not count, nor does one that ended.
Busy == current # None /\ pc[current] # "over" /\ ~cancelled[current]

Goto(j, l) == pc' = [pc EXCEPT ![j] = l]

\* The batch is over and its connection, with what it still held, is gone.
ShutTo(j, s) == /\ batch' = [batch EXCEPT ![j].closed = TRUE, ![j].sock = s]
                /\ inbox' = IF s = "none" THEN [inbox EXCEPT ![j] = <<>>]
                             ELSE inbox
Shut(j) == ShutTo(j, "none")

Init == /\ current = None
        /\ req = [j \in Jobs |->
                    [files |-> <<>>, stat |-> <<>>, launch |-> FALSE]]
        /\ pc = [j \in Jobs |-> "none"]
        /\ rows = [j \in Jobs |-> <<>>]
        /\ cancelled = [j \in Jobs |-> FALSE]
        /\ batch = [j \in Jobs |->
                      [opened |-> FALSE, closed |-> FALSE, sock |-> "none"]]
        /\ out = [j \in Jobs |-> [row |-> 0, ok |-> TRUE, size |-> 0]]
        /\ inbox = [j \in Jobs |-> <<>>]
        /\ queue = <<>> /\ rx = Idle
        /\ disk = [f \in Roms |-> <<>>]
        /\ landed = {}
        /\ local = [f \in Roms |-> 1]
        /\ record = [f \in Roms |-> 0]
-----------------------------------------------------------------------------
(* The web page. *)

\* upload, upload_all, upload_some, launch: the files left to send or the ones
\* named, sent before or not; their size and time are taken when the job is
\* made.
Start(j, files, launch) ==
  /\ pc[j] = "none" /\ (j > 1 => Exists(j - 1))
  /\ ~Busy
  /\ files # <<>> \/ launch
  /\ current' = j
  /\ req' = [req EXCEPT ![j] = [files |-> files, launch |-> launch,
                                stat |-> [i \in DOMAIN files |->
                                            local[files[i]]]]]
  /\ pc' = [pc EXCEPT ![j] = "top"]
  /\ rows' = [rows EXCEPT ![j] =
                [i \in 1..(Len(files) + IF launch THEN 1 ELSE 0) |-> "pending"]]
  /\ out' = [out EXCEPT ![j].row = 1]
  /\ UNCHANGED <<cancelled, link, console, local, record>>

\* JobRunner.cancel: needs a process or a batch; BatchUpload.abort drops the
\* connection the batch object knows of, not one that is still being opened,
\* and a process ends with its row not done.
Cancel(j) ==
  /\ current = j /\ pc[j] \notin {"none", "over"}
  /\ Files(j) # <<>> \/ pc[j] \in {"proc", "row", "book", "end"}
  /\ cancelled' = [cancelled EXCEPT ![j] = TRUE]
  /\ ShutTo(j, IF batch[j].sock = "set" THEN "none" ELSE batch[j].sock)
  /\ IF pc[j] = "proc"
     THEN Goto(j, "row") /\ out' = [out EXCEPT ![j].ok = FALSE]
     ELSE UNCHANGED <<pc, out>>
  /\ UNCHANGED <<request, rows, console, local, record>>

\* receive_rom: a file dropped on the page replaces the one in the folder.
Replace(f) == /\ local[f] < Last[f]
              /\ local' = [local EXCEPT ![f] = @ + 1]
              /\ UNCHANGED <<request, thread, link, console, record>>
-----------------------------------------------------------------------------
(* The job's thread. *)

\* A socket call of the thread raised, or its time ran out: a connection not
\* yet the batch's is closed, and run_step drops the batch's unless the job
\* was cancelled.
Fail(j) == /\ Goto(j, "row")
           /\ out' = [out EXCEPT ![j].ok = FALSE]
           /\ IF cancelled[j] /\ batch[j].sock = "set" THEN UNCHANGED link
              ELSE Shut(j)
           /\ UNCHANGED <<rows, cancelled>>

\* The head of the loop in _run.
Top(j) ==
  /\ pc[j] = "top"
  /\ IF cancelled[j] \/ Now(j) > NRows(j)
     THEN /\ Goto(j, "end")
          /\ UNCHANGED rows
     ELSE /\ rows' = [rows EXCEPT ![j][Now(j)] = "running"]
          /\ Goto(j, IF Now(j) > Len(Files(j)) THEN "tool"
                      ELSE IF batch[j].opened THEN "header" ELSE "open")
  /\ UNCHANGED <<request, cancelled, out, link, console, local, record>>

\* The loader listens unless the emulator runs.
LoaderTakes(s) == /\ rx.st \notin {"playing", "foreign"}
                  /\ queue' = Append(queue, s)

\* BatchUpload.open: one receiver script for the batch, sent under
\* verify_lock, which is held while its port is waited for.
Open(j) ==
  /\ pc[j] = "open"
  /\ \/ /\ \A k \in Jobs : pc[k] # "port"
        /\ LoaderTakes([kind |-> "receiver", job |-> j])
        /\ Goto(j, "port")
        /\ batch' = [batch EXCEPT ![j].opened = TRUE]
        /\ UNCHANGED <<rows, cancelled, out, inbox>>
     \/ /\ Goto(j, "row")
        /\ out' = [out EXCEPT ![j].ok = FALSE]
        /\ Shut(j)
        /\ UNCHANGED <<rows, cancelled, queue>>
  /\ UNCHANGED <<request, rx, disk, landed, local, record>>

Linked(j) == rx.job = j /\ rx.st \in {"header", "body"}

Say(m) == rx' = [rx EXCEPT !.in = Append(@, m)]

\* The port line came, or the wait for it ended.  send_file reads the size;
\* _connect_and_open uses the connection again or walks the ports, past those
\* that refuse, to whichever script is listening: a 'K' is taken for the
\* receiver's, also when it is the emulator's loader waiting for its image that
\* says it.  The row fails when no port is left.
Header(j) ==
  LET f == Files(j)[Now(j)]
      size == IF pc[j] = "walk" THEN out[j].size ELSE Size[local[f]]
      m == [kind |-> "file", row |-> Now(j), file |-> f, size |-> size]
  IN
  /\ pc[j] \in {"port", "header", "walk"}
  /\ \/ /\ \/ batch[j].sock = "set" /\ Linked(j) /\ Say(m) /\ UNCHANGED batch
              /\ UNCHANGED inbox
           \/ /\ batch[j].sock = "none"
              /\ batch' = [batch EXCEPT ![j].sock = "local"]
              /\ \/ /\ rx.st = "accept"
                    /\ rx' = [rx EXCEPT !.st = "header", !.job = j,
                                        !.in = <<m>>]
                    /\ UNCHANGED inbox
                 \/ /\ rx.st = "blob"
                    /\ rx' = [rx EXCEPT !.st = "foreign", !.job = j]
                    /\ inbox' = [inbox EXCEPT ![j] = <<"K">>]
        /\ Goto(j, "ack")
        /\ out' = [out EXCEPT ![j].size = size]
        /\ UNCHANGED <<rows, cancelled>>
     \/ Fail(j) /\ UNCHANGED rx
  /\ UNCHANGED <<request, queue, disk, landed, local, record>>

\* A port that took the header and did not answer in time: its connection is
\* closed, and the later ports are given the same header.
Walk(j) ==
  /\ pc[j] = "ack" /\ batch[j].sock = "local"
  /\ batch' = [batch EXCEPT ![j].sock = "none"]
  /\ inbox' = [inbox EXCEPT ![j] = <<>>]
  /\ Goto(j, "walk")
  /\ UNCHANGED <<request, rows, cancelled, out, console, local, record>>

\* The connection the thread is using was closed under it by a cancel: the
\* call in progress fails, or the next one finds no socket and the thread
\* ends on an exception run_step does not catch.
Cut(j) == batch[j].sock = "none"
Die(j) == Goto(j, "dead") /\ UNCHANGED <<rows, cancelled, out, link>>

\* 'K': the file is opened and its bytes go out; the first reply also gives
\* the batch the connection.  What has left the PC when the connection goes is
\* up to the receiver's side (RxBody).
Ack(j) ==
  /\ pc[j] = "ack"
  /\ \/ /\ ~Cut(j) /\ inbox[j] # <<>> /\ Head(inbox[j]) = "K"
        /\ inbox' = [inbox EXCEPT ![j] = Tail(@)]
        /\ batch' = [batch EXCEPT ![j].sock = "set"]
        /\ rx' = IF Linked(j)
                 THEN [rx EXCEPT !.in = @ \o Image(local[Files(j)[Now(j)]])]
                 ELSE rx
        /\ Goto(j, "wait")
        /\ UNCHANGED <<rows, cancelled, out>>
     \/ Fail(j) /\ UNCHANGED rx
     \/ Cut(j) /\ Die(j) /\ UNCHANGED rx
  /\ UNCHANGED <<request, queue, disk, landed, local, record>>

\* BatchUpload.close: says the batch is over, once.
Close(j) ==
  IF batch[j].closed THEN UNCHANGED <<link, rx>>
  ELSE /\ Shut(j)
       /\ IF batch[j].sock = "set" /\ Linked(j) THEN Say([kind |-> "end"])
                                                ELSE UNCHANGED rx

\* Mutant: the reply behind the last byte is not waited for (line 1082).
WaitUnread(j) ==
  /\ pc[j] = "wait"
  /\ \/ /\ ~Cut(j)
        /\ IF Now(j) = Len(Files(j)) /\ ~batch[j].closed THEN Close(j)
           ELSE UNCHANGED <<link, rx>>
        /\ out' = [out EXCEPT ![j].ok = TRUE]
        /\ Goto(j, "row")
        /\ UNCHANGED <<rows, cancelled>>
     \/ Fail(j) /\ UNCHANGED rx
     \/ Cut(j) /\ Die(j) /\ UNCHANGED rx
  /\ UNCHANGED <<request, queue, disk, landed, local, record>>

\* 'D' after the last byte; behind the last file the batch is closed, so
\* that the loader is free for the launch.
Wait(j) ==
  /\ pc[j] = "wait"
  /\ \/ /\ ~Cut(j) /\ inbox[j] # <<>> /\ Head(inbox[j]) = "D"
        /\ IF Now(j) = Len(Files(j)) /\ ~batch[j].closed THEN Close(j)
           ELSE /\ inbox' = [inbox EXCEPT ![j] = Tail(@)]
                /\ UNCHANGED <<batch, rx>>
        /\ out' = [out EXCEPT ![j].ok = TRUE]
        /\ Goto(j, "row")
        /\ UNCHANGED <<rows, cancelled>>
     \/ Fail(j) /\ UNCHANGED rx
     \/ Cut(j) /\ Die(j) /\ UNCHANGED rx
  /\ UNCHANGED <<request, queue, disk, landed, local, record>>

\* tools/send.py: its script goes to the loader, and the image to the script
\* once that one listens.  A cancel ends the process.
Tool(j) ==
  /\ pc[j] = "tool"
  /\ \/ /\ LoaderTakes([kind |-> "payload", job |-> j])
        /\ Goto(j, "proc")
        /\ UNCHANGED out
     \/ /\ Goto(j, "row")
        /\ out' = [out EXCEPT ![j].ok = FALSE]
        /\ UNCHANGED queue
  /\ UNCHANGED <<request, rows, cancelled, link, rx, disk, landed, local,
                 record>>

Proc(j) ==
  /\ pc[j] = "proc"
  /\ \/ /\ rx.st = "blob"
        /\ rx' = [rx EXCEPT !.st = "playing", !.job = j]
        /\ landed' = landed \cup {[job |-> j, row |-> Now(j), file |-> None,
                                   image |-> <<>>]}
        /\ out' = [out EXCEPT ![j].ok = TRUE]
     \/ out' = [out EXCEPT ![j].ok = FALSE] /\ UNCHANGED <<rx, landed>>
  /\ Goto(j, "row")
  /\ UNCHANGED <<request, rows, cancelled, link, queue, disk, local, record>>

\* The row's outcome is shown...
Row(j) == /\ pc[j] = "row"
          /\ rows' = [rows EXCEPT ![j][Now(j)] =
                        IF cancelled[j] THEN "cancelled"
                        ELSE IF out[j].ok THEN "done" ELSE "failed"]
          /\ Goto(j, "book")
          /\ UNCHANGED <<request, cancelled, out, link, console, local, record>>

\* Mutant: the stat is taken when the row is booked (line 2872).
BookNow(j) ==
  LET i == Now(j)
      f == Files(j)[i]
  IN
  /\ pc[j] = "book"
  /\ IF out[j].ok /\ ~cancelled[j]
     THEN /\ IF i <= Len(Files(j))
             THEN record' = [record EXCEPT ![f] = local[f]]
             ELSE UNCHANGED record
          /\ out' = [out EXCEPT ![j].row = i + 1]
          /\ Goto(j, "top")
          /\ UNCHANGED rows
     ELSE /\ rows' = [rows EXCEPT ![j] = [k \in 1..NRows(j) |->
                        IF k <= i THEN rows[j][k]
                        ELSE IF cancelled[j] THEN "cancelled" ELSE "skipped"]]
          /\ out' = [out EXCEPT ![j].ok = FALSE]
          /\ Goto(j, "end")
          /\ UNCHANGED record
  /\ UNCHANGED <<request, cancelled, link, console, local>>

\* Mutant: the rows behind one that failed stay as they are (line 1349).
BookOne(j) ==
  LET i == Now(j)
      f == Files(j)[i]
  IN
  /\ pc[j] = "book"
  /\ IF out[j].ok /\ ~cancelled[j]
     THEN /\ IF i <= Len(Files(j))
             THEN record' = [record EXCEPT ![f] = req[j].stat[i]]
             ELSE UNCHANGED record
          /\ out' = [out EXCEPT ![j].row = i + 1]
          /\ Goto(j, "top")
          /\ UNCHANGED rows
     ELSE /\ out' = [out EXCEPT ![j].ok = FALSE]
          /\ Goto(j, "end")
          /\ UNCHANGED <<record, rows>>
  /\ UNCHANGED <<request, cancelled, link, console, local>>

\* ... and a file that was sent is recorded with the stat it was asked with.
Book(j) ==
  LET i == Now(j)
      f == Files(j)[i]
  IN
  /\ pc[j] = "book"
  /\ IF out[j].ok /\ ~cancelled[j]
     THEN /\ IF i <= Len(Files(j))
             THEN record' = [record EXCEPT ![f] = req[j].stat[i]]
             ELSE UNCHANGED record
          /\ out' = [out EXCEPT ![j].row = i + 1]
          /\ Goto(j, "top")
          /\ UNCHANGED rows
     ELSE /\ rows' = [rows EXCEPT ![j] = [k \in 1..NRows(j) |->
                        IF k <= i THEN rows[j][k]
                        ELSE IF cancelled[j] THEN "cancelled" ELSE "skipped"]]
          /\ out' = [out EXCEPT ![j].ok = FALSE]
          /\ Goto(j, "end")
          /\ UNCHANGED record
  /\ UNCHANGED <<request, cancelled, link, console, local>>

\* Mutant: a job that was cancelled closes, and does not abort (line 1356).
EndClose(j) ==
  /\ pc[j] = "end"
  /\ Close(j)
  /\ Goto(j, "over")
  /\ UNCHANGED <<request, rows, cancelled, out, queue, disk, landed, local,
                 record>>

\* The end of _run: the connection goes, by close or by abort.
End(j) ==
  /\ pc[j] = "end"
  /\ IF out[j].ok /\ ~cancelled[j]
     THEN Close(j)
     ELSE Shut(j) /\ UNCHANGED rx
  /\ Goto(j, "over")
  /\ UNCHANGED <<request, rows, cancelled, out, queue, disk, landed, local,
                 record>>
-----------------------------------------------------------------------------
(* The loader and the scripts it runs, one at a time. *)

Begin == /\ queue # <<>> /\ rx.st = "off"
         /\ rx' = [Idle EXCEPT !.st = IF Head(queue).kind = "receiver"
                                      THEN "accept" ELSE "blob"]
         /\ UNCHANGED <<request, thread, link, queue, disk, landed, local,
                        record>>

Finish == queue' = Tail(queue) /\ rx' = Idle

\* accept() and the image are waited for 30 s and no longer.
NobodyCame == /\ rx.st \in {"accept", "blob"}
              /\ Finish
              /\ UNCHANGED <<request, thread, link, disk, landed, local, record>>

Answer(c) == inbox' = IF batch[rx.job].sock = "none" THEN inbox
                      ELSE [inbox EXCEPT ![rx.job] = Append(@, c)]
\* What the peer sent and the script has not read, or the end of the stream.
Eof == rx.in = <<>> /\ batch[rx.job].sock = "none"

RxHeader ==
  /\ rx.st = "header"
  /\ \/ /\ rx.in # <<>> /\ Head(rx.in).kind = "file"
        /\ LET m == Head(rx.in) IN
           \/ /\ disk' = [disk EXCEPT ![m.file] = <<>>]
              /\ Answer("K")
              /\ rx' = [rx EXCEPT !.st = "body", !.in = Tail(@), !.row = m.row,
                                  !.file = m.file, !.size = m.size]
              /\ UNCHANGED queue
           \/ Answer("E") /\ Finish /\ UNCHANGED disk
     \/ /\ Eof \/ (rx.in # <<>> /\ Head(rx.in).kind # "file")
        /\ Finish
        /\ UNCHANGED <<disk, inbox>>
  /\ UNCHANGED <<request, thread, batch, landed, local, record>>

RxBody ==
  LET got == Append(disk[rx.file], Head(rx.in))
      whole == Len(got) = rx.size
  IN
  /\ rx.st = "body"
  /\ \/ /\ rx.in # <<>>
        /\ disk' = [disk EXCEPT ![rx.file] = got]
        /\ rx' = [rx EXCEPT !.in = Tail(@),
                            !.st = IF whole THEN "header" ELSE @]
        /\ IF whole
           THEN /\ Answer("D")
                /\ landed' = landed \cup {[job |-> rx.job, row |-> rx.row,
                                           file |-> rx.file, image |-> got]}
           ELSE UNCHANGED <<inbox, landed>>
        /\ UNCHANGED queue
     \/ \* the connection ended, or the disk took no more
        /\ Eof \/ rx.in # <<>>
        /\ Finish
        /\ UNCHANGED <<disk, inbox, landed>>
  /\ UNCHANGED <<request, thread, batch, local, record>>

\* The operator leaves the emulator and arms the loader again: scripts that
\* were waiting are gone.
Rearm == /\ rx.st \in {"playing", "foreign"}
         /\ queue' = <<>> /\ rx' = Idle
         /\ UNCHANGED <<request, thread, link, disk, landed, local, record>>
-----------------------------------------------------------------------------
JobStep(j) == \/ Top(j) \/ Open(j) \/ Header(j) \/ Walk(j) \/ Ack(j)
              \/ Wait(j) \/ Tool(j) \/ Proc(j) \/ Row(j) \/ Book(j) \/ End(j)

Script == Begin \/ NobodyCame \/ RxHeader \/ RxBody

Next == \/ \E j \in Jobs : JobStep(j)
        \/ \E j \in Jobs : \E r \in Requests[j] : Start(j, r.files, r.launch)
        \/ \E j \in Jobs : Cancel(j)
        \/ \E f \in Roms : Replace(f)
        \/ Script \/ Rearm

\* The threads are scheduled and every socket call has a time limit; the
\* console runs its script.  Nobody has to press Cancel or leave the game.
Fairness == WF_vars(Script) /\ \A j \in Jobs : WF_vars(JobStep(j))

Spec == Init /\ [][Next]_vars /\ Fairness
-----------------------------------------------------------------------------
(* Properties. *)

\* What the skip rule rests on: when the record of a file matches the file
\* in the folder, the console has once closed exactly that content whole,
\* although the file may be replaced at any moment of the job.
RecordMeansWhole ==
  \A f \in Roms : record[f] = local[f] =>
     \E x \in landed : x.file = f /\ x.image = Image(local[f])

\* A row is shown done only for a file the console closed whole, and the
\* emulator starts only behind the files of its job.
Promise == INSTANCE Delivery WITH
  RowCounts <- {Len(r.files) + l : r \in UNION {Requests[j] : j \in Jobs},
                                   l \in {0, 1}},
  written   <- {<<x.job, x.row>> : x \in landed},
  playing   <- IF rx.st = "playing" THEN {rx.job} ELSE {}
KeepsPromise == Promise!Spec

\* The receiver always gives the loader back: whatever is cancelled or cut, no
\* script of a batch holds the loader for ever.  Its read (lines 368, 403) has
\* no time limit, so this rests on the console seeing that a connection was cut.
LoaderComesBack == rx.st \in {"accept", "header", "body"} ~> rx.st = "off"

\* The launcher refuses nearly everything while a job is busy, so a job must
\* stop being it: it is cancelled, or it ends with every row closed.
JobSettles ==
  Busy ~> (/\ ~Busy /\ current # None
           /\ \/ cancelled[current]
              \/ \A i \in 1..NRows(current) :
                    rows[current][i] \notin {"pending", "running"})
=============================================================================
