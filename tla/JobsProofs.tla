----------------------------- MODULE JobsProofs -----------------------------
(***************************************************************************)
(* That the launcher keeps its promise, for any jobs, files, contents and  *)
(* sizes, whatever is cancelled, cut, replaced or started beside it.       *)
(*                                                                         *)
(* A row is shown done on one word, 'D', that does not say what it is      *)
(* about.  The invariant says why it must be about this row: what is under *)
(* way on a connection is one row's at a time (Talk), and a connection     *)
(* that was given up is never spoken on again.  Order says that the rows   *)
(* in front of the current one are done and those behind it untouched,     *)
(* Receiver that the console only has files of rows that were begun,       *)
(* Outcome that a row that came back well was closed whole.                *)
(***************************************************************************)
EXTENDS Jobs, TLAPS

Closed   == {"cancelled", "failed", "skipped", "done"}
Stages   == {"none", "top", "open", "port", "header", "walk", "ack", "wait",
             "tool", "proc", "row", "book", "end", "over", "dead"}
Messages == [kind : {"bytes"}, v : Versions] \cup [kind : {"end"}]
            \cup [kind : {"file"}, row : Nat, file : Roms, size : Nat]

RowStates == {"pending", "running"} \cup Closed
Request   == [files : Seq(Roms), stat : Seq(Nat), launch : BOOLEAN]
Upload    == [opened : BOOLEAN, closed : BOOLEAN,
              sock : {"none", "local", "set"}]
Running   == [st : {"off", "accept", "header", "body", "blob", "playing",
                    "foreign"},
              job : Jobs \cup {None}, in : Seq(Messages), row : Nat,
              file : Roms \cup {None}, size : Nat]

TypedReq  == req \in [Jobs -> Request]
TypedPc   == pc \in [Jobs -> Stages]
TypedRows == rows \in [Jobs -> Seq(RowStates)]
TypedOut  == /\ cancelled \in [Jobs -> BOOLEAN]
             /\ out \in [Jobs -> [row : Nat, ok : BOOLEAN, size : Nat]]
TypedLink == /\ batch \in [Jobs -> Upload]
             /\ inbox \in [Jobs -> Seq({"K", "D", "E"})]
TypedRx   == rx \in Running
TypedDisk == disk \in [Roms -> Seq(Messages)]
TypedRoms == /\ local \in [Roms -> Nat] /\ record \in [Roms -> Nat]
             /\ \A f \in Roms : local[f] \in 1..Last[f]

Typed == /\ TypedReq /\ TypedPc /\ TypedRows /\ TypedOut /\ TypedLink
         /\ TypedRx /\ TypedDisk /\ TypedRoms

\* The rows of a job are its files, and its launch behind them; what is
\* recorded of a file later is no newer than the file is.
Asked(j) ==
  /\ Len(req[j].stat) = Len(Files(j))
  /\ \A i \in 1..Len(Files(j)) : req[j].stat[i] <= local[Files(j)[i]]
  /\ NRows(j) = IF pc[j] # "none" /\ req[j].launch THEN Len(Files(j)) + 1
                                                   ELSE Len(Files(j))

Sending == {"open", "port", "header", "walk", "ack", "wait"}
OnRow   == Sending \cup {"tool", "proc", "row", "dead"}

Order(j) ==
  /\ pc[j] = "none" => NRows(j) = 0
  /\ pc[j] # "none" => Now(j) >= 1
  /\ \A k \in 1..NRows(j) :
       /\ k < Now(j) => rows[j][k] = "done"
       /\ k > Now(j) /\ pc[j] \notin {"end", "over"} => rows[j][k] = "pending"
  /\ pc[j] = "top" /\ Now(j) <= NRows(j) => rows[j][Now(j)] = "pending"
  /\ pc[j] \in OnRow => Now(j) <= NRows(j) /\ rows[j][Now(j)] = "running"
  /\ pc[j] = "book" => Now(j) <= NRows(j) /\ rows[j][Now(j)] \in Closed
  /\ pc[j] = "book" /\ ~cancelled[j] =>
       rows[j][Now(j)] = IF out[j].ok THEN "done" ELSE "failed"
  /\ pc[j] \in Sending => Now(j) <= Len(Files(j))
  /\ pc[j] \in {"tool", "proc"} => Now(j) > Len(Files(j))
  /\ ~out[j].ok => pc[j] \in {"row", "book", "end", "over"}

\* A row that was begun behind rows that are done.
Reached(j, i) == /\ i \in 1..NRows(j) /\ rows[j][i] # "pending"
                 /\ \A k \in 1..(i - 1) : rows[j][k] = "done"

\* The file of the current row is still what it was when the job was asked for.
Same(j) == req[j].stat[Now(j)] = local[Files(j)[Now(j)]]

\* The console closed the current row's file, and if Same, exactly as it is.
Delivered(j) ==
  \E x \in landed :
    /\ x.job = j /\ x.row = Now(j)
    /\ Now(j) <= Len(Files(j)) =>
         /\ x.file = Files(j)[Now(j)]
         /\ Same(j) => x.image = Image(local[x.file])

IsFile(m) == m.kind = "file"
NoFile    == \A k \in 1..Len(rx.in) : ~IsFile(rx.in[k])

\* The header of the current row is the last thing under way.
HeaderSent(j) ==
  /\ rx.st = "header"
  /\ \A k \in 1..Len(rx.in) : IsFile(rx.in[k]) =>
       /\ k = Len(rx.in)
       /\ rx.in[k].row = Now(j) /\ rx.in[k].file = Files(j)[Now(j)]
       /\ Same(j) => rx.in[k].size = Size[local[rx.in[k].file]]

\* The receiver has the current row's file open...
RowOpen(j) ==
  /\ rx.st = "body" /\ rx.row = Now(j) /\ rx.file = Files(j)[Now(j)]
  /\ Same(j) => rx.size = Size[local[rx.file]]
  /\ NoFile

\* ... and what it wrote and what is under way are the file.
BytesSent(j) ==
  RowOpen(j) /\ (Same(j) => disk[rx.file] \o rx.in = Image(local[rx.file]))

Quiet(j) == inbox[j] = <<>> /\ (Linked(j) => rx.st = "header" /\ NoFile)

\* What is under way on the connection of a job, by where its thread is.
AckTalk(j) ==
  \/ inbox[j] = <<>> /\ (Linked(j) => HeaderSent(j))
  \/ inbox[j] = <<"K">> /\ (Linked(j) =>
       RowOpen(j) /\ rx.in = <<>> /\ disk[rx.file] = <<>>)
  \/ inbox[j] = <<"E">> /\ ~Linked(j)

WaitTalk(j) ==
  \/ inbox[j] = <<>> /\ (Linked(j) => BytesSent(j))
  \/ /\ inbox[j] = <<"D">> /\ Delivered(j)
     /\ Linked(j) => rx.st = "header" /\ NoFile

Talk(j) ==
  IF batch[j].sock = "none" THEN inbox[j] = <<>>
  ELSE /\ pc[j] = "ack" => AckTalk(j)
       /\ pc[j] = "wait" => WaitTalk(j)
       /\ pc[j] \notin {"ack", "wait"} /\ out[j].ok => Quiet(j)

\* A row that came back well was closed whole, and a header that is sent again
\* has the size of the file, if Same.
Outcome(j) ==
  /\ pc[j] \in {"row", "book"} /\ out[j].ok => Delivered(j)
  /\ pc[j] \in {"walk", "ack"} /\ Same(j) =>
       out[j].size = Size[local[Files(j)[Now(j)]]]

Job(j) == Asked(j) /\ Order(j) /\ Talk(j) /\ Outcome(j)

\* The console only has, and only will get, files of rows that were begun.
Receiver ==
  rx.st \in {"header", "body"} =>
    /\ rx.job \in Jobs
    /\ \A k \in 1..Len(rx.in) :
         IsFile(rx.in[k]) => Reached(rx.job, rx.in[k].row)
    /\ rx.st = "body" => rx.file \in Roms /\ Reached(rx.job, rx.row)

RecordIsOld == \A f \in Roms : record[f] <= local[f]

IInv == /\ Typed /\ Receiver /\ RecordIsOld /\ RecordMeansWhole
        /\ \A j \in Jobs : Job(j)
-----------------------------------------------------------------------------
(* Messages. *)

LEMMA IsSequence ==
  ASSUME NEW S, NEW n \in Nat, NEW s \in [1..n -> S]
  PROVE  s \in Seq(S) /\ Len(s) = n
  OBVIOUS

LEMMA TailOfOne ==
  ASSUME NEW S, NEW s \in Seq(S), Len(s) = 1
  PROVE  Tail(s) = <<>>
<1>1. s # <<>>
  OBVIOUS
<1>2. Tail(s) \in Seq(S)
  BY <1>1
<1>3. Len(Tail(s)) = 0
  BY <1>1
<1> DEFINE t == Tail(s)
<1> HIDE DEF t
<1>4. t \in Seq(S) /\ Len(t) = 0 => t = <<>>
  OBVIOUS
<1> QED
  BY <1>2, <1>3, <1>4 DEF t

\* What is taken from the front of one sequence and put behind another.
LEMMA MoveOne ==
  ASSUME NEW S, NEW s \in Seq(S), NEW t \in Seq(S), t # <<>>
  PROVE  Append(s, Head(t)) \o Tail(t) = s \o t
  OBVIOUS

\* A prefix of the same length is the whole.
LEMMA WholePrefix ==
  ASSUME NEW S, NEW s \in Seq(S), NEW t \in Seq(S), NEW u \in Seq(S),
         s \o t = u, Len(s) = Len(u)
  PROVE  s = u
  OBVIOUS

LEMMA ExceptIsSequence ==
  ASSUME NEW S, NEW s \in Seq(S), NEW i, NEW x \in S
  PROVE  [s EXCEPT ![i] = x] \in Seq(S) /\ Len([s EXCEPT ![i] = x]) = Len(s)
<1>1. s \in [1..Len(s) -> S] /\ Len(s) \in Nat
  OBVIOUS
<1>2. [s EXCEPT ![i] = x] \in [1..Len(s) -> S]
  BY <1>1
<1> QED
  BY <1>1, <1>2, IsSequence

LEMMA FileMessage ==
  ASSUME NEW i \in Nat, NEW f \in Roms, NEW s \in Nat
  PROVE  [kind |-> "file", row |-> i, file |-> f, size |-> s] \in Messages
  BY DEF Messages

LEMMA EndMessage == [kind |-> "end"] \in Messages
  BY DEF Messages

LEMMA FileFields ==
  ASSUME NEW m \in Messages, IsFile(m)
  PROVE  m.row \in Nat /\ m.file \in Roms /\ m.size \in Nat
  BY DEF Messages, IsFile

\* The content of a file is a message for each of its chunks.
LEMMA Content ==
  ASSUME NEW f \in Roms, local[f] \in 1..Last[f]
  PROVE  /\ local[f] \in Versions /\ Size[local[f]] \in Nat \ {0}
         /\ Image(local[f]) \in Seq(Messages)
         /\ Len(Image(local[f])) = Size[local[f]]
         /\ \A k \in 1..Len(Image(local[f])) : ~IsFile(Image(local[f])[k])
<1> DEFINE v == local[f]
<1>1. v \in Versions /\ Size[v] \in Nat \ {0}
  BY JobsAssumption DEF Versions
<1>2. [kind |-> "bytes", v |-> v] \in Messages
  BY <1>1 DEF Messages
<1> HIDE DEF v
<1>3. Image(v) \in Seq(Messages) /\ Len(Image(v)) = Size[v]
  BY <1>1, <1>2 DEF Image
<1>4. \A k \in 1..Len(Image(v)) : ~IsFile(Image(v)[k])
  BY <1>1, <1>3 DEF Image, IsFile
<1> QED
  BY <1>1, <1>3, <1>4 DEF v
-----------------------------------------------------------------------------
(* Types. *)

LEMMA TypedInit == Init => Typed
<1> SUFFICES ASSUME Init PROVE Typed
  OBVIOUS
<1> USE DEF Init
<1>1. TypedReq /\ TypedPc /\ TypedRows
  BY DEF TypedReq, TypedPc, TypedRows, Request, Stages
<1>2. TypedOut /\ TypedLink
  BY DEF TypedOut, TypedLink, Upload
<1>3. TypedRx /\ TypedDisk
  BY DEF TypedRx, TypedDisk, Running, Idle
<1>4. TypedRoms
  BY JobsAssumption DEF TypedRoms
<1> QED
  BY <1>1, <1>2, <1>3, <1>4 DEF Typed

LEMMA TypedStart ==
  ASSUME Typed, NEW j \in Jobs, NEW r \in Requests[j],
         Start(j, r.files, r.launch)
  PROVE  Typed'
<1>1. r.files \in Seq(Roms) /\ r.launch \in BOOLEAN
  BY JobsAssumption
<1> DEFINE stat == [i \in DOMAIN r.files |-> local[r.files[i]]]
           n == Len(r.files) + IF r.launch THEN 1 ELSE 0
           fresh == [i \in 1..n |-> "pending"]
<1>2. stat \in Seq(Nat)
  <2>1. \A i \in 1..Len(r.files) : local[r.files[i]] \in Nat
    BY <1>1 DEF Typed, TypedRoms
  <2>2. DOMAIN r.files = 1..Len(r.files) /\ Len(r.files) \in Nat
    BY <1>1
  <2>3. stat = [i \in 1..Len(r.files) |-> local[r.files[i]]]
    BY <2>2
  <2>4. stat \in [1..Len(r.files) -> Nat]
    BY <2>1, <2>3
  <2> HIDE DEF stat
  <2> QED
    BY <2>2, <2>4, IsSequence
<1> HIDE DEF stat, n
<1>3. n \in Nat
  <2>1. Len(r.files) \in Nat /\ 0 \in Nat /\ 1 \in Nat
    BY <1>1
  <2>2. (IF r.launch THEN 1 ELSE 0) \in Nat
    BY <2>1, Zenon
  <2> DEFINE extra == IF r.launch THEN 1 ELSE 0
  <2> HIDE DEF extra
  <2>3. extra \in Nat
    BY <2>2 DEF extra
  <2>4. n = Len(r.files) + extra
    BY DEF n, extra
  <2> QED
    BY <2>1, <2>3, <2>4
<1>4. fresh \in Seq(RowStates)
  BY <1>3 DEF RowStates
<1> HIDE DEF fresh
<1>5. req' = [req EXCEPT ![j] = [files |-> r.files, launch |-> r.launch,
                                 stat |-> stat]]
  BY DEF Start, stat
<1>6. TypedReq'
  BY <1>1, <1>2, <1>5 DEF Typed, TypedReq, Request
<1>7. rows' = [rows EXCEPT ![j] = fresh]
  BY DEF Start, fresh, n
<1>8. TypedRows'
  BY <1>4, <1>7 DEF Typed, TypedRows
<1>9. TypedPc'
  BY DEF Start, Typed, TypedPc, Stages
<1>10. TypedOut'
  BY DEF Start, Typed, TypedOut
<1>11. (TypedLink /\ TypedRx /\ TypedDisk /\ TypedRoms)'
  BY DEF Start, Typed, TypedLink, TypedRx, TypedDisk, TypedRoms, link, console
<1> QED
  BY <1>6, <1>8, <1>9, <1>10, <1>11 DEF Typed

\* What the steps of a thread do, by variable.
LEMMA TypedGoto ==
  ASSUME TypedPc, NEW j \in Jobs, NEW l \in Stages, Goto(j, l)
  PROVE  TypedPc'
  BY DEF TypedPc, Goto

LEMMA TypedShut ==
  ASSUME TypedLink, NEW j \in Jobs, NEW s \in {"none", "local", "set"},
         ShutTo(j, s)
  PROVE  TypedLink'
<1>1. batch[j] \in Upload
  BY DEF TypedLink
<1>2. [batch[j] EXCEPT !.closed = TRUE, !.sock = s] \in Upload
  BY <1>1 DEF Upload
<1>3. batch' = [batch EXCEPT ![j] = [batch[j] EXCEPT !.closed = TRUE,
                                                     !.sock = s]]
  BY DEF TypedLink, ShutTo
<1>4. batch' \in [Jobs -> Upload]
  BY <1>2, <1>3 DEF TypedLink
<1>5. inbox' \in [Jobs -> Seq({"K", "D", "E"})]
  BY DEF TypedLink, ShutTo
<1> QED
  BY <1>4, <1>5 DEF TypedLink

LEMMA TypedOk ==
  ASSUME TypedOut, NEW j \in Jobs, NEW b \in BOOLEAN,
         out' = [out EXCEPT ![j].ok = b], UNCHANGED cancelled
  PROVE  TypedOut'
  BY DEF TypedOut

LEMMA TypedCancel ==
  ASSUME Typed, NEW j \in Jobs, Cancel(j)
  PROVE  Typed'
<1>1. TypedLink'
  <2>1. (IF batch[j].sock = "set" THEN "none" ELSE batch[j].sock)
          \in {"none", "local", "set"}
    BY DEF Typed, TypedLink, Upload
  <2> QED
    BY <2>1, TypedShut DEF Cancel, Typed
<1>2. TypedPc'
  <2>1. UNCHANGED pc => TypedPc'
    BY DEF Typed, TypedPc
  <2> QED
    BY <2>1, TypedGoto DEF Cancel, Typed, Stages
<1>3. cancelled' \in [Jobs -> BOOLEAN]
  BY DEF Cancel, Typed, TypedOut
<1>4. out' \in [Jobs -> [row : Nat, ok : BOOLEAN, size : Nat]]
  BY DEF Cancel, Typed, TypedOut
<1>5. TypedOut'
  BY <1>3, <1>4 DEF TypedOut
<1>6. (TypedReq /\ TypedRows /\ TypedRx /\ TypedDisk /\ TypedRoms)'
  BY DEF Cancel, Typed, TypedReq, TypedRows, TypedRx, TypedDisk, TypedRoms,
         request, console
<1> QED
  BY <1>1, <1>2, <1>5, <1>6 DEF Typed

LEMMA TypedReplace ==
  ASSUME Typed, NEW f \in Roms, Replace(f)
  PROVE  Typed'
<1>1. TypedRoms'
  <2>1. local \in [Roms -> Nat] /\ local[f] \in 1..Last[f]
        /\ Last[f] \in Nat /\ local[f] < Last[f]
    BY JobsAssumption DEF Replace, Typed, TypedRoms
  <2>2. local[f] + 1 \in Nat /\ local[f] + 1 \in 1..Last[f]
    BY <2>1
  <2>3. local' = [local EXCEPT ![f] = local[f] + 1] /\ record' = record
    BY DEF Replace
  <2> QED
    BY <2>1, <2>2, <2>3 DEF Typed, TypedRoms
<1>2. (/\ TypedReq /\ TypedPc /\ TypedRows /\ TypedOut /\ TypedLink
       /\ TypedRx /\ TypedDisk)'
  BY DEF Replace, Typed, TypedReq, TypedPc, TypedRows, TypedOut, TypedLink,
         TypedRx, TypedDisk, request, thread, link, console
<1> QED
  BY <1>1, <1>2 DEF Typed

LEMMA TypedFail ==
  ASSUME Typed, NEW j \in Jobs, Fail(j)
  PROVE  TypedPc' /\ TypedRows' /\ TypedOut' /\ TypedLink'
<1>1. TypedPc'
  BY TypedGoto DEF Fail, Typed, Stages
<1>2. TypedOut'
  BY TypedOk DEF Fail, Typed
<1>3. TypedLink'
  <2>1. UNCHANGED link => TypedLink'
    BY DEF Typed, TypedLink, link
  <2> QED
    BY <2>1, TypedShut DEF Fail, Shut, Typed
<1> QED
  BY <1>1, <1>2, <1>3 DEF Fail, Typed, TypedRows

LEMMA TypedDie ==
  ASSUME Typed, NEW j \in Jobs, Die(j)
  PROVE  TypedPc' /\ TypedRows' /\ TypedOut' /\ TypedLink'
  BY TypedGoto DEF Die, Typed, Stages, TypedRows, TypedOut, TypedLink, link

LEMMA TypedSay ==
  ASSUME TypedRx, NEW m \in Messages, Say(m)
  PROVE  TypedRx'
<1>1. Append(rx.in, m) \in Seq(Messages)
  BY DEF TypedRx, Running
<1> QED
  BY <1>1 DEF TypedRx, Running, Say

LEMMA TypedClose ==
  ASSUME Typed, NEW j \in Jobs, Close(j)
  PROVE  TypedLink' /\ TypedRx'
<1>1. UNCHANGED rx => TypedRx'
  BY DEF Typed, TypedRx
<1>2. UNCHANGED link => TypedLink'
  BY DEF Typed, TypedLink, link
<1> QED
  BY <1>1, <1>2, TypedShut, TypedSay, EndMessage DEF Close, Shut, Typed

LEMMA TypedTop ==
  ASSUME Typed, NEW j \in Jobs, Top(j)
  PROVE  Typed'
<1>1. TypedPc'
  BY TypedGoto DEF Top, Typed, Stages
<1>2. TypedRows'
  BY DEF Top, Typed, TypedRows, RowStates
<1>3. (/\ TypedReq /\ TypedOut /\ TypedLink /\ TypedRx /\ TypedDisk
       /\ TypedRoms)'
  BY DEF Top, Typed, TypedReq, TypedOut, TypedLink, TypedRx, TypedDisk,
         TypedRoms, request, link, console
<1> QED
  BY <1>1, <1>2, <1>3 DEF Typed

LEMMA TypedOpen ==
  ASSUME Typed, NEW j \in Jobs, Open(j)
  PROVE  Typed'
<1>1. TypedPc'
  BY TypedGoto DEF Open, Typed, Stages
<1>2. TypedOut'
  <2>1. UNCHANGED <<cancelled, out>> => TypedOut'
    BY DEF Typed, TypedOut
  <2> QED
    BY <2>1, TypedOk DEF Open, Typed
<1>3. TypedLink'
  <2>1. batch' = [batch EXCEPT ![j].opened = TRUE] /\ UNCHANGED inbox
        => TypedLink'
    BY DEF Typed, TypedLink, Upload
  <2> QED
    BY <2>1, TypedShut DEF Open, Shut, Typed
<1>4. (TypedReq /\ TypedRows /\ TypedRx /\ TypedDisk /\ TypedRoms)'
  BY DEF Open, Typed, TypedReq, TypedRows, TypedRx, TypedDisk, TypedRoms,
         request
<1> QED
  BY <1>1, <1>2, <1>3, <1>4 DEF Typed

\* The row a thread is sending is one of its files.
LEMMA CurrentFile ==
  ASSUME IInv, NEW j \in Jobs, pc[j] \in Sending
  PROVE  /\ Now(j) \in 1..Len(Files(j)) /\ Now(j) \in Nat
         /\ Files(j)[Now(j)] \in Roms
         /\ local[Files(j)[Now(j)]] \in 1..Last[Files(j)[Now(j)]]
<1>1. Now(j) \in Nat /\ Files(j) \in Seq(Roms)
  BY DEF IInv, Typed, TypedOut, TypedReq, Request, Now, Files
<1>2. Now(j) >= 1 /\ Now(j) <= Len(Files(j))
  BY DEF IInv, Job, Order, Sending
<1>3. Now(j) \in 1..Len(Files(j)) /\ Files(j)[Now(j)] \in Roms
  BY <1>1, <1>2
<1> QED
  BY <1>1, <1>3 DEF IInv, Typed, TypedRoms

\* The header a thread would send now.
SizeOf(j) == IF pc[j] = "walk" THEN out[j].size
                               ELSE Size[local[Files(j)[Now(j)]]]
HeaderOf(j) == [kind |-> "file", row |-> Now(j), file |-> Files(j)[Now(j)],
                size |-> SizeOf(j)]

LEMMA HeaderIsFile ==
  ASSUME IInv, NEW j \in Jobs, pc[j] \in Sending
  PROVE  HeaderOf(j) \in Messages /\ SizeOf(j) \in Nat
<1> DEFINE f == Files(j)[Now(j)]
<1>1. f \in Roms /\ local[f] \in 1..Last[f] /\ Now(j) \in Nat
  BY CurrentFile
<1> HIDE DEF f
<1>2. Size[local[f]] \in Nat
  BY <1>1, Content
<1>3. out[j].size \in Nat
  BY DEF IInv, Typed, TypedOut
<1>4. SizeOf(j) \in Nat
  BY <1>2, <1>3 DEF SizeOf, f
<1>5. HeaderOf(j) = [kind |-> "file", row |-> Now(j), file |-> f,
                     size |-> SizeOf(j)]
  BY DEF HeaderOf, f
<1> QED
  BY <1>1, <1>4, <1>5, FileMessage

LEMMA TypedHeader ==
  ASSUME IInv, NEW j \in Jobs, Header(j)
  PROVE  Typed'
<1> DEFINE SizeNoted == out' = [out EXCEPT ![j].size = SizeOf(j)]
<1>1. Typed /\ pc[j] \in Sending
  BY DEF IInv, Header, Sending
<1>2. HeaderOf(j) \in Messages /\ SizeOf(j) \in Nat
  BY <1>1, HeaderIsFile
<1>3. /\ UNCHANGED <<request, queue, disk, landed, local, record, rows>>
      /\ UNCHANGED cancelled
  BY DEF Header, Fail
<1>4. SizeNoted => TypedOut'
  BY <1>1, <1>2, <1>3 DEF Typed, TypedOut
<1>5. CASE /\ Say(HeaderOf(j)) /\ UNCHANGED <<batch, inbox>>
           /\ SizeNoted /\ Goto(j, "ack")
  <2>1. TypedRx' /\ TypedPc'
    BY <1>1, <1>2, <1>5, TypedSay, TypedGoto DEF Typed, Stages
  <2> QED
    BY <1>1, <1>3, <1>5, <1>4, <2>1
    DEF Typed, TypedReq, TypedRows, TypedLink, TypedDisk, TypedRoms,
        request
<1>6. CASE /\ batch' = [batch EXCEPT ![j].sock = "local"]
           /\ rx' = [rx EXCEPT !.st = "header", !.job = j,
                               !.in = <<HeaderOf(j)>>]
           /\ UNCHANGED inbox /\ SizeNoted /\ Goto(j, "ack")
  <2>1. TypedPc'
    BY <1>1, <1>6, TypedGoto DEF Typed, Stages
  <2>2. TypedLink'
    BY <1>1, <1>6 DEF Typed, TypedLink, Upload
  <2>3. <<HeaderOf(j)>> \in Seq(Messages)
    BY <1>2
  <2>4. TypedRx'
    BY <1>1, <1>6, <2>3 DEF Typed, TypedRx, Running
  <2> QED
    BY <1>1, <1>3, <1>6, <1>4, <2>1, <2>2, <2>4
    DEF Typed, TypedReq, TypedRows, TypedDisk, TypedRoms, request
<1>7. CASE /\ batch' = [batch EXCEPT ![j].sock = "local"]
           /\ rx' = [rx EXCEPT !.st = "foreign", !.job = j]
           /\ inbox' = [inbox EXCEPT ![j] = <<"K">>]
           /\ SizeNoted /\ Goto(j, "ack")
  <2>1. TypedPc'
    BY <1>1, <1>7, TypedGoto DEF Typed, Stages
  <2>2. TypedLink'
    <3>1. batch' \in [Jobs -> Upload]
      BY <1>1, <1>7 DEF Typed, TypedLink, Upload
    <3>2. inbox' \in [Jobs -> Seq({"K", "D", "E"})]
      BY <1>1, <1>7 DEF Typed, TypedLink
    <3> QED
      BY <3>1, <3>2 DEF TypedLink
  <2>3. TypedRx'
    BY <1>1, <1>7 DEF Typed, TypedRx, Running
  <2> QED
    BY <1>1, <1>3, <1>7, <1>4, <2>1, <2>2, <2>3
    DEF Typed, TypedReq, TypedRows, TypedDisk, TypedRoms, request
<1>8. CASE Fail(j) /\ UNCHANGED rx
  BY <1>1, <1>3, <1>8, TypedFail
  DEF Typed, TypedReq, TypedRx, TypedDisk, TypedRoms, request
<1> QED
  BY <1>5, <1>6, <1>7, <1>8 DEF Header, HeaderOf, SizeOf

LEMMA TypedWalk ==
  ASSUME IInv, NEW j \in Jobs, Walk(j)
  PROVE  Typed'
<1>1. TypedPc'
  BY TypedGoto DEF Walk, IInv, Typed, Stages
<1>2. TypedLink'
  <2>1. batch' \in [Jobs -> Upload]
    BY DEF Walk, IInv, Typed, TypedLink, Upload
  <2>2. inbox' \in [Jobs -> Seq({"K", "D", "E"})]
    BY DEF Walk, IInv, Typed, TypedLink
  <2> QED
    BY <2>1, <2>2 DEF TypedLink
<1> QED
  BY <1>1, <1>2
  DEF Walk, IInv, Typed, TypedReq, TypedRows, TypedOut, TypedRx, TypedDisk,
      TypedRoms, request, console

LEMMA TypedAck ==
  ASSUME IInv, NEW j \in Jobs, Ack(j)
  PROVE  Typed'
<1> DEFINE f == Files(j)[Now(j)]
<1>1. Typed /\ pc[j] \in Sending
  BY DEF IInv, Ack, Sending
<1>2. UNCHANGED <<request, queue, disk, landed, local, record>>
  BY DEF Ack
<1>3. (TypedReq /\ TypedDisk /\ TypedRoms)'
  BY <1>1, <1>2 DEF Typed, TypedReq, TypedDisk, TypedRoms, request
<1>4. CASE /\ inbox[j] # <<>> /\ inbox' = [inbox EXCEPT ![j] = Tail(@)]
           /\ batch' = [batch EXCEPT ![j].sock = "set"]
           /\ \/ rx' = [rx EXCEPT !.in = @ \o Image(local[f])]
              \/ UNCHANGED rx
           /\ Goto(j, "wait")
           /\ UNCHANGED <<rows, cancelled, out>>
  <2>1. f \in Roms /\ local[f] \in 1..Last[f]
    BY <1>1, CurrentFile
  <2> HIDE DEF f
  <2>2. Image(local[f]) \in Seq(Messages)
    BY <2>1, Content
  <2>3. rx.in \o Image(local[f]) \in Seq(Messages)
    BY <1>1, <2>2 DEF Typed, TypedRx, Running
  <2>4. TypedRx'
    BY <1>1, <1>4, <2>3 DEF Typed, TypedRx, Running
  <2>5. TypedPc'
    BY <1>1, <1>4, TypedGoto DEF Typed, Stages
  <2>6. inbox' \in [Jobs -> Seq({"K", "D", "E"})]
    BY <1>1, <1>4 DEF Typed, TypedLink
  <2>7. batch' \in [Jobs -> Upload]
    BY <1>1, <1>4 DEF Typed, TypedLink, Upload
  <2>8. TypedLink'
    BY <2>6, <2>7 DEF TypedLink
  <2>9. TypedRows' /\ TypedOut'
    BY <1>1, <1>4 DEF Typed, TypedRows, TypedOut
  <2> QED
    BY <1>3, <2>4, <2>5, <2>8, <2>9 DEF Typed
<1>5. CASE Fail(j) /\ UNCHANGED rx
  BY <1>1, <1>3, <1>5, TypedFail DEF Typed, TypedRx
<1>6. CASE Die(j) /\ UNCHANGED rx
  BY <1>1, <1>3, <1>6, TypedDie DEF Typed, TypedRx
<1> QED
  BY <1>4, <1>5, <1>6 DEF Ack

LEMMA TypedWait ==
  ASSUME IInv, NEW j \in Jobs, Wait(j)
  PROVE  Typed'
<1>1. Typed
  BY DEF IInv
<1>2. UNCHANGED <<request, queue, disk, landed, local, record>>
  BY DEF Wait
<1>3. (TypedReq /\ TypedDisk /\ TypedRoms)'
  BY <1>1, <1>2 DEF Typed, TypedReq, TypedDisk, TypedRoms, request
<1>4. CASE /\ inbox[j] # <<>>
           /\ \/ Close(j)
              \/ /\ inbox' = [inbox EXCEPT ![j] = Tail(@)]
                 /\ UNCHANGED <<batch, rx>>
           /\ out' = [out EXCEPT ![j].ok = TRUE] /\ Goto(j, "row")
           /\ UNCHANGED <<rows, cancelled>>
  <2>1. TypedPc'
    BY <1>1, <1>4, TypedGoto DEF Typed, Stages
  <2>2. TypedOut'
    BY <1>1, <1>4, TypedOk DEF Typed
  <2>3. TypedLink' /\ TypedRx'
    <3>1. CASE Close(j)
      BY <1>1, <3>1, TypedClose
    <3>2. CASE /\ inbox' = [inbox EXCEPT ![j] = Tail(@)]
               /\ UNCHANGED <<batch, rx>>
      BY <1>1, <1>4, <3>2 DEF Typed, TypedLink, TypedRx
    <3> QED
      BY <1>4, <3>1, <3>2
  <2> QED
    BY <1>1, <1>3, <1>4, <2>1, <2>2, <2>3 DEF Typed, TypedRows
<1>5. CASE Fail(j) /\ UNCHANGED rx
  BY <1>1, <1>3, <1>5, TypedFail DEF Typed, TypedRx
<1>6. CASE Die(j) /\ UNCHANGED rx
  BY <1>1, <1>3, <1>6, TypedDie DEF Typed, TypedRx
<1> QED
  BY <1>4, <1>5, <1>6 DEF Wait

LEMMA TypedTool ==
  ASSUME Typed, NEW j \in Jobs, Tool(j)
  PROVE  Typed'
<1>1. TypedPc'
  BY TypedGoto DEF Tool, Typed, Stages
<1>2. TypedOut'
  <2>1. UNCHANGED <<cancelled, out>> => TypedOut'
    BY DEF Typed, TypedOut
  <2> QED
    BY <2>1, TypedOk DEF Tool, Typed
<1>3. (TypedReq /\ TypedRows /\ TypedLink /\ TypedRx /\ TypedDisk /\ TypedRoms)'
  BY DEF Tool, Typed, TypedReq, TypedRows, TypedLink, TypedRx, TypedDisk,
         TypedRoms, request, link
<1> QED
  BY <1>1, <1>2, <1>3 DEF Typed

LEMMA TypedProc ==
  ASSUME Typed, NEW j \in Jobs, Proc(j)
  PROVE  Typed'
<1>1. TypedPc'
  BY TypedGoto DEF Proc, Typed, Stages
<1>2. TypedOut'
  BY TypedOk DEF Proc, Typed
<1>3. TypedRx'
  BY DEF Proc, Typed, TypedRx, Running
<1>4. (TypedReq /\ TypedRows /\ TypedLink /\ TypedDisk /\ TypedRoms)'
  BY DEF Proc, Typed, TypedReq, TypedRows, TypedLink, TypedDisk, TypedRoms,
         request, link
<1> QED
  BY <1>1, <1>2, <1>3, <1>4 DEF Typed

LEMMA TypedRow ==
  ASSUME Typed, NEW j \in Jobs, Row(j)
  PROVE  Typed'
<1> DEFINE s == IF cancelled[j] THEN "cancelled"
                ELSE IF out[j].ok THEN "done" ELSE "failed"
<1>1. s \in RowStates
  BY DEF RowStates, Closed
<1> HIDE DEF s
<1>2. rows' = [rows EXCEPT ![j][Now(j)] = s]
  BY DEF Row, s
<1>3. TypedRows'
  <2>1. rows[j] \in Seq(RowStates)
    BY DEF Typed, TypedRows
  <2>2. [rows[j] EXCEPT ![Now(j)] = s] \in Seq(RowStates)
    BY <1>1, <2>1, ExceptIsSequence
  <2>3. rows' = [rows EXCEPT ![j] = [rows[j] EXCEPT ![Now(j)] = s]]
    BY <1>2 DEF Typed, TypedRows
  <2> QED
    BY <2>2, <2>3 DEF Typed, TypedRows
<1>4. TypedPc'
  BY TypedGoto DEF Row, Typed, Stages
<1>5. (/\ TypedReq /\ TypedOut /\ TypedLink /\ TypedRx /\ TypedDisk
       /\ TypedRoms)'
  BY DEF Row, Typed, TypedReq, TypedOut, TypedLink, TypedRx, TypedDisk,
         TypedRoms, request, link, console
<1> QED
  BY <1>3, <1>4, <1>5 DEF Typed

LEMMA TypedBook ==
  ASSUME IInv, NEW j \in Jobs, Book(j)
  PROVE  Typed'
<1>1. Typed /\ Order(j) /\ Asked(j)
  BY DEF IInv, Job
<1>2. TypedPc'
  BY <1>1, TypedGoto DEF Book, Typed, Stages
<1>3. UNCHANGED <<request, cancelled, link, console, local>>
  BY DEF Book
<1>4. (TypedReq /\ TypedLink /\ TypedRx /\ TypedDisk)'
  BY <1>1, <1>3 DEF Typed, TypedReq, TypedLink, TypedRx, TypedDisk, request,
                    link, console
<1>5. Now(j) \in Nat /\ Files(j) \in Seq(Roms)
  BY <1>1 DEF Typed, TypedOut, TypedReq, Request, Now, Files
<1>6. CASE out[j].ok /\ ~cancelled[j]
  <2>1. TypedOut'
    <3>1. out' = [out EXCEPT ![j].row = Now(j) + 1] /\ UNCHANGED cancelled
      BY <1>3, <1>6 DEF Book
    <3>2. Now(j) + 1 \in Nat
      BY <1>5
    <3> DEFINE n == Now(j) + 1
    <3> HIDE DEF n
    <3>3. out' = [out EXCEPT ![j].row = n] /\ n \in Nat
      BY <3>1, <3>2 DEF n
    <3> QED
      BY <1>1, <3>1, <3>3 DEF Typed, TypedOut
  <2>2. TypedRows'
    BY <1>1, <1>6 DEF Book, Typed, TypedRows
  <2>3. record' \in [Roms -> Nat]
    <3>1. CASE Now(j) <= Len(Files(j))
      <4> DEFINE i == Now(j)  f == Files(j)[i]
      <4>1. i \in 1..Len(Files(j))
        BY <1>1, <1>5, <3>1 DEF Order, Book
      <4>2. f \in Roms
        BY <1>5, <4>1
      <4>3. req[j].stat \in Seq(Nat) /\ Len(req[j].stat) = Len(Files(j))
        BY <1>1 DEF Typed, TypedReq, Request, Asked
      <4>4. req[j].stat[i] \in Nat
        BY <4>1, <4>3
      <4>5. record' = [record EXCEPT ![f] = req[j].stat[i]]
        BY <1>6, <3>1 DEF Book
      <4> HIDE DEF i, f
      <4> QED
        BY <1>1, <4>2, <4>4, <4>5 DEF Typed, TypedRoms
    <3>2. CASE ~(Now(j) <= Len(Files(j)))
      BY <1>1, <1>6, <3>2 DEF Book, Typed, TypedRoms
    <3> QED
      BY <3>1, <3>2
  <2> QED
    BY <1>1, <1>2, <1>3, <1>4, <2>1, <2>2, <2>3 DEF Typed, TypedRoms
<1>7. CASE ~(out[j].ok /\ ~cancelled[j])
  <2> DEFINE s == IF cancelled[j] THEN "cancelled" ELSE "skipped"
             all == [k \in 1..NRows(j) |-> IF k <= Now(j) THEN rows[j][k] ELSE s]
  <2>1. s \in RowStates
    BY DEF RowStates, Closed
  <2>2. rows' = [rows EXCEPT ![j] = all]
    BY <1>7 DEF Book
  <2> HIDE DEF s
  <2>3. all \in [1..NRows(j) -> RowStates] /\ NRows(j) \in Nat
    <3>1. rows[j] \in Seq(RowStates) /\ NRows(j) \in Nat
      BY <1>1 DEF Typed, TypedRows, NRows
    <3>2. \A k \in 1..NRows(j) : rows[j][k] \in RowStates
      BY <3>1 DEF NRows
    <3> QED
      BY <2>1, <3>1, <3>2
  <2> HIDE DEF all
  <2>4. all \in Seq(RowStates)
    BY <2>3, IsSequence
  <2>5. TypedRows'
    BY <1>1, <2>2, <2>4 DEF Typed, TypedRows
  <2>6. TypedOut'
    BY <1>1, <1>7, TypedOk DEF Book, Typed
  <2> QED
    BY <1>1, <1>2, <1>4, <1>7, <2>5, <2>6 DEF Book, Typed, TypedRoms
<1> QED
  BY <1>6, <1>7

LEMMA TypedEnd ==
  ASSUME Typed, NEW j \in Jobs, End(j)
  PROVE  Typed'
<1>1. TypedPc'
  BY TypedGoto DEF End, Typed, Stages
<1>2. TypedLink' /\ TypedRx'
  <2>1. UNCHANGED rx => TypedRx'
    BY DEF Typed, TypedRx
  <2> QED
    BY <2>1, TypedClose, TypedShut DEF End, Shut, Typed
<1>3. (TypedReq /\ TypedRows /\ TypedOut /\ TypedDisk /\ TypedRoms)'
  BY DEF End, Typed, TypedReq, TypedRows, TypedOut, TypedDisk, TypedRoms, request
<1> QED
  BY <1>1, <1>2, <1>3 DEF Typed

LEMMA TypedScript ==
  ASSUME IInv, Script \/ Rearm
  PROVE  Typed'
<1>1. Typed /\ Receiver
  BY DEF IInv
<1>2. UNCHANGED <<request, thread, local, record>>
  BY DEF Script, Rearm, Begin, NobodyCame, RxHeader, RxBody
<1>3. (TypedReq /\ TypedPc /\ TypedRows /\ TypedOut /\ TypedRoms)'
  BY <1>1, <1>2 DEF Typed, TypedReq, TypedPc, TypedRows, TypedOut, TypedRoms,
                    request, thread
<1>4. rx' = Idle => TypedRx'
  BY DEF TypedRx, Running, Idle
<1>5. ASSUME NEW c \in {"K", "D", "E"}, rx.job \in Jobs, Answer(c)
      PROVE  inbox' \in [Jobs -> Seq({"K", "D", "E"})]
  BY <1>1, <1>5 DEF Answer, Typed, TypedLink
<1>6. CASE Begin
  <2>1. TypedRx'
    <3>1. PICK s \in {"accept", "blob"} : rx' = [Idle EXCEPT !.st = s]
      BY <1>6 DEF Begin
    <3>2. Idle \in Running
      BY DEF Running, Idle
    <3> QED
      BY <3>1, <3>2 DEF TypedRx, Running
  <2> QED
    BY <1>1, <1>3, <1>6, <2>1 DEF Begin, Typed, TypedLink, TypedDisk, link
<1>7. CASE NobodyCame \/ Rearm
  BY <1>1, <1>3, <1>4, <1>7
  DEF NobodyCame, Rearm, Finish, Typed, TypedLink, TypedDisk, link
<1>8. CASE RxHeader
  <2> DEFINE m == Head(rx.in)
  <2>1. rx.in \in Seq(Messages) /\ rx.job \in Jobs
    BY <1>1, <1>8 DEF RxHeader, Receiver, Typed, TypedRx, Running
  <2>2. batch' \in [Jobs -> Upload]
    BY <1>1, <1>8 DEF RxHeader, Typed, TypedLink
  <2>3. CASE rx.in # <<>> /\ m.kind = "file"
    <3>1. m \in Messages /\ IsFile(m) /\ Tail(rx.in) \in Seq(Messages)
      BY <2>1, <2>3 DEF IsFile
    <3>2. m.row \in Nat /\ m.file \in Roms /\ m.size \in Nat
      BY <3>1, FileFields
    <3> HIDE DEF m
    <3>3. CASE /\ disk' = [disk EXCEPT ![m.file] = <<>>] /\ Answer("K")
               /\ rx' = [rx EXCEPT !.st = "body", !.in = Tail(@), !.row = m.row,
                                   !.file = m.file, !.size = m.size]
      <4>1. inbox' \in [Jobs -> Seq({"K", "D", "E"})]
        BY <1>5, <2>1, <3>3
      <4>2. TypedRx'
        BY <1>1, <3>1, <3>2, <3>3 DEF Typed, TypedRx, Running
      <4>3. TypedDisk'
        BY <1>1, <3>2, <3>3 DEF Typed, TypedDisk
      <4> QED
        BY <1>3, <2>2, <4>1, <4>2, <4>3 DEF Typed, TypedLink
    <3>4. CASE Answer("E") /\ rx' = Idle /\ disk' = disk
      <4>1. inbox' \in [Jobs -> Seq({"K", "D", "E"})]
        BY <1>5, <2>1, <3>4
      <4> QED
        BY <1>1, <1>3, <1>4, <2>2, <3>4, <4>1 DEF Typed, TypedLink, TypedDisk
    <3>5. CASE rx' = Idle /\ UNCHANGED <<disk, inbox>>
      BY <1>1, <1>3, <1>4, <2>2, <3>5 DEF Typed, TypedLink, TypedDisk
    <3> QED
      BY <1>8, <2>3, <3>3, <3>4, <3>5 DEF RxHeader, Finish, m
  <2>4. CASE ~(rx.in # <<>> /\ m.kind = "file")
    BY <1>1, <1>3, <1>4, <1>8, <2>2, <2>4
    DEF RxHeader, Finish, Typed, TypedLink, TypedDisk
  <2> QED
    BY <2>3, <2>4
<1>9. CASE RxBody
  <2> DEFINE got == Append(disk[rx.file], Head(rx.in))
             whole == Len(got) = rx.size
  <2>1. rx.in \in Seq(Messages) /\ rx.job \in Jobs /\ rx.file \in Roms
    BY <1>1, <1>9 DEF RxBody, Receiver, Typed, TypedRx, Running
  <2>2. batch' \in [Jobs -> Upload]
    BY <1>1, <1>9 DEF RxBody, Typed, TypedLink
  <2>3. CASE /\ rx.in # <<>> /\ disk' = [disk EXCEPT ![rx.file] = got]
             /\ rx' = [rx EXCEPT !.in = Tail(@),
                                 !.st = IF whole THEN "header" ELSE @]
             /\ Answer("D") \/ UNCHANGED inbox
    <3>1. Tail(rx.in) \in Seq(Messages) /\ Head(rx.in) \in Messages
      BY <2>1, <2>3
    <3>2. got \in Seq(Messages)
      BY <1>1, <2>1, <3>1 DEF Typed, TypedDisk
    <3> HIDE DEF got, whole
    <3>3. inbox' \in [Jobs -> Seq({"K", "D", "E"})]
      BY <1>1, <1>5, <2>1, <2>3 DEF Typed, TypedLink
    <3>4. TypedRx'
      BY <1>1, <2>3, <3>1 DEF Typed, TypedRx, Running
    <3>5. TypedDisk'
      BY <1>1, <2>1, <2>3, <3>2 DEF Typed, TypedDisk
    <3> QED
      BY <1>3, <2>2, <3>3, <3>4, <3>5 DEF Typed, TypedLink
  <2>4. CASE rx' = Idle /\ UNCHANGED <<disk, inbox>>
    BY <1>1, <1>3, <1>4, <2>2, <2>4 DEF Typed, TypedLink, TypedDisk
  <2> QED
    BY <1>9, <2>3, <2>4 DEF RxBody, Finish
<1> QED
  BY <1>6, <1>7, <1>8, <1>9 DEF Script
-----------------------------------------------------------------------------
(* What a step does to a job it is not a step of. *)

\* Files only get newer and more of them land: a row whose file is still the
\* one asked for had it before.
Onward == /\ local' \in [Roms -> Nat] /\ \A f \in Roms : local'[f] >= local[f]
          /\ landed \subseteq landed'

LEMMA SameBefore ==
  ASSUME IInv, NEW k \in Jobs, Onward, req'[k] = req[k],
         out'[k].row = out[k].row, Now(k) <= Len(Files(k)), pc[k] # "none",
         Same(k)'
  PROVE  Same(k) /\ local'[Files(k)[Now(k)]] = local[Files(k)[Now(k)]]
<1> DEFINE i == Now(k)  f == Files(k)[i]  s == req[k].stat[i]
<1>1. i \in 1..Len(Files(k)) /\ Files(k) \in Seq(Roms)
      /\ req[k].stat \in Seq(Nat) /\ Len(req[k].stat) = Len(Files(k))
  BY DEF IInv, Job, Order, Asked, Typed, TypedReq, Request, TypedOut, Now, Files
<1>2. f \in Roms /\ s \in Nat
  BY <1>1
<1>3. s <= local[f]
  BY <1>1 DEF IInv, Job, Asked
<1>4. s = local'[f]
  BY DEF Same, Now, Files
<1> HIDE DEF i, f, s
<1>5. local[f] \in Nat /\ local'[f] \in Nat /\ local'[f] >= local[f]
  BY <1>2 DEF Onward, IInv, Typed, TypedRoms
<1>6. s = local[f] /\ local'[f] = local[f]
  BY <1>2, <1>3, <1>4, <1>5
<1> QED
  BY <1>6 DEF Same, i, f, s

LEMMA DeliveredStays ==
  ASSUME IInv, NEW k \in Jobs, Onward, req'[k] = req[k],
         out'[k].row = out[k].row, pc[k] # "none", Delivered(k)
  PROVE  Delivered(k)'
<1>1. PICK x \in landed :
        /\ x.job = k /\ x.row = Now(k)
        /\ Now(k) <= Len(Files(k)) =>
             /\ x.file = Files(k)[Now(k)]
             /\ Same(k) => x.image = Image(local[x.file])
  BY DEF Delivered
<1>2. x \in landed' /\ Now(k)' = Now(k) /\ Files(k)' = Files(k)
  BY DEF Onward, Now, Files
<1>3. ASSUME Now(k) <= Len(Files(k)), Same(k)'
      PROVE  x.image = Image(local'[x.file])
  BY <1>1, <1>3, SameBefore
<1> QED
  BY <1>1, <1>2, <1>3 DEF Delivered

\* The link of a job, seen from it, is as it was or gone.
LinkKept(k) == Linked(k)' => Linked(k) /\ rx' = rx /\ disk' = disk

LEMMA TalkStays ==
  ASSUME IInv, NEW k \in Jobs, Onward, LinkKept(k), req'[k] = req[k],
         out'[k] = out[k], pc'[k] = pc[k], batch'[k].sock = batch[k].sock,
         inbox'[k] = inbox[k]
  PROVE  Talk(k)'
<1>1. Talk(k) /\ Order(k)
  BY DEF IInv, Job
<1>2. CASE batch[k].sock = "none"
  BY <1>1, <1>2 DEF Talk
<1>3. CASE batch[k].sock # "none" /\ pc[k] = "ack"
  <2>1. Now(k) <= Len(Files(k)) /\ pc[k] # "none"
    BY <1>1, <1>3 DEF Order, Sending
  <2>2. Now(k)' = Now(k) /\ Files(k)' = Files(k)
    BY DEF Now, Files
  <2>3. Same(k)' => Same(k) /\ local'[Files(k)[Now(k)]] = local[Files(k)[Now(k)]]
    BY <2>1, SameBefore
  <2>4. ASSUME Linked(k)', HeaderSent(k) PROVE HeaderSent(k)'
    BY <2>2, <2>3, <2>4 DEF HeaderSent, LinkKept
  <2>5. ASSUME Linked(k)', RowOpen(k) PROVE RowOpen(k)'
    BY <2>2, <2>3, <2>5 DEF RowOpen, NoFile, LinkKept
  <2>6. Linked(k)' => Linked(k) /\ rx' = rx /\ disk' = disk
    BY DEF LinkKept
  <2> QED
    BY <1>1, <1>3, <2>4, <2>5, <2>6 DEF Talk, AckTalk
<1>4. CASE batch[k].sock # "none" /\ pc[k] = "wait"
  <2>1. Now(k) <= Len(Files(k)) /\ pc[k] # "none"
    BY <1>1, <1>4 DEF Order, Sending
  <2>2. Now(k)' = Now(k) /\ Files(k)' = Files(k)
    BY DEF Now, Files
  <2>3. Same(k)' => Same(k) /\ local'[Files(k)[Now(k)]] = local[Files(k)[Now(k)]]
    BY <2>1, SameBefore
  <2>4. ASSUME Linked(k)', BytesSent(k) PROVE BytesSent(k)'
    BY <2>2, <2>3, <2>4 DEF BytesSent, RowOpen, NoFile, LinkKept
  <2>5. Delivered(k) => Delivered(k)'
    BY <2>1, DeliveredStays
  <2>6. Linked(k)' => Linked(k) /\ rx' = rx /\ (NoFile => NoFile')
    BY DEF LinkKept, NoFile
  <2> QED
    BY <1>1, <1>4, <2>4, <2>5, <2>6 DEF Talk, WaitTalk
<1>5. CASE batch[k].sock # "none" /\ pc[k] \notin {"ack", "wait"}
  BY <1>1, <1>5 DEF Talk, Quiet, LinkKept, NoFile
<1> QED
  BY <1>2, <1>3, <1>4, <1>5

LEMMA RestStays ==
  ASSUME IInv, NEW k \in Jobs, Onward, req'[k] = req[k], out'[k] = out[k],
         pc'[k] = pc[k], rows'[k] = rows[k], cancelled'[k] = cancelled[k]
  PROVE  Asked(k)' /\ Order(k)' /\ Outcome(k)'
<1>1. Job(k)
  BY DEF IInv
<1>2. Asked(k)'
  <2>1. Files(k) \in Seq(Roms) /\ req[k].stat \in Seq(Nat)
    BY DEF IInv, Typed, TypedReq, Request, Files
  <2>2. \A i \in 1..Len(Files(k)) : req[k].stat[i] <= local'[Files(k)[i]]
    <3> TAKE i \in 1..Len(Files(k))
    <3>1. Files(k)[i] \in Roms /\ req[k].stat[i] \in Nat
          /\ req[k].stat[i] <= local[Files(k)[i]]
      BY <1>1, <2>1 DEF Job, Asked
    <3> QED
      BY <3>1 DEF Onward, IInv, Typed, TypedRoms
  <2> QED
    BY <1>1, <2>2 DEF Job, Asked, Files, NRows
<1>3. Order(k)'
  BY <1>1 DEF Job, Order, NRows, Now, Files
<1>4. Outcome(k)'
  <2>1. pc[k] \in {"row", "book"} /\ out[k].ok => Delivered(k)'
    BY <1>1, DeliveredStays DEF Job, Outcome
  <2>2. ASSUME pc[k] \in {"walk", "ack"}, Same(k)'
        PROVE  out[k].size = Size[local'[Files(k)[Now(k)]]]
    <3>1. Now(k) <= Len(Files(k)) /\ pc[k] # "none"
      BY <1>1, <2>2 DEF Job, Order, Sending
    <3>2. Same(k) /\ local'[Files(k)[Now(k)]] = local[Files(k)[Now(k)]]
      BY <2>2, <3>1, SameBefore
    <3> QED
      BY <1>1, <2>2, <3>2 DEF Job, Outcome
  <2>3. Files(k)' = Files(k) /\ Now(k)' = Now(k)
    BY DEF Files, Now
  <2> QED
    BY <2>1, <2>2, <2>3 DEF Outcome
<1> QED
  BY <1>2, <1>3, <1>4

LEMMA Untouched ==
  ASSUME IInv, NEW k \in Jobs, Onward, LinkKept(k), req'[k] = req[k],
         out'[k] = out[k], pc'[k] = pc[k], batch'[k].sock = batch[k].sock,
         inbox'[k] = inbox[k], rows'[k] = rows[k], cancelled'[k] = cancelled[k]
  PROVE  Job(k)'
  BY RestStays, TalkStays DEF Job
-----------------------------------------------------------------------------
(* What a step does to its own job. *)

\* The thread goes on with the row it is on.
LEMMA MoveOn ==
  ASSUME IInv, NEW j \in Jobs, NEW l \in OnRow, Goto(j, l),
         pc[j] \in OnRow, l \in Sending => pc[j] \in Sending,
         l \in {"tool", "proc"} => pc[j] \in {"tool", "proc"},
         UNCHANGED <<req, rows, local>>,
         out'[j].row = out[j].row, out'[j].ok \/ l = "row"
  PROVE  Asked(j)' /\ Order(j)'
<1>1. Asked(j) /\ Order(j) /\ pc'[j] = l
  BY DEF IInv, Job, Goto, Typed, TypedPc
<1>2. pc[j] # "none" /\ l # "none" /\ l \notin {"top", "book", "end", "over"}
      /\ pc[j] \notin {"end", "over"}
  BY DEF OnRow, Sending
<1>3. Asked(j)'
  BY <1>1, <1>2 DEF Asked, NRows, Files
<1>4. Order(j)'
  BY <1>1, <1>2 DEF Order, NRows, Files, Now
<1> QED
  BY <1>3, <1>4

LEMMA FailStep ==
  ASSUME IInv, NEW j \in Jobs, Fail(j), pc[j] \in OnRow,
         UNCHANGED <<req, local>>
  PROVE  Job(j)'
<1>1. /\ Goto(j, "row") /\ out' = [out EXCEPT ![j].ok = FALSE]
      /\ UNCHANGED <<rows, cancelled>>
  BY DEF Fail
<1>2. out'[j].row = out[j].row /\ ~out'[j].ok /\ pc'[j] = "row"
  BY <1>1 DEF IInv, Typed, TypedOut, TypedPc, Goto
<1>3. Asked(j)' /\ Order(j)'
  BY <1>1, <1>2, MoveOn DEF OnRow, Sending
<1>4. batch'[j].sock # "none" \/ inbox'[j] = <<>>
  BY DEF Fail, Shut, ShutTo, link, IInv, Typed, TypedLink, Upload
<1>5. Talk(j)'
  BY <1>2, <1>4 DEF Talk
<1> QED
  BY <1>2, <1>3, <1>5 DEF Job, Outcome

LEMMA DieStep ==
  ASSUME IInv, NEW j \in Jobs, Die(j), Cut(j), pc[j] \in Sending,
         UNCHANGED <<req, local>>
  PROVE  Job(j)'
<1>1. /\ Goto(j, "dead") /\ UNCHANGED <<rows, out, batch, inbox>>
  BY DEF Die, link
<1>2. out[j].ok
  BY DEF IInv, Job, Order, Sending
<1>3. pc'[j] = "dead" /\ pc[j] \in OnRow
  BY <1>1 DEF IInv, Typed, TypedPc, Goto, OnRow
<1>4. Asked(j)' /\ Order(j)'
  BY <1>1, <1>2, <1>3, MoveOn DEF OnRow, Sending
<1>5. Talk(j)'
  BY <1>1 DEF IInv, Job, Talk, Cut
<1> QED
  BY <1>3, <1>4, <1>5 DEF Job, Outcome

LEMMA CancelStep ==
  ASSUME IInv, NEW j \in Jobs, Cancel(j)
  PROVE  Job(j)'
<1>1. Asked(j) /\ Order(j) /\ Talk(j) /\ Outcome(j)
  BY DEF IInv, Job
<1>2. UNCHANGED <<req, rows, rx, disk, landed, local>>
  BY DEF Cancel, request, console
<1>3. \/ batch'[j].sock = "none" /\ inbox'[j] = <<>>
      \/ batch'[j].sock = batch[j].sock /\ inbox'[j] = inbox[j]
  BY DEF Cancel, ShutTo, IInv, Typed, TypedLink, Upload
<1>4. CASE pc[j] = "proc"
  <2>1. Goto(j, "row") /\ out' = [out EXCEPT ![j].ok = FALSE]
    BY <1>4 DEF Cancel
  <2>2. pc'[j] = "row" /\ out'[j].row = out[j].row /\ ~out'[j].ok
    BY <2>1 DEF IInv, Typed, TypedOut, TypedPc, Goto
  <2>3. Asked(j)' /\ Order(j)'
    BY <1>2, <1>4, <2>1, <2>2, MoveOn DEF OnRow, Sending
  <2>4. Talk(j)'
    BY <1>1, <1>3, <2>2 DEF Talk
  <2> QED
    BY <2>2, <2>3, <2>4 DEF Job, Outcome
<1>5. CASE pc[j] # "proc"
  <2>1. UNCHANGED <<pc, out>> /\ cancelled'[j]
    BY <1>5 DEF Cancel, IInv, Typed, TypedOut
  <2>2. Asked(j)' /\ Order(j)' /\ Outcome(j)'
    BY <1>1, <1>2, <2>1 DEF Asked, Order, Outcome, Delivered, Same, Files, Now,
                            NRows
  <2>3. Talk(j)'
    <3>1. CASE batch'[j].sock = "none" /\ inbox'[j] = <<>>
      BY <3>1 DEF Talk
    <3>2. CASE batch'[j].sock = batch[j].sock /\ inbox'[j] = inbox[j]
      <4>1. Onward /\ LinkKept(j)
        BY <1>2 DEF Onward, LinkKept, Linked, IInv, Typed, TypedRoms
      <4> QED
        BY <1>2, <2>1, <3>2, <4>1, TalkStays
    <3> QED
      BY <1>3, <3>1, <3>2
  <2> QED
    BY <2>2, <2>3 DEF Job
<1> QED
  BY <1>4, <1>5

LEMMA StartStep ==
  ASSUME IInv, NEW j \in Jobs, NEW r \in Requests[j],
         Start(j, r.files, r.launch)
  PROVE  Job(j)'
<1>1. r.files \in Seq(Roms) /\ r.launch \in BOOLEAN
  BY JobsAssumption
<1>2. Talk(j) /\ Order(j) /\ pc[j] = "none"
  BY DEF IInv, Job, Start
<1>3. /\ pc'[j] = "top" /\ out'[j].row = 1 /\ out'[j].ok = out[j].ok
      /\ req'[j].files = r.files /\ req'[j].launch = r.launch
      /\ UNCHANGED <<batch, inbox, rx, local>>
  BY DEF Start, IInv, Typed, TypedPc, TypedOut, TypedReq, link, console
<1> DEFINE n == Len(r.files) + IF r.launch THEN 1 ELSE 0
<1>4. req'[j].stat = [i \in DOMAIN r.files |-> local[r.files[i]]]
      /\ rows'[j] = [i \in 1..n |-> "pending"]
  BY DEF Start, IInv, Typed, TypedRows, TypedReq
<1>5. Len(r.files) \in Nat /\ DOMAIN r.files = 1..Len(r.files)
  BY <1>1
<1>6. n \in Nat /\ n = IF r.launch THEN Len(r.files) + 1 ELSE Len(r.files)
  <2>1. CASE r.launch
    BY <1>5, <2>1
  <2>2. CASE ~r.launch
    BY <1>5, <2>2
  <2> QED
    BY <2>1, <2>2
<1> HIDE DEF n
<1>7. NRows(j)' = n /\ \A k \in 1..n : rows'[j][k] = "pending"
  BY <1>4, <1>6 DEF NRows
<1>8. Asked(j)'
  <2>1. req'[j].stat = [i \in 1..Len(r.files) |-> local[r.files[i]]]
    BY <1>4, <1>5
  <2>2. \A i \in 1..Len(r.files) : local[r.files[i]] \in Nat
    BY <1>1 DEF IInv, Typed, TypedRoms
  <2>3. Len(req'[j].stat) = Len(r.files)
    BY <1>5, <2>1
  <2>4. \A i \in 1..Len(r.files) : req'[j].stat[i] <= local[r.files[i]]
    BY <2>1, <2>2
  <2>5. NRows(j)' = IF r.launch THEN Len(r.files) + 1 ELSE Len(r.files)
    BY <1>6, <1>7
  <2> QED
    BY <1>3, <2>3, <2>4, <2>5 DEF Asked, Files
<1>9. out'[j].ok
  BY <1>2, <1>3 DEF Order
<1>10. Order(j)'
  BY <1>3, <1>6, <1>7, <1>9 DEF Order, Now, OnRow, Sending
<1>11. Talk(j)'
  BY <1>2, <1>3 DEF Talk, Quiet, Linked, NoFile, Order
<1> QED
  BY <1>3, <1>8, <1>10, <1>11 DEF Job, Outcome

LEMMA TopStep ==
  ASSUME IInv, NEW j \in Jobs, Top(j)
  PROVE  Job(j)'
<1>1. Asked(j) /\ Order(j) /\ Talk(j) /\ pc[j] = "top" /\ out[j].ok
  BY DEF IInv, Job, Order, Top
<1>2. UNCHANGED <<req, cancelled, out, batch, inbox, rx, disk, landed, local>>
  BY DEF Top, request, link, console
<1>3. CASE cancelled[j] \/ Now(j) > NRows(j)
  <2>1. pc'[j] = "end" /\ rows' = rows
    BY <1>3 DEF Top, Goto, IInv, Typed, TypedPc
  <2>2. Asked(j)'
    BY <1>1, <1>2, <2>1 DEF Asked, Files, NRows
  <2>3. Order(j)'
    BY <1>1, <1>2, <2>1 DEF Order, Files, NRows, Now, OnRow, Sending
  <2>4. Talk(j)'
    BY <1>1, <1>2, <2>1 DEF Talk, Quiet, Linked, NoFile
  <2> QED
    BY <2>1, <2>2, <2>3, <2>4 DEF Job, Outcome
<1>4. CASE ~(cancelled[j] \/ Now(j) > NRows(j))
  <2> DEFINE n == Now(j)  N == NRows(j)  R == rows[j]
             l == IF n > Len(Files(j)) THEN "tool"
                  ELSE IF batch[j].opened THEN "header" ELSE "open"
  <2>1. n \in Nat /\ N \in Nat /\ n >= 1 /\ R \in Seq(RowStates)
        /\ Files(j) \in Seq(Roms)
    BY <1>1 DEF IInv, Typed, TypedOut, TypedRows, TypedReq, Request, Now, NRows,
                Files, Order
  <2>2. n \in 1..N
    BY <1>4, <2>1
  <2>3. Goto(j, l) /\ rows' = [rows EXCEPT ![j][n] = "running"]
    BY <1>4 DEF Top
  <2>4. l \in {"tool", "header", "open"} /\ (l = "tool" <=> n > Len(Files(j)))
    OBVIOUS
  <2>5. pc'[j] = l
    BY <2>3 DEF Goto, IInv, Typed, TypedPc
  <2> HIDE DEF l
  <2>6. rows'[j] = [R EXCEPT ![n] = "running"]
    BY <2>3 DEF IInv, Typed, TypedRows
  <2>7. /\ NRows(j)' = N /\ rows'[j][n] = "running"
        /\ \A k \in 1..N : k # n => rows'[j][k] = R[k]
    BY <2>1, <2>2, <2>6 DEF NRows
  <2>8. Asked(j)'
    BY <1>1, <1>2, <2>4, <2>5, <2>7 DEF Asked, Files
  <2>9. Order(j)'
    <3>1. \A k \in 1..N : /\ k < n => R[k] = "done"
                          /\ k > n => R[k] = "pending"
      BY <1>1 DEF Order
    <3>2. Now(j)' = n /\ Files(j)' = Files(j) /\ out'[j].ok
      BY <1>1, <1>2 DEF Now, Files
    <3>3. l = "tool" \/ n <= Len(Files(j))
      BY <2>1, <2>4
    <3> HIDE DEF n, N, R
    <3> QED
      BY <2>1, <2>2, <2>4, <2>5, <2>7, <3>1, <3>2, <3>3 DEF Order, OnRow, Sending
  <2>10. Talk(j)'
    BY <1>1, <1>2, <2>4, <2>5 DEF Talk, Quiet, Linked, NoFile
  <2> QED
    BY <2>4, <2>5, <2>8, <2>9, <2>10 DEF Job, Outcome
<1> QED
  BY <1>3, <1>4

LEMMA OpenStep ==
  ASSUME IInv, NEW j \in Jobs, Open(j)
  PROVE  Job(j)'
<1>1. Talk(j) /\ pc[j] = "open" /\ out[j].ok
  BY DEF IInv, Job, Order, Open
<1>2. UNCHANGED <<req, rows, rx, disk, landed, local>>
  BY DEF Open, request
<1>3. CASE /\ Goto(j, "port") /\ batch' = [batch EXCEPT ![j].opened = TRUE]
           /\ UNCHANGED <<rows, cancelled, out, inbox>>
  <2>1. pc'[j] = "port" /\ batch'[j].sock = batch[j].sock
    BY <1>3 DEF Goto, IInv, Typed, TypedPc, TypedLink, Upload
  <2>2. Asked(j)' /\ Order(j)'
    BY <1>1, <1>2, <1>3, MoveOn DEF OnRow, Sending
  <2>3. Talk(j)'
    BY <1>1, <1>2, <1>3, <2>1 DEF Talk, Quiet, Linked, NoFile
  <2> QED
    BY <2>1, <2>2, <2>3 DEF Job, Outcome
<1>4. CASE Goto(j, "row") /\ out' = [out EXCEPT ![j].ok = FALSE] /\ Shut(j)
  <2>1. /\ pc'[j] = "row" /\ ~out'[j].ok /\ out'[j].row = out[j].row
        /\ batch'[j].sock = "none" /\ inbox'[j] = <<>>
    BY <1>4 DEF Goto, Shut, ShutTo, IInv, Typed, TypedPc, TypedOut, TypedLink,
                Upload
  <2>2. Asked(j)' /\ Order(j)'
    BY <1>1, <1>2, <1>4, <2>1, MoveOn DEF OnRow, Sending
  <2> QED
    BY <2>1, <2>2 DEF Job, Outcome, Talk
<1> QED
  BY <1>3, <1>4 DEF Open

LEMMA HeaderStep ==
  ASSUME IInv, NEW j \in Jobs, Header(j)
  PROVE  Job(j)'
<1> DEFINE m == HeaderOf(j)
<1>1. Talk(j) /\ Order(j) /\ out[j].ok
      /\ pc[j] \in {"port", "header", "walk"}
  BY DEF IInv, Job, Order, Header
<1>2. UNCHANGED <<req, rows, disk, landed, local>> /\ pc[j] \in OnRow
      /\ pc[j] \in Sending
  BY <1>1 DEF Header, Fail, request, OnRow, Sending
<1>3. m.kind = "file" /\ m.row = Now(j) /\ m.file = Files(j)[Now(j)]
      /\ m.size = SizeOf(j) /\ m \in Messages
      /\ (Same(j) => m.size = Size[local[m.file]])
  <2>1. Same(j) => SizeOf(j) = Size[local[Files(j)[Now(j)]]]
    BY DEF IInv, Job, Outcome, SizeOf
  <2> QED
    BY <1>2, <2>1, HeaderIsFile DEF HeaderOf
<1>4. rx.in \in Seq(Messages)
  BY DEF IInv, Typed, TypedRx, Running
<1>5. CASE /\ Goto(j, "ack") /\ UNCHANGED cancelled
           /\ out' = [out EXCEPT ![j].size = SizeOf(j)]
  <2>1. /\ pc'[j] = "ack" /\ out'[j].row = out[j].row
        /\ out'[j].ok = out[j].ok /\ out'[j].size = SizeOf(j)
    BY <1>5 DEF Goto, IInv, Typed, TypedPc, TypedOut
  <2>2. Asked(j)' /\ Order(j)'
    BY <1>1, <1>2, <1>5, <2>1, MoveOn DEF OnRow, Sending
  <2>3. Now(j)' = Now(j) /\ Files(j)' = Files(j) /\ (Same(j)' <=> Same(j))
    BY <1>2, <2>1 DEF Now, Files, Same
  <2> HIDE DEF m
  <2>4. ASSUME batch[j].sock = "set", Linked(j), Say(m),
               UNCHANGED <<batch, inbox>>
        PROVE  Talk(j)'
    <3>1. inbox[j] = <<>> /\ rx.st = "header" /\ NoFile
      BY <1>1, <2>4 DEF Talk, Quiet
    <3>2. rx'.in = Append(rx.in, m) /\ rx'.st = rx.st
      BY <2>4 DEF Say, IInv, Typed, TypedRx, Running
    <3>3. \A k \in 1..Len(rx'.in) : IsFile(rx'.in[k]) =>
             k = Len(rx'.in) /\ rx'.in[k] = m
      BY <1>3, <1>4, <3>1, <3>2 DEF NoFile
    <3>4. Same(j)' => m.size = Size[local'[m.file]]
      BY <1>2, <1>3, <2>3
    <3>5. HeaderSent(j)'
      BY <1>3, <2>3, <3>1, <3>2, <3>3, <3>4 DEF HeaderSent, IsFile
    <3> QED
      BY <2>1, <2>4, <3>1, <3>5 DEF Talk, AckTalk
  <2>5. ASSUME batch[j].sock = "none", UNCHANGED inbox,
               rx' = [rx EXCEPT !.st = "header", !.job = j, !.in = <<m>>]
        PROVE  Talk(j)'
    <3>1. inbox[j] = <<>>
      BY <1>1, <2>5 DEF Talk, AckTalk
    <3>2. rx'.in = <<m>> /\ rx'.st = "header"
      BY <2>5 DEF IInv, Typed, TypedRx, Running
    <3>3. \A k \in 1..Len(rx'.in) : k = Len(rx'.in) /\ rx'.in[k] = m
      BY <3>2
    <3>4. Same(j)' => m.size = Size[local'[m.file]]
      BY <1>2, <1>3, <2>3
    <3>5. HeaderSent(j)'
      BY <1>3, <2>3, <3>2, <3>3, <3>4 DEF HeaderSent, IsFile
    <3> QED
      BY <2>1, <2>5, <3>1, <3>5 DEF Talk, AckTalk
  <2>6. ASSUME rx' = [rx EXCEPT !.st = "foreign", !.job = j],
               inbox' = [inbox EXCEPT ![j] = <<"K">>],
               batch' = [batch EXCEPT ![j].sock = "local"]
        PROVE  Talk(j)'
    <3>1. inbox'[j] = <<"K">> /\ ~Linked(j)' /\ batch'[j].sock # "none"
      BY <2>6 DEF Linked, IInv, Typed, TypedRx, TypedLink, Running, Upload
    <3> QED
      BY <2>1, <3>1 DEF Talk, AckTalk
  <2>7. ~Fail(j)
    <3>1. Fail(j) => pc'[j] = "row"
      BY DEF Fail, Goto, IInv, Typed, TypedPc
    <3> QED
      BY <2>1, <3>1
  <2>8. Talk(j)'
    BY <2>4, <2>5, <2>6, <2>7 DEF Header, HeaderOf, SizeOf, m
  <2>9. Outcome(j)'
    BY <1>2, <1>3, <2>1, <2>3 DEF Outcome, m, HeaderOf
  <2> QED
    BY <2>2, <2>8, <2>9 DEF Job
<1>6. CASE Fail(j)
  BY <1>2, <1>6, FailStep
<1> QED
  BY <1>5, <1>6 DEF Header, SizeOf

LEMMA WalkStep ==
  ASSUME IInv, NEW j \in Jobs, Walk(j)
  PROVE  Job(j)'
<1>1. /\ pc[j] = "ack" /\ Goto(j, "walk") /\ out[j].ok
      /\ UNCHANGED <<req, rows, out, local>>
  BY DEF Walk, IInv, Job, Order, request
<1>2. pc'[j] = "walk"
  BY <1>1 DEF Goto, IInv, Typed, TypedPc
<1>3. Asked(j)' /\ Order(j)'
  BY <1>1, MoveOn DEF OnRow, Sending
<1>4. batch'[j].sock = "none" /\ inbox'[j] = <<>>
  BY DEF Walk, IInv, Typed, TypedLink, Upload
<1>5. Talk(j)'
  BY <1>4 DEF Talk
<1>6. Outcome(j)'
  BY <1>1, <1>2 DEF IInv, Job, Outcome, Same, Files, Now
<1> QED
  BY <1>3, <1>5, <1>6 DEF Job

LEMMA AckStep ==
  ASSUME IInv, NEW j \in Jobs, Ack(j)
  PROVE  Job(j)'
<1> DEFINE f == Files(j)[Now(j)]  I == Image(local[f])
<1>1. Talk(j) /\ Order(j) /\ pc[j] = "ack" /\ out[j].ok /\ pc[j] \in Sending
      /\ pc[j] \in OnRow
  BY DEF IInv, Job, Order, Ack, Sending, OnRow
<1>2. UNCHANGED <<req, disk, landed, local>>
  BY DEF Ack, request
<1>3. CASE /\ ~Cut(j) /\ inbox[j] # <<>> /\ Head(inbox[j]) = "K"
           /\ inbox' = [inbox EXCEPT ![j] = Tail(@)]
           /\ batch' = [batch EXCEPT ![j].sock = "set"]
           /\ rx' = IF Linked(j) THEN [rx EXCEPT !.in = @ \o I] ELSE rx
           /\ Goto(j, "wait")
           /\ UNCHANGED <<rows, cancelled, out>>
  <2>1. pc'[j] = "wait" /\ batch'[j].sock # "none"
    BY <1>3 DEF Goto, IInv, Typed, TypedPc, TypedLink, Upload
  <2>2. Asked(j)' /\ Order(j)'
    BY <1>1, <1>2, <1>3, MoveOn DEF OnRow, Sending
  <2>3. Now(j)' = Now(j) /\ Files(j)' = Files(j) /\ (Same(j)' <=> Same(j))
    BY <1>2, <1>3 DEF Now, Files, Same
  <2>4. inbox[j] \in {<<>>, <<"K">>, <<"E">>}
    BY <1>1, <1>3 DEF Talk, AckTalk, Cut
  <2>5. inbox[j] = <<"K">>
    BY <1>3, <2>4
  <2>6. inbox'[j] = <<>>
    BY <1>3, <2>5 DEF IInv, Typed, TypedLink
  <2>7. Linked(j) =>
          RowOpen(j) /\ rx.in = <<>> /\ disk[rx.file] = <<>>
    <3>1. <<"K">> # <<>> /\ <<"K">> # <<"E">>
      OBVIOUS
    <3> QED
      BY <1>1, <1>3, <2>5, <3>1 DEF Talk, AckTalk, Cut
  <2>8. ASSUME Linked(j) PROVE BytesSent(j)'
    <3>1. f \in Roms /\ local[f] \in 1..Last[f]
      BY <1>1, CurrentFile
    <3>2. /\ I \in Seq(Messages)
          /\ \A k \in 1..Len(I) : ~IsFile(I[k])
      BY <3>1, Content
    <3>3. RowOpen(j) /\ rx.in = <<>> /\ disk[rx.file] = <<>> /\ rx.file = f
      BY <2>7, <2>8 DEF RowOpen
    <3> HIDE DEF f
    <3>4. rx' = [rx EXCEPT !.in = @ \o I]
      BY <1>3, <2>8
    <3> HIDE DEF I
    <3>5. /\ rx'.in = I /\ rx'.st = rx.st /\ rx'.row = rx.row
          /\ rx'.file = rx.file /\ rx'.size = rx.size
      BY <3>2, <3>3, <3>4 DEF IInv, Typed, TypedRx, Running
    <3>6. RowOpen(j)'
      BY <1>2, <2>3, <3>2, <3>3, <3>5 DEF RowOpen, NoFile
    <3>7. disk'[rx'.file] \o rx'.in = I
      BY <1>2, <3>2, <3>3, <3>5
    <3>8. I = Image(local'[rx'.file])
      BY <1>2, <3>3, <3>5 DEF I
    <3> QED
      BY <3>6, <3>7, <3>8 DEF BytesSent
  <2>9. Linked(j)' => Linked(j)
    BY <1>3 DEF Linked, IInv, Typed, TypedRx, Running
  <2> QED
    BY <2>1, <2>2, <2>6, <2>8, <2>9 DEF Job, Talk, WaitTalk, Outcome
<1>4. CASE Fail(j)
  BY <1>1, <1>2, <1>4, FailStep
<1>5. CASE Cut(j) /\ Die(j)
  BY <1>1, <1>2, <1>5, DieStep
<1> QED
  BY <1>3, <1>4, <1>5 DEF Ack

\* A connection that is given up is not spoken on.
LEMMA CloseTalks ==
  ASSUME IInv, NEW j \in Jobs, Close(j), pc'[j] \notin {"ack", "wait"},
         batch[j].closed => Quiet(j) \/ ~out'[j].ok \/ batch[j].sock = "none"
  PROVE  Talk(j)'
<1>1. CASE batch[j].closed
  <2>1. UNCHANGED <<batch, inbox, rx>>
    BY <1>1 DEF Close, link
  <2>2. Quiet(j) => Quiet(j)'
    BY <2>1 DEF Quiet, Linked, NoFile
  <2>3. batch[j].sock = "none" => inbox[j] = <<>>
    BY DEF IInv, Job, Talk
  <2>4. Quiet(j) => inbox[j] = <<>>
    BY DEF Quiet
  <2> QED
    BY <1>1, <2>1, <2>2, <2>3, <2>4 DEF Talk
<1>2. CASE ~batch[j].closed
  <2>1. batch'[j].sock = "none" /\ inbox'[j] = <<>>
    BY <1>2 DEF Close, Shut, ShutTo, IInv, Typed, TypedLink, Upload
  <2> QED
    BY <2>1 DEF Talk
<1> QED
  BY <1>1, <1>2

LEMMA WaitStep ==
  ASSUME IInv, NEW j \in Jobs, Wait(j)
  PROVE  Job(j)'
<1>1. Talk(j) /\ Order(j) /\ pc[j] = "wait" /\ out[j].ok /\ pc[j] \in Sending
      /\ pc[j] \in OnRow
  BY DEF IInv, Job, Order, Wait, Sending, OnRow
<1>2. UNCHANGED <<req, disk, landed, local>>
  BY DEF Wait, request
<1>3. CASE /\ ~Cut(j) /\ inbox[j] # <<>> /\ Head(inbox[j]) = "D"
           /\ \/ ~batch[j].closed /\ Close(j)
              \/ /\ inbox' = [inbox EXCEPT ![j] = Tail(@)]
                 /\ UNCHANGED <<batch, rx>>
           /\ out' = [out EXCEPT ![j].ok = TRUE]
           /\ Goto(j, "row")
           /\ UNCHANGED <<rows, cancelled>>
  <2>1. pc'[j] = "row" /\ out'[j].row = out[j].row /\ out'[j].ok
    BY <1>3 DEF Goto, IInv, Typed, TypedPc, TypedOut
  <2>2. Asked(j)' /\ Order(j)'
    BY <1>1, <1>2, <1>3, <2>1, MoveOn DEF OnRow, Sending
  <2>3. WaitTalk(j) /\ inbox[j] # <<>>
    BY <1>1, <1>3 DEF Talk, Cut
  <2>4. /\ inbox[j] = <<"D">> /\ Delivered(j)
        /\ Linked(j) => rx.st = "header" /\ NoFile
    BY <2>3 DEF WaitTalk
  <2>5. Delivered(j)'
    BY <1>2, <2>1, <2>4 DEF Delivered, Same, Now, Files
  <2>6. ASSUME ~batch[j].closed, Close(j) PROVE Talk(j)'
    BY <2>1, <2>6, CloseTalks
  <2>7. ASSUME inbox' = [inbox EXCEPT ![j] = Tail(@)], UNCHANGED <<batch, rx>>
        PROVE  Talk(j)'
    <3>1. inbox'[j] = <<>>
      BY <2>4, <2>7 DEF IInv, Typed, TypedLink
    <3> QED
      BY <2>1, <2>4, <2>7, <3>1 DEF Talk, Quiet, Linked, NoFile
  <2>8. Talk(j)'
    BY <1>3, <2>6, <2>7
  <2> QED
    BY <2>1, <2>2, <2>5, <2>8 DEF Job, Outcome
<1>4. CASE Fail(j)
  BY <1>1, <1>2, <1>4, FailStep
<1>5. CASE Cut(j) /\ Die(j)
  BY <1>1, <1>2, <1>5, DieStep
<1> QED
  BY <1>3, <1>4, <1>5 DEF Wait

LEMMA ToolStep ==
  ASSUME IInv, NEW j \in Jobs, Tool(j)
  PROVE  Job(j)'
<1>1. Talk(j) /\ Order(j) /\ pc[j] = "tool" /\ out[j].ok
  BY DEF IInv, Job, Order, Tool
<1>2. UNCHANGED <<req, rows, batch, inbox, rx, disk, landed, local>>
  BY DEF Tool, request, link
<1>3. PICK l \in {"proc", "row"} :
        /\ Goto(j, l) /\ out'[j].row = out[j].row
        /\ IF l = "row" THEN ~out'[j].ok ELSE out'[j].ok
  BY <1>1 DEF Tool, IInv, Typed, TypedOut
<1>4. pc'[j] = l
  BY <1>3 DEF Goto, IInv, Typed, TypedPc
<1>5. Asked(j)' /\ Order(j)'
  BY <1>1, <1>2, <1>3, MoveOn DEF OnRow, Sending
<1>6. Talk(j)'
  BY <1>1, <1>2, <1>4 DEF Talk, Quiet, Linked, NoFile
<1> QED
  BY <1>3, <1>4, <1>5, <1>6 DEF Job, Outcome

LEMMA ProcStep ==
  ASSUME IInv, NEW j \in Jobs, Proc(j)
  PROVE  Job(j)'
<1>1. Talk(j) /\ Order(j) /\ pc[j] = "proc" /\ out[j].ok
      /\ Now(j) > Len(Files(j)) /\ Now(j) \in Nat /\ Files(j) \in Seq(Roms)
  BY DEF IInv, Job, Order, Proc, Typed, TypedOut, TypedReq, Request, Now, Files
<1>2. UNCHANGED <<req, rows, batch, inbox, disk, local>> /\ Goto(j, "row")
  BY DEF Proc, request, link
<1>3. pc'[j] = "row" /\ out'[j].row = out[j].row
  BY <1>2 DEF Proc, Goto, IInv, Typed, TypedPc, TypedOut
<1>4. Asked(j)' /\ Order(j)'
  BY <1>1, <1>2, <1>3, MoveOn DEF OnRow, Sending
<1>5. Linked(j)' => Linked(j) /\ rx' = rx
  BY DEF Proc, Linked, IInv, Typed, TypedRx, Running
<1>6. Talk(j)'
  BY <1>1, <1>2, <1>3, <1>5 DEF Talk, Quiet, NoFile
<1>7. out'[j].ok => Delivered(j)'
  <2>1. Now(j)' = Now(j) /\ Files(j)' = Files(j)
    BY <1>2, <1>3 DEF Now, Files
  <2>2. out'[j].ok => \E x \in landed' : x.job = j /\ x.row = Now(j)
    <3> DEFINE x == [job |-> j, row |-> Now(j), file |-> None, image |-> <<>>]
    <3>1. x.job = j /\ x.row = Now(j)
      OBVIOUS
    <3>2. out'[j].ok => landed' = landed \cup {x}
      BY DEF Proc, IInv, Typed, TypedOut
    <3> HIDE DEF x
    <3> QED
      BY <3>1, <3>2
  <2>3. ~(Now(j) <= Len(Files(j)))
    BY <1>1
  <2> QED
    BY <2>1, <2>2, <2>3 DEF Delivered
<1> QED
  BY <1>3, <1>4, <1>6, <1>7 DEF Job, Outcome

LEMMA RowStep ==
  ASSUME IInv, NEW j \in Jobs, Row(j)
  PROVE  Job(j)'
<1> DEFINE n == Now(j)  N == NRows(j)  R == rows[j]
           s == IF cancelled[j] THEN "cancelled"
                ELSE IF out[j].ok THEN "done" ELSE "failed"
<1>1. Asked(j) /\ Order(j) /\ Talk(j) /\ Outcome(j) /\ pc[j] = "row"
  BY DEF IInv, Job, Row
<1>2. UNCHANGED <<req, cancelled, out, batch, inbox, rx, disk, landed, local>>
  BY DEF Row, request, link, console
<1>3. /\ n \in Nat /\ N \in Nat /\ R \in Seq(RowStates) /\ n \in 1..N
  BY <1>1 DEF IInv, Typed, TypedOut, TypedRows, Now, NRows, Order, OnRow
<1>4. pc'[j] = "book" /\ rows'[j] = [R EXCEPT ![n] = s]
  BY DEF Row, Goto, IInv, Typed, TypedPc, TypedRows
<1>5. s \in Closed /\ (~cancelled[j] => s = IF out[j].ok THEN "done" ELSE "failed")
  BY DEF Closed
<1> HIDE DEF s
<1>6. /\ NRows(j)' = N /\ rows'[j][n] = s
      /\ \A k \in 1..N : k # n => rows'[j][k] = R[k]
  BY <1>3, <1>4 DEF NRows
<1>7. \A k \in 1..N : /\ k < n => R[k] = "done"
                      /\ k > n => R[k] = "pending"
  BY <1>1 DEF Order
<1>8. Now(j)' = n /\ Files(j)' = Files(j)
  BY <1>2 DEF Now, Files
<1>9. Asked(j)'
  BY <1>1, <1>2, <1>4, <1>6 DEF Asked, Files
<1>10. Order(j)'
  <2> HIDE DEF n, N, R
  <2> QED
    BY <1>2, <1>3, <1>4, <1>5, <1>6, <1>7, <1>8 DEF Order, OnRow, Sending
<1>11. Talk(j)' /\ Outcome(j)'
  BY <1>1, <1>2, <1>4
  DEF Talk, Quiet, Linked, NoFile, Outcome, Delivered, Same, Now, Files
<1> QED
  BY <1>9, <1>10, <1>11 DEF Job

LEMMA BookStep ==
  ASSUME IInv, NEW j \in Jobs, Book(j)
  PROVE  Job(j)'
<1> DEFINE n == Now(j)  N == NRows(j)  R == rows[j]
<1>1. Asked(j) /\ Order(j) /\ Talk(j) /\ Outcome(j) /\ pc[j] = "book"
  BY DEF IInv, Job, Book
<1>2. UNCHANGED <<req, cancelled, batch, inbox, rx, disk, landed, local>>
  BY DEF Book, request, link, console
<1>3. /\ n \in Nat /\ N \in Nat /\ R \in Seq(RowStates) /\ n \in 1..N
      /\ R[n] \in Closed
  BY <1>1 DEF IInv, Typed, TypedOut, TypedRows, Now, NRows, Order
<1>4. \A k \in 1..N : /\ k < n => R[k] = "done"
                      /\ k > n => R[k] = "pending"
  BY <1>1 DEF Order
<1>5. Files(j)' = Files(j)
  BY <1>2 DEF Files
<1>6. CASE out[j].ok /\ ~cancelled[j]
  <2>1. /\ pc'[j] = "top" /\ rows' = rows
        /\ out'[j].row = n + 1 /\ out'[j].ok = out[j].ok
    <3>1. /\ Goto(j, "top") /\ rows' = rows
          /\ out' = [out EXCEPT ![j].row = n + 1]
      BY <1>6 DEF Book
    <3> QED
      BY <3>1 DEF Goto, IInv, Typed, TypedPc, TypedOut
  <2>2. R[n] = "done"
    BY <1>1, <1>6 DEF Order
  <2>3. Asked(j)'
    BY <1>1, <1>2, <2>1 DEF Asked, Files, NRows
  <2>4. Order(j)'
    <3>1. NRows(j)' = N /\ rows'[j] = R /\ Now(j)' = n + 1
      BY <2>1 DEF NRows, Now
    <3> HIDE DEF n, N, R
    <3> QED
      BY <1>3, <1>4, <1>6, <2>1, <2>2, <3>1 DEF Order, OnRow, Sending
  <2>5. Talk(j)'
    BY <1>1, <1>2, <2>1 DEF Talk, Quiet, Linked, NoFile
  <2> QED
    BY <2>1, <2>3, <2>4, <2>5 DEF Job, Outcome
<1>7. CASE ~(out[j].ok /\ ~cancelled[j])
  <2> DEFINE s == IF cancelled[j] THEN "cancelled" ELSE "skipped"
  <2>1. /\ pc'[j] = "end" /\ out'[j].row = out[j].row /\ ~out'[j].ok
        /\ rows'[j] = [k \in 1..N |-> IF k <= n THEN R[k] ELSE s]
    <3>1. /\ Goto(j, "end") /\ out' = [out EXCEPT ![j].ok = FALSE]
          /\ rows' = [rows EXCEPT ![j] =
                        [k \in 1..N |-> IF k <= n THEN R[k] ELSE s]]
      BY <1>7 DEF Book
    <3> HIDE DEF s
    <3> QED
      BY <3>1 DEF Goto, IInv, Typed, TypedPc, TypedOut, TypedRows
  <2> HIDE DEF s
  <2>2. NRows(j)' = N /\ \A k \in 1..N : k < n => rows'[j][k] = R[k]
    BY <1>3, <2>1 DEF NRows
  <2>3. Asked(j)'
    BY <1>1, <1>2, <2>1, <2>2 DEF Asked, Files
  <2>4. Now(j)' = n
    BY <2>1 DEF Now
  <2>5. Order(j)'
    <3> HIDE DEF n, N, R
    <3> QED
      BY <1>3, <1>4, <2>1, <2>2, <2>4 DEF Order, OnRow, Sending
  <2>6. Talk(j)'
    BY <1>1, <1>2, <2>1 DEF Talk
  <2> QED
    BY <2>1, <2>3, <2>5, <2>6 DEF Job, Outcome
<1> QED
  BY <1>6, <1>7

LEMMA EndStep ==
  ASSUME IInv, NEW j \in Jobs, End(j)
  PROVE  Job(j)'
<1>1. Asked(j) /\ Order(j) /\ Talk(j) /\ pc[j] = "end"
  BY DEF IInv, Job, End
<1>2. UNCHANGED <<req, rows, cancelled, out, disk, landed, local>>
      /\ pc'[j] = "over"
  BY DEF End, request, Goto, IInv, Typed, TypedPc
<1>3. Asked(j)'
  BY <1>1, <1>2 DEF Asked, Files, NRows
<1>4. Order(j)'
  BY <1>1, <1>2 DEF Order, Files, NRows, Now, OnRow, Sending
<1>5. ASSUME Close(j) PROVE Talk(j)'
  <2>1. Quiet(j) \/ ~out'[j].ok \/ batch[j].sock = "none"
    BY <1>1, <1>2 DEF Talk
  <2> QED
    BY <1>2, <1>5, <2>1, CloseTalks
<1>6. ASSUME Shut(j) PROVE Talk(j)'
  <2>1. batch'[j].sock = "none" /\ inbox'[j] = <<>>
    BY <1>6 DEF Shut, ShutTo, IInv, Typed, TypedLink, Upload
  <2> QED
    BY <2>1 DEF Talk
<1>7. Talk(j)'
  BY <1>5, <1>6 DEF End
<1> QED
  BY <1>2, <1>3, <1>4, <1>7 DEF Job, Outcome

\* The receiver reads the header it was sent, or something else and ends.
LEMMA RxHeaderTalk ==
  ASSUME IInv, NEW j \in Jobs, RxHeader, rx.job = j
  PROVE  Talk(j)'
<1> DEFINE m == Head(rx.in)
<1>1. Talk(j) /\ Order(j) /\ rx.st = "header" /\ Linked(j)
  BY DEF IInv, Job, RxHeader, Linked
<1>2. UNCHANGED <<req, pc, out, batch, landed, local>> /\ rx.in \in Seq(Messages)
  BY DEF RxHeader, request, thread, IInv, Typed, TypedRx, Running
<1>3. CASE batch[j].sock = "none"
  BY <1>1, <1>2, <1>3 DEF Talk, RxHeader, Answer
<1>4. CASE batch[j].sock # "none" /\ pc[j] = "ack"
  <2>1. inbox[j] = <<>> /\ HeaderSent(j)
    BY <1>1, <1>4 DEF Talk, AckTalk, RowOpen
  <2>2. Now(j)' = Now(j) /\ Files(j)' = Files(j) /\ (Same(j)' <=> Same(j))
    BY <1>2 DEF Now, Files, Same
  <2>3. ASSUME rx' = Idle, inbox' = inbox \/ Answer("E") PROVE Talk(j)'
    <3>1. ~Linked(j)'
      BY <2>3 DEF Linked, Idle
    <3>2. inbox'[j] = <<>> \/ inbox'[j] = <<"E">>
      BY <1>4, <2>1, <2>3 DEF Answer, IInv, Typed, TypedLink
    <3> QED
      BY <1>2, <1>4, <3>1, <3>2 DEF Talk, AckTalk
  <2>4. ASSUME rx.in # <<>>, m.kind = "file",
               disk' = [disk EXCEPT ![m.file] = <<>>], Answer("K"),
               rx' = [rx EXCEPT !.st = "body", !.in = Tail(@), !.row = m.row,
                                !.file = m.file, !.size = m.size]
        PROVE  Talk(j)'
    <3>1. m = rx.in[1] /\ 1 \in 1..Len(rx.in) /\ IsFile(m) /\ m \in Messages
      BY <1>2, <2>4 DEF IsFile
    <3>2. /\ 1 = Len(rx.in) /\ m.row = Now(j) /\ m.file = Files(j)[Now(j)]
          /\ Same(j) => m.size = Size[local[m.file]]
      <4> HIDE DEF m
      <4> QED
        BY <2>1, <3>1 DEF HeaderSent
    <3>3. Tail(rx.in) = <<>>
      BY <1>2, <3>2, TailOfOne
    <3>4. m.file \in Roms
      BY <3>1, FileFields
    <3> HIDE DEF m
    <3>5. inbox'[j] = <<"K">>
      BY <1>4, <2>1, <2>4 DEF Answer, IInv, Typed, TypedLink
    <3>6. /\ rx'.st = "body" /\ rx'.in = <<>> /\ rx'.row = m.row
          /\ rx'.file = m.file /\ rx'.size = m.size
      BY <2>4, <3>3 DEF IInv, Typed, TypedRx, Running
    <3>7. RowOpen(j)'
      BY <1>2, <2>2, <3>2, <3>6 DEF RowOpen, NoFile
    <3>8. disk'[rx'.file] = <<>>
      BY <2>4, <3>4, <3>6 DEF IInv, Typed, TypedDisk
    <3> QED
      BY <1>2, <1>4, <3>5, <3>6, <3>7, <3>8 DEF Talk, AckTalk
  <2> QED
    BY <2>3, <2>4 DEF RxHeader, Finish
<1>5. CASE batch[j].sock # "none" /\ pc[j] # "ack" /\ (pc[j] = "wait" \/ out[j].ok)
  <2>1. NoFile /\ (pc[j] = "wait" => inbox[j] = <<"D">> /\ Delivered(j))
        /\ (pc[j] # "wait" => inbox[j] = <<>>)
    BY <1>1, <1>5 DEF Talk, WaitTalk, Quiet, BytesSent, RowOpen
  <2>2. ~(rx.in # <<>> /\ m.kind = "file")
    BY <1>2, <2>1 DEF NoFile, IsFile
  <2>3. rx' = Idle /\ UNCHANGED inbox
    BY <2>2 DEF RxHeader, Finish
  <2>4. ~Linked(j)'
    BY <2>3 DEF Linked, Idle
  <2>5. Delivered(j) => Delivered(j)'
    BY <1>2 DEF Delivered, Same, Now, Files
  <2> QED
    BY <1>2, <1>5, <2>1, <2>3, <2>4, <2>5 DEF Talk, WaitTalk, Quiet
<1>6. CASE pc[j] \notin {"ack", "wait"} /\ ~out[j].ok /\ batch[j].sock # "none"
  BY <1>2, <1>6 DEF Talk
<1> QED
  BY <1>3, <1>4, <1>5, <1>6

\* A byte goes to the disk; behind the last one the file is closed.
LEMMA RxBodyTalk ==
  ASSUME IInv, NEW j \in Jobs, RxBody, rx.job = j, Onward
  PROVE  Talk(j)'
<1> DEFINE got == Append(disk[rx.file], Head(rx.in))
           whole == Len(got) = rx.size
           mark == [job |-> rx.job, row |-> rx.row, file |-> rx.file,
                    image |-> got]
<1>1. Talk(j) /\ Order(j) /\ rx.st = "body" /\ Linked(j) /\ rx.file \in Roms
  BY DEF IInv, Job, RxBody, Linked, Receiver
<1>2. UNCHANGED <<req, pc, out, batch, local>> /\ rx.in \in Seq(Messages)
      /\ disk[rx.file] \in Seq(Messages)
  BY <1>1 DEF RxBody, request, thread, IInv, Typed, TypedRx, TypedDisk, Running
<1>3. CASE batch[j].sock = "none"
  BY <1>1, <1>2, <1>3 DEF Talk, RxBody, Answer
<1>4. CASE batch[j].sock # "none" /\ pc[j] = "wait"
  <2>1. inbox[j] = <<>> /\ BytesSent(j)
    BY <1>1, <1>4 DEF Talk, WaitTalk
  <2>2. Now(j)' = Now(j) /\ Files(j)' = Files(j) /\ (Same(j)' <=> Same(j))
    BY <1>2 DEF Now, Files, Same
  <2>3. ASSUME rx' = Idle, UNCHANGED inbox PROVE Talk(j)'
    BY <1>2, <1>4, <2>1, <2>3 DEF Talk, WaitTalk, Linked, Idle
  <2>4. ASSUME rx.in # <<>>, disk' = [disk EXCEPT ![rx.file] = got],
               rx' = [rx EXCEPT !.in = Tail(@),
                                !.st = IF whole THEN "header" ELSE @],
               IF whole THEN Answer("D") /\ landed' = landed \cup {mark}
               ELSE UNCHANGED <<inbox, landed>>
        PROVE  Talk(j)'
    <3>1. /\ Tail(rx.in) \in Seq(Messages) /\ got \in Seq(Messages)
          /\ got \o Tail(rx.in) = disk[rx.file] \o rx.in
      <4>1. Head(rx.in) \in Messages /\ Tail(rx.in) \in Seq(Messages)
        BY <1>2, <2>4
      <4>2. got \in Seq(Messages)
        BY <1>2, <4>1
      <4> QED
        BY <1>2, <2>4, <4>1, <4>2, MoveOne
    <3>2. /\ rx.row = Now(j) /\ rx.file = Files(j)[Now(j)] /\ NoFile
          /\ Same(j) => /\ rx.size = Size[local[rx.file]]
                        /\ disk[rx.file] \o rx.in = Image(local[rx.file])
      BY <2>1 DEF BytesSent, RowOpen
    <3>3. \A k \in 1..Len(Tail(rx.in)) : ~IsFile(Tail(rx.in)[k])
      <4> TAKE k \in 1..Len(Tail(rx.in))
      <4>1. k + 1 \in 1..Len(rx.in) /\ Tail(rx.in)[k] = rx.in[k + 1]
        BY <1>2, <2>4
      <4> QED
        BY <3>2, <4>1 DEF NoFile
    <3>4. mark.job = j /\ mark.row = rx.row /\ mark.file = rx.file
          /\ mark.image = got
      OBVIOUS
    <3> HIDE DEF got, mark
    <3>5. CASE whole
      <4> HIDE DEF whole
      <4>1. rx'.in = Tail(rx.in) /\ rx'.st = "header"
        BY <2>4, <3>5 DEF IInv, Typed, TypedRx, Running
      <4>2. inbox'[j] = <<"D">>
        BY <1>4, <2>1, <2>4, <3>5 DEF Answer, IInv, Typed, TypedLink
      <4>3. NoFile'
        BY <3>3, <4>1 DEF NoFile, IsFile
      <4>4. ASSUME Same(j)' PROVE mark.image = Image(local'[mark.file])
        <5>1. local[rx.file] \in 1..Last[rx.file]
          BY <1>1 DEF IInv, Typed, TypedRoms
        <5>2. Image(local[rx.file]) \in Seq(Messages)
              /\ Len(Image(local[rx.file])) = Size[local[rx.file]]
          BY <1>1, <5>1, Content
        <5>3. got \o Tail(rx.in) = Image(local[rx.file])
              /\ Len(got) = Len(Image(local[rx.file]))
          BY <2>2, <3>1, <3>2, <3>5, <4>4, <5>2 DEF whole
        <5>4. got = Image(local[rx.file])
          BY <3>1, <5>2, <5>3, WholePrefix
        <5> QED
          BY <1>2, <3>4, <5>4
      <4>5. Delivered(j)'
        BY <2>2, <2>4, <3>2, <3>4, <3>5, <4>4 DEF Delivered
      <4> QED
        BY <1>2, <1>4, <4>1, <4>2, <4>3, <4>5 DEF Talk, WaitTalk
    <3>6. CASE ~whole
      <4> HIDE DEF whole
      <4>1. /\ rx'.in = Tail(rx.in) /\ rx'.st = rx.st /\ rx'.row = rx.row
            /\ rx'.file = rx.file /\ rx'.size = rx.size
        BY <2>4, <3>6 DEF IInv, Typed, TypedRx, Running
      <4>2. disk'[rx.file] = got /\ inbox' = inbox
        BY <1>1, <2>4, <3>6 DEF IInv, Typed, TypedDisk
      <4>3. RowOpen(j)'
        BY <1>1, <1>2, <2>2, <3>2, <3>3, <4>1 DEF RowOpen, NoFile, IsFile
      <4>4. BytesSent(j)'
        BY <1>2, <2>2, <3>1, <3>2, <4>1, <4>2, <4>3 DEF BytesSent
      <4> QED
        BY <1>2, <1>4, <2>1, <4>2, <4>4 DEF Talk, WaitTalk
    <3> QED
      BY <3>5, <3>6
  <2> QED
    BY <2>3, <2>4 DEF RxBody, Finish
<1>5. CASE batch[j].sock # "none" /\ pc[j] = "ack"
  <2>1. inbox[j] = <<"K">> /\ rx.in = <<>>
    BY <1>1, <1>5 DEF Talk, AckTalk, HeaderSent
  <2> QED
    BY <1>1, <1>5, <2>1 DEF RxBody, Eof, Linked
<1>6. CASE batch[j].sock # "none" /\ pc[j] \notin {"ack", "wait"}
  BY <1>1, <1>2, <1>6 DEF Talk, Quiet
<1> QED
  BY <1>3, <1>4, <1>5, <1>6
-----------------------------------------------------------------------------
(* A job's step leaves the other jobs and their links alone. *)

Alone(j, k) ==
  /\ req'[k] = req[k] /\ out'[k] = out[k] /\ pc'[k] = pc[k]
  /\ batch'[k].sock = batch[k].sock /\ inbox'[k] = inbox[k]
  /\ rows'[k] = rows[k] /\ cancelled'[k] = cancelled[k] /\ LinkKept(k)

\* A step that leaves the receiver alone, or takes it over, or speaks on a link
\* of its own.
Mine(j) == \/ rx' = rx
           \/ rx'.job = j
           \/ Linked(j) /\ \E s : rx' = [rx EXCEPT !.in = s]

LEMMA MineKeeps ==
  ASSUME IInv, NEW j \in Jobs, NEW k \in Jobs, k # j, Mine(j), UNCHANGED disk
  PROVE  LinkKept(k)
<1>1. CASE rx' = rx
  BY <1>1 DEF LinkKept, Linked
<1>2. CASE rx'.job = j
  BY <1>2 DEF LinkKept, Linked
<1>3. CASE Linked(j) /\ \E s : rx' = [rx EXCEPT !.in = s]
  BY <1>3 DEF LinkKept, Linked, IInv, Typed, TypedRx, Running
<1> QED
  BY <1>1, <1>2, <1>3 DEF Mine

LEMMA ShutAlone ==
  ASSUME IInv, NEW j \in Jobs, NEW k \in Jobs, k # j, NEW s, ShutTo(j, s)
  PROVE  batch'[k].sock = batch[k].sock /\ inbox'[k] = inbox[k]
  BY DEF ShutTo, IInv, Typed, TypedLink

LEMMA CloseAlone ==
  ASSUME IInv, NEW j \in Jobs, NEW k \in Jobs, k # j, Close(j)
  PROVE  batch'[k].sock = batch[k].sock /\ inbox'[k] = inbox[k] /\ Mine(j)
<1>1. CASE batch[j].closed
  BY <1>1 DEF Close, link, Mine
<1>2. CASE ~batch[j].closed
  <2>1. Shut(j)
    BY <1>2 DEF Close
  <2>2. Mine(j)
    <3>1. CASE batch[j].sock = "set" /\ Linked(j)
      BY <1>2, <3>1 DEF Close, Mine, Say
    <3>2. CASE ~(batch[j].sock = "set" /\ Linked(j))
      BY <1>2, <3>2 DEF Close, Mine
    <3> QED
      BY <3>1, <3>2
  <2> QED
    BY <2>1, <2>2, ShutAlone DEF Shut
<1> QED
  BY <1>1, <1>2

LEMMA FailAlone ==
  ASSUME IInv, NEW j \in Jobs, NEW k \in Jobs, k # j, Fail(j)
  PROVE  /\ batch'[k].sock = batch[k].sock /\ inbox'[k] = inbox[k]
         /\ pc'[k] = pc[k] /\ out'[k] = out[k]
         /\ UNCHANGED <<rows, cancelled>>
<1>1. batch'[k].sock = batch[k].sock /\ inbox'[k] = inbox[k]
  BY ShutAlone DEF Fail, Shut, link
<1> QED
  BY <1>1 DEF Fail, Goto, IInv, Typed, TypedPc, TypedOut

LEMMA GotoAlone ==
  ASSUME IInv, NEW j \in Jobs, NEW k \in Jobs, k # j, NEW l, Goto(j, l)
  PROVE  pc'[k] = pc[k]
  BY DEF Goto, IInv, Typed, TypedPc

LEMMA OthersAlone ==
  ASSUME IInv, NEW j \in Jobs, NEW k \in Jobs, k # j, UNCHANGED <<req, disk>>,
         JobStep(j) \/ Cancel(j)
  PROVE  Alone(j, k)
<1> USE DEF Alone, request, link, console
<1>1. CASE Top(j) \/ Row(j)
  <2>1. pc'[k] = pc[k]
    BY <1>1, GotoAlone DEF Top, Row
  <2> QED
    BY <1>1, <2>1, MineKeeps DEF Top, Row, Mine, IInv, Typed, TypedRows
<1>2. CASE Open(j) \/ Tool(j)
  <2>1. pc'[k] = pc[k]
    BY <1>2, GotoAlone DEF Open, Tool
  <2>2. batch'[k].sock = batch[k].sock /\ inbox'[k] = inbox[k]
    <3>1. batch' = [batch EXCEPT ![j].opened = TRUE] => batch'[k] = batch[k]
      BY DEF IInv, Typed, TypedLink
    <3> QED
      BY <1>2, <3>1, ShutAlone DEF Open, Tool, Shut
  <2> QED
    BY <1>2, <2>1, <2>2, MineKeeps
    DEF Open, Tool, Mine, IInv, Typed, TypedOut
<1>3. CASE Header(j)
  <2>1. CASE Fail(j) /\ UNCHANGED rx
    BY <2>1, FailAlone, MineKeeps DEF Mine
  <2>2. CASE ~(Fail(j) /\ UNCHANGED rx)
    <3>1. /\ Goto(j, "ack") /\ UNCHANGED <<rows, cancelled>>
          /\ \E n : out' = [out EXCEPT ![j].size = n]
          /\ UNCHANGED batch \/ batch' = [batch EXCEPT ![j].sock = "local"]
          /\ UNCHANGED inbox \/ inbox' = [inbox EXCEPT ![j] = <<"K">>]
      BY <1>3, <2>2 DEF Header
    <3>2. Mine(j)
      <4>1. \/ \E m : Linked(j) /\ Say(m)
            \/ \E m : rx' = [rx EXCEPT !.st = "header", !.job = j, !.in = <<m>>]
            \/ rx' = [rx EXCEPT !.st = "foreign", !.job = j]
        BY <1>3, <2>2 DEF Header
      <4> QED
        BY <4>1 DEF Mine, Say, IInv, Typed, TypedRx, Running
    <3>3. pc'[k] = pc[k] /\ out'[k] = out[k]
      BY <3>1, GotoAlone DEF IInv, Typed, TypedOut
    <3>4. batch'[k].sock = batch[k].sock /\ inbox'[k] = inbox[k]
      BY <3>1 DEF IInv, Typed, TypedLink
    <3> QED
      BY <3>1, <3>2, <3>3, <3>4, MineKeeps
  <2> QED
    BY <2>1, <2>2
<1>4. CASE Ack(j)
  <2>1. CASE Fail(j) /\ UNCHANGED rx
    BY <2>1, FailAlone, MineKeeps DEF Mine
  <2>2. CASE Die(j) /\ UNCHANGED rx
    BY <2>2, GotoAlone, MineKeeps DEF Mine, Die
  <2>3. CASE ~(Fail(j) /\ UNCHANGED rx) /\ ~(Die(j) /\ UNCHANGED rx)
    <3>1. /\ Goto(j, "wait") /\ UNCHANGED <<rows, cancelled, out>>
          /\ batch' = [batch EXCEPT ![j].sock = "set"]
          /\ inbox' = [inbox EXCEPT ![j] = Tail(@)]
      BY <1>4, <2>3 DEF Ack
    <3>2. Mine(j)
      <4>1. rx' = IF Linked(j)
                  THEN [rx EXCEPT !.in = @ \o Image(local[Files(j)[Now(j)]])]
                  ELSE rx
        BY <1>4, <2>3 DEF Ack
      <4> QED
        BY <4>1 DEF Mine
    <3>3. pc'[k] = pc[k]
      BY <3>1, GotoAlone
    <3>4. batch'[k].sock = batch[k].sock /\ inbox'[k] = inbox[k]
      BY <3>1 DEF IInv, Typed, TypedLink
    <3> QED
      BY <3>1, <3>2, <3>3, <3>4, MineKeeps
  <2> QED
    BY <2>1, <2>2, <2>3
<1>5. CASE Wait(j)
  <2>1. CASE Fail(j) /\ UNCHANGED rx
    BY <2>1, FailAlone, MineKeeps DEF Mine
  <2>2. CASE Die(j) /\ UNCHANGED rx
    BY <2>2, GotoAlone, MineKeeps DEF Mine, Die
  <2>3. CASE ~(Fail(j) /\ UNCHANGED rx) /\ ~(Die(j) /\ UNCHANGED rx)
    <3>1. /\ Goto(j, "row") /\ UNCHANGED <<rows, cancelled>>
          /\ out' = [out EXCEPT ![j].ok = TRUE]
          /\ \/ Close(j)
             \/ inbox' = [inbox EXCEPT ![j] = Tail(@)] /\ UNCHANGED <<batch, rx>>
      BY <1>5, <2>3 DEF Wait
    <3>2. pc'[k] = pc[k] /\ out'[k] = out[k]
      BY <3>1, GotoAlone DEF IInv, Typed, TypedOut
    <3>3. batch'[k].sock = batch[k].sock /\ inbox'[k] = inbox[k] /\ Mine(j)
      <4>1. CASE Close(j)
        BY <4>1, CloseAlone
      <4>2. CASE ~Close(j)
        BY <3>1, <4>2 DEF Mine, IInv, Typed, TypedLink
      <4> QED
        BY <4>1, <4>2
    <3> QED
      BY <3>1, <3>2, <3>3, MineKeeps
  <2> QED
    BY <2>1, <2>2, <2>3
<1>6. CASE Proc(j)
  <2>1. pc'[k] = pc[k] /\ out'[k] = out[k]
    BY <1>6, GotoAlone DEF Proc, IInv, Typed, TypedOut
  <2>2. Mine(j)
    BY <1>6 DEF Proc, Mine, IInv, Typed, TypedRx, Running
  <2> QED
    BY <1>6, <2>1, <2>2, MineKeeps DEF Proc
<1>7. CASE Book(j)
  <2>1. pc'[k] = pc[k]
    BY <1>7, GotoAlone DEF Book
  <2>2. out'[k] = out[k]
    BY <1>7 DEF Book, IInv, Typed, TypedOut
  <2>3. rows'[k] = rows[k]
    BY <1>7 DEF Book, IInv, Typed, TypedRows
  <2> QED
    BY <1>7, <2>1, <2>2, <2>3, MineKeeps DEF Book, Mine
<1>8. CASE End(j)
  <2>1. pc'[k] = pc[k]
    BY <1>8, GotoAlone DEF End
  <2>2. batch'[k].sock = batch[k].sock /\ inbox'[k] = inbox[k] /\ Mine(j)
    BY <1>8, CloseAlone, ShutAlone DEF End, Shut, Mine
  <2> QED
    BY <1>8, <2>1, <2>2, MineKeeps DEF End
<1>9. CASE Cancel(j)
  <2>1. batch'[k].sock = batch[k].sock /\ inbox'[k] = inbox[k]
    BY <1>9, ShutAlone DEF Cancel
  <2>2. pc'[k] = pc[k] /\ out'[k] = out[k]
    BY <1>9, GotoAlone DEF Cancel, IInv, Typed, TypedOut
  <2> QED
    BY <1>9, <2>1, <2>2, MineKeeps DEF Cancel, Mine, IInv, Typed, TypedOut
<1>10. CASE Walk(j)
  <2>1. pc'[k] = pc[k]
    BY <1>10, GotoAlone DEF Walk
  <2>2. batch'[k].sock = batch[k].sock /\ inbox'[k] = inbox[k]
    BY <1>10 DEF Walk, IInv, Typed, TypedLink
  <2> QED
    BY <1>10, <2>1, <2>2, MineKeeps DEF Walk, Mine
<1> QED
  BY <1>1, <1>2, <1>3, <1>4, <1>5, <1>6, <1>7, <1>8, <1>9, <1>10 DEF JobStep
-----------------------------------------------------------------------------
(* Rows that were reached stay so, and the receiver only hears of those. *)

\* The row a thread is on is reached, and nothing behind it.
LEMMA OnlyUpTo ==
  ASSUME IInv, NEW j \in Jobs, pc[j] \notin {"none", "end", "over"}
  PROVE  /\ \A i : Reached(j, i) => i \in 1..NRows(j) /\ i <= Now(j)
         /\ pc[j] \in OnRow => Reached(j, Now(j))
         /\ Now(j) \in Nat /\ Now(j) >= 1 /\ NRows(j) \in Nat
         /\ rows[j] \in Seq(RowStates)
<1>1. Now(j) \in Nat /\ Now(j) >= 1 /\ NRows(j) \in Nat
      /\ rows[j] \in Seq(RowStates)
  BY DEF IInv, Typed, TypedOut, TypedRows, Now, NRows, Job, Order
<1>2. \A k \in 1..NRows(j) : /\ k < Now(j) => rows[j][k] = "done"
                             /\ k > Now(j) => rows[j][k] = "pending"
  BY DEF IInv, Job, Order
<1>3. \A i : Reached(j, i) => i \in 1..NRows(j) /\ i <= Now(j)
  BY <1>1, <1>2 DEF Reached
<1>4. ASSUME pc[j] \in OnRow PROVE Reached(j, Now(j))
  <2>1. Now(j) <= NRows(j) /\ rows[j][Now(j)] = "running"
    BY <1>4 DEF IInv, Job, Order
  <2> QED
    BY <1>1, <1>2, <2>1 DEF Reached
<1> QED
  BY <1>1, <1>3, <1>4

RowsKept == \A k \in Jobs : \A i : Reached(k, i) => Reached(k, i)'

LEMMA SameRowsKept == UNCHANGED rows => RowsKept
  BY DEF RowsKept, Reached, NRows

LEMMA TopRowsKept == ASSUME IInv, NEW j \in Jobs, Top(j) PROVE RowsKept
<1> DEFINE n == Now(j)
<1>1. CASE rows' = rows
  BY <1>1, SameRowsKept
<1>2. CASE rows' # rows
  <2>1. rows' = [rows EXCEPT ![j][n] = "running"] /\ pc[j] = "top"
        /\ n <= NRows(j) /\ rows[j][n] = "pending"
    BY <1>2, OnlyUpTo DEF Top, IInv, Job, Order
  <2>2. n \in Nat /\ n >= 1 /\ NRows(j) \in Nat /\ rows[j] \in Seq(RowStates)
        /\ \A i : Reached(j, i) => i \in 1..NRows(j) /\ i <= n
    BY <2>1, OnlyUpTo
  <2> HIDE DEF n
  <2>3. rows'[j] = [rows[j] EXCEPT ![n] = "running"]
        /\ \A k \in Jobs : k # j => rows'[k] = rows[k]
    BY <2>1 DEF IInv, Typed, TypedRows
  <2>4. \A k \in Jobs : k # j => \A i : Reached(k, i) => Reached(k, i)'
    BY <2>3 DEF Reached, NRows
  <2>5. ASSUME NEW i, Reached(j, i) PROVE Reached(j, i)'
    <3>1. i \in 1..NRows(j) /\ i < n
      BY <2>1, <2>2, <2>5 DEF Reached
    <3>2. NRows(j)' = NRows(j) /\ \A k \in 1..i : rows'[j][k] = rows[j][k]
      BY <2>2, <2>3, <3>1 DEF NRows
    <3> QED
      BY <2>2, <2>5, <3>1, <3>2 DEF Reached
  <2> QED
    BY <2>4, <2>5 DEF RowsKept
<1> QED
  BY <1>1, <1>2

LEMMA RowRowsKept == ASSUME IInv, NEW j \in Jobs, Row(j) PROVE RowsKept
<1> DEFINE n == Now(j)
           s == IF cancelled[j] THEN "cancelled"
                ELSE IF out[j].ok THEN "done" ELSE "failed"
<1>1. rows' = [rows EXCEPT ![j][n] = s] /\ pc[j] = "row" /\ s # "pending"
  BY DEF Row
<1>2. n \in Nat /\ n >= 1 /\ NRows(j) \in Nat /\ rows[j] \in Seq(RowStates)
      /\ \A i : Reached(j, i) => i \in 1..NRows(j) /\ i <= n
  BY <1>1, OnlyUpTo
<1> HIDE DEF n, s
<1>3. rows'[j] = [rows[j] EXCEPT ![n] = s]
      /\ \A k \in Jobs : k # j => rows'[k] = rows[k]
  BY <1>1 DEF IInv, Typed, TypedRows
<1>4. \A k \in Jobs : k # j => \A i : Reached(k, i) => Reached(k, i)'
  BY <1>3 DEF Reached, NRows
<1>5. ASSUME NEW i, Reached(j, i) PROVE Reached(j, i)'
  <2>1. i \in 1..NRows(j) /\ i <= n
    BY <1>2, <1>5
  <2>2. /\ NRows(j)' = NRows(j)
        /\ \A k \in 1..(i - 1) : rows'[j][k] = rows[j][k]
        /\ rows'[j][i] # "pending"
    BY <1>1, <1>2, <1>3, <1>5, <2>1 DEF NRows, Reached
  <2> QED
    BY <1>2, <1>5, <2>1, <2>2 DEF Reached
<1> QED
  BY <1>4, <1>5 DEF RowsKept

LEMMA BookRowsKept == ASSUME IInv, NEW j \in Jobs, Book(j) PROVE RowsKept
<1> DEFINE n == Now(j)  N == NRows(j)  R == rows[j]
           s == IF cancelled[j] THEN "cancelled" ELSE "skipped"
<1>1. CASE rows' = rows
  BY <1>1, SameRowsKept
<1>2. CASE rows' # rows
  <2>1. rows' = [rows EXCEPT ![j] = [k \in 1..N |-> IF k <= n THEN R[k] ELSE s]]
        /\ pc[j] = "book"
    BY <1>2 DEF Book
  <2>2. n \in Nat /\ N \in Nat
        /\ \A i : Reached(j, i) => i \in 1..N /\ i <= n
    BY <2>1, OnlyUpTo
  <2> HIDE DEF n, s
  <2>3. rows'[j] = [k \in 1..N |-> IF k <= n THEN R[k] ELSE s]
        /\ \A k \in Jobs : k # j => rows'[k] = rows[k]
    BY <2>1 DEF IInv, Typed, TypedRows
  <2>4. \A k \in Jobs : k # j => \A i : Reached(k, i) => Reached(k, i)'
    BY <2>3 DEF Reached, NRows
  <2>5. ASSUME NEW i, Reached(j, i) PROVE Reached(j, i)'
    <3>1. i \in 1..N /\ i <= n
      BY <2>2, <2>5
    <3>2. NRows(j)' = N /\ \A k \in 1..i : rows'[j][k] = R[k]
      <4> HIDE DEF N, R
      <4> QED
        BY <2>2, <2>3, <3>1 DEF NRows
    <3>3. R[i] # "pending" /\ \A k \in 1..(i - 1) : R[k] = "done"
      BY <2>5 DEF Reached
    <3> HIDE DEF N, R
    <3> QED
      BY <2>2, <3>1, <3>2, <3>3 DEF Reached
  <2> QED
    BY <2>4, <2>5 DEF RowsKept
<1> QED
  BY <1>1, <1>2

LEMMA StartRowsKept ==
  ASSUME IInv, NEW j \in Jobs, NEW r \in Requests[j],
         Start(j, r.files, r.launch)
  PROVE  RowsKept
<1>1. NRows(j) = 0 /\ rows[j] \in Seq(RowStates)
  BY DEF Start, IInv, Job, Order, Typed, TypedRows
<1>2. \A i : ~Reached(j, i)
  BY <1>1 DEF Reached
<1>3. \A k \in Jobs : k # j => rows'[k] = rows[k]
  BY DEF Start, IInv, Typed, TypedRows
<1> QED
  BY <1>2, <1>3 DEF RowsKept, Reached, NRows

LEMMA AllRowsKept == ASSUME IInv, Next PROVE RowsKept
<1>1. ASSUME NEW j \in Jobs, JobStep(j) PROVE RowsKept
  <2>1. Top(j) \/ Row(j) \/ Book(j) \/ UNCHANGED rows
    BY <1>1 DEF JobStep, Open, Header, Walk, Ack, Wait, Tool, Proc, End, Fail, Die
  <2> QED
    BY <2>1, TopRowsKept, RowRowsKept, BookRowsKept, SameRowsKept
<1>2. ASSUME NEW j \in Jobs, Cancel(j) PROVE RowsKept
  BY <1>2, SameRowsKept DEF Cancel
<1>3. ASSUME NEW f \in Roms, Replace(f) PROVE RowsKept
  BY <1>3, SameRowsKept DEF Replace, thread
<1>4. Script \/ Rearm => RowsKept
  BY SameRowsKept
  DEF Script, Begin, NobodyCame, RxHeader, RxBody, Rearm, thread
<1> QED
  BY <1>1, <1>2, <1>3, <1>4, StartRowsKept DEF Next

\* The receiver stays as it is, or goes away.
LEMMA ReceiverStays ==
  ASSUME IInv, RowsKept, rx' = rx \/ rx'.st \notin {"header", "body"}
  PROVE  Receiver'
<1>1. Receiver
  BY DEF IInv
<1>2. CASE rx' = rx
  <2>1. ASSUME rx.st \in {"header", "body"} PROVE rx.job \in Jobs
    BY <1>1, <2>1 DEF Receiver
  <2> QED
    BY <1>1, <1>2, <2>1 DEF Receiver, RowsKept, IsFile
<1>3. CASE rx'.st \notin {"header", "body"}
  BY <1>3 DEF Receiver
<1> QED
  BY <1>2, <1>3

\* It hears something of a row that was reached, or nothing of a row.
LEMMA ReceiverHears ==
  ASSUME IInv, RowsKept, NEW j \in Jobs, Linked(j), NEW s \in Seq(Messages),
         rx' = [rx EXCEPT !.in = rx.in \o s],
         \A k \in 1..Len(s) : IsFile(s[k]) => Reached(j, s[k].row)
  PROVE  Receiver'
<1>1. /\ rx.in \in Seq(Messages) /\ rx.job = j /\ Receiver
      /\ rx.st \in {"header", "body"}
  BY DEF IInv, Typed, TypedRx, Running, Linked
<1>2. /\ rx'.in = rx.in \o s /\ rx'.job = j /\ rx'.st = rx.st
      /\ rx'.row = rx.row /\ rx'.file = rx.file
  BY <1>1 DEF IInv, Typed, TypedRx, Running
<1>3. \A k \in 1..Len(rx'.in) : IsFile(rx'.in[k]) => Reached(j, rx'.in[k].row)
  <2> SUFFICES ASSUME NEW k \in 1..Len(rx.in \o s), IsFile((rx.in \o s)[k])
               PROVE  Reached(j, (rx.in \o s)[k].row)
    BY <1>2
  <2>1. CASE k <= Len(rx.in)
    <3>1. k \in 1..Len(rx.in) /\ (rx.in \o s)[k] = rx.in[k]
      BY <1>1, <2>1
    <3> QED
      BY <1>1, <3>1 DEF Receiver
  <2>2. CASE k > Len(rx.in)
    <3>1. k - Len(rx.in) \in 1..Len(s) /\ (rx.in \o s)[k] = s[k - Len(rx.in)]
      BY <1>1, <2>2
    <3> QED
      BY <3>1
  <2> QED
    BY <1>1, <2>1, <2>2
<1>4. rx.st = "body" => rx.file \in Roms /\ Reached(j, rx.row)
  BY <1>1 DEF Receiver
<1> QED
  BY <1>1, <1>2, <1>3, <1>4 DEF Receiver, RowsKept, IsFile

LEMMA SayRow ==
  ASSUME IInv, RowsKept, NEW j \in Jobs, Linked(j), NEW m \in Messages, Say(m),
         IsFile(m) => Reached(j, m.row)
  PROVE  Receiver'
<1>1. rx.in \in Seq(Messages)
  BY DEF IInv, Typed, TypedRx, Running
<1>2. <<m>> \in Seq(Messages) /\ Append(rx.in, m) = rx.in \o <<m>>
      /\ \A k \in 1..Len(<<m>>) : <<m>>[k] = m
  BY <1>1
<1>3. rx' = [rx EXCEPT !.in = rx.in \o <<m>>]
  BY <1>2 DEF Say
<1> QED
  BY <1>2, <1>3, ReceiverHears

LEMMA CloseReceiver ==
  ASSUME IInv, RowsKept, NEW j \in Jobs, Close(j)
  PROVE  Receiver'
<1>1. CASE rx' = rx
  BY <1>1, ReceiverStays
<1>2. CASE Linked(j) /\ Say([kind |-> "end"])
  BY <1>2, SayRow, EndMessage DEF IsFile
<1> QED
  BY <1>1, <1>2 DEF Close

LEMMA HeaderReceiver ==
  ASSUME IInv, RowsKept, NEW j \in Jobs, Header(j)
  PROVE  Receiver'
<1> DEFINE m == HeaderOf(j)
<1>1. pc[j] \in Sending /\ pc[j] \in OnRow /\ pc[j] \notin {"none", "end", "over"}
  BY DEF Header, Sending, OnRow
<1>2. m \in Messages /\ m.row = Now(j) /\ Reached(j, Now(j))
  BY <1>1, HeaderIsFile, OnlyUpTo DEF HeaderOf
<1>3. \/ Linked(j) /\ Say(m)
      \/ rx' = [rx EXCEPT !.st = "header", !.job = j, !.in = <<m>>]
      \/ rx' = [rx EXCEPT !.st = "foreign", !.job = j]
      \/ rx' = rx
  BY DEF Header, HeaderOf, SizeOf
<1> HIDE DEF m
<1>4. CASE Linked(j) /\ Say(m)
  BY <1>2, <1>4, SayRow
<1>5. CASE rx' = [rx EXCEPT !.st = "header", !.job = j, !.in = <<m>>]
  <2>1. rx'.st = "header" /\ rx'.job = j /\ rx'.in = <<m>>
    BY <1>5 DEF IInv, Typed, TypedRx, Running
  <2>2. \A k \in 1..Len(rx'.in) : rx'.in[k].row = Now(j)
    BY <1>2, <2>1
  <2>3. Reached(j, Now(j))'
    <3>1. Reached(j, Now(j))
      BY <1>2
    <3>2. Now(j)' = Now(j)
      BY DEF Header, Fail, Now, IInv, Typed, TypedOut
    <3> QED
      BY <3>1, <3>2 DEF RowsKept, Reached
  <2>4. Now(j)' = Now(j)
    BY DEF Header, Fail, Now, IInv, Typed, TypedOut
  <2> QED
    BY <2>1, <2>2, <2>3, <2>4 DEF Receiver
<1>6. CASE rx' = [rx EXCEPT !.st = "foreign", !.job = j]
  <2>1. rx'.st = "foreign"
    BY <1>6 DEF IInv, Typed, TypedRx, Running
  <2> QED
    BY <2>1, ReceiverStays
<1>7. CASE rx' = rx
  BY <1>7, ReceiverStays
<1> QED
  BY <1>3, <1>4, <1>5, <1>6, <1>7

LEMMA AckReceiver ==
  ASSUME IInv, RowsKept, NEW j \in Jobs, Ack(j)
  PROVE  Receiver'
<1> DEFINE f == Files(j)[Now(j)]  I == Image(local[f])
<1>1. pc[j] \in Sending
  BY DEF Ack, Sending
<1>2. I \in Seq(Messages) /\ \A k \in 1..Len(I) : ~IsFile(I[k])
  <2>1. f \in Roms /\ local[f] \in 1..Last[f]
    BY <1>1, CurrentFile
  <2> HIDE DEF f
  <2> QED
    BY <2>1, Content
<1>3. CASE rx' = rx
  BY <1>3, ReceiverStays
<1>4. CASE rx' # rx
  <2>1. Linked(j) /\ rx' = [rx EXCEPT !.in = rx.in \o I]
    BY <1>4 DEF Ack
  <2> HIDE DEF I
  <2> QED
    BY <1>2, <2>1, ReceiverHears
<1> QED
  BY <1>3, <1>4

LEMMA ScriptReceiver ==
  ASSUME IInv, RowsKept, Script \/ Rearm
  PROVE  Receiver'
<1>1. CASE rx' = Idle
  BY <1>1, ReceiverStays DEF Idle
<1>2. CASE Begin
  <2>1. rx'.st \in {"accept", "blob"}
    BY <1>2 DEF Begin, Idle
  <2> QED
    BY <2>1, ReceiverStays
<1>3. CASE RxHeader /\ rx' # Idle
  <2> DEFINE m == Head(rx.in)
  <2>1. /\ rx.st = "header" /\ rx.in # <<>> /\ m.kind = "file"
        /\ rx' = [rx EXCEPT !.st = "body", !.in = Tail(@), !.row = m.row,
                            !.file = m.file, !.size = m.size]
    BY <1>3 DEF RxHeader, Finish
  <2>2. rx.in \in Seq(Messages) /\ Receiver
    BY DEF IInv, Typed, TypedRx, Running
  <2>3. m \in Messages /\ IsFile(m) /\ m = rx.in[1] /\ 1 \in 1..Len(rx.in)
    BY <2>1, <2>2 DEF IsFile
  <2>4. m.file \in Roms
    BY <2>3, FileFields
  <2>5. rx.job \in Jobs /\ Reached(rx.job, m.row)
    BY <2>1, <2>2, <2>3 DEF Receiver
  <2>6. \A k \in 1..Len(Tail(rx.in)) :
          k + 1 \in 1..Len(rx.in) /\ Tail(rx.in)[k] = rx.in[k + 1]
    BY <2>1, <2>2
  <2>7. \A k \in 1..Len(Tail(rx.in)) :
          IsFile(Tail(rx.in)[k]) => Reached(rx.job, Tail(rx.in)[k].row)
    BY <2>1, <2>2, <2>6 DEF Receiver
  <2> HIDE DEF m
  <2>8. /\ rx'.job = rx.job /\ rx'.in = Tail(rx.in) /\ rx'.row = m.row
        /\ rx'.file = m.file
    BY <2>1 DEF IInv, Typed, TypedRx, Running
  <2> QED
    BY <2>4, <2>5, <2>7, <2>8 DEF Receiver, RowsKept, IsFile
<1>4. CASE RxBody /\ rx' # Idle
  <2>1. /\ rx.st = "body" /\ rx.in # <<>>
        /\ \E s \in {"header", "body"} :
              rx' = [rx EXCEPT !.in = Tail(@), !.st = s]
    BY <1>4 DEF RxBody, Finish
  <2>2. rx.in \in Seq(Messages) /\ Receiver
    BY DEF IInv, Typed, TypedRx, Running
  <2>3. rx.job \in Jobs /\ rx.file \in Roms /\ Reached(rx.job, rx.row)
    BY <2>1, <2>2 DEF Receiver
  <2>4. \A k \in 1..Len(Tail(rx.in)) :
          k + 1 \in 1..Len(rx.in) /\ Tail(rx.in)[k] = rx.in[k + 1]
    BY <2>1, <2>2
  <2>5. \A k \in 1..Len(Tail(rx.in)) :
          IsFile(Tail(rx.in)[k]) => Reached(rx.job, Tail(rx.in)[k].row)
    BY <2>1, <2>2, <2>4 DEF Receiver
  <2>6. /\ rx'.job = rx.job /\ rx'.in = Tail(rx.in) /\ rx'.row = rx.row
        /\ rx'.file = rx.file
    BY <2>1 DEF IInv, Typed, TypedRx, Running
  <2> QED
    BY <2>3, <2>5, <2>6 DEF Receiver, RowsKept, IsFile
<1> QED
  BY <1>1, <1>2, <1>3, <1>4 DEF Script, Rearm, NobodyCame, Finish

LEMMA AllReceiver == ASSUME IInv, Next PROVE Receiver'
<1>1. RowsKept
  BY AllRowsKept
<1>2. ASSUME NEW j \in Jobs, JobStep(j) PROVE Receiver'
  <2>1. CASE Header(j) \/ Ack(j)
    BY <1>1, <2>1, HeaderReceiver, AckReceiver
  <2>2. CASE Wait(j) \/ End(j)
    <3>1. Close(j) \/ rx' = rx
      BY <2>2 DEF Wait, End
    <3> QED
      BY <1>1, <3>1, CloseReceiver, ReceiverStays
  <2>3. CASE Proc(j)
    <3>1. rx' = rx \/ rx'.st = "playing"
      BY <2>3 DEF Proc, IInv, Typed, TypedRx, Running
    <3> QED
      BY <1>1, <3>1, ReceiverStays
  <2>4. CASE Top(j) \/ Open(j) \/ Walk(j) \/ Tool(j) \/ Row(j) \/ Book(j)
    BY <1>1, <2>4, ReceiverStays DEF Top, Open, Walk, Tool, Row, Book, console
  <2> QED
    BY <1>2, <2>1, <2>2, <2>3, <2>4 DEF JobStep
<1>3. ASSUME NEW j \in Jobs, Cancel(j) PROVE Receiver'
  BY <1>1, <1>3, ReceiverStays DEF Cancel, console
<1>4. ASSUME NEW j \in Jobs, NEW r \in Requests[j],
             Start(j, r.files, r.launch)
      PROVE  Receiver'
  BY <1>1, <1>4, ReceiverStays DEF Start, console
<1>5. ASSUME NEW f \in Roms, Replace(f) PROVE Receiver'
  BY <1>1, <1>5, ReceiverStays DEF Replace, console
<1> QED
  BY <1>1, <1>2, <1>3, <1>4, <1>5, ScriptReceiver DEF Next
-----------------------------------------------------------------------------
(* The whole step. *)

LEMMA TypedNext == ASSUME IInv, Next PROVE Typed'
<1>1. Typed
  BY DEF IInv
<1>2. ASSUME NEW j \in Jobs, JobStep(j) PROVE Typed'
  BY <1>1, <1>2, TypedTop, TypedOpen, TypedHeader, TypedWalk, TypedAck, TypedWait,
     TypedTool, TypedProc, TypedRow, TypedBook, TypedEnd DEF JobStep
<1> QED
  BY <1>1, <1>2, TypedStart, TypedCancel, TypedReplace, TypedScript DEF Next

LEMMA OnwardNext == ASSUME IInv, Next PROVE Onward
<1>1. local' \in [Roms -> Nat] /\ local \in [Roms -> Nat]
  BY TypedNext DEF IInv, Typed, TypedRoms
<1>2. UNCHANGED local \/ \E f \in Roms : local' = [local EXCEPT ![f] = @ + 1]
  BY DEF Next, JobStep, Start, Cancel, Replace, Script, Rearm, Begin, NobodyCame,
         RxHeader, RxBody, Top, Open, Header, Walk, Ack, Wait, Tool, Proc, Row, Book,
         End
<1>3. \A f \in Roms : local'[f] >= local[f]
  BY <1>1, <1>2
<1>4. landed \subseteq landed'
  BY DEF Next, JobStep, Start, Cancel, Replace, Script, Rearm, Begin, NobodyCame,
         RxHeader, RxBody, Top, Open, Header, Walk, Ack, Wait, Tool, Proc, Row, Book,
         End,
         console
<1> QED
  BY <1>1, <1>3, <1>4 DEF Onward

LEMMA JobsNext == ASSUME IInv, Next, NEW k \in Jobs PROVE Job(k)'
<1>1. Onward
  BY OnwardNext
<1>2. ASSUME NEW j \in Jobs, JobStep(j) PROVE Job(k)'
  <2>1. CASE k = j
    BY <1>2, <2>1, TopStep, OpenStep, HeaderStep, WalkStep, AckStep, WaitStep,
       ToolStep, ProcStep, RowStep, BookStep, EndStep DEF JobStep
  <2>2. CASE k # j
    <3>1. UNCHANGED <<req, disk>>
      BY <1>2 DEF JobStep, Top, Open, Header, Walk, Ack, Wait, Tool, Proc, Row, Book,
                  End, request, console
    <3>2. Alone(j, k)
      BY <1>2, <2>2, <3>1, OthersAlone
    <3> QED
      BY <1>1, <3>2, Untouched DEF Alone
  <2> QED
    BY <2>1, <2>2
<1>3. ASSUME NEW j \in Jobs, Cancel(j) PROVE Job(k)'
  <2>1. CASE k = j
    BY <1>3, <2>1, CancelStep
  <2>2. CASE k # j
    <3>1. Alone(j, k)
      BY <1>3, <2>2, OthersAlone DEF Cancel, request, console
    <3> QED
      BY <1>1, <3>1, Untouched DEF Alone
  <2> QED
    BY <2>1, <2>2
<1>4. ASSUME NEW j \in Jobs, NEW r \in Requests[j], Start(j, r.files, r.launch)
      PROVE  Job(k)'
  <2>1. CASE k = j
    BY <1>4, <2>1, StartStep
  <2>2. CASE k # j
    <3>1. /\ req'[k] = req[k] /\ out'[k] = out[k] /\ pc'[k] = pc[k]
          /\ rows'[k] = rows[k]
      BY <1>4, <2>2 DEF Start, IInv, Typed, TypedReq, TypedOut, TypedPc, TypedRows
    <3>2. UNCHANGED <<batch, inbox, cancelled, rx, disk>>
      BY <1>4 DEF Start, link, console
    <3>3. LinkKept(k)
      BY <3>2 DEF LinkKept, Linked
    <3> QED
      BY <1>1, <3>1, <3>2, <3>3, Untouched
  <2> QED
    BY <2>1, <2>2
<1>5. ASSUME NEW f \in Roms, Replace(f) PROVE Job(k)'
  <2>1. LinkKept(k)
    BY <1>5 DEF Replace, console, LinkKept, Linked
  <2> QED
    BY <1>1, <1>5, <2>1, Untouched DEF Replace, request, thread, link
<1>6. ASSUME Script \/ Rearm PROVE Job(k)'
  <2>1. UNCHANGED <<req, out, pc, rows, cancelled, batch>>
    BY <1>6 DEF Script, Rearm, Begin, NobodyCame, RxHeader, RxBody, request, thread,
                link
  <2>2. CASE (RxHeader \/ RxBody) /\ rx.job = k
    BY <1>1, <2>1, <2>2, RestStays, RxHeaderTalk, RxBodyTalk DEF Job
  <2>3. CASE ~((RxHeader \/ RxBody) /\ rx.job = k)
    <3>1. inbox'[k] = inbox[k]
      BY <1>6, <2>3 DEF Script, Rearm, Begin, NobodyCame, RxHeader, RxBody, Answer,
                        link, IInv, Typed, TypedLink
    <3>2. ~Linked(k)'
      <4>1. CASE RxHeader \/ RxBody
        <5>1. rx' = Idle \/ rx'.job = rx.job
          BY <4>1 DEF RxHeader, RxBody, Finish, IInv, Typed, TypedRx, Running
        <5> QED
          BY <2>3, <4>1, <5>1 DEF Linked, Idle
      <4>2. CASE ~(RxHeader \/ RxBody)
        <5>1. rx'.st \in {"off", "accept", "blob"}
          BY <1>6, <4>2 DEF Script, Rearm, Begin, NobodyCame, Finish, Idle
        <5> QED
          BY <5>1 DEF Linked
      <4> QED
        BY <4>1, <4>2
    <3> QED
      BY <1>1, <2>1, <3>1, <3>2, Untouched DEF LinkKept
  <2> QED
    BY <2>2, <2>3
<1> QED
  BY <1>2, <1>3, <1>4, <1>5, <1>6 DEF Next

LEMMA RecordNext ==
  ASSUME IInv, Next
  PROVE  RecordIsOld' /\ RecordMeansWhole'
<1>1. Onward /\ local \in [Roms -> Nat] /\ record \in [Roms -> Nat]
  BY OnwardNext DEF IInv, Typed, TypedRoms
<1>2. ASSUME NEW f \in Roms, record'[f] = record[f]
      PROVE  /\ record'[f] <= local'[f]
             /\ record'[f] = local'[f] =>
                  \E x \in landed' : x.file = f /\ x.image = Image(local'[f])
  <2>1. local'[f] \in Nat /\ local'[f] >= local[f] /\ record[f] <= local[f]
        /\ local[f] \in Nat /\ record[f] \in Nat /\ landed \subseteq landed'
    BY <1>1 DEF Onward, IInv, RecordIsOld
  <2>2. record'[f] = local'[f] => record[f] = local[f] /\ local'[f] = local[f]
    BY <1>2, <2>1
  <2> QED
    BY <1>2, <2>1, <2>2 DEF IInv, RecordMeansWhole
<1>3. CASE UNCHANGED record
  BY <1>2, <1>3 DEF RecordIsOld, RecordMeansWhole
<1>4. CASE \E j \in Jobs : Book(j) /\ record' # record
  <2>1. PICK j \in Jobs : Book(j) /\ record' # record
    BY <1>4
  <2> DEFINE n == Now(j)  f == Files(j)[n]
  <2>2. /\ out[j].ok /\ n <= Len(Files(j)) /\ pc[j] = "book"
        /\ record' = [record EXCEPT ![f] = req[j].stat[n]]
        /\ UNCHANGED <<local, landed>>
    BY <2>1 DEF Book, console
  <2>3. Delivered(j) /\ Order(j) /\ Asked(j)
    BY <2>2 DEF IInv, Job, Outcome
  <2>4. n \in 1..Len(Files(j)) /\ f \in Roms
    <3>1. n \in Nat /\ n >= 1 /\ Files(j) \in Seq(Roms)
      BY <2>2, <2>3 DEF IInv, Typed, TypedOut, TypedReq, Request, Order, Now, Files
    <3> QED
      BY <2>2, <3>1
  <2>5. req[j].stat[n] <= local[f]
    BY <2>3, <2>4 DEF Asked
  <2>6. record'[f] = req[j].stat[n] /\ \A g \in Roms : g # f => record'[g] = record[g]
    BY <1>1, <2>2, <2>4
  <2>7. record'[f] = local[f] =>
          \E x \in landed : x.file = f /\ x.image = Image(local[f])
    BY <2>2, <2>3, <2>6 DEF Delivered, Same
  <2> HIDE DEF n, f
  <2> QED
    BY <1>2, <2>2, <2>4, <2>5, <2>6, <2>7 DEF RecordIsOld, RecordMeansWhole
<1> QED
  BY <1>3, <1>4
  DEF Next, JobStep, Start, Cancel, Replace, Script, Rearm, Begin, NobodyCame,
      RxHeader, RxBody, Top, Open, Header, Walk, Ack, Wait, Tool, Proc, Row, End,
      console

LEMMA StutterKeeps == ASSUME IInv, UNCHANGED vars PROVE IInv'
<1> USE DEF vars, request, thread, link, console
<1>1. Typed'
  BY DEF IInv, Typed, TypedReq, TypedPc, TypedRows, TypedOut, TypedLink, TypedRx,
         TypedDisk, TypedRoms
<1>2. Onward
  BY DEF Onward, IInv, Typed, TypedRoms
<1>3. ASSUME NEW k \in Jobs PROVE Job(k)'
  BY <1>2, Untouched DEF LinkKept, Linked
<1>4. Receiver'
  BY SameRowsKept, ReceiverStays
<1>5. RecordIsOld' /\ RecordMeansWhole'
  BY DEF IInv, RecordIsOld, RecordMeansWhole
<1> QED
  BY <1>1, <1>3, <1>4, <1>5 DEF IInv

LEMMA InitIInv == Init => IInv
<1> SUFFICES ASSUME Init PROVE IInv
  OBVIOUS
<1>1. Typed
  BY TypedInit
<1>2. Receiver
  BY DEF Init, Receiver, Idle
<1>3. RecordIsOld /\ RecordMeansWhole
  BY DEF Init, RecordIsOld, RecordMeansWhole
<1>4. ASSUME NEW j \in Jobs PROVE Job(j)
  <2>1. /\ pc[j] = "none" /\ rows[j] = <<>> /\ req[j].files = <<>>
        /\ req[j].stat = <<>> /\ batch[j].sock = "none" /\ inbox[j] = <<>>
        /\ out[j].ok
    BY DEF Init
  <2>2. Asked(j) /\ Order(j)
    BY <2>1 DEF Asked, Order, Files, NRows, OnRow, Sending
  <2> QED
    BY <2>1, <2>2 DEF Job, Talk, Outcome
<1> QED
  BY <1>1, <1>2, <1>3, <1>4 DEF IInv

\* The inductive invariant holds, for any jobs, files, contents and sizes.
THEOREM Inductive == Spec => []IInv
<1>1. IInv /\ [Next]_vars => IInv'
  BY TypedNext, AllReceiver, RecordNext, JobsNext, StutterKeeps DEF IInv
<1> QED
  BY InitIInv, <1>1, PTL DEF Spec

\* A record that matches the folder is of a file the console closed whole with
\* exactly that content (JobRunner._run, SKIP), whatever was replaced,
\* cancelled or cut on the way.
THEOREM RecordIsWhole == Spec => []RecordMeansWhole
<1>1. IInv => RecordMeansWhole
  BY DEF IInv
<1> QED
  BY <1>1, Inductive, PTL
-----------------------------------------------------------------------------
(* The promise: Delivery. *)

Written == {<<x.job, x.row>> : x \in landed}
Playing == IF rx.st = "playing" THEN {rx.job} ELSE {}

LEMMA WrittenRow ==
  ASSUME NEW x \in landed PROVE <<x.job, x.row>> \in Written
  BY DEF Written

\* One more file closed is one more row written.
LEMMA WrittenOneMore ==
  ASSUME NEW x, landed' = landed \cup {x}
  PROVE  Written' = Written \cup {<<x.job, x.row>>}
  BY DEF Written

LEMMA DeliveredWritten ==
  ASSUME NEW j \in Jobs, Delivered(j)
  PROVE  <<j, Now(j)>> \in Written
  BY DEF Delivered, Written

LEMMA ReachedDone ==
  ASSUME NEW j \in Jobs, NEW i, Reached(j, i)
  PROVE  /\ i \in 1..Len(rows[j]) /\ rows[j][i] # "pending"
         /\ Promise!DoneBefore(j, i)
  BY DEF Reached, NRows, Promise!DoneBefore

\* Only the launch brings the emulator up, and only the loader takes it down.
LEMMA PlayingStays ==
  ASSUME IInv, Next, ~Rearm, \A j \in Jobs : ~Proc(j)
  PROVE  UNCHANGED Playing
<1> DEFINE Still == rx' = rx \/ (rx.st # "playing" /\ rx'.st # "playing")
<1>1. Still
  <2>1. ASSUME NEW j \in Jobs, Header(j) \/ Ack(j) PROVE Still
    <3>1. CASE Header(j)
      BY <3>1 DEF Header, Say, Linked, IInv, Typed, TypedRx, Running
    <3>2. CASE Ack(j)
      BY <3>2 DEF Ack, Linked, IInv, Typed, TypedRx, Running
    <3> QED
      BY <2>1, <3>1, <3>2
  <2>2. ASSUME NEW j \in Jobs, Wait(j) \/ End(j) PROVE Still
    <3>1. Close(j) \/ rx' = rx
      BY <2>2 DEF Wait, End
    <3> QED
      BY <3>1 DEF Close, Say, Linked, IInv, Typed, TypedRx, Running
  <2>3. ASSUME NEW j \in Jobs,
               \/ Top(j) \/ Open(j) \/ Walk(j) \/ Tool(j) \/ Row(j)
               \/ Book(j) \/ Cancel(j)
        PROVE  rx' = rx
    BY <2>3 DEF Top, Open, Walk, Tool, Row, Book, Cancel, console
  <2>4. ASSUME NEW j \in Jobs, NEW r \in Requests[j], Start(j, r.files, r.launch)
        PROVE  rx' = rx
    BY <2>4 DEF Start, console
  <2>5. ASSUME NEW f \in Roms, Replace(f) PROVE rx' = rx
    BY <2>5 DEF Replace, console
  <2>6. ASSUME Script PROVE rx.st # "playing" /\ rx'.st # "playing"
    <3>1. CASE Begin
      BY <3>1 DEF Begin, Idle
    <3>2. CASE NobodyCame
      BY <3>2 DEF NobodyCame, Finish, Idle
    <3>3. CASE RxHeader
      <4>1. rx.st = "header" /\ (rx' = Idle \/
              LET m == Head(rx.in) IN
              rx' = [rx EXCEPT !.st = "body", !.in = Tail(@), !.row = m.row,
                               !.file = m.file, !.size = m.size])
        BY <3>3 DEF RxHeader, Finish
      <4>2. CASE rx' = Idle
        BY <4>1, <4>2 DEF Idle
      <4>3. CASE rx' # Idle
        BY <4>1, <4>3 DEF IInv, Typed, TypedRx, Running
      <4> QED
        BY <4>2, <4>3
    <3>4. CASE RxBody
      <4>1. rx.st = "body" /\ (rx' = Idle \/ \E s \in {"header", "body"} :
                 rx' = [rx EXCEPT !.in = Tail(@), !.st = s])
        BY <3>4 DEF RxBody, Finish
      <4>2. CASE rx' = Idle
        BY <4>1, <4>2 DEF Idle
      <4>3. CASE rx' # Idle
        BY <4>1, <4>3 DEF IInv, Typed, TypedRx, Running
      <4> QED
        BY <4>2, <4>3
    <3> QED
      BY <2>6, <3>1, <3>2, <3>3, <3>4 DEF Script
  <2> QED
    BY <2>1, <2>2, <2>3, <2>4, <2>5, <2>6 DEF Next, JobStep
<1> QED
  BY <1>1 DEF Playing

LEMMA AskStep ==
  ASSUME IInv, NEW j \in Jobs, NEW r \in Requests[j], UNCHANGED Playing,
         Start(j, r.files, r.launch)
  PROVE  Promise!Next
<1> DEFINE l == IF r.launch THEN 1 ELSE 0
           n == Len(r.files) + l
<1>1. r.files \in Seq(Roms) /\ r.launch \in BOOLEAN
  BY JobsAssumption
<1>2. Len(r.files) \in Nat /\ (r.files # <<>> => Len(r.files) > 0)
  BY <1>1
<1>3. l \in {0, 1} /\ (r.launch => l = 1)
  OBVIOUS
<1>4. r.files # <<>> \/ r.launch
  BY DEF Start
<1> HIDE DEF l
<1>5. n \in Nat /\ n > 0
  BY <1>2, <1>3, <1>4
<1>6. n \in {Len(q.files) + e : q \in UNION {Requests[k] : k \in Jobs}, e \in {0, 1}}
  BY <1>3
<1>7. rows[j] = <<>>
  BY DEF Start, IInv, Job, Order, NRows, Typed, TypedRows
<1>8. rows' = [rows EXCEPT ![j] = [i \in 1..n |-> "pending"]]
      /\ UNCHANGED landed
  BY DEF Start, l, console
<1> HIDE DEF n
<1>9. Promise!Ask(j, n)
  BY <1>5, <1>7, <1>8 DEF Promise!Ask, Playing
<1> QED
  BY <1>6, <1>9 DEF Promise!Next

\* The launcher's threads keep the promise of a batch, whatever the network and
\* the loader do: a row is shown done only when the console closed that very
\* file whole; rows are taken in order and none behind one that was not done;
\* and the emulator is started only behind all the files of its batch
\* (luap0rt_launcher.py: JobRunner._run, 1301, and the batch of 990-1260).
THEOREM Refinement == Spec => KeepsPromise
<1>1. Init => Promise!Init
  BY DEF Init, Promise!Init, Idle
<1>2. IInv /\ [Next]_vars => [Promise!Next]_(Promise!vars)
  <2> SUFFICES ASSUME IInv, [Next]_vars
               PROVE  Promise!Next \/ UNCHANGED Promise!vars
    OBVIOUS
  <2>1. ASSUME UNCHANGED <<rows, landed, Playing>> PROVE UNCHANGED Promise!vars
    BY <2>1 DEF Promise!vars, Playing
  <2>2. CASE UNCHANGED vars
    BY <2>1, <2>2 DEF vars, thread, console, Playing
  <2>3. ASSUME NEW j \in Jobs, Proc(j) PROVE Promise!Next \/ UNCHANGED Promise!vars
    <3>1. CASE rx' = rx /\ landed' = landed
      BY <2>1, <2>3, <3>1 DEF Proc, Playing
    <3>2. CASE ~(rx' = rx /\ landed' = landed)
      <4> DEFINE x == [job |-> j, row |-> Now(j), file |-> None, image |-> <<>>]
      <4>1. rx' = [rx EXCEPT !.st = "playing", !.job = j]
            /\ landed' = landed \cup {x} /\ UNCHANGED rows
        BY <2>3, <3>2 DEF Proc
      <4>2. x.job = j /\ x.row = Now(j)
        OBVIOUS
      <4> HIDE DEF x
      <4>3. Written' = Written \cup {<<j, Now(j)>>}
        BY <4>1, <4>2, WrittenOneMore
      <4>4. rx'.st = "playing" /\ rx'.job = j
        BY <4>1 DEF IInv, Typed, TypedRx, Running
      <4>5. Now(j) = Len(rows[j]) /\ Reached(j, Now(j))
        <5>1. pc[j] = "proc" /\ Files(j) \in Seq(Roms) /\ Asked(j) /\ Order(j)
          BY <2>3 DEF Proc, IInv, Typed, TypedReq, Request, Job, Files
        <5>2. Now(j) > Len(Files(j)) /\ Now(j) <= NRows(j)
              /\ NRows(j) <= Len(Files(j)) + 1
          BY <5>1 DEF Order, OnRow, Asked
        <5>3. pc[j] \in OnRow /\ pc[j] \notin {"none", "end", "over"}
          BY <5>1 DEF OnRow
        <5>4. Reached(j, Now(j)) /\ Now(j) \in Nat /\ NRows(j) \in Nat
          BY <5>3, OnlyUpTo
        <5> QED
          BY <5>1, <5>2, <5>4 DEF NRows
      <4>6. Promise!Play(j)
        BY <4>1, <4>3, <4>4, <4>5, ReachedDone DEF Promise!Play, Written
      <4> QED
        BY <4>6 DEF Promise!Next
    <3> QED
      BY <3>1, <3>2
  <2>4. CASE Rearm
    <3>1. UNCHANGED <<rows, landed>> /\ rx'.st = "off"
      BY <2>4 DEF Rearm, Finish, Idle, thread
    <3> QED
      BY <3>1 DEF Promise!Next, Promise!Return
  <2>5. ASSUME Next, ~Rearm, \A j \in Jobs : ~Proc(j)
        PROVE  Promise!Next \/ UNCHANGED Promise!vars
    <3>1. UNCHANGED Playing
      BY <2>5, PlayingStays
    <3>2. ASSUME NEW j \in Jobs, Top(j)
          PROVE  Promise!Next \/ UNCHANGED Promise!vars
      <4>1. UNCHANGED landed
        BY <3>2 DEF Top, console
      <4>2. CASE rows' = rows
        BY <2>1, <3>1, <4>1, <4>2
      <4>3. CASE rows' # rows
        <5>1. rows' = [rows EXCEPT ![j][Now(j)] = "running"] /\ Now(j) <= NRows(j)
              /\ pc[j] = "top" /\ Now(j) \in Nat /\ NRows(j) \in Nat /\ Now(j) >= 1
          BY <3>2, <4>3, OnlyUpTo DEF Top
        <5>2. rows[j][Now(j)] = "pending" /\ Now(j) \in 1..Len(rows[j])
              /\ \A k \in 1..(Now(j) - 1) : rows[j][k] = "done"
          BY <5>1 DEF IInv, Job, Order, NRows
        <5>3. Promise!Begin(j, Now(j))
          BY <3>1, <4>1, <5>1, <5>2 DEF Promise!Begin, Promise!DoneBefore, Playing
        <5> QED
          BY <5>2, <5>3 DEF Promise!Next
      <4> QED
        BY <4>2, <4>3
    <3>3. ASSUME NEW j \in Jobs, Row(j) PROVE Promise!Next
      <4> DEFINE n == Now(j)
      <4>1. pc[j] = "row" /\ UNCHANGED landed /\ Order(j) /\ Outcome(j)
        BY <3>3 DEF Row, IInv, Job, console
      <4>2. Reached(j, n) /\ rows[j][n] = "running"
        BY <4>1, OnlyUpTo DEF Order, OnRow
      <4>3. n \in 1..Len(rows[j])
        BY <4>2, ReachedDone
      <4>4. CASE ~cancelled[j] /\ out[j].ok
        <5>1. rows' = [rows EXCEPT ![j][n] = "done"]
          BY <3>3, <4>4 DEF Row
        <5>2. <<j, n>> \in Written
          BY <4>1, <4>4, DeliveredWritten DEF Outcome
        <5>3. Promise!Report(j, n)
          BY <3>1, <4>1, <4>2, <5>1, <5>2 DEF Promise!Report, Playing, Written
        <5> QED
          BY <4>3, <5>3 DEF Promise!Next
      <4>5. CASE ~(~cancelled[j] /\ out[j].ok)
        <5>1. \E s \in {"cancelled", "failed"} : rows' = [rows EXCEPT ![j][n] = s]
          BY <3>3, <4>5 DEF Row
        <5>2. Promise!GiveUp(j, n)
          BY <3>1, <4>1, <4>2, <5>1 DEF Promise!GiveUp, Promise!Unsent, Playing
        <5> QED
          BY <4>3, <5>2 DEF Promise!Next
      <4> QED
        BY <4>4, <4>5
    <3>4. ASSUME NEW j \in Jobs, Book(j)
          PROVE  Promise!Next \/ UNCHANGED Promise!vars
      <4> DEFINE n == Now(j)  N == NRows(j)  R == rows[j]
                 s == IF cancelled[j] THEN "cancelled" ELSE "skipped"
      <4>1. UNCHANGED landed /\ pc[j] = "book" /\ Order(j)
        BY <3>4 DEF Book, console, IInv, Job
      <4>2. CASE rows' = rows
        BY <2>1, <3>1, <4>1, <4>2
      <4>3. CASE rows' # rows
        <5>1. rows' = [rows EXCEPT ![j] = [k \in 1..N |-> IF k <= n THEN R[k]
                                                          ELSE s]]
          BY <3>4, <4>3 DEF Book
        <5>2. s \in {"cancelled", "skipped"}
          OBVIOUS
        <5>3. n \in Nat /\ N \in Nat /\ R \in Seq(RowStates) /\ n >= 1
          BY <4>1, OnlyUpTo
        <5>4. n \in 1..Len(R) /\ R[n] \in Closed
              /\ \A k \in (n + 1)..Len(R) : R[k] = "pending"
          BY <4>1, <5>3 DEF Order, NRows
        <5> HIDE DEF n, s
        <5>5. DOMAIN R = 1..N
          BY <5>3 DEF NRows
        <5>6. [k \in 1..N |-> IF k <= n THEN R[k] ELSE s]
              = [k \in DOMAIN R |-> IF k > n THEN s ELSE R[k]]
          BY <5>3, <5>5
        <5>7. Promise!Drop(j, n)
          BY <3>1, <4>1, <5>1, <5>2, <5>4, <5>6
          DEF Promise!Drop, Promise!Unsent, Closed, Playing
        <5> QED
          BY <5>4, <5>7 DEF Promise!Next
      <4> QED
        BY <4>2, <4>3
    <3>5. CASE RxBody
      <4>1. UNCHANGED rows /\ rx.st = "body"
        BY <3>5 DEF RxBody, thread
      <4>2. CASE landed' = landed
        BY <2>1, <3>1, <4>1, <4>2
      <4>3. CASE landed' # landed
        <5>1. PICK x : landed' = landed \cup {x} /\ x.job = rx.job /\ x.row = rx.row
          <6> DEFINE y == [job |-> rx.job, row |-> rx.row, file |-> rx.file,
                           image |-> Append(disk[rx.file], Head(rx.in))]
          <6>1. landed' = landed \cup {y}
            BY <3>5, <4>3 DEF RxBody
          <6>2. y.job = rx.job /\ y.row = rx.row
            OBVIOUS
          <6> HIDE DEF y
          <6> QED
            BY <6>1, <6>2
        <5>2. PICK j \in Jobs, i \in Nat : j = rx.job /\ i = rx.row /\ Reached(j, i)
          BY <4>1 DEF IInv, Receiver, Typed, TypedRx, Running
        <5>3. Written' = Written \cup {<<j, i>>}
          BY <5>1, <5>2, WrittenOneMore
        <5>4. /\ i \in 1..Len(rows[j]) /\ rows[j][i] # "pending"
              /\ Promise!DoneBefore(j, i)
          BY <5>2, ReachedDone
        <5>5. Promise!Write(j, i)
          BY <3>1, <4>1, <5>3, <5>4 DEF Promise!Write, Playing, Written
        <5> QED
          BY <5>4, <5>5 DEF Promise!Next
      <4> QED
        BY <4>2, <4>3
    <3>6. ASSUME NEW j \in Jobs,
                 \/ Open(j) \/ Header(j) \/ Walk(j) \/ Ack(j) \/ Wait(j)
                 \/ Tool(j) \/ End(j) \/ Cancel(j)
          PROVE  UNCHANGED Promise!vars
      BY <2>1, <3>1, <3>6
      DEF Open, Header, Walk, Ack, Wait, Tool, End, Cancel, Fail, Die, console
    <3>7. ASSUME NEW f \in Roms, Replace(f) PROVE UNCHANGED Promise!vars
      BY <2>1, <3>1, <3>7 DEF Replace, thread, console
    <3>8. CASE Begin \/ NobodyCame \/ RxHeader
      BY <2>1, <3>1, <3>8 DEF Begin, NobodyCame, RxHeader, thread
    <3>9. ASSUME NEW j \in Jobs, NEW r \in Requests[j],
                 Start(j, r.files, r.launch)
          PROVE  Promise!Next
      BY <3>1, <3>9, AskStep
    <3> QED
      BY <2>5, <3>2, <3>3, <3>4, <3>5, <3>6, <3>7, <3>8, <3>9
      DEF Next, JobStep, Script
  <2> QED
    BY <2>2, <2>3, <2>4, <2>5
<1> QED
  BY Inductive, <1>1, <1>2, PTL DEF Spec, KeepsPromise, Promise!Spec
=============================================================================
