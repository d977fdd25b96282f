------------------------------ MODULE Delivery ------------------------------
(***************************************************************************)
(* What the PC launcher promises of a job: an ordered list of rows, one    *)
(* per file, the last one possibly the launch of the emulator.  A row is   *)
(* shown done only once the console has closed that file with every byte   *)
(* it was promised, rows run one after the other, nothing follows a row    *)
(* that was not done, and the emulator starts only behind all its files.   *)
(* Jobs.tla is the runner, the batch connection and the receiver script    *)
(* that keep this promise.                                                 *)
(***************************************************************************)
EXTENDS Naturals, Sequences

CONSTANTS Jobs,      \* job identities
          RowCounts  \* the lengths a job may have

VARIABLES rows,    \* [Jobs -> Seq(row state)], empty before the job exists
          written, \* {<<j, i>>}: the console closed row i of job j whole
          playing  \* {j}: the emulator started by job j runs, {} when none

vars == <<rows, written, playing>>

Open    == {"pending", "running"}
Unsent  == {"cancelled", "failed", "skipped"}
DoneBefore(j, i) == \A k \in 1..(i - 1) : rows[j][k] = "done"

Init == /\ rows = [j \in Jobs |-> <<>>]
        /\ written = {}
        /\ playing = {}

Ask(j, n) == /\ rows[j] = <<>> /\ n > 0
             /\ rows' = [rows EXCEPT ![j] = [i \in 1..n |-> "pending"]]
             /\ UNCHANGED <<written, playing>>

Begin(j, i) == /\ rows[j][i] = "pending"
               /\ DoneBefore(j, i)
               /\ rows' = [rows EXCEPT ![j][i] = "running"]
               /\ UNCHANGED <<written, playing>>

\* The receiver may close a file after the launcher gave up on its row.
Write(j, i) == /\ rows[j][i] # "pending"
               /\ DoneBefore(j, i)
               /\ written' = written \cup {<<j, i>>}
               /\ UNCHANGED <<rows, playing>>

Report(j, i) == /\ rows[j][i] = "running"
                /\ <<j, i>> \in written
                /\ rows' = [rows EXCEPT ![j][i] = "done"]
                /\ UNCHANGED <<written, playing>>

GiveUp(j, i) == /\ rows[j][i] = "running"
                /\ \E s \in Unsent : rows' = [rows EXCEPT ![j][i] = s]
                /\ UNCHANGED <<written, playing>>

\* Rows behind one that was not done are closed with it.
Drop(j, i) == /\ rows[j][i] \in Unsent \cup {"done"}
              /\ \A k \in (i + 1)..Len(rows[j]) : rows[j][k] = "pending"
              /\ \E s \in {"cancelled", "skipped"} :
                   rows' = [rows EXCEPT ![j] = [k \in DOMAIN rows[j] |->
                              IF k > i THEN s ELSE rows[j][k]]]
              /\ UNCHANGED <<written, playing>>

\* The last row is the launch: the emulator comes up behind its files, and
\* counts as written once it has taken its image.
Play(j) == LET n == Len(rows[j]) IN
           /\ n > 0 /\ rows[j][n] # "pending"
           /\ DoneBefore(j, n)
           /\ playing' = {j}
           /\ written' = written \cup {<<j, n>>}
           /\ UNCHANGED rows

Return == playing' = {} /\ UNCHANGED <<rows, written>>

Next == \/ \E j \in Jobs, n \in RowCounts : Ask(j, n)
        \/ \E j \in Jobs : \E i \in 1..Len(rows[j]) :
              \/ Begin(j, i) \/ Write(j, i) \/ Report(j, i)
              \/ GiveUp(j, i) \/ Drop(j, i)
        \/ \E j \in Jobs : Play(j)
        \/ Return

Spec == Init /\ [][Next]_vars
=============================================================================
