----------------------------- MODULE MCCartMap ------------------------------
(* CartMap on a small instance: a page of the model stands for 128 of them. *)
EXTENDS CartMap

\* 32 MB, 16 MB, 8 MB and 4 MB.
MCSizes == {8, 4, 2, 1}
\* Games whose code is in few pages, and one whose code is everywhere.
MCCode == {0, 1, 5}
MCEverywhere == 0 .. 7
=============================================================================
