------------------------------- MODULE MCJobs -------------------------------
(* Jobs on a small instance.                                                 *)
EXTENDS Jobs, TLC

CONSTANTS a, b

MCRoms == {a, b}
\* The first file is replaced once, by a longer one.
MCLast == [r \in MCRoms |-> IF r = a THEN 2 ELSE 1]
MCSize == [v \in 1..2 |-> v]
Ask(files, launch) == [files |-> files, launch |-> launch]
\* A launch with two games first; then one game, or a launch alone.
MCRequests == << {Ask(<<a, b>>, TRUE)}, {Ask(<<a>>, FALSE), Ask(<<>>, TRUE)} >>
=============================================================================
