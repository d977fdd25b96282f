------------------------------ MODULE MCChecks ------------------------------
(* Checks on a small instance: two calls at a time.                          *)
EXTENDS Checks, TLC

CONSTANTS c1, c2

MCCalls == {c1, c2}

\* A check, a batch or a launch under one token, a removal or a clean-up
\* under the other, and under either the checks of upload_gate, which are no
\* requests.
MCRequests == {c1} \X {"batch", "verify", "launch"}
                \cup {c2} \X {"delete", "cleanup"}
=============================================================================
