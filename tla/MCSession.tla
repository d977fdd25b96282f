----------------------------- MODULE MCSession ------------------------------
(* Session on a small instance.                                              *)
EXTENDS Session, TLC

CONSTANTS a, b
MCRoms == {a, b}
=============================================================================
