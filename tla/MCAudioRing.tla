----------------------------- MODULE MCAudioRing -----------------------------
(* A ring of eight frames behind cursors of four bits, so that both wrap in a *)
(* session, and an emulator that mixes nothing, the steady amount or more     *)
(* than the drain can send.                                                   *)
EXTENDS AudioRing

MCFirstYield == {0, 3}
MCYield == {0, 5, 7}
=============================================================================
