---------------------------- MODULE MCAudioLevels ----------------------------
(* The numbers of gba_audio.h and sound.h.  A GBA frame is 280896 cycles and  *)
(* the mix bus gains one stereo frame every 256, so an emulated frame mixes   *)
(* 1097 or 1098.  A frame ends at the first event after its last cycle, and a *)
(* long instruction or DMA makes one end late and the next early: up to 2048  *)
(* cycles are allowed either way.  A session starts one cycle before the end  *)
(* of a frame (gba_exec.h:208-211), so its first frame mixes next to nothing. *)
EXTENDS AudioLevels

MCFirstYield == {0, 1, 8}
MCYield == {1089, 1097, 1098, 1106}

\* The numbers fit, so what is proved of such numbers holds of this program, and
\* would still if a frame mixed anything from 350 to 1398.
ASSUME NumbersFit == RatesFit(350, 1398, 1024)
=============================================================================
