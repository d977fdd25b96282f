------------------------------ MODULE Console -------------------------------
(***************************************************************************)
(* What the launcher promises the player: one cartridge at a time, and a   *)
(* game leaves nothing behind but, at most once and as the last thing it   *)
(* does, a new save of its own.                                            *)
(***************************************************************************)
EXTENDS Naturals

CONSTANTS Roms, None

VARIABLES
  phase,  \* "menu", "game", "over", "off"
  cart,   \* the cartridge of the game
  disk    \* how many saves of each cartridge were committed

vars == <<phase, cart, disk>>

Init == phase = "menu" /\ cart = None /\ disk = [r \in Roms |-> 0]

\* A game is chosen, and starts or is over at once.
Start(r) == phase = "menu" /\ phase' \in {"game", "over"} /\ cart' = r /\ disk' = disk

\* A game ends, with or without a save.
Finish ==
  /\ phase = "game" /\ phase' \in {"over", "off"}
  /\ cart' = IF phase' = "off" THEN None ELSE cart
  /\ \/ disk' = disk
     \/ disk' = [disk EXCEPT ![cart] = @ + 1]

Return == phase = "over" /\ phase' = "menu" /\ cart' = None /\ disk' = disk

Off == phase # "off" /\ phase' = "off" /\ cart' = None /\ disk' = disk

Next == (\E r \in Roms : Start(r)) \/ Finish \/ Return \/ Off

Spec == Init /\ [][Next]_vars
=============================================================================
