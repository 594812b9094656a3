--------------------------- MODULE MCLightStrip -----------------------------
(* Commands for TLC: two that switch and are reported, a colour, and one the  *)
(* strip does not know.                                                       *)
EXTENDS LightStrip

MCCommands == { [topic |-> "light/cmd", payload |-> "0"],   [topic |-> "light/cmd", payload |-> "1"],
                [topic |-> "light/color", payload |-> "red"], [topic |-> "/example", payload |-> "x"] }
=============================================================================
