---------------------------- MODULE SteadyLight ----------------------------
(***************************************************************************)
(* What a node promises of its light: commands change the light it         *)
(* settles on; an animation that plays to its end leaves each channel as   *)
(* it found it or one level darker; one that is stopped promises nothing.  *)
(***************************************************************************)
EXTENDS Integers
CONSTANTS LedcChannels, Full
VARIABLES light, phase

vars == <<light, phase>>

Colours == [LedcChannels -> 0 .. Full]
LevelLost == \A c \in LedcChannels : light'[c] \in {light[c] - 1, light[c]}

Init == light \in Colours /\ phase = "quiet"

Command == phase = "quiet" /\ light' \in Colours /\ UNCHANGED phase
Play == phase = "quiet" /\ phase' = "playing" /\ UNCHANGED light
End == phase = "playing" /\ phase' = "quiet" /\ light' \in Colours /\ LevelLost

(* A STOP, in the middle of an animation or without one, and its end. *)
Stop ==
  /\ phase \in {"quiet", "playing"} /\ phase' = "stopping"
  /\ light' \in Colours /\ (phase = "playing" => UNCHANGED light)
Stopped == phase = "stopping" /\ phase' = "quiet" /\ light' \in Colours

Next == Command \/ Play \/ End \/ Stop \/ Stopped

Spec == Init /\ [][Next]_vars
=============================================================================
