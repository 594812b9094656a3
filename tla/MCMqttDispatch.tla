--------------------------- MODULE MCMqttDispatch ---------------------------
(* The four registrations of a node, with topics of one or two characters: *)
(* the animation topic is a prefix of the light topic, and two topics      *)
(* share the restart queue.                                                *)
EXTENDS MqttDispatch

Light == <<"l", "c">>
Anim == <<"l">>
Reset == <<"r">>
AllReset == <<"h">>

MCRegistrations ==
  << [topic |-> Light, queue |-> "hsv"], [topic |-> Anim, queue |-> "anim"],
     [topic |-> Reset, queue |-> "restart"], [topic |-> AllReset, queue |-> "restart"] >>
MCLastCall == [q \in Queues |-> IF q = "restart" THEN 4 ELSE 2]
MCRetained == {Light, Anim}
=============================================================================
