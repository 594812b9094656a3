---------------------------- MODULE MCHsvCommand ----------------------------
(* HsvCommand with the payloads that arrive: colours of several sectors    *)
(* and an edge, levels in and out of range, and payloads that are refused. *)
EXTENDS HsvCommand

MCPayloads ==
  {<<Off>>, <<On>>, <<Text>>, <<30, Text, 50>>, <<361, 1, 1>>}
  \cup {<<h, 90, 70>> : h \in {-30, 100, 290}} \cup {<<250, 35, -20>>}
  \cup {<<b>> : b \in {-50, 1, 150}}

\* At the beginning, midway and at the end, in step and out of it.
MCProgress ==
  {[c \in Channels |-> k] : k \in 0 .. FadeSteps}
  \cup {[r |-> FadeSteps, g |-> 1, b |-> 0], [r |-> 0, g |-> 1, b |-> 1]}

MCUndefinedLevels == {0, LEDC_DUTY_MAX}
=============================================================================
