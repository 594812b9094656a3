----------------------------- MODULE TopicMatch -----------------------------
(***************************************************************************)
(* How mqtt_event_handler compares the topic of an event, which carries    *)
(* its length and no terminator, with a registered topic, a C string.      *)
(***************************************************************************)
EXTENDS Naturals, Sequences

CONSTANTS Chars, NUL
ASSUME NulAssumption == NUL \notin Chars

CString(s) == Append(s, NUL)

(* memcmp over the event's length: it stops at the string's terminator,    *)
(* which no event character equals.                                        *)
SamePrefix(event, string) ==
  \A i \in 1 .. Len(event) : i <= Len(string) /\ event[i] = string[i]

(* Mutant: the terminator is not looked at. *)
MatchesPrefix(event, topic) == SamePrefix(event, CString(topic))

(* The terminator must follow: /home/light is not /home/light/state.       *)
TopicMatches(event, topic) ==
  /\ SamePrefix(event, CString(topic))
  /\ CString(topic)[Len(event) + 1] = NUL
=============================================================================
