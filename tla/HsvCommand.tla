----------------------------- MODULE HsvCommand -----------------------------
(***************************************************************************)
(* The colour commands of a node (hsv_cmd_task of light_controller.c) on   *)
(* top of Colour: parsing, the conversion to duties, and the conversion    *)
(* back from the duties the LED controller has got to, from which a        *)
(* brightness command starts.  A command may come in the middle of the     *)
(* 800 ms fade of the one before.  The animations and the interleaving of  *)
(* tasks are Animation's.                                                  *)
(***************************************************************************)
EXTENDS Colour, Sequences

CONSTANTS
  Off, On, Text,    \* payloads, or fields of one, that are not a number
  Payloads,         \* the commands that may arrive: sequences of fields
  FadeSteps,        \* how finely the moments of a fade are told apart
  Progress,         \* how far each channel's fade may have got to
  MaxCommands       \* bound: commands handled

ASSUME FadesGoOn ==
  /\ FadeSteps \in Nat \ {0} /\ MaxCommands \in Nat
  /\ Progress \subseteq [Channels -> 0 .. FadeSteps]

VARIABLES
  duty,            \* where the fade that was started last began: the level
                   \* of each channel and (history) its order, the pairs
                   \* <<c, d>> of channels of which it was asked that c be
                   \* darker than d
  goal,            \* where that fade ends, likewise
  hsv_last_value,  \* the colour ON returns to
  lastOrder,       \* history: the order asked for with hsv_last_value
  commands         \* commands handled

vars == <<duty, goal, hsv_last_value, lastOrder, commands>>

\* Where a channel is after k steps of its fade.
After(from, to, k) == from + ((to - from) * k) \div FadeSteps

\* Of what was asked for at either end, the pairs of channels that the fade
\* cannot show reversed wherever each of the two has got to.
StillApart ==
  {e \in duty.order \cup goal.order :
     Largest({duty.level[e[1]], goal.level[e[1]]}) <= Smallest({duty.level[e[2]], goal.level[e[2]]})}

\* What ledc_get_duty may return: every channel has its own fade, which may be
\* at its beginning, at its end or under way.
Moments ==
  {[level |-> [c \in Channels |-> After(duty.level[c], goal.level[c], k[c])],
    order |-> StillApart] : k \in Progress}

\* The new fade begins where the channels are.
vPwmSetValueRec(hsv, order, record, now) ==
  /\ duty' = now
  /\ IF record
     THEN hsv_last_value' = hsv /\ lastOrder' = order
     ELSE UNCHANGED <<hsv_last_value, lastOrder>>
  /\ \E level \in Fades(hsv) : goal' = [level |-> level, order |-> order]

Init ==
  LET dark == [level |-> [c \in Channels |-> 0], order |-> {}]
  IN /\ duty = dark /\ goal = dark
     /\ hsv_last_value = [h |-> <<0, 1>>, s |-> <<0, 1>>, v |-> <<1, 1>>]
     /\ lastOrder = {}
     /\ commands = 0

\* What a colour asks for, read off the colour circle: red, green and blue lie
\* a third of a turn apart, and a channel is the darker the further the hue is
\* from its place, between a sixth and a third of a turn.
Darker(h, s, v) ==
  LET place == [r |-> 0, g |-> 120, b |-> 240]
      away(c) == LET d == IF h >= place[c] THEN h - place[c] ELSE place[c] - h
                 IN Smallest({d, 360 - d})
      shade(c) == Largest({60, Smallest({120, away(c)})})
  IN {e \in Channels \X Channels :
        h >= 0 /\ s > 0 /\ v > 0 /\ shade(e[1]) > shade(e[2])}

-----------------------------------------------------------------------------
(* light_controller.c                                                      *)

\* str2int: digits and nothing else.
Number(field) == field \notin {Off, On, Text}

ASSUME NumbersAreInts ==
  \A f \in Payloads : \A i \in 1..Len(f) : Number(f[i]) => f[i] \in Int

\* hsv_parse_csv: three numbers; only their upper ends are checked.
hsv_parse_csv(f) ==
  /\ Len(f) = 3
  /\ \A i \in 1..3 : Number(f[i])
  /\ f[1] <= 360 /\ f[2] <= 100 /\ f[3] <= 100

\* A payload hsv_cmd_task takes from its queue.
Handle ==
  /\ commands < MaxCommands
  /\ commands' = commands + 1

HandleOff(f) ==
  /\ f = <<Off>>
  /\ Handle
  /\ \E now \in Moments :
       vPwmSetValueRec([h |-> <<0, 1>>, s |-> <<0, 1>>, v |-> <<0, 1>>], {}, FALSE, now)

HandleOn(f) ==
  /\ f = <<On>>
  /\ Handle
  /\ \E now \in Moments : vPwmSetValueRec(hsv_last_value, lastOrder, FALSE, now)

HandleCsv(f) ==
  /\ hsv_parse_csv(f)
  /\ Handle
  /\ LET hsv == [h |-> <<f[1], 60>>, s |-> <<f[2], 100>>, v |-> <<f[3], 100>>]
     IN \E now \in Moments : vPwmSetValueRec(hsv, Darker(f[1], f[2], f[3]), TRUE, now)

\* Starts from the duties of the moment; what was asked for before counts only
\* as far as the moment cannot show the contrary.
BrightnessFrom(f, now) ==
  /\ Len(f) = 1 /\ Number(f[1])
  /\ Handle
  /\ vPwmSetValueRec([xRGBToHSV(now.level) EXCEPT !.v = <<f[1], 100>>],
                     IF f[1] < 0 THEN {} ELSE now.order, TRUE, now)

HandleBrightness(f) == \E now \in Moments : BrightnessFrom(f, now)

\* Anything else is logged.  The error path parses the payload again after
\* the commas are gone, which changes the code it logs and nothing else.
HandleOther(f) ==
  /\ IF Len(f) = 1 THEN f[1] = Text ELSE ~hsv_parse_csv(f)
  /\ Handle
  /\ UNCHANGED <<duty, goal, hsv_last_value, lastOrder>>

Next == \E f \in Payloads :
  HandleOff(f) \/ HandleOn(f) \/ HandleCsv(f) \/ HandleBrightness(f) \/ HandleOther(f)

Spec == Init /\ [][Next]_vars

-----------------------------------------------------------------------------

TypeOK ==
  /\ {duty, goal} \subseteq [level : [Channels -> 0..LEDC_DUTY_MAX],
                              order : SUBSET (Channels \X Channels)]
  /\ lastOrder \subseteq Channels \X Channels
  /\ \A x \in {"h", "s", "v"} : hsv_last_value[x] \in Int \X (Nat \ {0})
  /\ commands \in 0..MaxCommands

\* Whatever sequence of brightness commands, OFF and ON follows a colour, a
\* channel that was asked to be darker than another is never the brighter of
\* the two: dimming to almost nothing and back loses shades but does not turn
\* one colour into another (iPwmGetValue, xRGBToHSV and xHSVToRGB in turn).
\* A brightness command in the middle of a fade keeps that for every pair of
\* channels the fade itself does not swap.
OrderKept ==
  TypeOK /\ \A on \in {duty, goal} : \A e \in on.order : on.level[e[1]] <= on.level[e[2]]

\* A brightness command between 1 and 100 scales the channels it finds, at
\* rest or in the middle of a fade, by one factor, to within the level a
\* double may lose, and makes the strongest channel that share of full; a dark
\* strip has no colour and turns white.
BrightnessScales ==
  [][\A f \in Payloads : BrightnessFrom(f, duty') /\ f[1] \in 1..100 =>
       LET found == duty'.level
           max == Largest({found[c] : c \in Channels})
       IN \A c \in Channels :
            LET num == LEDC_DUTY_MAX * f[1] * (IF max = 0 THEN 1 ELSE found[c])
                den == 100 * (IF max = 0 THEN 1 ELSE max)
            IN /\ goal'.level[c] * den <= num
               /\ num <= (goal'.level[c] + 1) * den]_vars
=============================================================================
