---------------------------- MODULE MCAnimation ----------------------------
(* Animation with the conversions of Colour, for a strip of few duties,    *)
(* white and a red that leans to yellow.                                   *)
EXTENDS Animation

Strip == INSTANCE Colour WITH LEDC_DUTY_MAX <- Full, UndefinedLevels <- {0}

MCChannels == {"r", "g", "b"}
MCWhite == <<<<0, 1>>, <<0, 1>>>>
MCHues == {MCWhite, <<<<1, 2>>, <<1, 1>>>>}

\* A level in range and one above 1.0.
MCSetLevels == {1, MaxV + 1}

ReadBackTable == [duty \in Duties |->
  LET hsv == Strip!xRGBToHSV(duty) IN [hs |-> <<hsv.h, hsv.s>>, v |-> hsv.v[1]]]
MCReadBack(duty) == ReadBackTable[duty]

MCHueSats == Hues \cup {MCReadBack(duty).hs : duty \in Duties}

\* Of what a double may leave: the strongest channel keeps its level, the
\* others lose one if their fractions are exact.  Read back and shown again the
\* red loses some of its yellow.
Top(duty) == Strip!Largest({duty[c] : c \in MCChannels})
Shows(d, e) == Top(d) > Top(e) \/ (Top(d) = Top(e) /\ \A c \in MCChannels : d[c] <= e[c])
ShownTable == [hsv \in Asked |->
  LET fades == Strip!Fades([h |-> hsv.hs[1], s |-> hsv.hs[2], v |-> <<hsv.v, MaxV>>])
  IN CHOOSE d \in fades : \A e \in fades : Shows(d, e)]
MCShown(hsv) == ShownTable[hsv]

\* One channel that is on or off.
MCGreyShown(hsv) == [c \in LedcChannels |-> IF hsv.v > 0 THEN Full ELSE 0]
MCGreyReadBack(duty) == [hs |-> White, v |-> IF \E c \in LedcChannels : duty[c] > 0 THEN MaxV ELSE 0]
=============================================================================
