------------------------------- MODULE Colour -------------------------------
(***************************************************************************)
(* The arithmetic between a colour and the duties of the three channels:   *)
(* HSVToRGB.h and the conversions of pwm.c.  Doubles are exact fractions   *)
(* <<n, d>> here; what a double adds is that a channel whose exact level   *)
(* is a whole number may be cut to the one below.                          *)
(***************************************************************************)
EXTENDS Integers

CONSTANTS
  LEDC_DUTY_MAX,    \* the duty of a channel that is fully on
  UndefinedLevels   \* what a channel may show for a duty below zero

ASSUME LevelsAreDuties ==
  /\ LEDC_DUTY_MAX \in Nat \ {0}
  /\ UndefinedLevels \subseteq 0..LEDC_DUTY_MAX

Channels == {"r", "g", "b"}

Largest(S) == CHOOSE x \in S : \A y \in S : y <= x
Smallest(S) == CHOOSE x \in S : \A y \in S : x <= y

-----------------------------------------------------------------------------
(* HSVToRGB.h.  The hue is counted in sixths of a turn (hh).               *)

\* Reds that lean to blue come out negative and are brought round; the first
\* definition, for comparison, forgets to.
WrappedNever(towards, delta) == towards
Wrapped(towards, delta) == IF towards < 0 THEN towards + 6 * delta ELSE towards

xRGBToHSV(level) ==
  LET max == Largest({level[c] : c \in Channels})
      delta == max - Smallest({level[c] : c \in Channels})
      towards == IF level["r"] = max THEN level["g"] - level["b"]
                 ELSE IF level["g"] = max
                      THEN 2 * delta + level["b"] - level["r"]
                      ELSE 4 * delta + level["r"] - level["g"]
  IN [h |-> IF delta = 0 THEN <<0, 1>> ELSE <<Wrapped(towards, delta), delta>>,
      s |-> IF delta = 0 THEN <<0, 1>> ELSE <<delta, max>>,
      v |-> <<max, LEDC_DUTY_MAX>>]

\* The cast to long rounds towards zero.
Truncated(x) == IF x[1] >= 0 THEN x[1] \div x[2] ELSE -((-x[1]) \div x[2])

\* Which of v, p, q and t each channel gets in sector i of the circle; the
\* first definition, for comparison, misses a break and runs on into the last.
SectorNoBreak(i) ==
  CASE i = 0 -> [r |-> "v", g |-> "t", b |-> "p"]
    [] i = 1 -> [r |-> "q", g |-> "v", b |-> "p"]
    [] i = 2 -> [r |-> "p", g |-> "v", b |-> "t"]
    [] i = 3 -> [r |-> "p", g |-> "q", b |-> "v"]
    [] OTHER -> [r |-> "v", g |-> "p", b |-> "q"]
Sector(i) ==
  CASE i = 0 -> [r |-> "v", g |-> "t", b |-> "p"]
    [] i = 1 -> [r |-> "q", g |-> "v", b |-> "p"]
    [] i = 2 -> [r |-> "p", g |-> "v", b |-> "t"]
    [] i = 3 -> [r |-> "p", g |-> "q", b |-> "v"]
    [] i = 4 -> [r |-> "t", g |-> "p", b |-> "v"]
    [] OTHER -> [r |-> "v", g |-> "p", b |-> "q"]

\* The channels: which of the four values each has, and these as numerators
\* over one denominator.  At ff = 0 the program computes q as it computes v,
\* and t as p.
xHSVToRGB(in) ==
  LET hh == IF in.h[1] >= 6 * in.h[2] THEN <<0, 1>> ELSE in.h
      i == Truncated(hh)
      f == hh[1] - i * hh[2]
      v == in.v[1]   sn == in.s[1]   sd == in.s[2]   fd == hh[2]
      same == [v |-> "v", p |-> "p", q |-> "v", t |-> "p"]
  IN [value |-> IF sn <= 0 THEN [c \in Channels |-> "v"]
                ELSE IF f = 0 THEN [c \in Channels |-> same[Sector(i)[c]]]
                ELSE Sector(i),
      of |-> [v |-> v * sd * fd,
              p |-> v * (sd - sn) * fd,
              q |-> v * (sd * fd - sn * f),
              t |-> v * (sd * fd - sn * (fd - f))],
      den |-> in.v[2] * sd * fd]

-----------------------------------------------------------------------------
(* pwm.c                                                                   *)

\* The duties a fraction may become.  Below zero the cast to uint32_t is
\* undefined and what the LED controller makes of the result its own.
uiPwmConvertPercent(n, d) ==
  LET exact == (LEDC_DUTY_MAX * n) \div d
  IN IF n = 0 THEN {0}
     ELSE IF n >= d THEN {LEDC_DUTY_MAX}
     ELSE IF n < 0 THEN IF LEDC_DUTY_MAX * (-n) < d THEN {0} ELSE UndefinedLevels
     ELSE IF (LEDC_DUTY_MAX * n) % d = 0 THEN {exact, exact - 1} ELSE {exact}

\* The levels vPwmSetValueRec may start to fade to for hsv.
Fades(hsv) ==
  LET rgb == xHSVToRGB(hsv)
      Duties(x) == uiPwmConvertPercent(rgb.of[x], rgb.den)
  IN {[c \in Channels |-> cut[rgb.value[c]]] :
        cut \in [v : Duties("v"), p : Duties("p"), q : Duties("q"), t : Duties("t")]}
=============================================================================
