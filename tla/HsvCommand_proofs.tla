------------------------- MODULE HsvCommand_proofs -------------------------
(***************************************************************************)
(* Colours through any number of commands, in and out of fades, for any    *)
(* resolution of the duties, any payloads and whatever a duty below zero   *)
(* shows; and what one read-back costs.                                    *)
(***************************************************************************)
EXTENDS HsvCommand, TLAPS

Levels == 0 .. LEDC_DUTY_MAX
Names == {"v", "p", "q", "t"}
Fractions == Int \X (Nat \ {0})
IsHsv(in) == \A x \in {"h", "s", "v"} : in[x] \in Fractions

-----------------------------------------------------------------------------
(* Arithmetic                                                              *)

LEMMA Products ==
  /\ \A a, b \in Int : a * b \in Int /\ a * b = b * a
  /\ \A a, b, c \in Int : /\ (a * b) * c = a * (b * c)
                          /\ (a + b) * c = a * c + b * c /\ (a - b) * c = a * c - b * c
  /\ \A a, b \in Nat : a * b \in Nat
  /\ \A a, b \in Nat \ {0} : a * b \in Nat \ {0}
    OBVIOUS

LEMMA Factors ==
  /\ \A a, b \in Int, d \in Nat : a <= b => a * d <= b * d
  /\ \A a, b \in Int, d \in Nat \ {0} : (a * d <= b * d => a <= b) /\ (a < b => a * d < b * d)
    OBVIOUS

LEMMA Quotient ==
  ASSUME NEW a \in Nat, NEW d \in Nat \ {0}
  PROVE  /\ a \div d \in Nat /\ a % d \in Nat
         /\ a = (a \div d) * d + (a % d) /\ a % d < d
<1>1. a \div d \in Nat /\ a % d \in Nat /\ a = d * (a \div d) + (a % d) /\ a % d < d
    OBVIOUS
<1> QED BY <1>1, Products

LEMMA QuotientsGrow ==
  ASSUME NEW a \in Nat, NEW b \in Nat, NEW d \in Nat \ {0}, a < b
  PROVE  a \div d <= b \div d /\ (b % d = 0 => a \div d < b \div d)
    OBVIOUS

LEMMA Extremes ==
  ASSUME NEW a \in Int, NEW b \in Int, NEW c \in Int, NEW S, S = {a, b, c}
  PROVE  /\ Largest(S) \in S /\ Smallest(S) \in S
         /\ \A x \in S : Smallest(S) <= x /\ x <= Largest(S)
<1>1. \E x \in S : \A y \in S : y <= x
    OBVIOUS
<1>2. \E x \in S : \A y \in S : x <= y
    OBVIOUS
<1> QED BY <1>1, <1>2 DEF Largest, Smallest

-----------------------------------------------------------------------------
(* Duties                                                                  *)

(* Whatever a fraction becomes is a level.                                 *)
LEMMA DutyIsLevel ==
  ASSUME NEW n \in Int, NEW d \in Nat \ {0}, NEW x \in uiPwmConvertPercent(n, d)
  PROVE  x \in Levels
<1>1. LEDC_DUTY_MAX \in Nat \ {0} /\ UndefinedLevels \subseteq Levels
    BY LevelsAreDuties DEF Levels
<1>2. CASE n <= 0 \/ n >= d
    BY <1>1, <1>2 DEF uiPwmConvertPercent, Levels
<1>3. CASE n > 0 /\ n < d
  <2> DEFINE a == LEDC_DUTY_MAX * n
  <2>1. a \in Nat \ {0} /\ a < LEDC_DUTY_MAX * d /\ LEDC_DUTY_MAX * d \in Nat
      BY <1>1, <1>3, Products, Factors
  <2>2. x = a \div d \/ (a % d = 0 /\ x = (a \div d) - 1)
      BY <1>3 DEF uiPwmConvertPercent
  <2> HIDE DEF a
  <2>3. a \div d \in Nat /\ a % d \in Nat /\ a = (a \div d) * d + (a % d)
      BY <2>1, Quotient
  <2>4. (a \div d) * d <= LEDC_DUTY_MAX * d
      BY <2>1, <2>3, Products
  <2>5. a \div d <= LEDC_DUTY_MAX
      BY <1>1, <2>3, <2>4, Factors
  <2>6. a % d = 0 => a \div d # 0
      BY <2>1, <2>3
  <2> QED BY <1>1, <2>2, <2>3, <2>5, <2>6 DEF Levels
<1> QED BY <1>2, <1>3

(* A smaller fraction never becomes the larger duty, although a double may *)
(* lose a level.                                                           *)
LEMMA DutiesGrow ==
  ASSUME NEW m \in Nat, NEW n \in Nat, NEW d \in Nat \ {0}, m < n,
         NEW x \in uiPwmConvertPercent(m, d), NEW y \in uiPwmConvertPercent(n, d)
  PROVE  x <= y
<1>1. LEDC_DUTY_MAX \in Nat \ {0} /\ x \in Levels /\ y \in Levels
    BY LevelsAreDuties, DutyIsLevel
<1>2. CASE m = 0
    BY <1>1, <1>2 DEF uiPwmConvertPercent, Levels
<1>3. CASE n >= d
    BY <1>1, <1>3 DEF uiPwmConvertPercent, Levels
<1>4. CASE m # 0 /\ n < d
  <2> DEFINE a == LEDC_DUTY_MAX * m
             b == LEDC_DUTY_MAX * n
  <2>1. a \in Nat /\ b \in Nat /\ a < b
      BY <1>1, Products, Factors
  <2>2. /\ x <= a \div d
        /\ y = b \div d \/ (b % d = 0 /\ y = (b \div d) - 1)
    <3>1. a \div d \in Nat /\ b \div d \in Nat
        BY <2>1, Quotient
    <3> QED BY <1>4, <3>1 DEF uiPwmConvertPercent
  <2> HIDE DEF a, b
  <2>3. a \div d \in Nat /\ b \div d \in Nat
      BY <2>1, Quotient
  <2>4. a \div d <= b \div d /\ (b % d = 0 => a \div d < b \div d)
      BY <2>1, QuotientsGrow
  <2> QED BY <1>1, <2>2, <2>3, <2>4 DEF Levels
<1> QED BY <1>2, <1>3, <1>4

(* Between 0 and 1 a fraction becomes the level below or at it, or one     *)
(* less if it is exact.                                                    *)
LEMMA DutyIsNear ==
  ASSUME NEW n \in Nat, NEW d \in Nat \ {0}, n <= d, NEW x \in uiPwmConvertPercent(n, d)
  PROVE  x * d <= LEDC_DUTY_MAX * n /\ LEDC_DUTY_MAX * n <= (x + 1) * d
<1>1. LEDC_DUTY_MAX \in Nat \ {0} /\ x \in Levels
    BY LevelsAreDuties, DutyIsLevel
<1>2. CASE n = 0
  <2>1. x = 0
      BY <1>2 DEF uiPwmConvertPercent
  <2>2. /\ 0 * d = 0 /\ (0 + 1) * d = d /\ LEDC_DUTY_MAX * 0 = 0 
      BY <1>1
  <2> QED BY <1>2, <2>1, <2>2
<1>3. CASE n = d
  <2>1. x = LEDC_DUTY_MAX
      BY <1>3 DEF uiPwmConvertPercent
  <2>2. (LEDC_DUTY_MAX + 1) * d = LEDC_DUTY_MAX * d + d /\ LEDC_DUTY_MAX * d \in Nat
      BY <1>1, Products
  <2> QED BY <1>3, <2>1, <2>2
<1>4. CASE n # 0 /\ n < d
  <2> DEFINE a == LEDC_DUTY_MAX * n
  <2>1. a \in Nat
      BY <1>1, Products
  <2>2. x = a \div d \/ (a % d = 0 /\ x = (a \div d) - 1)
      BY <1>4 DEF uiPwmConvertPercent
  <2> HIDE DEF a
  <2>3. a \div d \in Nat /\ a % d \in Nat /\ a = (a \div d) * d + (a % d) /\ a % d < d
      BY <2>1, Quotient
  <2>4. ((a \div d) + 1) * d = (a \div d) * d + d /\ (a \div d) * d \in Nat
      BY <2>3, Products
  <2>5. ((a \div d) - 1) * d = (a \div d) * d - d
      BY <2>3, Products
  <2>6. x * d <= a /\ a <= (x + 1) * d
    <3>1. CASE x = a \div d
        BY <2>1, <2>3, <2>4, <3>1
    <3>2. CASE a % d = 0 /\ x = (a \div d) - 1
      <4>1. x + 1 = a \div d
          BY <2>3, <3>2
      <4> QED BY <2>1, <2>3, <2>4, <2>5, <3>2, <4>1
    <3> QED BY <2>2, <3>1, <3>2
  <2> QED BY <2>6 DEF a
<1> QED BY <1>2, <1>3, <1>4

-----------------------------------------------------------------------------
(* From a colour to the channels                                           *)

Turned(in) == IF in.h[1] >= 6 * in.h[2] THEN <<0, 1>> ELSE in.h
Sixth(in) == Truncated(Turned(in))
Past(in) == Turned(in)[1] - Sixth(in) * Turned(in)[2]
OnBorder == [v |-> "v", p |-> "p", q |-> "v", t |-> "p"]

LEMMA Converted ==
  ASSUME NEW in
  PROVE  LET rgb == xHSVToRGB(in)
             v == in.v[1]   sn == in.s[1]   sd == in.s[2]   fd == Turned(in)[2]
         IN /\ rgb.of = [v |-> v * sd * fd,
                         p |-> v * (sd - sn) * fd,
                         q |-> v * (sd * fd - sn * Past(in)),
                         t |-> v * (sd * fd - sn * (fd - Past(in)))]
            /\ rgb.den = in.v[2] * sd * fd
            /\ rgb.value = IF sn <= 0 THEN [c \in Channels |-> "v"]
                           ELSE IF Past(in) = 0
                                THEN [c \in Channels |-> OnBorder[Sector(Sixth(in))[c]]]
                                ELSE Sector(Sixth(in))
    BY DEF xHSVToRGB, Turned, Sixth, Past, OnBorder

LEMMA SectorNames ==
  ASSUME NEW i \in Int
  PROVE  Sector(i) \in [Channels -> Names]
    BY DEF Sector, Channels, Names

LEMMA Sectors ==
  /\ Sector(0)["r"] = "v" /\ Sector(0)["g"] = "t" /\ Sector(0)["b"] = "p"
  /\ Sector(1)["r"] = "q" /\ Sector(1)["g"] = "v" /\ Sector(1)["b"] = "p"
  /\ Sector(2)["r"] = "p" /\ Sector(2)["g"] = "v" /\ Sector(2)["b"] = "t"
  /\ Sector(3)["r"] = "p" /\ Sector(3)["g"] = "q" /\ Sector(3)["b"] = "v"
  /\ Sector(4)["r"] = "t" /\ Sector(4)["g"] = "p" /\ Sector(4)["b"] = "v"
  /\ Sector(5)["r"] = "v" /\ Sector(5)["g"] = "p" /\ Sector(5)["b"] = "q"
    BY DEF Sector

LEMMA TurnedParts ==
  ASSUME NEW in, IsHsv(in)
  PROVE  /\ Turned(in) \in Fractions /\ Turned(in)[1] \in Int /\ Turned(in)[2] \in Nat \ {0}
         /\ Sixth(in) \in Int /\ Past(in) \in Int
<1>1. in.h \in Fractions
    BY DEF IsHsv
<1>2. Turned(in) \in Fractions
    BY <1>1 DEF Turned, Fractions
<1>3. Turned(in)[1] \in Int /\ Turned(in)[2] \in Nat \ {0}
    BY <1>2 DEF Fractions
<1>4. Sixth(in) \in Int
  <2>1. CASE Turned(in)[1] >= 0
      BY <1>3, <2>1, Quotient DEF Sixth, Truncated
  <2>2. CASE ~(Turned(in)[1] >= 0)
    <3>1. -Turned(in)[1] \in Nat
        BY <1>3, <2>2
    <3>2. (-Turned(in)[1]) \div Turned(in)[2] \in Nat
        BY <1>3, <3>1, Quotient
    <3> QED BY <2>2, <3>2 DEF Sixth, Truncated
  <2> QED BY <2>1, <2>2
<1>5. Past(in) \in Int
    BY <1>3, <1>4, Products DEF Past
<1> QED BY <1>2, <1>3, <1>4, <1>5

LEMMA ChannelsHaveNames ==
  ASSUME NEW in, IsHsv(in)
  PROVE  /\ xHSVToRGB(in).value \in [Channels -> Names]
         /\ \A x \in Names : xHSVToRGB(in).of[x] \in Int
         /\ xHSVToRGB(in).den \in Nat \ {0}
<1>1. /\ in.v[1] \in Int /\ in.v[2] \in Nat \ {0} /\ in.s[1] \in Int /\ in.s[2] \in Nat \ {0}
      /\ in.s[2] \in Int /\ in.v[2] \in Int
    BY DEF IsHsv, Fractions
<1>2. /\ Turned(in)[2] \in Nat \ {0} /\ Turned(in)[2] \in Int
      /\ Sixth(in) \in Int /\ Past(in) \in Int
    BY TurnedParts
<1>3. xHSVToRGB(in).value \in [Channels -> Names]
  <2>1. Sector(Sixth(in)) \in [Channels -> Names]
      BY <1>2, SectorNames
  <2>2. \A x \in Names : OnBorder[x] \in Names
      BY DEF OnBorder, Names
  <2>3. [c \in Channels |-> OnBorder[Sector(Sixth(in))[c]]] \in [Channels -> Names]
      BY <2>1, <2>2
  <2>4. [c \in Channels |-> "v"] \in [Channels -> Names]
      BY DEF Names
  <2> QED BY <2>1, <2>3, <2>4, Converted
<1>4. \A x \in Names : xHSVToRGB(in).of[x] \in Int
  <2> DEFINE v == in.v[1]   sn == in.s[1]   sd == in.s[2]   fd == Turned(in)[2]
  <2>1. v * sd * fd \in Int /\ v * (sd - sn) * fd \in Int
    <3>1. sd - sn \in Int
        BY <1>1
    <3>2. v * sd \in Int /\ v * (sd - sn) \in Int
        BY <1>1, <3>1, Products
    <3> QED BY <1>2, <3>2, Products
  <2>2. sd * fd \in Int /\ sn * Past(in) \in Int /\ sn * (fd - Past(in)) \in Int
      BY <1>1, <1>2, Products
  <2>3. /\ v * (sd * fd - sn * Past(in)) \in Int
        /\ v * (sd * fd - sn * (fd - Past(in))) \in Int
      BY <1>1, <2>2, Products
  <2> HIDE DEF v, sn, sd, fd
  <2>4. xHSVToRGB(in).of = [v |-> v * sd * fd,
                            p |-> v * (sd - sn) * fd,
                            q |-> v * (sd * fd - sn * Past(in)),
                            t |-> v * (sd * fd - sn * (fd - Past(in)))]
      BY Converted DEF v, sn, sd, fd
  <2> QED BY <2>1, <2>3, <2>4 DEF Names
<1>5. xHSVToRGB(in).den \in Nat \ {0}
  <2>1. in.v[2] * in.s[2] \in Nat \ {0}
      BY <1>1, Products
  <2>2. in.v[2] * in.s[2] * Turned(in)[2] \in Nat \ {0}
      BY <1>2, <2>1, Products
  <2> QED BY <2>2, Converted
<1> QED BY <1>3, <1>4, <1>5

(* The levels of a fade are duties of what the channels are named.         *)
LEMMA FadesAre ==
  ASSUME NEW in, IsHsv(in), NEW level \in Fades(in)
  PROVE  /\ level \in [Channels -> Levels]
         /\ \E cut : \A x \in Names :
              /\ cut[x] \in uiPwmConvertPercent(xHSVToRGB(in).of[x], xHSVToRGB(in).den)
              /\ \A c \in Channels : xHSVToRGB(in).value[c] = x => level[c] = cut[x]
<1> DEFINE rgb == xHSVToRGB(in)
           Duties(x) == uiPwmConvertPercent(rgb.of[x], rgb.den)
<1>1. PICK cut \in [v : Duties("v"), p : Duties("p"), q : Duties("q"), t : Duties("t")] :
         level = [c \in Channels |-> cut[rgb.value[c]]]
    BY DEF Fades
<1>2. \A x \in Names : cut[x] \in Duties(x)
    BY DEF Names
<1>3. rgb.value \in [Channels -> Names] /\ \A x \in Names : Duties(x) \subseteq Levels
    BY ChannelsHaveNames, DutyIsLevel
<1> HIDE DEF rgb
<1>4. level \in [Channels -> Levels]
    BY <1>1, <1>2, <1>3
<1>5. \A x \in Names, c \in Channels : rgb.value[c] = x => level[c] = cut[x]
    BY <1>1
<1> QED BY <1>2, <1>4, <1>5 DEF rgb

(* A fade keeps the order of two channels that come out of one expression, *)
(* or of different values of which the smaller is not negative.            *)
LEMMA FadeKeeps ==
  ASSUME NEW in, IsHsv(in), NEW level \in Fades(in), NEW c \in Channels, NEW d \in Channels,
         LET rgb == xHSVToRGB(in)
             m == rgb.of[rgb.value[c]]
             n == rgb.of[rgb.value[d]]
         IN rgb.value[c] = rgb.value[d] \/ m = 0 \/ (0 < m /\ m < n)
  PROVE  level[c] <= level[d]
<1> DEFINE rgb == xHSVToRGB(in)
           x == rgb.value[c]
           y == rgb.value[d]
<1>1. x \in Names /\ y \in Names /\ rgb.of[x] \in Int /\ rgb.of[y] \in Int /\ rgb.den \in Nat \ {0}
    BY ChannelsHaveNames
<1>2. PICK cut : \A z \in Names :
              /\ cut[z] \in uiPwmConvertPercent(rgb.of[z], rgb.den)
              /\ \A b \in Channels : rgb.value[b] = z => level[b] = cut[z]
    BY FadesAre
<1>3. level[c] = cut[x] /\ level[d] = cut[y] /\ level[c] \in Levels /\ level[d] \in Levels
    BY <1>1, <1>2, FadesAre
<1>4. LEDC_DUTY_MAX \in Nat
    BY LevelsAreDuties
<1>5. CASE x = y
    BY <1>3, <1>4, <1>5 DEF Levels
<1>6. CASE rgb.of[x] = 0
  <2>1. cut[x] = 0
      BY <1>1, <1>2, <1>6 DEF uiPwmConvertPercent
  <2> QED BY <1>3, <1>4, <2>1 DEF Levels
<1>7. CASE 0 < rgb.of[x] /\ rgb.of[x] < rgb.of[y]
    BY <1>1, <1>2, <1>3, <1>7, DutiesGrow
<1> QED BY <1>5, <1>6, <1>7

(* In a sixth of the circle p is the darkest, v the brightest, and q and t *)
(* lie between, unless the hue is on its border.                           *)
LEMMA NamesGrow ==
  ASSUME NEW in, IsHsv(in), 0 < in.v[1], 0 < in.s[1], in.s[1] <= in.s[2],
         0 <= Past(in), Past(in) < Turned(in)[2]
  PROVE  LET of == xHSVToRGB(in).of
         IN /\ 0 <= of["p"] /\ of["p"] < of["v"]
            /\ Past(in) # 0 => /\ of["p"] < of["q"] /\ of["q"] < of["v"]
                               /\ of["p"] < of["t"] /\ of["t"] < of["v"]
<1> DEFINE v == in.v[1]   sn == in.s[1]   sd == in.s[2]   fd == Turned(in)[2]   f == Past(in)
<1>1. v \in Nat \ {0} /\ sn \in Nat \ {0} /\ sd \in Nat \ {0} /\ fd \in Nat \ {0} /\ f \in Nat
      /\ sn <= sd /\ f < fd
    BY TurnedParts DEF IsHsv, Fractions
<1>2. xHSVToRGB(in).of = [v |-> v * sd * fd,
                          p |-> v * (sd - sn) * fd,
                          q |-> v * (sd * fd - sn * f),
                          t |-> v * (sd * fd - sn * (fd - f))]
    BY Converted
<1> HIDE DEF v, sn, sd, fd, f
<1>3. /\ sd * fd \in Int /\ sn * fd \in Int /\ sn * f \in Int /\ (sd - sn) * fd \in Int
      /\ (sd - sn) * fd = sd * fd - sn * fd
    BY <1>1, Products
<1>4. sn * (fd - f) = sn * fd - sn * f
    BY <1>1, Products
<1>5. 0 <= (sd - sn) * fd /\ 0 < sn * fd
    BY <1>1, Products
<1>6. f # 0 => 0 < sn * f /\ sn * f < sn * fd
  <2>1. f * sn < fd * sn
      BY <1>1, Factors
  <2>2. f # 0 => f * sn \in Nat \ {0}
      BY <1>1, Products
  <2> QED BY <1>1, <2>1, <2>2, Products
<1>7. v * sd * fd = v * (sd * fd) /\ v * (sd - sn) * fd = v * (sd * fd - sn * fd)
    BY <1>1, <1>3, Products
<1>8. \A a, b \in Int : a < b => v * a < v * b
    BY <1>1, Factors, Products
<1>9. 0 <= v * (sd - sn) * fd
    BY <1>1, <1>5, <1>3, Products
<1>10. v * (sd * fd - sn * fd) < v * (sd * fd)
    BY <1>3, <1>5, <1>8
<1>11. f # 0 => /\ v * (sd * fd - sn * fd) < v * (sd * fd - sn * f)
                /\ v * (sd * fd - sn * f) < v * (sd * fd)
                /\ v * (sd * fd - sn * fd) < v * (sd * fd - sn * (fd - f))
                /\ v * (sd * fd - sn * (fd - f)) < v * (sd * fd)
    BY <1>3, <1>4, <1>6, <1>8
<1> QED BY <1>2, <1>7, <1>9, <1>10, <1>11 DEF f

LEMMA SixthIs ==
  ASSUME NEW in, NEW w \in Nat, NEW d \in Nat \ {0}, in.h = <<w, d>>,
         NEW i \in 0 .. 5, i * d <= w, w < i * d + d
  PROVE  Turned(in) = <<w, d>> /\ Sixth(in) = i /\ Past(in) = w - i * d
<1>1. Turned(in) = <<w, d>>
  <2>1. w < 6 * d
      BY Products
  <2> QED BY <2>1 DEF Turned
<1>2. w \div d = i
    <2>1. w \div d \in Nat /\ w % d \in Nat /\ w = (w \div d) * d + (w % d) /\ w % d < d
        BY Quotient
    <2>2. (w \div d) * d < (i + 1) * d /\ i * d < ((w \div d) + 1) * d
        BY <2>1, Products
    <2>3. w \div d < i + 1 /\ i < (w \div d) + 1
        BY <2>1, <2>2, Factors
    <2> QED BY <2>1, <2>3
<1>3. Sixth(in) = i
    BY <1>1, <1>2 DEF Sixth, Truncated
<1> QED BY <1>1, <1>3 DEF Past

-----------------------------------------------------------------------------
(* There and back: from the levels of the channels to a colour, and to the *)
(* channels again                                                          *)

LevelsOf(level) == {level[c] : c \in Channels}
Brightest(level) == Largest(LevelsOf(level))
Darkest(level) == Smallest(LevelsOf(level))
Spread(level) == Brightest(level) - Darkest(level)

LEMMA LevelBounds ==
  ASSUME NEW level \in [Channels -> Levels]
  PROVE  /\ \A c \in Channels : level[c] \in Nat /\ level[c] <= LEDC_DUTY_MAX
         /\ \A c \in Channels : Darkest(level) <= level[c] /\ level[c] <= Brightest(level)
         /\ \E c \in Channels : Darkest(level) = level[c]
         /\ \E c \in Channels : Brightest(level) = level[c]
         /\ Darkest(level) \in Nat /\ Brightest(level) \in Nat /\ Spread(level) \in Nat
<1>1. LevelsOf(level) = {level["r"], level["g"], level["b"]}
    BY DEF LevelsOf, Channels
<1>2. LEDC_DUTY_MAX \in Nat
    BY LevelsAreDuties
<1>3. \A c \in Channels : level[c] \in Nat /\ level[c] \in Int /\ level[c] <= LEDC_DUTY_MAX
    BY <1>2 DEF Levels
<1>4. \A c \in Channels : c \in {"r", "g", "b"}
    BY DEF Channels
<1>5. \A c \in {"r", "g", "b"} : c \in Channels
    BY DEF Channels
<1>6. /\ Brightest(level) \in LevelsOf(level) /\ Darkest(level) \in LevelsOf(level)
      /\ \A c \in Channels : Darkest(level) <= level[c] /\ level[c] <= Brightest(level)
  <2>1. level["r"] \in Int /\ level["g"] \in Int /\ level["b"] \in Int
      BY <1>3, <1>5
  <2>2. /\ Largest(LevelsOf(level)) \in LevelsOf(level)
        /\ Smallest(LevelsOf(level)) \in LevelsOf(level)
        /\ \A x \in LevelsOf(level) : Smallest(LevelsOf(level)) <= x /\ x <= Largest(LevelsOf(level))
      BY <1>1, <2>1, Extremes
  <2>3. \A c \in Channels : level[c] \in LevelsOf(level)
      BY DEF LevelsOf
  <2> QED BY <2>2, <2>3 DEF Brightest, Darkest
<1>7. /\ \E c \in Channels : Darkest(level) = level[c]
      /\ \E c \in Channels : Brightest(level) = level[c]
    BY <1>6 DEF LevelsOf
<1> QED BY <1>3, <1>6, <1>7 DEF Spread

(* A brightness of b per cent on the levels found.                         *)
Dimmed(level, b) == [xRGBToHSV(level) EXCEPT !.v = <<b, 100>>]

Towards(level) ==
  LET max == Brightest(level)
  IN IF level["r"] = max THEN level["g"] - level["b"]
     ELSE IF level["g"] = max THEN 2 * Spread(level) + level["b"] - level["r"]
     ELSE 4 * Spread(level) + level["r"] - level["g"]

LEMMA DimmedParts ==
  ASSUME NEW level \in [Channels -> Levels], NEW b \in Int
  PROVE  LET in == Dimmed(level, b)
         IN /\ in.v = <<b, 100>>
            /\ in.s = IF Spread(level) = 0 THEN <<0, 1>> ELSE <<Spread(level), Brightest(level)>>
            /\ in.h = IF Spread(level) = 0 THEN <<0, 1>>
                      ELSE <<Wrapped(Towards(level), Spread(level)), Spread(level)>>
            /\ IsHsv(in)
<1> DEFINE in == Dimmed(level, b)
<1>1. /\ in.v = <<b, 100>>
      /\ in.s = IF Spread(level) = 0 THEN <<0, 1>> ELSE <<Spread(level), Brightest(level)>>
      /\ in.h = IF Spread(level) = 0 THEN <<0, 1>>
                ELSE <<Wrapped(Towards(level), Spread(level)), Spread(level)>>
    BY DEF Dimmed, xRGBToHSV, Spread, Brightest, Darkest, LevelsOf, Towards
<1> HIDE DEF in
<1>2. /\ Spread(level) \in Nat /\ Brightest(level) \in Nat
      /\ Spread(level) # 0 => Brightest(level) # 0
    BY LevelBounds DEF Spread
<1>3. Wrapped(Towards(level), Spread(level)) \in Int
  <2>1. level["r"] \in Int /\ level["g"] \in Int /\ level["b"] \in Int
      BY LevelBounds DEF Channels
  <2>2. Towards(level) \in Int
      BY <1>2, <2>1 DEF Towards
  <2> QED BY <1>2, <2>2 DEF Wrapped
<1>4. IsHsv(in)
    BY <1>1, <1>2, <1>3 DEF IsHsv, Fractions
<1> QED BY <1>1, <1>4 DEF in

(* What each name stands for in levels.                                    *)
Worth(level, past) ==
  [v |-> Brightest(level), p |-> Darkest(level),
   q |-> Brightest(level) - past, t |-> Darkest(level) + past]

LEMMA DimmedSector ==
  ASSUME NEW level \in [Channels -> Levels], NEW b \in Int, Spread(level) # 0
  PROVE  LET in == Dimmed(level, b)
         IN /\ Sixth(in) \in 0 .. 5 /\ Turned(in)[2] = Spread(level)
            /\ Past(in) \in Nat /\ Past(in) < Spread(level)
            /\ \A c \in Channels : level[c] = Worth(level, Past(in))[Sector(Sixth(in))[c]]
<1> DEFINE in == Dimmed(level, b)
           max == Brightest(level)
           min == Darkest(level)
           d == Spread(level)
           r == level["r"]
           g == level["g"]
           bl == level["b"]
           w == Wrapped(Towards(level), d)
<1>1. /\ r \in Nat /\ g \in Nat /\ bl \in Nat /\ max \in Nat /\ min \in Nat
      /\ min <= r /\ min <= g /\ min <= bl /\ r <= max /\ g <= max /\ bl <= max
      /\ max = r \/ max = g \/ max = bl
      /\ min = r \/ min = g \/ min = bl
    BY LevelBounds DEF Channels
<1>2. d = max - min /\ d \in Nat \ {0}
    BY LevelBounds DEF Spread
<1>3. in.h = <<w, d>> /\ w = (IF Towards(level) < 0 THEN Towards(level) + 6 * d ELSE Towards(level))
    BY DimmedParts DEF Wrapped
<1>4. Towards(level) = (IF r = max THEN g - bl ELSE IF g = max THEN 2 * d + bl - r ELSE 4 * d + r - g)
    BY DEF Towards
<1>5. Worth(level, Past(in)) = [v |-> max, p |-> min, q |-> max - Past(in), t |-> min + Past(in)]
    BY DEF Worth
<1> HIDE DEF in, max, min, d, w
<1> DEFINE worth(f) == [v |-> max, p |-> min, q |-> max - f, t |-> min + f]
           At(i, f) == /\ w \in Nat /\ w = i * d + f /\ 0 <= f /\ f < d
                       /\ r = worth(f)[Sector(i)["r"]] /\ g = worth(f)[Sector(i)["g"]]
                       /\ bl = worth(f)[Sector(i)["b"]]
           Done == /\ Sixth(in) \in 0 .. 5 /\ Turned(in)[2] = d
                   /\ Past(in) \in Nat /\ Past(in) < d
                   /\ \A c \in Channels : level[c] = Worth(level, Past(in))[Sector(Sixth(in))[c]]
<1>6. ASSUME NEW i \in 0 .. 5, NEW f \in Int, At(i, f)
      PROVE  Done
  <2>1. i * d \in Int
      BY <1>2, Products
  <2>2. i * d <= w /\ w < i * d + d /\ w - i * d = f
      BY <1>2, <1>6, <2>1
  <2>3. Turned(in) = <<w, d>> /\ Sixth(in) = i /\ Past(in) = f
      BY <1>2, <1>3, <1>6, <2>2, SixthIs
  <2>4. Turned(in)[2] = d /\ Past(in) \in Nat /\ Past(in) < d
      BY <1>2, <1>6, <2>3
  <2>5. \A c \in Channels : level[c] = Worth(level, Past(in))[Sector(Sixth(in))[c]]
      BY <1>5, <1>6, <2>3 DEF Channels
  <2> QED BY <2>3, <2>4, <2>5
<1> HIDE DEF Done
<1>7. /\ 0 * d = 0 /\ 1 * d = d /\ 2 * d = d + d /\ 3 * d = d + d + d /\ 4 * d = d + d + d + d
      /\ 5 * d = d + d + d + d + d /\ 6 * d = d + d + d + d + d + d
    BY <1>2
<1>8. Done
  <2>1. CASE r = max /\ g >= bl /\ g # max
    <3>1. w = g - bl /\ bl = min
        BY <1>1, <1>2, <1>3, <1>4, <1>7, <2>1
    <3>2. At(0, g - bl) /\ g - bl \in Int
        BY <1>1, <1>2, <1>7, <2>1, <3>1, Sectors
    <3> HIDE DEF At
    <3> QED BY <1>6, <3>2
  <2>2. CASE r = max /\ g = max
    <3>1. w = d /\ bl = min
        BY <1>1, <1>2, <1>3, <1>4, <1>7, <2>2
    <3>2. At(1, 0) /\ 0 \in Int
        BY <1>1, <1>2, <1>7, <2>2, <3>1, Sectors
    <3> HIDE DEF At
    <3> QED BY <1>6, <3>2
  <2>3. CASE r = max /\ g < bl
    <3>1. w = 6 * d - (bl - g) /\ g = min
        BY <1>1, <1>2, <1>3, <1>4, <1>7, <2>3
    <3>2. At(5, d - (bl - g)) /\ d - (bl - g) \in Int
        BY <1>1, <1>2, <1>7, <2>3, <3>1, Sectors
    <3> HIDE DEF At
    <3> QED BY <1>6, <3>2
  <2>4. CASE r # max /\ g = max /\ bl >= r /\ bl # max
    <3>1. w = 2 * d + bl - r /\ r = min
        BY <1>1, <1>2, <1>3, <1>4, <1>7, <2>4
    <3>2. At(2, bl - r) /\ bl - r \in Int
        BY <1>1, <1>2, <1>7, <2>4, <3>1, Sectors
    <3> HIDE DEF At
    <3> QED BY <1>6, <3>2
  <2>5. CASE r # max /\ g = max /\ bl = max
    <3>1. w = 3 * d /\ r = min
        BY <1>1, <1>2, <1>3, <1>4, <1>7, <2>5
    <3>2. At(3, 0) /\ 0 \in Int
        BY <1>1, <1>2, <1>7, <2>5, <3>1, Sectors
    <3> HIDE DEF At
    <3> QED BY <1>6, <3>2
  <2>6. CASE r # max /\ g = max /\ bl < r
    <3>1. w = 2 * d - (r - bl) /\ bl = min
        BY <1>1, <1>2, <1>3, <1>4, <1>7, <2>6
    <3>2. At(1, d - (r - bl)) /\ d - (r - bl) \in Int
        BY <1>1, <1>2, <1>7, <2>6, <3>1, Sectors
    <3> HIDE DEF At
    <3> QED BY <1>6, <3>2
  <2>7. CASE r # max /\ g # max /\ r >= g
    <3>1. w = 4 * d + r - g /\ g = min /\ bl = max
        BY <1>1, <1>2, <1>3, <1>4, <1>7, <2>7
    <3>2. At(4, r - g) /\ r - g \in Int
      <4>1. w \in Nat /\ w = 4 * d + (r - g) /\ 0 <= r - g /\ r - g < d /\ r - g \in Int
          BY <1>1, <1>2, <1>7, <2>7, <3>1
      <4>2. /\ r = worth(r - g)["t"] /\ g = worth(r - g)["p"] /\ bl = worth(r - g)["v"]
          BY <1>1, <3>1
      <4> QED BY <4>1, <4>2, Sectors
    <3> HIDE DEF At
    <3> QED BY <1>6, <3>2
  <2>8. CASE r # max /\ g # max /\ r < g
    <3>1. w = 4 * d - (g - r) /\ r = min /\ bl = max
        BY <1>1, <1>2, <1>3, <1>4, <1>7, <2>8
    <3>2. At(3, d - (g - r)) /\ d - (g - r) \in Int
        BY <1>1, <1>2, <1>7, <2>8, <3>1, Sectors
    <3> HIDE DEF At
    <3> QED BY <1>6, <3>2
  <2> QED BY <1>1, <2>1, <2>2, <2>3, <2>4, <2>5, <2>6, <2>7, <2>8
<1> QED BY <1>8 DEF Done, in, d

(* Both ways lose nothing: a channel comes back as its share of what was   *)
(* asked for, and channels that are equal come out of one expression.      *)
LEMMA BackAgain ==
  ASSUME NEW level \in [Channels -> Levels], NEW b \in Int, Spread(level) # 0
  PROVE  LET rgb == xHSVToRGB(Dimmed(level, b))
         IN /\ \A c \in Channels : rgb.of[rgb.value[c]] = (b * level[c]) * Spread(level)
            /\ rgb.den = (100 * Brightest(level)) * Spread(level)
            /\ \A c, e \in Channels : level[c] = level[e] => rgb.value[c] = rgb.value[e]
<1> DEFINE in == Dimmed(level, b)
           rgb == xHSVToRGB(in)
           max == Brightest(level)
           min == Darkest(level)
           d == Spread(level)
           f == Past(in)
           i == Sixth(in)
           worth == Worth(level, f)
<1>1. /\ in.v = <<b, 100>> /\ in.s = <<d, max>> /\ Turned(in)[2] = d
      /\ i \in 0 .. 5 /\ f \in Nat /\ f < d
      /\ max \in Nat /\ min \in Nat /\ d = max - min /\ d \in Nat \ {0}
    BY DimmedParts, DimmedSector, LevelBounds DEF Spread
<1>2. worth = [v |-> max, p |-> min, q |-> max - f, t |-> min + f]
    BY DEF Worth
<1>3. \A c \in Channels : level[c] = worth[Sector(i)[c]] /\ Sector(i)[c] \in Names
    BY <1>1, DimmedSector, SectorNames
<1>c. /\ rgb.of = [v |-> in.v[1] * in.s[2] * Turned(in)[2],
                   p |-> in.v[1] * (in.s[2] - in.s[1]) * Turned(in)[2],
                   q |-> in.v[1] * (in.s[2] * Turned(in)[2] - in.s[1] * f),
                   t |-> in.v[1] * (in.s[2] * Turned(in)[2] - in.s[1] * (Turned(in)[2] - f))]
      /\ rgb.den = in.v[2] * in.s[2] * Turned(in)[2]
      /\ rgb.value = IF in.s[1] <= 0 THEN [c \in Channels |-> "v"]
                     ELSE IF f = 0 THEN [c \in Channels |-> OnBorder[Sector(i)[c]]] ELSE Sector(i)
    BY Converted
<1> HIDE DEF in, rgb, max, min, d, f, i, worth
<1>d. in.v[1] = b /\ in.v[2] = 100 /\ in.s[1] = d /\ in.s[2] = max /\ ~(d <= 0)
    BY <1>1
<1>4. rgb.value = IF f = 0 THEN [c \in Channels |-> OnBorder[Sector(i)[c]]] ELSE Sector(i)
    BY <1>c, <1>d, Zenon
<1>5. /\ rgb.of = [v |-> b * max * d, p |-> b * (max - d) * d,
                   q |-> b * (max * d - d * f), t |-> b * (max * d - d * (d - f))]
      /\ rgb.den = 100 * max * d
    BY <1>1, <1>c, <1>d, Zenon
<1>6. \A x \in Names : rgb.of[x] = (b * worth[x]) * d
  <2>1. max - d = min
      BY <1>1
  <2>2. max * d - d * f = (max - f) * d
      BY <1>1, Products
  <2>3. max * d - d * (d - f) = (min + f) * d
    <3>1. d * (d - f) = (d - f) * d /\ max * d - (d - f) * d = (max - (d - f)) * d
        BY <1>1, Products
    <3>2. max - (d - f) = min + f
        BY <1>1
    <3> QED BY <3>1, <3>2
  <2>4. \A k \in Int : b * (k * d) = (b * k) * d
      BY <1>1, Products
  <2>5. max - f \in Int /\ min + f \in Int
      BY <1>1
  <2>6. /\ rgb.of["v"] = (b * max) * d /\ rgb.of["p"] = (b * min) * d
        /\ rgb.of["q"] = (b * (max - f)) * d /\ rgb.of["t"] = (b * (min + f)) * d
      BY <1>5, <2>1, <2>2, <2>3, <2>4, <2>5
  <2> QED BY <1>2, <2>6 DEF Names
<1>7. \A c \in Channels : rgb.value[c] \in Names /\ level[c] = worth[rgb.value[c]]
  <2>1. CASE f # 0
      BY <1>3, <1>4, <2>1
  <2>2. CASE f = 0
    <3>1. \A x \in Names : OnBorder[x] \in Names /\ worth[OnBorder[x]] = worth[x]
        BY <1>1, <1>2, <2>2 DEF OnBorder, Names
    <3> QED BY <1>3, <1>4, <2>2, <3>1
  <2> QED BY <2>1, <2>2
<1>8. \A c, e \in Channels : level[c] = level[e] => rgb.value[c] = rgb.value[e]
  <2>1. CASE f = 0
    <3>1. \A c \in Channels : rgb.value[c] \in {"v", "p"}
        BY <1>3, <1>4, <2>1 DEF OnBorder, Names
    <3>2. worth["v"] # worth["p"]
        BY <1>1, <1>2
    <3> QED BY <1>7, <3>1, <3>2
  <2>2. CASE f # 0
    <3>1. \A c, e \in Channels : ~(rgb.value[c] = "q" /\ rgb.value[e] = "t")
        BY <1>1, <1>4, <2>2, Sectors DEF Channels
    <3>2. /\ worth["v"] # worth["p"] /\ worth["v"] # worth["q"] /\ worth["v"] # worth["t"]
          /\ worth["p"] # worth["q"] /\ worth["p"] # worth["t"]
        BY <1>1, <1>2, <2>2
    <3> QED BY <1>7, <3>1, <3>2 DEF Names
  <2> QED BY <2>1, <2>2
<1>9. \A c \in Channels : rgb.of[rgb.value[c]] = (b * level[c]) * d
    BY <1>6, <1>7
<1> QED BY <1>5, <1>8, <1>9 DEF rgb, in, d, max

(* A channel that is not the brighter of two does not become it.           *)
LEMMA DimmedKeeps ==
  ASSUME NEW level \in [Channels -> Levels], NEW b \in Nat,
         NEW new \in Fades(Dimmed(level, b)),
         NEW c \in Channels, NEW e \in Channels, level[c] <= level[e]
  PROVE  new[c] <= new[e]
<1> DEFINE in == Dimmed(level, b)
           rgb == xHSVToRGB(in)
           d == Spread(level)
<1>b. b \in Int
    OBVIOUS
<1>1. IsHsv(in)
    BY <1>b, DimmedParts
<1>2. CASE d = 0
  <2>1. in.s = <<0, 1>>
      BY <1>2, <1>b, DimmedParts
  <2>2. in.s[1] <= 0
      BY <2>1
  <2>3. rgb.value = [x \in Channels |-> "v"]
      BY <2>2, Converted
  <2>4. rgb.value[c] = rgb.value[e]
      BY <2>3
  <2> QED BY <1>1, <2>4, FadeKeeps
<1>3. CASE d # 0
  <2>1. /\ rgb.of[rgb.value[c]] = (b * level[c]) * d
        /\ rgb.of[rgb.value[e]] = (b * level[e]) * d
        /\ level[c] = level[e] => rgb.value[c] = rgb.value[e]
      BY <1>3, <1>b, BackAgain
  <2>2. level[c] \in Nat /\ level[e] \in Nat /\ d \in Nat \ {0}
      BY <1>3, LevelBounds
  <2> HIDE DEF rgb, in, d
  <2>3. CASE level[c] = level[e]
      BY <1>1, <2>1, <2>3, FadeKeeps DEF rgb, in
  <2>4. CASE b = 0 \/ level[c] = 0
    <3>1. b * level[c] = 0 /\ 0 * d = 0
        BY <2>2, <2>4
    <3>2. rgb.of[rgb.value[c]] = 0
        BY <2>1, <3>1
    <3> QED BY <1>1, <3>2, FadeKeeps DEF rgb, in
  <2>5. CASE b # 0 /\ level[c] # 0 /\ level[c] < level[e]
    <3>1. b * level[c] \in Nat \ {0} /\ b * level[c] < b * level[e] /\ b * level[e] \in Nat
        BY <2>2, <2>5, Products, Factors
    <3>2. 0 < (b * level[c]) * d /\ (b * level[c]) * d < (b * level[e]) * d
        BY <2>2, <3>1, Products, Factors
    <3>3. 0 < rgb.of[rgb.value[c]] /\ rgb.of[rgb.value[c]] < rgb.of[rgb.value[e]]
        BY <2>1, <3>2
    <3> QED BY <1>1, <3>3, FadeKeeps DEF rgb, in
  <2> QED BY <2>2, <2>3, <2>4, <2>5
<1> QED BY <1>2, <1>3

(* A brightness between 1 and 100 multiplies every channel by one factor.  *)
LEMMA DimmedScales ==
  ASSUME NEW level \in [Channels -> Levels], NEW b \in 1 .. 100,
         NEW new \in Fades(Dimmed(level, b)), NEW c \in Channels
  PROVE  LET max == Brightest(level)
             num == LEDC_DUTY_MAX * b * (IF max = 0 THEN 1 ELSE level[c])
             den == 100 * (IF max = 0 THEN 1 ELSE max)
         IN new[c] * den <= num /\ num <= (new[c] + 1) * den
<1> DEFINE in == Dimmed(level, b)
           rgb == xHSVToRGB(in)
           d == Spread(level)
           max == Brightest(level)
           full == LEDC_DUTY_MAX
<1>b. b \in Int
    OBVIOUS
<1>1. IsHsv(in)
    BY <1>b, DimmedParts
<1>2. /\ full \in Nat /\ b \in Nat /\ max \in Nat /\ d \in Nat
      /\ level[c] \in Nat /\ level[c] <= max
      /\ d = 0 => level[c] = max
    BY LevelsAreDuties, LevelBounds DEF Spread
<1>3. PICK cut : \A x \in Names :
              /\ cut[x] \in uiPwmConvertPercent(rgb.of[x], rgb.den)
              /\ \A k \in Channels : rgb.value[k] = x => new[k] = cut[x]
    BY <1>1, FadesAre
<1>4. new[c] \in uiPwmConvertPercent(rgb.of[rgb.value[c]], rgb.den)
    BY <1>1, <1>3, ChannelsHaveNames
<1>5. new[c] \in Int
  <2>1. new[c] \in Levels
      BY <1>1, FadesAre
  <2> QED BY <1>2, <2>1 DEF Levels
<1>6. CASE d = 0
  <2>1. in.v = <<b, 100>> /\ in.s = <<0, 1>> /\ in.h = <<0, 1>>
      BY <1>6, <1>b, DimmedParts
  <2>2. /\ rgb.value[c] = "v" /\ rgb.of["v"] = b /\ rgb.den = 100
    <3>1. Turned(in)[2] = 1
        BY <2>1 DEF Turned
    <3>2. /\ in.s[1] <= 0 /\ in.v[1] * in.s[2] * Turned(in)[2] = b
          /\ in.v[2] * in.s[2] * Turned(in)[2] = 100
        BY <1>2, <2>1, <3>1
    <3>3. /\ rgb.of["v"] = in.v[1] * in.s[2] * Turned(in)[2]
          /\ rgb.den = in.v[2] * in.s[2] * Turned(in)[2]
      <4>1. rgb.of = [v |-> in.v[1] * in.s[2] * Turned(in)[2],
                      p |-> in.v[1] * (in.s[2] - in.s[1]) * Turned(in)[2],
                      q |-> in.v[1] * (in.s[2] * Turned(in)[2] - in.s[1] * Past(in)),
                      t |-> in.v[1] * (in.s[2] * Turned(in)[2] - in.s[1] * (Turned(in)[2] - Past(in)))]
          BY Converted
      <4> HIDE DEF in
      <4>2. rgb.of["v"] = in.v[1] * in.s[2] * Turned(in)[2]
          BY <4>1
      <4> QED BY <4>2, Converted
    <3>4. rgb.value = [x \in Channels |-> "v"]
        BY <3>2, Converted
    <3> QED BY <3>2, <3>3, <3>4
  <2>3. new[c] \in uiPwmConvertPercent(b, 100)
      BY <1>4, <2>2
  <2>4. new[c] * 100 <= full * b /\ full * b <= (new[c] + 1) * 100
      BY <1>2, <2>3, DutyIsNear
  <2> HIDE DEF max, full
  <2>5. CASE max = 0
    <3>1. full * b * 1 = full * b /\ 100 * 1 = 100
        BY <1>2, Products
    <3> QED BY <2>4, <2>5, <3>1 DEF max, full
  <2>6. CASE max # 0
    <3>1. full * b \in Int /\ new[c] * 100 \in Int /\ (new[c] + 1) * 100 \in Int
        BY <1>2, <1>5, Products
    <3>2. (new[c] * 100) * max <= (full * b) * max /\ (full * b) * max <= ((new[c] + 1) * 100) * max
        BY <1>2, <2>4, <3>1, Factors
    <3>3. (new[c] * 100) * max = new[c] * (100 * max) /\ ((new[c] + 1) * 100) * max = (new[c] + 1) * (100 * max)
        BY <1>2, <1>5, Products
    <3> QED BY <1>2, <1>6, <2>6, <3>2, <3>3 DEF max, full
  <2> QED BY <2>5, <2>6
<1>7. CASE d # 0
  <2>1. rgb.of[rgb.value[c]] = (b * level[c]) * d /\ rgb.den = (100 * max) * d
      BY <1>2, <1>7, BackAgain
  <2>2. max # 0
      BY <1>7, LevelBounds DEF Spread
  <2> DEFINE n == b * level[c]
             m == 100 * max
  <2>3. n \in Nat /\ m \in Nat \ {0} /\ n <= m
    <3>1. level[c] * b <= max * b /\ b * max <= 100 * max
        BY <1>2, Factors
    <3> QED BY <1>2, <2>2, <3>1, Products
  <2> HIDE DEF n, m, rgb, d, full, max
  <2>4. n * d \in Nat /\ m * d \in Nat \ {0} /\ n * d <= m * d
      BY <1>2, <1>7, <2>3, Products, Factors
  <2>5. new[c] \in uiPwmConvertPercent(n * d, m * d)
      BY <1>4, <2>1 DEF n, m
  <2>6. new[c] * (m * d) <= full * (n * d) /\ full * (n * d) <= (new[c] + 1) * (m * d)
      BY <2>4, <2>5, DutyIsNear DEF full
  <2>7. /\ new[c] * (m * d) = (new[c] * m) * d /\ full * (n * d) = (full * n) * d
        /\ (new[c] + 1) * (m * d) = ((new[c] + 1) * m) * d
        /\ new[c] * m \in Int /\ full * n \in Int /\ (new[c] + 1) * m \in Int
      BY <1>2, <1>5, <2>3, Products
  <2>8. new[c] * m <= full * n /\ full * n <= (new[c] + 1) * m
      BY <1>2, <1>7, <2>6, <2>7, Factors
  <2>9. full * n = full * b * level[c]
      BY <1>2, Products DEF n
  <2> QED BY <2>2, <2>8, <2>9 DEF m, full, max
<1> QED BY <1>6, <1>7

-----------------------------------------------------------------------------
(* A colour, and what it asks for                                          *)

Place == [r |-> 0, g |-> 120, b |-> 240]
Away(h, place) ==
  LET d == IF h >= place THEN h - place ELSE place - h
  IN IF d <= 360 - d THEN d ELSE 360 - d
Shade(h, place) ==
  IF Away(h, place) <= 60 THEN 60 ELSE IF Away(h, place) >= 120 THEN 120 ELSE Away(h, place)

LEMMA OfTwo ==
  ASSUME NEW a \in Int, NEW b \in Int, NEW S, S = {a, b}
  PROVE  /\ Smallest(S) = IF a <= b THEN a ELSE b
         /\ Largest(S) = IF a <= b THEN b ELSE a
<1>1. Smallest(S) \in S /\ \A y \in S : Smallest(S) <= y
  <2>1. \E x \in S : \A y \in S : x <= y
      OBVIOUS
  <2> QED BY <2>1 DEF Smallest
<1>2. Largest(S) \in S /\ \A y \in S : y <= Largest(S)
  <2>1. \E x \in S : \A y \in S : y <= x
      OBVIOUS
  <2> QED BY <2>1 DEF Largest
<1> QED BY <1>1, <1>2

LEMMA DarkerIs ==
  ASSUME NEW h \in Int, NEW s \in Int, NEW v \in Int, NEW e \in Darker(h, s, v)
  PROVE  /\ e \in Channels \X Channels /\ h >= 0 /\ s > 0 /\ v > 0
         /\ Shade(h, Place[e[1]]) > Shade(h, Place[e[2]])
<1> DEFINE away(c) == LET d == IF h >= Place[c] THEN h - Place[c] ELSE Place[c] - h
                      IN Smallest({d, 360 - d})
           shade(c) == Largest({60, Smallest({120, away(c)})})
<1>1. /\ e \in Channels \X Channels /\ h >= 0 /\ s > 0 /\ v > 0
      /\ shade(e[1]) > shade(e[2])
    BY DEF Darker, Place
<1>2. ASSUME NEW c \in Channels
      PROVE  shade(c) = Shade(h, Place[c])
  <2>1. Place[c] \in Int
      BY DEF Place, Channels
  <2>2. away(c) = Away(h, Place[c]) /\ away(c) \in Int
    <3> DEFINE d == IF h >= Place[c] THEN h - Place[c] ELSE Place[c] - h
    <3>1. d \in Int /\ 360 - d \in Int
        BY <2>1
    <3> HIDE DEF d
    <3>2. Smallest({d, 360 - d}) = IF d <= 360 - d THEN d ELSE 360 - d
        BY <3>1, OfTwo
    <3> QED BY <3>1, <3>2 DEF Away, d
  <2> HIDE DEF away
  <2> DEFINE pair == {120, away(c)}
             m == Smallest(pair)
             last == {60, m}
  <2>3. m = (IF 120 <= away(c) THEN 120 ELSE away(c)) /\ m \in Int
    <3>1. \A k \in Int : pair = {k, away(c)} =>
            Smallest(pair) = IF k <= away(c) THEN k ELSE away(c)
      <4> HIDE DEF pair
      <4> QED BY <2>2, OfTwo
    <3> QED BY <2>2, <3>1
  <2>6. m \in Int
      BY <2>3
  <2> HIDE DEF m
  <2>4. Largest(last) = IF 60 <= m THEN m ELSE 60
    <3>1. \A k \in Int : last = {k, m} => Largest(last) = IF k <= m THEN m ELSE k
      <4> HIDE DEF last
      <4> QED BY <2>6, OfTwo
    <3> QED BY <3>1
  <2>5. shade(c) = Largest(last)
      BY DEF m
  <2> QED BY <2>2, <2>3, <2>4, <2>5 DEF Shade
<1> QED BY <1>1, <1>2

(* The circle of Darker and the sectors of xHSVToRGB are the same.         *)
LEMMA ShadeIs ==
  ASSUME NEW i \in 0 .. 5, NEW f \in 0 .. 59, NEW c \in Channels
  PROVE  Shade(60 * i + f, Place[c]) = [v |-> 60, p |-> 120, q |-> 60 + f, t |-> 120 - f][Sector(i)[c]]
<1>1. /\ Place["r"] = 0 /\ Place["g"] = 120 /\ Place["b"] = 240
    BY DEF Place
<1>2. CASE i = 0
    BY <1>1, <1>2, Sectors DEF Channels, Shade, Away
<1>3. CASE i = 1
    BY <1>1, <1>3, Sectors DEF Channels, Shade, Away
<1>4. CASE i = 2
    BY <1>1, <1>4, Sectors DEF Channels, Shade, Away
<1>5. CASE i = 3
    BY <1>1, <1>5, Sectors DEF Channels, Shade, Away
<1>6. CASE i = 4
    BY <1>1, <1>6, Sectors DEF Channels, Shade, Away
<1>7. CASE i = 5
    BY <1>1, <1>7, Sectors DEF Channels, Shade, Away
<1> QED BY <1>2, <1>3, <1>4, <1>5, <1>6, <1>7

(* A channel of which more shade is asked comes out of a smaller value.    *)
LEMMA ShadesFollow ==
  ASSUME NEW in, IsHsv(in), 0 < in.v[1], 0 < in.s[1], in.s[1] <= in.s[2],
         Sixth(in) \in 0 .. 5, Past(in) \in 0 .. 59, Past(in) < Turned(in)[2],
         NEW c \in Channels, NEW e \in Channels,
         LET hue == 60 * Sixth(in) + Past(in)
         IN Shade(hue, Place[c]) > Shade(hue, Place[e])
  PROVE  LET rgb == xHSVToRGB(in)
         IN 0 <= rgb.of[rgb.value[c]] /\ rgb.of[rgb.value[c]] < rgb.of[rgb.value[e]]
<1> DEFINE rgb == xHSVToRGB(in)
           i == Sixth(in)
           f == Past(in)
           x == Sector(i)[c]
           y == Sector(i)[e]
           shade == [v |-> 60, p |-> 120, q |-> 60 + f, t |-> 120 - f]
<1>7. i \in 0 .. 5 /\ f \in 0 .. 59 /\ Shade(60 * i + f, Place[c]) > Shade(60 * i + f, Place[e])
    OBVIOUS
<1>8. \A k \in Channels :
        Shade(60 * i + f, Place[k]) = [v |-> 60, p |-> 120, q |-> 60 + f, t |-> 120 - f][Sector(i)[k]]
  <2> HIDE DEF i, f
  <2> QED BY <1>7, ShadeIs, Zenon
<1>1. x \in Names /\ y \in Names /\ shade[x] > shade[y]
  <2>1. x \in Names /\ y \in Names
      BY SectorNames
  <2> QED BY <1>7, <1>8, <2>1
<1>2. /\ 0 <= rgb.of["p"] /\ rgb.of["p"] < rgb.of["v"]
      /\ f # 0 => /\ rgb.of["p"] < rgb.of["q"] /\ rgb.of["q"] < rgb.of["v"]
                  /\ rgb.of["p"] < rgb.of["t"] /\ rgb.of["t"] < rgb.of["v"]
    BY NamesGrow
<1>3. \A z \in Names : rgb.of[z] \in Int
    BY ChannelsHaveNames
<1>4. rgb.value = IF f = 0 THEN [k \in Channels |-> OnBorder[Sector(i)[k]]] ELSE Sector(i)
  <2>1. in.s[1] \in Int
      BY DEF IsHsv, Fractions
  <2>2. rgb.value = IF in.s[1] <= 0 THEN [k \in Channels |-> "v"]
                    ELSE IF Past(in) = 0
                         THEN [k \in Channels |-> OnBorder[Sector(Sixth(in))[k]]]
                         ELSE Sector(Sixth(in))
      BY Converted
  <2>3. ~(in.s[1] <= 0)
      BY <2>1
  <2> QED BY <2>2, <2>3, Zenon
<1> HIDE DEF rgb, shade, i, f
<1>5. CASE f = 0
  <2>1. x \in {"p", "t"} /\ y \in {"v", "q"}
      BY <1>1, <1>5 DEF Names, shade
  <2>2. rgb.value[c] = "p" /\ rgb.value[e] = "v"
      BY <1>4, <1>5, <2>1 DEF OnBorder
  <2> QED BY <1>2, <2>2 DEF rgb
<1>6. CASE f # 0
  <2>1. rgb.value[c] = x /\ rgb.value[e] = y
      BY <1>4, <1>6
  <2>2. ~(x = "q" /\ y = "t") /\ ~(x = "t" /\ y = "q")
      BY <1>7, Sectors DEF Channels
  <2>3. <<x, y>> \in {<<"p", "q">>, <<"p", "t">>, <<"p", "v">>, <<"q", "v">>, <<"t", "v">>}
      BY <1>1, <1>6, <1>7, <2>2 DEF Names, shade
  <2>4. 0 <= rgb.of[x] /\ rgb.of[x] < rgb.of[y]
      BY <1>2, <1>3, <1>6, <2>3 DEF Names
  <2> QED BY <2>1, <2>4 DEF rgb
<1> QED BY <1>5, <1>6

Csv(h, s, v) == [h |-> <<h, 60>>, s |-> <<s, 100>>, v |-> <<v, 100>>]

(* The levels of a colour are in the order that its hue asks for.          *)
LEMMA CsvKeeps ==
  ASSUME NEW h \in Int, NEW s \in Int, NEW v \in Int, h <= 360, s <= 100,
         NEW level \in Fades(Csv(h, s, v)), NEW e \in Darker(h, s, v)
  PROVE  level[e[1]] <= level[e[2]]
<1> DEFINE in == Csv(h, s, v)
           rgb == xHSVToRGB(in)
           c == e[1]
           d == e[2]
<1>1. /\ c \in Channels /\ d \in Channels /\ h >= 0 /\ s > 0 /\ v > 0
      /\ Shade(h, Place[c]) > Shade(h, Place[d])
    BY DarkerIs
<1>2. /\ in.h = <<h, 60>> /\ in.s[1] = s /\ in.s[2] = 100 /\ in.v[1] = v /\ IsHsv(in)
    BY DEF Csv, IsHsv, Fractions
<1> HIDE DEF in
<1>3. /\ Sixth(in) \in 0 .. 5 /\ Past(in) \in 0 .. 59 /\ Past(in) < Turned(in)[2]
      /\ \A k \in Channels : Shade(60 * Sixth(in) + Past(in), Place[k]) = Shade(h, Place[k])
  <2>1. CASE h = 360
    <3>1. Turned(in) = <<0, 1>>
        BY <1>2, <2>1 DEF Turned
    <3>2. Sixth(in) = 0 /\ Past(in) = 0
        BY <3>1 DEF Sixth, Past, Truncated
    <3>3. \A k \in Channels : Shade(60 * 0 + 0, Place[k]) = Shade(360, Place[k])
        BY DEF Shade, Away, Place, Channels
    <3> QED BY <2>1, <3>1, <3>2, <3>3
  <2>2. CASE h < 360
    <3> DEFINE i == h \div 60
               f == h - i * 60
    <3>1. i \in 0 .. 5 /\ f \in 0 .. 59 /\ h = 60 * i + f /\ i * 60 <= h /\ h < i * 60 + 60
        BY <1>1, <2>2
    <3> HIDE DEF i, f
    <3>2. Turned(in) = <<h, 60>> /\ Sixth(in) = i /\ Past(in) = f
      <4>1. h \in Nat /\ 60 \in Nat \ {0} /\ h - i * 60 = f
          BY <1>1, <3>1
      <4>2. \A k \in Nat \ {0} : in.h = <<h, k>> /\ i * k <= h /\ h < i * k + k =>
                Turned(in) = <<h, k>> /\ Sixth(in) = i /\ Past(in) = h - i * k
          BY <3>1, <4>1, SixthIs
      <4> QED BY <1>2, <3>1, <4>1, <4>2
    <3> QED BY <3>1, <3>2
  <2> QED BY <1>1, <2>1, <2>2
<1>4. 0 <= rgb.of[rgb.value[c]] /\ rgb.of[rgb.value[c]] < rgb.of[rgb.value[d]]
  <2>2. Shade(60 * Sixth(in) + Past(in), Place[c]) > Shade(60 * Sixth(in) + Past(in), Place[d])
      BY <1>1, <1>3
  <2>3. 0 < in.v[1] /\ 0 < in.s[1] /\ in.s[1] <= in.s[2]
      BY <1>1, <1>2
  <2> HIDE DEF c, d
  <2> QED BY <1>1, <1>2, <1>3, <2>2, <2>3, ShadesFollow
<1>5. rgb.of[rgb.value[c]] \in Int
    BY <1>1, <1>2, ChannelsHaveNames
<1>6. level \in Fades(in)
    BY DEF in
<1> QED BY <1>1, <1>2, <1>4, <1>5, <1>6, FadeKeeps

-----------------------------------------------------------------------------
(* The invariant                                                           *)

Keeps(on) == \A e \in on.order : on.level[e[1]] <= on.level[e[2]]

(* What ON would show keeps its order too.                                 *)
LastInv == \A level \in Fades(hsv_last_value) : \A e \in lastOrder : level[e[1]] <= level[e[2]]

ColourInv == TypeOK /\ Keeps(duty) /\ Keeps(goal) /\ LastInv

LEMMA Floor ==
  ASSUME NEW p \in Int, NEW d \in Nat \ {0}
  PROVE  p \div d \in Int /\ (p \div d) * d <= p /\ p < ((p \div d) + 1) * d
<1>1. p \div d \in Int /\ p % d \in Nat /\ p = d * (p \div d) + (p % d) /\ p % d < d
    OBVIOUS
<1>2. ((p \div d) + 1) * d = (p \div d) * d + d /\ d * (p \div d) = (p \div d) * d
    BY <1>1, Products
<1> QED BY <1>1, <1>2

LEMMA Ends ==
  ASSUME NEW a \in Int, NEW b \in Int
  PROVE  /\ Smallest({a, b}) = IF a <= b THEN a ELSE b
         /\ Largest({a, b}) = IF a <= b THEN b ELSE a
    BY OfTwo

(* A channel never leaves the stretch between the ends of its fade.        *)
LEMMA AfterIsBetween ==
  ASSUME NEW a \in Levels, NEW b \in Levels, NEW k \in 0 .. FadeSteps
  PROVE  /\ After(a, b, k) \in Levels
         /\ Smallest({a, b}) <= After(a, b, k) /\ After(a, b, k) <= Largest({a, b})
<1> DEFINE p == (b - a) * k
           x == p \div FadeSteps
<1>1. /\ a \in Nat /\ b \in Nat /\ k \in Nat /\ k <= FadeSteps /\ FadeSteps \in Nat \ {0}
      /\ LEDC_DUTY_MAX \in Nat /\ a <= LEDC_DUTY_MAX /\ b <= LEDC_DUTY_MAX
    BY LevelsAreDuties, FadesGoOn DEF Levels
<1>2. b - a \in Int /\ p \in Int
    BY <1>1, Products
<1>3. After(a, b, k) = a + x
    BY DEF After
<1> HIDE DEF p
<1>4. x \in Int /\ x * FadeSteps <= p /\ p < (x + 1) * FadeSteps
    BY <1>1, <1>2, Floor
<1> HIDE DEF x
<1>5. CASE a <= b
  <2>1. b - a \in Nat
      BY <1>1, <1>5
  <2>2. k * (b - a) <= FadeSteps * (b - a) /\ 0 <= (b - a) * k
      BY <1>1, <2>1, Factors, Products
  <2>3. 0 * FadeSteps < (x + 1) * FadeSteps /\ x * FadeSteps <= (b - a) * FadeSteps
      BY <1>1, <1>2, <1>4, <2>1, <2>2, Products DEF p
  <2>4. 0 < x + 1 /\ x <= b - a
    <3>1. x + 1 \in Int
        BY <1>4
    <3>2. (x + 1) * FadeSteps <= 0 * FadeSteps \/ 0 < x + 1
        BY <1>1, <3>1, Factors
    <3>3. (x + 1) * FadeSteps \in Int
        BY <1>1, <3>1, Products
    <3> QED BY <1>1, <1>2, <1>4, <2>3, <3>2, <3>3, Factors
  <2>5. Smallest({a, b}) = a /\ Largest({a, b}) = b
      BY <1>1, <1>5, Ends
  <2> QED BY <1>1, <1>3, <1>4, <1>5, <2>4, <2>5 DEF Levels
<1>6. CASE b < a
  <2>1. a - b \in Nat /\ b - a = -(a - b)
      BY <1>1, <1>6
  <2>2. k * (a - b) <= FadeSteps * (a - b) /\ 0 <= (a - b) * k
      BY <1>1, <2>1, Factors, Products
  <2>3. p = -((a - b) * k) /\ (b - a) * FadeSteps = -((a - b) * FadeSteps)
      BY <1>1, <2>1 DEF p
  <2>4. x * FadeSteps <= 0 * FadeSteps /\ (b - a) * FadeSteps < (x + 1) * FadeSteps
    <3>1. /\ (a - b) * k \in Int /\ (a - b) * FadeSteps \in Int /\ x * FadeSteps \in Int
          /\ (x + 1) * FadeSteps \in Int /\ k * (a - b) = (a - b) * k
          /\ FadeSteps * (a - b) = (a - b) * FadeSteps /\ 0 * FadeSteps = 0
        BY <1>1, <1>4, <2>1, Products
    <3> QED BY <1>2, <1>4, <2>2, <2>3, <3>1
  <2>5. x <= 0 /\ b - a < x + 1
    <3>1. x + 1 \in Int
        BY <1>4
    <3>2. (x + 1) * FadeSteps <= (b - a) * FadeSteps \/ b - a < x + 1
        BY <1>1, <1>2, <3>1, Factors
    <3>3. (x + 1) * FadeSteps \in Int /\ (b - a) * FadeSteps \in Int
        BY <1>1, <1>2, <3>1, Products
    <3> QED BY <1>1, <1>4, <2>4, <3>2, <3>3, Factors
  <2>6. Smallest({a, b}) = b /\ Largest({a, b}) = a
      BY <1>1, <1>6, Ends
  <2> QED BY <1>1, <1>3, <1>4, <1>6, <2>5, <2>6 DEF Levels
<1> QED BY <1>1, <1>5, <1>6

(* Whatever the moment shows is in order.                                  *)
LEMMA MomentsKeep ==
  ASSUME TypeOK, NEW now \in Moments
  PROVE  /\ now \in [level : [Channels -> Levels], order : SUBSET (Channels \X Channels)]
         /\ Keeps(now)
<1>1. PICK k \in Progress :
        now = [level |-> [c \in Channels |-> After(duty.level[c], goal.level[c], k[c])],
               order |-> StillApart]
    BY DEF Moments
<1>2. k \in [Channels -> 0 .. FadeSteps]
    BY FadesGoOn
<1>3. \A c \in Channels : duty.level[c] \in Levels /\ goal.level[c] \in Levels
    BY DEF TypeOK, Levels
<1>4. \A c \in Channels :
        /\ now.level[c] \in Levels
        /\ Smallest({duty.level[c], goal.level[c]}) <= now.level[c]
        /\ now.level[c] <= Largest({duty.level[c], goal.level[c]})
    BY <1>1, <1>2, <1>3, AfterIsBetween
<1>5. now.order \subseteq Channels \X Channels
    BY <1>1 DEF StillApart, TypeOK
<1>6. ASSUME NEW e \in now.order
      PROVE  now.level[e[1]] <= now.level[e[2]]
  <2>1. e[1] \in Channels /\ e[2] \in Channels
      BY <1>5
  <2>2. Largest({duty.level[e[1]], goal.level[e[1]]}) <= Smallest({duty.level[e[2]], goal.level[e[2]]})
      BY <1>1 DEF StillApart
  <2>3. \A c \in Channels : /\ Largest({duty.level[c], goal.level[c]}) \in Int
                            /\ Smallest({duty.level[c], goal.level[c]}) \in Int
                            /\ now.level[c] \in Int
    <3>1. \A x \in Levels : x \in Int
        BY DEF Levels
    <3> SUFFICES ASSUME NEW c \in Channels
                 PROVE  /\ Largest({duty.level[c], goal.level[c]}) \in Int
                        /\ Smallest({duty.level[c], goal.level[c]}) \in Int
                        /\ now.level[c] \in Int
        OBVIOUS
    <3>2. duty.level[c] \in Int /\ goal.level[c] \in Int /\ now.level[c] \in Int
        BY <1>3, <1>4, <3>1
    <3> HIDE DEF Levels
    <3>3. \A a, b \in Int : Largest({a, b}) \in Int /\ Smallest({a, b}) \in Int
        BY Ends
    <3> QED BY <3>2, <3>3
  <2> HIDE DEF Levels
  <2> QED BY <1>4, <2>1, <2>2, <2>3
<1> QED BY <1>1, <1>4, <1>5, <1>6 DEF Keeps

LEMMA WriteKeeps ==
  ASSUME ColourInv, NEW hsv, IsHsv(hsv), NEW order \in SUBSET (Channels \X Channels),
         NEW record \in BOOLEAN, NEW now \in Moments, vPwmSetValueRec(hsv, order, record, now),
         \A level \in Fades(hsv) : \A e \in order : level[e[1]] <= level[e[2]],
         Handle
  PROVE  ColourInv'
<1>1. PICK level \in Fades(hsv) : goal' = [level |-> level, order |-> order]
    BY DEF vPwmSetValueRec
<1>2. /\ duty' \in [level : [Channels -> 0 .. LEDC_DUTY_MAX], order : SUBSET (Channels \X Channels)]
      /\ Keeps(duty)'
  <2>1. duty' = now
      BY DEF vPwmSetValueRec
  <2>2. now \in [level : [Channels -> Levels], order : SUBSET (Channels \X Channels)] /\ Keeps(now)
      BY MomentsKeep DEF ColourInv
  <2> QED BY <2>1, <2>2 DEF Keeps, Levels
<1>3. commands' \in 0 .. MaxCommands
  <2>1. MaxCommands \in Nat /\ commands \in 0 .. MaxCommands
      BY FadesGoOn DEF ColourInv, TypeOK
  <2> QED BY <2>1 DEF Handle
<1>4. /\ goal' \in [level : [Channels -> 0 .. LEDC_DUTY_MAX], order : SUBSET (Channels \X Channels)]
      /\ Keeps(goal)'
  <2>1. level \in [Channels -> 0 .. LEDC_DUTY_MAX]
      BY FadesAre DEF Levels
  <2> QED BY <1>1, <2>1 DEF Keeps
<1>5. /\ lastOrder' \subseteq Channels \X Channels
      /\ \A x \in {"h", "s", "v"} : hsv_last_value'[x] \in Int \X (Nat \ {0})
      /\ LastInv'
  <2>1. CASE record
    <3>1. hsv_last_value' = hsv /\ lastOrder' = order
        BY <2>1 DEF vPwmSetValueRec
    <3> QED BY <3>1 DEF LastInv, IsHsv, Fractions
  <2>2. CASE ~record
    <3>1. hsv_last_value' = hsv_last_value /\ lastOrder' = lastOrder
        BY <2>2 DEF vPwmSetValueRec
    <3> QED BY <3>1 DEF LastInv, ColourInv, TypeOK
  <2> QED BY <2>1, <2>2
<1> QED BY <1>2, <1>3, <1>4, <1>5 DEF ColourInv, TypeOK

LEMMA ColourStep == ColourInv /\ [Next]_vars => ColourInv'
<1> SUFFICES ASSUME ColourInv, [Next]_vars
             PROVE  ColourInv'
    OBVIOUS
<1>1. IsHsv(hsv_last_value) /\ lastOrder \subseteq Channels \X Channels
    BY DEF ColourInv, TypeOK, IsHsv, Fractions
<1>2. ASSUME NEW now \in Moments
      PROVE  /\ now.level \in [Channels -> Levels] /\ now.order \in SUBSET (Channels \X Channels)
             /\ Keeps(now)
    BY MomentsKeep DEF ColourInv
<1>3. ASSUME NEW f \in Payloads, HandleOff(f)
      PROVE  ColourInv'
  <2> DEFINE hsv == [h |-> <<0, 1>>, s |-> <<0, 1>>, v |-> <<0, 1>>]
             order == {}
  <2>1. IsHsv(hsv)
      BY DEF IsHsv, Fractions
  <2>2. order \in SUBSET (Channels \X Channels) /\ \A e \in order : FALSE
      OBVIOUS
  <2>3. PICK now \in Moments : vPwmSetValueRec(hsv, order, FALSE, now) /\ Handle
      BY <1>3 DEF HandleOff
  <2> HIDE DEF hsv, order
  <2> QED BY <2>1, <2>2, <2>3, WriteKeeps
<1>4. ASSUME NEW f \in Payloads, HandleOn(f)
      PROVE  ColourInv'
  <2>1. \A level \in Fades(hsv_last_value) : \A e \in lastOrder : level[e[1]] <= level[e[2]]
      BY DEF ColourInv, LastInv
  <2>2. PICK now \in Moments : vPwmSetValueRec(hsv_last_value, lastOrder, FALSE, now) /\ Handle
      BY <1>4 DEF HandleOn
  <2> QED BY <1>1, <2>1, <2>2, WriteKeeps
<1>5. ASSUME NEW f \in Payloads, HandleCsv(f)
      PROVE  ColourInv'
  <2>1. f[1] \in Int /\ f[2] \in Int /\ f[3] \in Int /\ f[1] <= 360 /\ f[2] <= 100
      BY <1>5, NumbersAreInts DEF HandleCsv, hsv_parse_csv
  <2> DEFINE hsv == Csv(f[1], f[2], f[3])
             order == Darker(f[1], f[2], f[3])
  <2>2. IsHsv(hsv)
      BY <2>1 DEF Csv, IsHsv, Fractions
  <2>3. \A level \in Fades(hsv) : \A e \in order : level[e[1]] <= level[e[2]]
      BY <2>1, CsvKeeps
  <2>4. order \in SUBSET (Channels \X Channels)
      BY DEF Darker
  <2>5. PICK now \in Moments : vPwmSetValueRec(hsv, order, TRUE, now) /\ Handle
      BY <1>5 DEF HandleCsv, Csv
  <2> HIDE DEF hsv, order
  <2> QED BY <2>2, <2>3, <2>4, <2>5, WriteKeeps
<1>6. ASSUME NEW f \in Payloads, HandleBrightness(f)
      PROVE  ColourInv'
  <2>0. PICK now \in Moments : BrightnessFrom(f, now)
      BY <1>6 DEF HandleBrightness
  <2>1. f[1] \in Int
      BY <2>0, NumbersAreInts DEF BrightnessFrom
  <2> DEFINE hsv == Dimmed(now.level, f[1])
             order == IF f[1] < 0 THEN {} ELSE now.order
  <2>2. IsHsv(hsv)
      BY <1>2, <2>1, DimmedParts
  <2>3. \A level \in Fades(hsv) : \A e \in order : level[e[1]] <= level[e[2]]
    <3> SUFFICES ASSUME NEW level \in Fades(hsv), NEW e \in order
                 PROVE  level[e[1]] <= level[e[2]]
        OBVIOUS
    <3>1. f[1] \in Nat /\ e \in now.order
        BY <2>1
    <3>2. e[1] \in Channels /\ e[2] \in Channels /\ now.level[e[1]] <= now.level[e[2]]
        BY <1>2, <3>1 DEF Keeps
    <3> QED BY <1>2, <3>1, <3>2, DimmedKeeps
  <2>4. order \in SUBSET (Channels \X Channels)
      BY <1>2
  <2>5. vPwmSetValueRec(hsv, order, TRUE, now) /\ Handle
      BY <2>0 DEF BrightnessFrom, Dimmed
  <2> HIDE DEF hsv, order
  <2> QED BY <2>2, <2>3, <2>4, <2>5, WriteKeeps
<1>7. ASSUME NEW f \in Payloads, HandleOther(f)
      PROVE  ColourInv'
  <2>1. MaxCommands \in Nat
      BY FadesGoOn
  <2> QED BY <1>7, <2>1 DEF HandleOther, Handle, ColourInv, TypeOK, Keeps, LastInv
<1>8. CASE UNCHANGED vars
    BY <1>8 DEF vars, ColourInv, TypeOK, Keeps, LastInv
<1> QED BY <1>3, <1>4, <1>5, <1>6, <1>7, <1>8 DEF Next

LEMMA ColourInvariant == Spec => []ColourInv
<1>1. Init => ColourInv
  <2> SUFFICES ASSUME Init
               PROVE  ColourInv
      OBVIOUS
  <2>1. LEDC_DUTY_MAX \in Nat /\ MaxCommands \in Nat
      BY LevelsAreDuties, FadesGoOn
  <2> QED BY <2>1 DEF Init, ColourInv, TypeOK, Keeps, LastInv
<1> QED BY <1>1, ColourStep, PTL DEF Spec

(* light_controller.c, HSVToRGB.h, pwm.c: dimming and back, off and on, a  *)
(* channel that was asked to be darker than another is never the brighter, *)
(* although every conversion may lose a level.                             *)
THEOREM ColoursSurvive == Spec => []OrderKept
<1>1. ColourInv => OrderKept
    BY DEF ColourInv, OrderKept, Keeps
<1> QED BY <1>1, ColourInvariant, PTL

(* light_controller.c: a brightness command multiplies the channels it     *)
(* finds, at rest or midway of a fade, by one factor, to within the level  *)
(* that a double may lose.                                                 *)
THEOREM ScalesAsOne == Spec => BrightnessScales
<1>1. ColourInv /\ ColourInv' /\ [Next]_vars =>
        [\A f \in Payloads : BrightnessFrom(f, duty') /\ f[1] \in 1..100 =>
           LET found == duty'.level
               max == Largest({found[c] : c \in Channels})
           IN \A c \in Channels :
                LET num == LEDC_DUTY_MAX * f[1] * (IF max = 0 THEN 1 ELSE found[c])
                    den == 100 * (IF max = 0 THEN 1 ELSE max)
                IN /\ goal'.level[c] * den <= num
                   /\ num <= (goal'.level[c] + 1) * den]_vars
  <2> SUFFICES ASSUME ColourInv', NEW f \in Payloads, BrightnessFrom(f, duty'), f[1] \in 1 .. 100,
                      NEW c \in Channels
               PROVE  LET max == Brightest(duty'.level)
                          num == LEDC_DUTY_MAX * f[1] * (IF max = 0 THEN 1 ELSE duty'.level[c])
                          den == 100 * (IF max = 0 THEN 1 ELSE max)
                      IN goal'.level[c] * den <= num /\ num <= (goal'.level[c] + 1) * den
      BY DEF Brightest, LevelsOf
  <2>1. goal'.level \in Fades(Dimmed(duty'.level, f[1]))
      BY DEF BrightnessFrom, vPwmSetValueRec, Dimmed
  <2>2. duty'.level \in [Channels -> Levels]
      BY DEF ColourInv, TypeOK, Levels
  <2> QED BY <2>1, <2>2, DimmedScales
<1>2. Spec => []ColourInv
    BY ColourInvariant
<1> QED BY <1>1, <1>2, PTL DEF Spec, BrightnessScales

(* pwm.c: duties that are read back as a colour (iPwmGetValue) and shown   *)
(* again (vPwmSetValueRec) come out as they were, or one level lower: the  *)
(* cast in uiPwmConvertPercent cuts.                                       *)
THEOREM ReadBackLosesALevel ==
  ASSUME NEW level \in [Channels -> 0 .. LEDC_DUTY_MAX],
         NEW again \in Fades(xRGBToHSV(level)), NEW c \in Channels
  PROVE  again[c] \in {level[c] - 1, level[c]}
<1> DEFINE in == xRGBToHSV(level)
           rgb == xHSVToRGB(in)
           d == Spread(level)
           max == Brightest(level)
           full == LEDC_DUTY_MAX
<1>1. level \in [Channels -> Levels]
    BY DEF Levels
<1>2. /\ full \in Nat \ {0} /\ max \in Nat /\ d \in Nat /\ max \in Int
      /\ level[c] \in Nat /\ level[c] <= max /\ max <= full
      /\ d = 0 => level[c] = max
    BY <1>1, LevelsAreDuties, LevelBounds DEF Spread
<1>4. /\ in.v = <<max, full>> /\ in.h = Dimmed(level, max).h /\ in.s = Dimmed(level, max).s
      /\ Dimmed(level, max).v = <<max, 100>>
    BY DEF Dimmed, xRGBToHSV, Brightest, LevelsOf
<1>5. IsHsv(in) /\ IsHsv(Dimmed(level, max))
  <2>1. IsHsv(Dimmed(level, max))
      BY <1>1, <1>2, DimmedParts
  <2> QED BY <1>2, <1>4, <2>1 DEF IsHsv, Fractions
<1>6. again[c] \in uiPwmConvertPercent(rgb.of[rgb.value[c]], rgb.den) /\ again[c] \in Nat
  <2>1. again \in Fades(in)
      OBVIOUS
  <2> HIDE DEF in
  <2>2. PICK cut : \A x \in Names :
              /\ cut[x] \in uiPwmConvertPercent(rgb.of[x], rgb.den)
              /\ \A k \in Channels : rgb.value[k] = x => again[k] = cut[x]
      BY <1>5, <2>1, FadesAre
  <2>3. rgb.value[c] \in Names /\ again[c] \in Levels
      BY <1>5, <2>1, ChannelsHaveNames, FadesAre
  <2> QED BY <2>2, <2>3 DEF Levels
<1>7. /\ rgb.of = xHSVToRGB(Dimmed(level, max)).of
      /\ rgb.value = xHSVToRGB(Dimmed(level, max)).value
      /\ rgb.den = full * in.s[2] * Turned(in)[2]
  <2>1. Turned(in) = Turned(Dimmed(level, max)) /\ Past(in) = Past(Dimmed(level, max))
        /\ Sixth(in) = Sixth(Dimmed(level, max))
      BY <1>4 DEF Turned, Past, Sixth
  <2>2. in.v[1] = max /\ in.v[2] = full /\ Dimmed(level, max).v[1] = max
      BY <1>4
  <2> DEFINE dim == Dimmed(level, max)
             back == xHSVToRGB(dim)
  <2>3. /\ rgb.of = [v |-> in.v[1] * in.s[2] * Turned(in)[2],
                     p |-> in.v[1] * (in.s[2] - in.s[1]) * Turned(in)[2],
                     q |-> in.v[1] * (in.s[2] * Turned(in)[2] - in.s[1] * Past(in)),
                     t |-> in.v[1] * (in.s[2] * Turned(in)[2] - in.s[1] * (Turned(in)[2] - Past(in)))]
        /\ rgb.den = in.v[2] * in.s[2] * Turned(in)[2]
        /\ rgb.value = IF in.s[1] <= 0 THEN [k \in Channels |-> "v"]
                       ELSE IF Past(in) = 0
                            THEN [k \in Channels |-> OnBorder[Sector(Sixth(in))[k]]]
                            ELSE Sector(Sixth(in))
      BY Converted
  <2>4. /\ back.of = [v |-> dim.v[1] * dim.s[2] * Turned(dim)[2],
                      p |-> dim.v[1] * (dim.s[2] - dim.s[1]) * Turned(dim)[2],
                      q |-> dim.v[1] * (dim.s[2] * Turned(dim)[2] - dim.s[1] * Past(dim)),
                      t |-> dim.v[1] * (dim.s[2] * Turned(dim)[2] - dim.s[1] * (Turned(dim)[2] - Past(dim)))]
        /\ back.value = IF dim.s[1] <= 0 THEN [k \in Channels |-> "v"]
                        ELSE IF Past(dim) = 0
                             THEN [k \in Channels |-> OnBorder[Sector(Sixth(dim))[k]]]
                             ELSE Sector(Sixth(dim))
      BY Converted
  <2>5. /\ in.s = dim.s /\ in.v[1] = dim.v[1] /\ Turned(in) = Turned(dim)
        /\ Past(in) = Past(dim) /\ Sixth(in) = Sixth(dim)
      BY <1>4, <2>1, <2>2
  <2> HIDE DEF in, rgb, max, full, dim, back
  <2>6. rgb.of = back.of /\ rgb.value = back.value /\ rgb.den = full * in.s[2] * Turned(in)[2]
      BY <2>2, <2>3, <2>4, <2>5
  <2> QED BY <2>6 DEF back, dim
<1> HIDE DEF rgb
<1>8. \E m \in Nat \ {0} :
        /\ rgb.of[rgb.value[c]] = level[c] * m /\ rgb.den = full * m
  <2>1. CASE d = 0
    <3>1. in.s = <<0, 1>> /\ in.h = <<0, 1>>
        BY <1>1, <1>2, <1>4, <2>1, DimmedParts
    <3>2. Turned(in) = <<0, 1>>
        BY <3>1 DEF Turned
    <3>3. rgb.of["v"] = max * 1 * 1 /\ rgb.den = full * 1 * 1
      <4>0. rgb.of = [v |-> in.v[1] * in.s[2] * Turned(in)[2],
                      p |-> in.v[1] * (in.s[2] - in.s[1]) * Turned(in)[2],
                      q |-> in.v[1] * (in.s[2] * Turned(in)[2] - in.s[1] * Past(in)),
                      t |-> in.v[1] * (in.s[2] * Turned(in)[2] - in.s[1] * (Turned(in)[2] - Past(in)))]
          BY Converted DEF rgb
      <4> HIDE DEF in
      <4>1. rgb.of["v"] = in.v[1] * in.s[2] * Turned(in)[2]
          BY <4>0
      <4> QED BY <1>4, <1>7, <3>1, <3>2, <4>1
    <3>4. rgb.value = [x \in Channels |-> "v"]
      <4>1. in.s[1] <= 0
          BY <3>1
      <4> QED BY <4>1, Converted DEF rgb
    <3>5. rgb.of[rgb.value[c]] = level[c] * 1 /\ rgb.den = full * 1
        BY <1>2, <2>1, <3>3, <3>4
    <3> QED BY <3>5
  <2>2. CASE d # 0
    <3>1. max \in Nat \ {0} /\ d \in Nat \ {0}
        BY <1>1, <1>2, <2>2, LevelBounds DEF Spread
    <3>2. rgb.of[rgb.value[c]] = (max * level[c]) * d
        BY <1>1, <1>2, <1>7, <2>2, BackAgain
    <3>3. in.s = <<d, max>> /\ Turned(in)[2] = d
      <4>1. in.s = <<d, max>>
          BY <1>1, <1>2, <1>4, <2>2, DimmedParts
      <4>2. Turned(in)[2] = Turned(Dimmed(level, max))[2]
          BY <1>4 DEF Turned
      <4> QED BY <1>1, <1>2, <2>2, <4>1, <4>2, DimmedSector
    <3>4. rgb.den = full * max * d
        BY <1>7, <3>3
    <3> HIDE DEF max, d, full
    <3>5. /\ (max * level[c]) * d = level[c] * (max * d)
          /\ full * max * d = full * (max * d) /\ max * d \in Nat \ {0}
        BY <1>2, <3>1, Products
    <3> QED BY <3>2, <3>4, <3>5
  <2> QED BY <2>1, <2>2
<1>9. PICK m \in Nat \ {0} : rgb.of[rgb.value[c]] = level[c] * m /\ rgb.den = full * m
    BY <1>8
<1> HIDE DEF in, max, d, full
<1>10. /\ level[c] * m \in Nat /\ full * m \in Nat \ {0} /\ level[c] * m <= full * m
       /\ again[c] \in uiPwmConvertPercent(level[c] * m, full * m)
    BY <1>2, <1>6, <1>9, Products, Factors
<1>11. /\ again[c] * (full * m) <= full * (level[c] * m)
       /\ full * (level[c] * m) <= (again[c] + 1) * (full * m)
    BY <1>10, DutyIsNear DEF full
<1>12. full * (level[c] * m) = level[c] * (full * m)
    BY <1>2, Products
<1>13. again[c] <= level[c] /\ level[c] <= again[c] + 1
    BY <1>2, <1>6, <1>10, <1>11, <1>12, Factors
<1> QED BY <1>2, <1>6, <1>13
=============================================================================
