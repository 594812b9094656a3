----------------------------- MODULE Animation -----------------------------
(***************************************************************************)
(* The light of one node: the animation task (animation.c), the two        *)
(* command tasks (light_controller.c) and the light value they all write   *)
(* through the PWM driver (pwm.c).                                         *)
(*                                                                         *)
(*   "loop"  vAnimationLoop, one frame of the armed animation per round    *)
(*   "hsv"   hsv_cmd_task, one light command at a time                     *)
(*   "anim"  anim_cmd_task, one animation command at a time                *)
(*                                                                         *)
(* A step is one access to shared state or one FreeRTOS call.  A write of  *)
(* the three channels is one step here; PwmDriver takes it apart.          *)
(*                                                                         *)
(* The program computes with values (struct HSV: a hue and saturation hs   *)
(* and a level v), the hardware keeps duties, one per channel.  Shown and  *)
(* ReadBack convert between the two as Colour has it: both lose something, *)
(* so that what is read back is not what was set.                          *)
(***************************************************************************)
EXTENDS Integers

CONSTANTS
  LedcChannels, \* the channels of the strip
  Full,         \* the duty of a channel that is fully on
  Shown(_),     \* the duties a value is shown with
  ReadBack(_),  \* the value that duties read back as
  HueSats,      \* hue/saturation values there are
  Hues,         \* those a command or RANDOM can pick
  White,        \* hue and saturation 0
  MaxV,         \* the level 1.0 of the code
  PulseStep,    \* level change of one PULSE frame (0.1 in the code)
  FadeStep,     \* level change of one frame of the FADE case (0.01)
  Count,        \* repetitions of FLASH and PULSE (3 in the code)
  SetLevels,    \* levels the light commands ask for, in range or not
  HsvOps,       \* light commands that arrive, of LightOps
  AnimOps,      \* animation commands that arrive, of AnimationOps
  Hurried,      \* tasks whose take may run out while another task holds on
  Settled       \* TRUE: commands wait until nothing is going on, but for a
                \* STOP, which arrives in the middle of an animation

LightOps == {"OFF", "ON", "SET", "BRIGHT"}
AnimationOps == {"FADE", "FLASH", "PULSE", "RANDOM", "STOP"}

ASSUME LightAssumption ==
  /\ White \in Hues /\ Hues \subseteq HueSats
  /\ Full \in Nat \ {0}
  /\ MaxV \in Nat \ {0} /\ PulseStep \in 1 .. MaxV /\ FadeStep \in 1 .. MaxV
  /\ Count \in Nat \ {0}
  /\ SetLevels \subseteq Int
  /\ HsvOps \subseteq LightOps /\ AnimOps \subseteq AnimationOps
  /\ Settled \in BOOLEAN

Tasks == {"loop", "hsv", "anim"}

(* anim_reg: the five redefinitions of ANIM_TYPE_FADE leave it 0. *)
ANIM_TYPE_FADE   == 0
ANIM_TYPE_FLASH  == 2
ANIM_TYPE_PULSE  == 4
ANIM_TYPE_RANDOM == 8
AnimTypes == {ANIM_TYPE_FADE, ANIM_TYPE_FLASH, ANIM_TYPE_PULSE, ANIM_TYPE_RANDOM}

(* Values within range, values a command may ask for, and duties. *)
HSV == [hs : HueSats, v : 0 .. MaxV]
Asked == [hs : HueSats, v : SetLevels \cup 0 .. MaxV]
Duties == [LedcChannels -> 0 .. Full]

Black == [hs |-> White, v |-> 0]
Dark == [c \in LedcChannels |-> 0]

(* A read-back is in range.  Shown again it costs a channel at most one    *)
(* level: the casts of uiPwmConvertPercent round down.                     *)
ASSUME ConversionAssumption ==
  /\ \A hsv \in Asked : Shown(hsv) \in Duties
  /\ Shown(Black) = Dark
  /\ \A duty \in Duties :
       /\ ReadBack(duty) \in HSV
       /\ \A c \in LedcChannels : Shown(ReadBack(duty))[c] \in {duty[c] - 1, duty[c]}

VARIABLES
  sem,             \* animation_semaphore: 1 free, 0 taken
  anim_reg,        \* the armed animation, 0 none
  R3,              \* repetitions left, -1 for ever
  origValue,       \* the light when the animation was armed
  curValue,        \* the animation's next frame
  hsv_last_value,  \* what ON shows
  led, target,     \* the duties its last fade began with and is heading for
  flash_on, fade_in,  \* vAnimationLoop's locals, kept across animations
  pc,              \* where each task is
  cmd,             \* anim_cmd_task: the animation command in hand
  ret,             \* where vAnimationStop returns to in the loop
  hval,            \* hsv_cmd_task: the value a brightness command builds
  asked,           \* history: the value last asked for: by SET, by BRIGHT, or
                   \* by a STOP with nothing to stop, which asks for origValue
  lost,            \* history: read-backs by animations since then, up to Full
  astray,          \* history: a frame came late since then
  found,           \* history: the duties when the animation was armed
  late,            \* history: frames written since anim_reg became 0
  offs             \* history: dark frames of the FLASH since it was armed,
                   \* and one a STOP has cut off from its light frame

lightVars == <<led, target>>
shared == <<sem, anim_reg, R3, origValue, curValue, hsv_last_value>>
locals == <<flash_on, fade_in, cmd, ret, hval>>
restored == <<asked, lost, astray, found>>
history == <<restored, late, offs>>
vars == <<shared, lightVars, locals, pc, history>>

-----------------------------------------------------------------------------
(* The light.                                                              *)

(* Where the fade may have got to: each channel has its own hardware.      *)
Passed(a, b) == IF a <= b THEN a .. b ELSE b .. a
UnderWay == {d \in Duties : \A c \in LedcChannels : d[c] \in Passed(led[c], target[c])}

(* The channels are read in the middle of a fade or not. *)
iPwmGetValue == {ReadBack(d) : d \in UnderWay}

(* vPwmSetValueRec: record keeps the value for ON, fade takes 800 ms.  A   *)
(* new fade begins where the one before has got to.                        *)
vPwmSetValueRec(hsv, record, fade) ==
  /\ hsv_last_value' = IF record THEN hsv ELSE hsv_last_value
  /\ target' = Shown(hsv)
  /\ IF fade THEN led' \in UnderWay ELSE led' = Shown(hsv)

vPwmSetValue(hsv) == vPwmSetValueRec(hsv, TRUE, TRUE)

(* The fade hardware arrives. *)
FadeArrives ==
  /\ led # target
  /\ led' = target
  /\ UNCHANGED <<shared, target, locals, pc, history>>

-----------------------------------------------------------------------------
(* Steps of the tasks.                                                     *)

Goto(p, from, to) == pc[p] = from /\ pc' = [pc EXCEPT ![p] = to]

(* From its take to its give a task is in its section. *)
Section == {"switch", "flash", "flashcount", "flashtest", "pulse", "pulsetest", "fade",
            "fadeframe", "random", "stopreg", "stoppwm", "stopgive", "give",
            "reg", "r3", "setgive"}
Places == Section \cup {"idle", "take", "stoptake", "settake", "orig", "cur", "bright"}
InSection(p) == pc[p] \in Section \/ (p = "loop" /\ pc[p] = "stoptake")

(* xSemaphoreTake with a timeout whose result nobody acts on: it succeeds, *)
(* or it runs out.  A task that waits for itself always runs out.          *)
TakeForever(p) == sem = 1 /\ sem' = 0  \* mutant: portMAX_DELAY

Take(p) ==
  /\ \/ sem = 1
     \/ p \in Hurried
     \/ \A q \in Tasks \ {p} : ~InSection(q)
  /\ sem' = 0

Give == sem' = 1

Quiet == \* nothing is going on
  /\ pc = [p \in Tasks |-> "idle"]
  /\ anim_reg = 0
  /\ led = target

MayArrive == Settled => Quiet
StopMayArrive == Settled => pc["hsv"] = "idle"

(* A light command says what light is asked for.  This history, lost,      *)
(* astray and found are kept while commands come one by one.               *)
AsksFor(hsv) ==
  IF Settled
  THEN asked' = hsv /\ lost' = 0 /\ astray' = FALSE /\ UNCHANGED found
  ELSE UNCHANGED restored

-----------------------------------------------------------------------------
(* hsv_cmd_task                                                            *)

HsvCommand(op) == op \in HsvOps /\ MayArrive /\ pc["hsv"] = "idle"

HsvOff ==
  /\ HsvCommand("OFF")
  /\ vPwmSetValueRec(Black, FALSE, TRUE)
  /\ UNCHANGED <<sem, anim_reg, R3, origValue, curValue, locals, pc, history>>

HsvOn ==
  /\ HsvCommand("ON")
  /\ vPwmSetValueRec(hsv_last_value, FALSE, TRUE)
  /\ UNCHANGED <<sem, anim_reg, R3, origValue, curValue, locals, pc, history>>

HsvSet ==
  /\ HsvCommand("SET")
  /\ \E hue \in Hues, level \in SetLevels :
       /\ vPwmSetValue([hs |-> hue, v |-> level])
       /\ AsksFor([hs |-> hue, v |-> level])
  /\ UNCHANGED <<sem, anim_reg, R3, origValue, curValue, locals, pc, late, offs>>

(* A brightness command reads the light back, then sets it at the level. *)
HsvBrightRead ==
  /\ HsvCommand("BRIGHT")
  /\ Goto("hsv", "idle", "bright")
  /\ \E now \in iPwmGetValue, level \in SetLevels :
       hval' = [now EXCEPT !.v = level]
  /\ UNCHANGED <<shared, lightVars, flash_on, fade_in, cmd, ret, history>>

(* Mutant: the brightness is set without being recorded. *)
HsvBrightSetUnrecorded ==
  /\ Goto("hsv", "bright", "idle")
  /\ vPwmSetValueRec(hval, FALSE, TRUE)
  /\ AsksFor(hval)
  /\ hval' = Black
  /\ UNCHANGED <<sem, anim_reg, R3, origValue, curValue, flash_on, fade_in,
                 cmd, ret, late, offs>>

HsvBrightSet ==
  /\ Goto("hsv", "bright", "idle")
  /\ vPwmSetValue(hval)
  /\ AsksFor(hval)
  /\ hval' = Black  \* dead until the next command overwrites it
  /\ UNCHANGED <<sem, anim_reg, R3, origValue, curValue, flash_on, fade_in,
                 cmd, ret, late, offs>>

-----------------------------------------------------------------------------
(* anim_cmd_task and vAnimationSetup                                       *)

TypeOf(op) == CASE op = "FADE"  -> ANIM_TYPE_FADE
                [] op = "FLASH" -> ANIM_TYPE_FLASH
                [] op = "PULSE" -> ANIM_TYPE_PULSE
                [] OTHER        -> ANIM_TYPE_RANDOM
RepeatsOneMore(op) == IF op \in {"FLASH", "PULSE"} THEN Count + 1 ELSE -1  \* mutant
RepeatsOf(op) == IF op \in {"FLASH", "PULSE"} THEN Count ELSE -1

AnimReceive ==
  /\ \E op \in AnimOps :
       /\ MayArrive \/ (op = "STOP" /\ StopMayArrive)
       /\ Goto("anim", "idle", IF op = "STOP" THEN "stoptake" ELSE "orig")
       /\ cmd' = op
  /\ UNCHANGED <<shared, lightVars, flash_on, fade_in, ret, hval, history>>

(* The light is read before the semaphore is taken. *)
SetupOrig ==
  /\ Goto("anim", "orig", "cur")
  /\ origValue' \in iPwmGetValue
  /\ lost' = IF Settled /\ lost < Full THEN lost + 1 ELSE lost
  /\ found' = IF Settled THEN target ELSE found
  /\ UNCHANGED <<sem, anim_reg, R3, curValue, hsv_last_value, lightVars, locals,
                 asked, astray, late, offs>>

SetupCur ==
  /\ Goto("anim", "cur", "settake")
  /\ curValue' \in iPwmGetValue
  /\ UNCHANGED <<sem, anim_reg, R3, origValue, hsv_last_value, lightVars, locals, history>>

SetupTake ==
  /\ Goto("anim", "settake", "reg")
  /\ Take("anim")
  /\ UNCHANGED <<anim_reg, R3, origValue, curValue, hsv_last_value, lightVars, locals, history>>

SetupReg ==
  /\ Goto("anim", "reg", "r3")
  /\ anim_reg' = TypeOf(cmd)
  /\ late' = IF anim_reg' = 0 THEN late ELSE 0
  /\ offs' = IF flash_on THEN 0 ELSE 1
  /\ UNCHANGED <<sem, R3, origValue, curValue, hsv_last_value, lightVars, locals, restored>>

SetupR3 ==
  /\ Goto("anim", "r3", "setgive")
  /\ R3' = RepeatsOf(cmd)
  /\ UNCHANGED <<sem, anim_reg, origValue, curValue, hsv_last_value, lightVars, locals, history>>

SetupGive ==
  /\ Goto("anim", "setgive", "idle")
  /\ Give
  /\ UNCHANGED <<anim_reg, R3, origValue, curValue, hsv_last_value, lightVars, locals, history>>

-----------------------------------------------------------------------------
(* vAnimationStop, called by anim_cmd_task and, in its section, the loop   *)

StopTake(p) ==
  /\ Goto(p, "stoptake", "stopreg")
  /\ Take(p)
  /\ UNCHANGED <<anim_reg, R3, origValue, curValue, hsv_last_value, lightVars, locals, history>>

StopReg(p) ==
  /\ Goto(p, "stopreg", "stoppwm")
  /\ anim_reg' = 0
  /\ IF p = "anim" /\ anim_reg = 0 THEN AsksFor(origValue) ELSE UNCHANGED restored
  /\ UNCHANGED <<sem, R3, origValue, curValue, hsv_last_value, lightVars, locals, late, offs>>

(* Mutant: the last frame stays. *)
StopPwmLastFrame(p) ==
  /\ Goto(p, "stoppwm", "stopgive")
  /\ vPwmSetValue(curValue)
  /\ UNCHANGED <<sem, anim_reg, R3, origValue, curValue, locals, history>>

StopPwm(p) ==
  /\ Goto(p, "stoppwm", "stopgive")
  /\ vPwmSetValue(origValue)
  /\ UNCHANGED <<sem, anim_reg, R3, origValue, curValue, locals, history>>

StopGive(p) ==
  /\ Goto(p, "stopgive", IF p = "loop" THEN ret ELSE "idle")
  /\ Give
  /\ UNCHANGED <<anim_reg, R3, origValue, curValue, hsv_last_value, lightVars, locals, history>>

-----------------------------------------------------------------------------
(* vAnimationLoop.  "idle" is the wait before the check of anim_reg.       *)

(* A frame is what the loop writes to the light without recording it. *)
Frame(hsv, fade) ==
  /\ curValue' = hsv
  /\ vPwmSetValueRec(hsv, FALSE, fade)
  /\ late' = IF anim_reg = 0 /\ late < 2 THEN late + 1 ELSE late
  /\ astray' = (astray \/ (Settled /\ anim_reg = 0))

(* Mutant: a round that does not look for an armed animation first. *)
LoopCheckUnguarded ==
  /\ Goto("loop", "idle", "take")
  /\ UNCHANGED <<shared, lightVars, locals, history>>

LoopCheck ==
  /\ Goto("loop", "idle", "take")
  /\ anim_reg # 0
  /\ UNCHANGED <<shared, lightVars, locals, history>>

LoopTake ==
  /\ Goto("loop", "take", "switch")
  /\ Take("loop")
  /\ UNCHANGED <<anim_reg, R3, origValue, curValue, hsv_last_value, lightVars, locals, history>>

(* anim_reg is read again: it need not be what the check saw. *)
LoopSwitch ==
  /\ Goto("loop", "switch",
          CASE anim_reg = ANIM_TYPE_FADE   -> "fade"
            [] anim_reg = ANIM_TYPE_FLASH  -> "flash"
            [] anim_reg = ANIM_TYPE_PULSE  -> "pulse"
            [] anim_reg = ANIM_TYPE_RANDOM -> "random")
  /\ UNCHANGED <<shared, lightVars, locals, history>>

LoopFade ==
  /\ pc["loop"] = "fade"
  /\ LET level == curValue.v - FadeStep
         next  == [curValue EXCEPT !.v = IF level <= 0 THEN 0 ELSE level]
     IN  IF level <= 0
         THEN /\ Goto("loop", "fade", "stoptake")
              /\ ret' = "fadeframe"
              /\ curValue' = next
              /\ UNCHANGED <<hsv_last_value, lightVars, late, astray>>
         ELSE /\ Goto("loop", "fade", "give")
              /\ Frame(next, FALSE)
              /\ UNCHANGED ret
  /\ UNCHANGED <<sem, anim_reg, R3, origValue, flash_on, fade_in, cmd, hval,
                 asked, lost, found, offs>>

(* The FADE case writes its last frame after vAnimationStop returned. *)
LoopFadeFrame ==
  /\ Goto("loop", "fadeframe", "give")
  /\ Frame(curValue, FALSE)
  /\ UNCHANGED <<sem, anim_reg, R3, origValue, locals, asked, lost, found, offs>>

(* One repetition is over; a negative number of them never ends. *)
SpentAlways(n) == n - 1  \* mutant
SpentNever(n) == n       \* mutant
Spent(n) == IF n > 0 THEN n - 1 ELSE n

LoopFlash ==
  /\ Goto("loop", "flash", "flashcount")
  /\ Frame([curValue EXCEPT !.v = IF flash_on THEN 0 ELSE origValue.v], FALSE)
  /\ offs' = IF flash_on /\ offs <= Count THEN offs + 1 ELSE offs
  /\ UNCHANGED <<sem, anim_reg, R3, origValue, locals, asked, lost, found>>

LoopFlashCount ==
  /\ Goto("loop", "flashcount", "flashtest")
  /\ R3' = IF flash_on THEN R3 ELSE Spent(R3)
  /\ flash_on' = ~flash_on
  /\ UNCHANGED <<sem, anim_reg, origValue, curValue, hsv_last_value, lightVars,
                 fade_in, cmd, ret, hval, history>>

LoopFlashTest ==
  /\ IF R3 = 0
     THEN /\ Goto("loop", "flashtest", "stoptake")
          /\ flash_on' = TRUE
          /\ ret' = "give"
     ELSE /\ Goto("loop", "flashtest", "give")
          /\ UNCHANGED <<flash_on, ret>>
  /\ UNCHANGED <<shared, lightVars, fade_in, cmd, hval, history>>

LoopPulse ==
  /\ Goto("loop", "pulse", "pulsetest")
  /\ LET up   == curValue.v + PulseStep
         down == curValue.v - PulseStep
         top  == fade_in /\ up > MaxV
         low  == ~fade_in /\ down < 0
         next == IF top THEN MaxV ELSE IF low THEN 0 ELSE IF fade_in THEN up ELSE down
     IN  /\ Frame([curValue EXCEPT !.v = next], FALSE)
         /\ fade_in' = IF top \/ low THEN ~fade_in ELSE fade_in
         /\ R3' = IF low THEN Spent(R3) ELSE R3
  /\ UNCHANGED <<sem, anim_reg, origValue, flash_on, cmd, ret, hval,
                 asked, lost, found, offs>>

LoopPulseTest ==
  /\ IF R3 = 0
     THEN Goto("loop", "pulsetest", "stoptake") /\ ret' = "give"
     ELSE Goto("loop", "pulsetest", "give") /\ UNCHANGED ret
  /\ UNCHANGED <<shared, lightVars, flash_on, fade_in, cmd, hval, history>>

LoopRandom ==
  /\ Goto("loop", "random", "give")
  /\ \E hue \in Hues : Frame([curValue EXCEPT !.hs = hue], TRUE)
  /\ UNCHANGED <<sem, anim_reg, R3, origValue, locals, asked, lost, found, offs>>

(* Mutant: a round that keeps the semaphore. *)
LoopGiveForgotten ==
  /\ Goto("loop", "give", "idle")
  /\ UNCHANGED <<shared, lightVars, locals, history>>

LoopGive ==
  /\ Goto("loop", "give", "idle")
  /\ Give
  /\ UNCHANGED <<anim_reg, R3, origValue, curValue, hsv_last_value, lightVars, locals, history>>

-----------------------------------------------------------------------------
(* vAnimationStart creates the semaphore and gives it; pwm.c starts dark. *)
Init ==
  /\ sem = 1 /\ anim_reg = 0 /\ R3 = 0
  /\ origValue = Black /\ curValue = Black
  /\ hsv_last_value = [hs |-> White, v |-> MaxV]
  /\ led = Dark /\ target = Dark
  /\ flash_on = TRUE /\ fade_in = TRUE
  /\ pc = [p \in Tasks |-> "idle"]
  /\ cmd = "STOP" /\ ret = "give" /\ hval = Black
  /\ asked = hsv_last_value /\ lost = 0 /\ astray = FALSE /\ found = Dark
  /\ late = 0 /\ offs = 0

Stop(p) == StopTake(p) \/ StopReg(p) \/ StopPwm(p) \/ StopGive(p)
Setup == SetupOrig \/ SetupCur \/ SetupTake \/ SetupReg \/ SetupR3 \/ SetupGive
Loop == \/ LoopCheck \/ LoopTake \/ LoopSwitch \/ LoopGive
        \/ LoopFade \/ LoopFadeFrame
        \/ LoopFlash \/ LoopFlashCount \/ LoopFlashTest
        \/ LoopPulse \/ LoopPulseTest
        \/ LoopRandom
        \/ Stop("loop")

(* What the outside decides: which command arrives, and when. *)
Arrives == HsvOff \/ HsvOn \/ HsvSet \/ HsvBrightRead \/ AnimReceive

Next == Arrives \/ HsvBrightSet \/ Setup \/ Stop("anim") \/ Loop \/ FadeArrives

(* The scheduler runs every ready task; no command has to come. *)
Fairness ==
  /\ WF_vars(HsvBrightSet)
  /\ WF_vars(Setup \/ Stop("anim"))
  /\ WF_vars(Loop)
  /\ WF_vars(FadeArrives)

Spec == Init /\ [][Next]_vars /\ Fairness
-----------------------------------------------------------------------------
(* Properties.                                                             *)

TypeOK ==
  /\ sem \in {0, 1} /\ anim_reg \in AnimTypes /\ R3 \in -1 .. Count
  /\ origValue \in HSV /\ curValue \in HSV
  /\ hsv_last_value \in Asked /\ hval \in Asked /\ asked \in Asked
  /\ {led, target, found} \subseteq Duties
  /\ flash_on \in BOOLEAN /\ fade_in \in BOOLEAN
  /\ pc \in [Tasks -> Places]
  /\ cmd \in AnimationOps /\ ret \in {"give", "fadeframe"}
  /\ lost \in 0 .. Full /\ astray \in BOOLEAN
  /\ late \in 0 .. 2 /\ offs \in 0 .. Count + 1

(* A taken semaphore always has a task that is going to give it back,      *)
(* although no result of a take is acted on and vAnimationStop takes again *)
(* inside the loop's section.                                              *)
NoLockLeak == sem = 0 => \E p \in Tasks : InSection(p)

(* The loop checks anim_reg before it takes the semaphore and reads it     *)
(* again after: once anim_reg is 0 it writes at most one more frame.       *)
StopLatency == late <= 1

(* A FLASH is dark exactly Count times: flash_on, which outlives it, is    *)
(* left at TRUE, unless a STOP came after a dark frame; then the next      *)
(* FLASH begins with the light one, and is dark once less.                 *)
ExactFlashes ==
  pc["loop"] = "stoptake" /\ anim_reg = ANIM_TYPE_FLASH => offs = Count

(* A channel is no brighter than asked for, and darker by at most the      *)
(* level that each read-back since then may have cost.                     *)
Lit(duty) == \E c \in LedcChannels : duty[c] > 0
Near(duty) == \A c \in LedcChannels : duty[c] \in Shown(asked)[c] - lost .. Shown(asked)[c]

(* Whatever animations came in between, to their end or to a STOP in the   *)
(* middle, a light that is on is the one asked for last but for what its   *)
(* read-backs lost, and the one ON would show: an animation that ends puts *)
(* both back (vAnimationStop records origValue), unless a STOP let the     *)
(* loop write one more frame.                                              *)
LitIsAsked ==
  Quiet /\ Lit(target) /\ ~astray => Near(target) /\ target = Shown(hsv_last_value)

(* No task is stuck in its takes: commands finish.                         *)
CommandsFinish == pc["anim"] # "idle" ~> pc["anim"] = "idle"

(* If animation commands stop coming, a counted animation ends, however    *)
(* the loop's frames interleaved with the commands that armed it.          *)
AnimationEnds ==
  <>[](pc["anim"] = "idle") => <>[](anim_reg \in {0, ANIM_TYPE_RANDOM})

(* What the node promises while commands keep out of each other's way.     *)
playing == pc["anim"] # "idle" \/ pc["loop"] # "idle" \/ anim_reg # 0
captured == playing /\ pc["anim"] # "orig"
Steady == INSTANCE SteadyLight WITH
  light <- IF captured THEN found ELSE target,
  phase <- IF ~playing THEN "quiet" ELSE IF cmd = "STOP" THEN "stopping" ELSE "playing"
LightIsSteady == Steady!Spec
=============================================================================
