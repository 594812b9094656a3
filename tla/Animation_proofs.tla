-------------------------- MODULE Animation_proofs --------------------------
(***************************************************************************)
(* Theorems about Animation, for every value of its constants.             *)
(***************************************************************************)
EXTENDS Animation, TLAPS

(* What is read back is in range, and what is in range may be asked for. *)
LEMMA Ranges == HSV \subseteq Asked /\ Black \in HSV /\ Dark \in Duties
BY LightAssumption DEF HSV, Asked, Black, Dark, Duties

LEMMA ReadType == iPwmGetValue \subseteq HSV /\ UnderWay \subseteq Duties
BY ConversionAssumption DEF iPwmGetValue, UnderWay

(* What a write of the driver leaves behind are duties and a value. *)
LEMMA WriteType ==
  ASSUME hsv_last_value \in Asked,
         NEW h \in Asked, NEW record \in BOOLEAN, NEW fade \in BOOLEAN,
         vPwmSetValueRec(h, record, fade)
  PROVE  led' \in Duties /\ target' \in Duties /\ hsv_last_value' \in Asked
BY ReadType, ConversionAssumption DEF vPwmSetValueRec

(* So does the history of what was asked for. *)
LEMMA AsksType ==
  ASSUME TypeOK, NEW h \in Asked, AsksFor(h)
  PROVE  asked' \in Asked /\ lost' \in 0 .. Full /\ astray' \in BOOLEAN /\ found' \in Duties
<1>1. CASE Settled
  <2>1. asked' = h /\ lost' = 0 /\ astray' = FALSE /\ found' = found
      BY <1>1, Zenon DEF AsksFor
  <2>2. 0 \in 0 .. Full
      BY LightAssumption
  <2> QED BY <2>1, <2>2 DEF TypeOK
<1>2. CASE ~Settled
    BY <1>2 DEF AsksFor, restored, TypeOK
<1> QED
    BY <1>1, <1>2

(* Going from one place to another keeps every task at a place. *)
LEMMA GotoType ==
  ASSUME pc \in [Tasks -> Places], NEW p \in Tasks, NEW from, NEW to \in Places,
         Goto(p, from, to)
  PROVE  pc' \in [Tasks -> Places]
BY DEF Goto

LEMMA TypeStep == TypeOK /\ [Next]_vars => TypeOK'
<1> SUFFICES ASSUME TypeOK, [Next]_vars
             PROVE  TypeOK'
    OBVIOUS
<1> USE LightAssumption
<1>a. /\ "loop" \in Tasks /\ "hsv" \in Tasks /\ "anim" \in Tasks
      /\ Black \in Asked /\ HSV \subseteq Asked
    BY Ranges DEF Tasks
<1>1. CASE HsvOff
  <2>1. led' \in Duties /\ target' \in Duties /\ hsv_last_value' \in Asked
      BY <1>1, <1>a, WriteType DEF HsvOff, TypeOK
  <2> QED BY <1>1, <2>1 DEF HsvOff, TypeOK, locals, history, restored
<1>2. CASE HsvOn
  <2>1. led' \in Duties /\ target' \in Duties /\ hsv_last_value' \in Asked
      BY <1>2, WriteType DEF HsvOn, TypeOK
  <2> QED BY <1>2, <2>1 DEF HsvOn, TypeOK, locals, history, restored
<1>3. CASE HsvSet
  <2>1. PICK hue \in Hues, level \in SetLevels :
          vPwmSetValue([hs |-> hue, v |-> level]) /\ AsksFor([hs |-> hue, v |-> level])
      BY <1>3 DEF HsvSet
  <2>2. [hs |-> hue, v |-> level] \in Asked
      BY DEF Asked
  <2>3. led' \in Duties /\ target' \in Duties /\ hsv_last_value' \in Asked
      BY <2>1, <2>2, WriteType DEF vPwmSetValue, TypeOK
  <2>4. asked' \in Asked /\ lost' \in 0 .. Full /\ astray' \in BOOLEAN /\ found' \in Duties
      BY <2>1, <2>2, AsksType
  <2> QED BY <1>3, <2>3, <2>4 DEF HsvSet, TypeOK, locals
<1>4. CASE HsvBrightRead
  <2>1. pc' \in [Tasks -> Places]
      BY <1>4, <1>a, GotoType DEF HsvBrightRead, TypeOK, Places
  <2>3. hval' \in Asked
      BY <1>4, ReadType DEF HsvBrightRead, HSV, Asked
  <2> QED BY <1>4, <2>1, <2>3 DEF HsvBrightRead, TypeOK, shared, lightVars, history, restored
<1>5. CASE HsvBrightSet
  <2>1. pc' \in [Tasks -> Places]
      BY <1>5, <1>a, GotoType DEF HsvBrightSet, TypeOK, Places
  <2>2. led' \in Duties /\ target' \in Duties /\ hsv_last_value' \in Asked
      BY <1>5, WriteType DEF HsvBrightSet, vPwmSetValue, TypeOK
  <2>3. asked' \in Asked /\ lost' \in 0 .. Full /\ astray' \in BOOLEAN /\ found' \in Duties
      BY <1>5, AsksType DEF HsvBrightSet, TypeOK
  <2> QED BY <1>5, <1>a, <2>1, <2>2, <2>3 DEF HsvBrightSet, TypeOK
<1>6. CASE AnimReceive
  <2>1. PICK op \in AnimOps :
          /\ Goto("anim", "idle", IF op = "STOP" THEN "stoptake" ELSE "orig")
          /\ cmd' = op
      BY <1>6 DEF AnimReceive
  <2>2. pc' \in [Tasks -> Places]
      BY <2>1, <1>a, GotoType DEF TypeOK, Places
  <2> QED BY <1>6, <2>1, <2>2 DEF AnimReceive, TypeOK, shared, lightVars, history, restored
<1>7. CASE Setup
  <2> iPwmGetValue \subseteq HSV
      BY ReadType
  <2>1. CASE SetupOrig
    <3>1. pc' \in [Tasks -> Places]
        BY <2>1, <1>a, GotoType DEF SetupOrig, TypeOK, Places
    <3> QED BY <2>1, <3>1 DEF SetupOrig, TypeOK, locals, lightVars
  <2>2. CASE SetupCur
    <3>1. pc' \in [Tasks -> Places]
        BY <2>2, <1>a, GotoType DEF SetupCur, TypeOK, Places
    <3> QED BY <2>2, <3>1 DEF SetupCur, TypeOK, locals, history, restored, lightVars
  <2>3. CASE SetupTake
    <3>1. pc' \in [Tasks -> Places]
        BY <2>3, <1>a, GotoType DEF SetupTake, TypeOK, Places, Section
    <3> QED BY <2>3, <3>1 DEF SetupTake, Take, TypeOK, locals, history, restored, lightVars
  <2>4. CASE SetupReg
    <3>1. pc' \in [Tasks -> Places]
        BY <2>4, <1>a, GotoType DEF SetupReg, TypeOK, Places, Section
    <3>2. anim_reg' \in AnimTypes
        BY <2>4 DEF SetupReg, TypeOf, AnimTypes, ANIM_TYPE_FADE, ANIM_TYPE_FLASH,
                    ANIM_TYPE_PULSE, ANIM_TYPE_RANDOM
    <3> QED BY <2>4, <3>1, <3>2 DEF SetupReg, TypeOK, locals, lightVars, restored
  <2>5. CASE SetupR3
    <3>1. pc' \in [Tasks -> Places]
        BY <2>5, <1>a, GotoType DEF SetupR3, TypeOK, Places, Section
    <3> QED BY <2>5, <3>1 DEF SetupR3, RepeatsOf, TypeOK, locals, history, restored, lightVars
  <2>6. CASE SetupGive
    <3>1. pc' \in [Tasks -> Places]
        BY <2>6, <1>a, GotoType DEF SetupGive, TypeOK, Places
    <3> QED BY <2>6, <3>1 DEF SetupGive, Give, TypeOK, locals, history, restored, lightVars
  <2> QED BY <1>7, <2>1, <2>2, <2>3, <2>4, <2>5, <2>6 DEF Setup
<1>8. ASSUME NEW p \in {"loop", "anim"}, Stop(p)
      PROVE  TypeOK'
  <2>a. p \in Tasks
      BY DEF Tasks
  <2>1. CASE StopTake(p)
    <3>1. pc' \in [Tasks -> Places]
        BY <2>1, <2>a, GotoType DEF StopTake, TypeOK, Places, Section
    <3> QED BY <2>1, <3>1 DEF StopTake, Take, TypeOK, locals, history, restored, lightVars
  <2>2. CASE StopReg(p)
    <3>1. pc' \in [Tasks -> Places]
        BY <2>2, <2>a, GotoType DEF StopReg, TypeOK, Places, Section
    <3>2. asked' \in Asked /\ lost' \in 0 .. Full /\ astray' \in BOOLEAN /\ found' \in Duties
        BY <2>2, <1>a, AsksType DEF StopReg, restored, TypeOK
    <3> QED BY <2>2, <3>1, <3>2 DEF StopReg, TypeOK, AnimTypes, ANIM_TYPE_FADE, locals, lightVars
  <2>3. CASE StopPwm(p)
    <3>1. pc' \in [Tasks -> Places]
        BY <2>3, <2>a, GotoType DEF StopPwm, TypeOK, Places, Section
    <3>2. led' \in Duties /\ target' \in Duties /\ hsv_last_value' \in Asked
        BY <2>3, <1>a, WriteType DEF StopPwm, vPwmSetValue, TypeOK
    <3> QED BY <2>3, <3>1, <3>2 DEF StopPwm, TypeOK, locals, history, restored
  <2>4. CASE StopGive(p)
    <3>1. pc' \in [Tasks -> Places]
        BY <2>4, <2>a, GotoType DEF StopGive, TypeOK, Places, Section
    <3> QED BY <2>4, <3>1 DEF StopGive, Give, TypeOK, locals, history, restored, lightVars
  <2> QED BY <1>8, <2>1, <2>2, <2>3, <2>4 DEF Stop
<1>9. CASE Loop
  <2>f. ASSUME NEW h \in HSV, NEW fade \in BOOLEAN, Frame(h, fade)
        PROVE  /\ led' \in Duties /\ target' \in Duties /\ hsv_last_value' \in Asked
               /\ curValue' \in HSV /\ late' \in 0 .. 2 /\ astray' \in BOOLEAN
    <3>1. led' \in Duties /\ target' \in Duties /\ hsv_last_value' \in Asked
        BY <2>f, <1>a, WriteType DEF Frame, TypeOK
    <3> QED BY <2>f, <3>1 DEF Frame, TypeOK
  <2>1. CASE LoopCheck
    <3>1. pc' \in [Tasks -> Places]
        BY <2>1, <1>a, GotoType DEF LoopCheck, TypeOK, Places
    <3> QED BY <2>1, <3>1 DEF LoopCheck, TypeOK, shared, locals, history, restored, lightVars
  <2>2. CASE LoopTake
    <3>1. pc' \in [Tasks -> Places]
        BY <2>2, <1>a, GotoType DEF LoopTake, TypeOK, Places, Section
    <3> QED BY <2>2, <3>1 DEF LoopTake, Take, TypeOK, locals, history, restored, lightVars
  <2>3. CASE LoopSwitch
    <3>1. PICK place \in {"fade", "flash", "pulse", "random"} : Goto("loop", "switch", place)
        BY <2>3 DEF LoopSwitch, TypeOK, AnimTypes, ANIM_TYPE_FADE, ANIM_TYPE_FLASH,
                    ANIM_TYPE_PULSE, ANIM_TYPE_RANDOM
    <3>2. pc' \in [Tasks -> Places]
        BY <3>1, <1>a, GotoType DEF TypeOK, Places, Section
    <3> QED BY <2>3, <3>2 DEF LoopSwitch, TypeOK, shared, locals, history, restored, lightVars
  <2>4. CASE LoopFade
    <3> DEFINE level == curValue.v - FadeStep
               next == [curValue EXCEPT !.v = IF level <= 0 THEN 0 ELSE level]
    <3>1. next \in HSV
        BY DEF TypeOK, HSV
    <3>2. CASE level <= 0
      <4>1. Goto("loop", "fade", "stoptake") /\ ret' = "fadeframe" /\ curValue' = next
            /\ UNCHANGED <<hsv_last_value, lightVars, late, astray>>
          BY <2>4, <3>2 DEF LoopFade
      <4>2. pc' \in [Tasks -> Places]
          BY <4>1, <1>a, GotoType DEF TypeOK, Places
      <4> HIDE DEF next
      <4> QED BY <2>4, <3>1, <4>1, <4>2 DEF LoopFade, TypeOK, lightVars
    <3>3. CASE ~(level <= 0)
      <4>1. Goto("loop", "fade", "give") /\ Frame(next, FALSE) /\ UNCHANGED ret
          BY <2>4, <3>3 DEF LoopFade
      <4>2. pc' \in [Tasks -> Places]
          BY <4>1, <1>a, GotoType DEF TypeOK, Places, Section
      <4> HIDE DEF next
      <4>3. /\ led' \in Duties /\ target' \in Duties /\ hsv_last_value' \in Asked
            /\ curValue' \in HSV /\ late' \in 0 .. 2 /\ astray' \in BOOLEAN
          BY <4>1, <3>1, <2>f
      <4> QED BY <2>4, <4>1, <4>2, <4>3 DEF LoopFade, TypeOK
    <3> QED BY <3>2, <3>3
  <2>5. CASE LoopFadeFrame
    <3>1. pc' \in [Tasks -> Places]
        BY <2>5, <1>a, GotoType DEF LoopFadeFrame, TypeOK, Places, Section
    <3>2. /\ led' \in Duties /\ target' \in Duties /\ hsv_last_value' \in Asked
          /\ curValue' \in HSV /\ late' \in 0 .. 2 /\ astray' \in BOOLEAN
        BY <2>5, <2>f DEF LoopFadeFrame, TypeOK
    <3> QED BY <2>5, <3>1, <3>2 DEF LoopFadeFrame, TypeOK, locals
  <2>6. CASE LoopFlash
    <3> DEFINE next == [curValue EXCEPT !.v = IF flash_on THEN 0 ELSE origValue.v]
    <3>1. next \in HSV
        BY DEF TypeOK, HSV
    <3>2. pc' \in [Tasks -> Places]
        BY <2>6, <1>a, GotoType DEF LoopFlash, TypeOK, Places, Section
    <3>3. Frame(next, FALSE)
        BY <2>6 DEF LoopFlash
    <3> HIDE DEF next
    <3>4. /\ led' \in Duties /\ target' \in Duties /\ hsv_last_value' \in Asked
          /\ curValue' \in HSV /\ late' \in 0 .. 2 /\ astray' \in BOOLEAN
        BY <3>1, <3>3, <2>f
    <3> QED BY <2>6, <3>2, <3>4 DEF LoopFlash, TypeOK, locals
  <2>7. CASE LoopFlashCount
    <3>1. R3' \in -1 .. Count
        BY <2>7 DEF LoopFlashCount, Spent, TypeOK
    <3>2. pc' \in [Tasks -> Places] /\ flash_on' \in BOOLEAN
        BY <2>7, <1>a, GotoType DEF LoopFlashCount, TypeOK, Places, Section
    <3> QED BY <2>7, <3>1, <3>2 DEF LoopFlashCount, TypeOK, lightVars, history, restored
  <2>12. CASE LoopFlashTest
    <3>1. pc' \in [Tasks -> Places] /\ ret' \in {"give", "fadeframe"} /\ flash_on' \in BOOLEAN
      <4>1. CASE R3 = 0
          BY <2>12, <4>1, <1>a, GotoType DEF LoopFlashTest, TypeOK, Places
      <4>2. CASE R3 # 0
          BY <2>12, <4>2, <1>a, GotoType DEF LoopFlashTest, TypeOK, Places, Section
      <4> QED BY <4>1, <4>2
    <3> QED BY <2>12, <3>1 DEF LoopFlashTest, TypeOK, shared, lightVars, history, restored
  <2>8. CASE LoopPulse
    <3> DEFINE up   == curValue.v + PulseStep
               down == curValue.v - PulseStep
               top  == fade_in /\ up > MaxV
               low  == ~fade_in /\ down < 0
               next == IF top THEN MaxV ELSE IF low THEN 0 ELSE IF fade_in THEN up ELSE down
               hsv  == [curValue EXCEPT !.v = next]
    <3>1. next \in 0 .. MaxV
        BY DEF TypeOK, HSV
    <3>2. Frame(hsv, FALSE) /\ fade_in' = (IF top \/ low THEN ~fade_in ELSE fade_in)
          /\ R3' = IF low THEN Spent(R3) ELSE R3
        BY <2>8 DEF LoopPulse
    <3>3. R3' \in -1 .. Count /\ fade_in' \in BOOLEAN
      <4>1. R3' = R3 \/ (R3 > 0 /\ R3' = R3 - 1)
          BY <3>2 DEF Spent
      <4>2. fade_in' = ~fade_in \/ fade_in' = fade_in
          BY <3>2
      <4>3. R3' \in -1 .. Count
          BY <4>1 DEF TypeOK
      <4> QED BY <4>2, <4>3, Zenon DEF TypeOK
    <3> HIDE DEF next
    <3>4. hsv \in HSV
        BY <3>1 DEF TypeOK, HSV
    <3> HIDE DEF hsv
    <3>5. /\ led' \in Duties /\ target' \in Duties /\ hsv_last_value' \in Asked
          /\ curValue' \in HSV /\ late' \in 0 .. 2 /\ astray' \in BOOLEAN
        BY <3>2, <3>4, <2>f
    <3>6. pc' \in [Tasks -> Places]
        BY <2>8, <1>a, GotoType DEF LoopPulse, TypeOK, Places, Section
    <3> QED BY <2>8, <3>3, <3>5, <3>6 DEF LoopPulse, TypeOK
  <2>9. CASE LoopPulseTest
    <3>1. pc' \in [Tasks -> Places] /\ ret' \in {"give", "fadeframe"}
      <4>1. CASE R3 = 0
          BY <2>9, <4>1, <1>a, GotoType DEF LoopPulseTest, TypeOK, Places
      <4>2. CASE R3 # 0
          BY <2>9, <4>2, <1>a, GotoType DEF LoopPulseTest, TypeOK, Places, Section
      <4> QED BY <4>1, <4>2
    <3> QED BY <2>9, <3>1 DEF LoopPulseTest, TypeOK, shared, lightVars, history, restored
  <2>10. CASE LoopRandom
    <3>1. PICK hue \in Hues : Frame([curValue EXCEPT !.hs = hue], TRUE)
        BY <2>10 DEF LoopRandom
    <3>2. [curValue EXCEPT !.hs = hue] \in HSV
        BY DEF TypeOK, HSV
    <3>3. /\ led' \in Duties /\ target' \in Duties /\ hsv_last_value' \in Asked
          /\ curValue' \in HSV /\ late' \in 0 .. 2 /\ astray' \in BOOLEAN
        BY <3>1, <3>2, <2>f
    <3>4. pc' \in [Tasks -> Places]
        BY <2>10, <1>a, GotoType DEF LoopRandom, TypeOK, Places, Section
    <3> QED BY <2>10, <3>3, <3>4 DEF LoopRandom, TypeOK, locals
  <2>11. CASE LoopGive
    <3>1. pc' \in [Tasks -> Places]
        BY <2>11, <1>a, GotoType DEF LoopGive, TypeOK, Places
    <3> QED BY <2>11, <3>1 DEF LoopGive, Give, TypeOK, locals, history, restored, lightVars
  <2> QED BY <1>8, <1>9, <2>1, <2>2, <2>3, <2>4, <2>5, <2>6, <2>7, <2>8, <2>9, <2>10,
             <2>11, <2>12 DEF Loop
<1>10. CASE FadeArrives
    BY <1>10 DEF FadeArrives, TypeOK, shared, locals, history, restored
<1>11. CASE UNCHANGED vars
    BY <1>11 DEF vars, shared, lightVars, locals, history, restored, TypeOK
<1> QED
    BY <1>1, <1>2, <1>3, <1>4, <1>5, <1>6, <1>7, <1>8, <1>9, <1>10, <1>11
       DEF Next, Arrives

LEMMA TypeStart == Init => TypeOK
<1>1. [hs |-> White, v |-> MaxV] \in Asked /\ Black \in HSV /\ Black \in Asked /\ Dark \in Duties
    BY LightAssumption, Ranges DEF Asked
<1>2. 0 \in 0 .. Full /\ 0 \in -1 .. Count /\ 0 \in 0 .. 2 /\ 0 \in 0 .. Count + 1
    BY LightAssumption
<1>3. [p \in Tasks |-> "idle"] \in [Tasks -> Places] /\ 0 \in AnimTypes /\ "STOP" \in AnimationOps
    BY DEF Places, AnimTypes, ANIM_TYPE_FADE, AnimationOps
<1> QED BY <1>1, <1>2, <1>3 DEF Init, TypeOK

(* Whatever levels the commands ask for, the levels the animations work    *)
(* with stay within 0 .. MaxV, and repetition counts within -1 .. Count,   *)
(* however the tasks interleave.                                           *)
THEOREM TypeCorrect == Spec => []TypeOK
BY TypeStart, TypeStep, PTL DEF Spec
-----------------------------------------------------------------------------
(* The semaphore.                                                          *)

(* A task that moves and neither takes nor gives the semaphore leaves it   *)
(* with a holder, unless it leaves its section.                            *)
LEMMA MoveKeepsHolder ==
  ASSUME TypeOK, NoLockLeak, sem' = sem, NEW p \in Tasks, NEW from, NEW to,
         Goto(p, from, to),
         InSection(p) => to \in Section \/ (p = "loop" /\ to = "stoptake")
  PROVE  NoLockLeak'
<1> SUFFICES ASSUME sem = 0
             PROVE  \E q \in Tasks : InSection(q)'
    BY DEF NoLockLeak
<1>1. PICK q \in Tasks : InSection(q)
    BY DEF NoLockLeak
<1>2. CASE q = p
    BY <1>1, <1>2 DEF TypeOK, Goto, InSection
<1>3. CASE q # p
    BY <1>1, <1>3 DEF TypeOK, Goto, InSection
<1> QED
    BY <1>2, <1>3

(* A task that takes the semaphore enters its section or is in it.         *)
LEMMA TakerHolds ==
  ASSUME TypeOK, NEW p \in Tasks, NEW from, NEW to \in Section, Goto(p, from, to)
  PROVE  NoLockLeak'
BY DEF TypeOK, Goto, InSection, NoLockLeak

LEMMA HolderStep == TypeOK /\ NoLockLeak /\ [Next]_vars => NoLockLeak'
<1> SUFFICES ASSUME TypeOK, NoLockLeak, [Next]_vars
             PROVE  NoLockLeak'
    OBVIOUS
<1>a. "loop" \in Tasks /\ "hsv" \in Tasks /\ "anim" \in Tasks
    BY DEF Tasks
<1>b. ASSUME sem' = 1
      PROVE  NoLockLeak'
    BY <1>b DEF NoLockLeak
<1>c. ASSUME UNCHANGED <<sem, pc>>
      PROVE  NoLockLeak'
    BY <1>c DEF NoLockLeak, InSection
<1>1. CASE HsvOff \/ HsvOn \/ HsvSet \/ FadeArrives \/ UNCHANGED vars
    BY <1>1, <1>c DEF HsvOff, HsvOn, HsvSet, FadeArrives, vars, shared
<1>2. CASE HsvBrightRead
    BY <1>2, <1>a, MoveKeepsHolder DEF HsvBrightRead, InSection, Section, Goto, shared
<1>3. CASE HsvBrightSet
    BY <1>3, <1>a, MoveKeepsHolder DEF HsvBrightSet, InSection, Section, Goto
<1>4. CASE AnimReceive
  <2>1. PICK op \in AnimOps : Goto("anim", "idle", IF op = "STOP" THEN "stoptake" ELSE "orig")
      BY <1>4 DEF AnimReceive
  <2>2. ~InSection("anim")
      BY <2>1 DEF Goto, InSection, Section
  <2> QED BY <1>4, <2>1, <2>2, <1>a, MoveKeepsHolder DEF AnimReceive, shared
<1>5. CASE Setup
  <2>1. CASE SetupOrig \/ SetupCur
      BY <2>1, <1>a, MoveKeepsHolder DEF SetupOrig, SetupCur, InSection, Section, Goto
  <2>2. CASE SetupTake
      BY <2>2, <1>a, TakerHolds DEF SetupTake, Section
  <2>3. CASE SetupReg \/ SetupR3
      BY <2>3, <1>a, MoveKeepsHolder DEF SetupReg, SetupR3, Section
  <2>4. CASE SetupGive
      BY <2>4, <1>b DEF SetupGive, Give
  <2> QED BY <1>5, <2>1, <2>2, <2>3, <2>4 DEF Setup
<1>6. ASSUME NEW p \in {"loop", "anim"}, Stop(p)
      PROVE  NoLockLeak'
  <2>a. p \in Tasks
      BY DEF Tasks
  <2>1. CASE StopTake(p)
      BY <2>1, <2>a, TakerHolds DEF StopTake, Section
  <2>2. CASE StopReg(p) \/ StopPwm(p)
      BY <2>2, <2>a, MoveKeepsHolder DEF StopReg, StopPwm, Section
  <2>3. CASE StopGive(p)
      BY <2>3, <1>b DEF StopGive, Give
  <2> QED BY <1>6, <2>1, <2>2, <2>3 DEF Stop
<1>7. CASE Loop
  <2>1. CASE LoopCheck
      BY <2>1, <1>a, MoveKeepsHolder DEF LoopCheck, InSection, Section, Goto, shared
  <2>2. CASE LoopTake
      BY <2>2, <1>a, TakerHolds DEF LoopTake, Section
  <2>3. CASE LoopSwitch
    <3>1. PICK place \in {"fade", "flash", "pulse", "random"} : Goto("loop", "switch", place)
        BY <2>3 DEF LoopSwitch, TypeOK, AnimTypes, ANIM_TYPE_FADE, ANIM_TYPE_FLASH,
                    ANIM_TYPE_PULSE, ANIM_TYPE_RANDOM
    <3> QED BY <2>3, <3>1, <1>a, MoveKeepsHolder DEF LoopSwitch, Section, shared
  <2>4. CASE LoopFade
    <3>1. Goto("loop", "fade", "stoptake") \/ Goto("loop", "fade", "give")
        BY <2>4 DEF LoopFade
    <3> QED BY <2>4, <3>1, <1>a, MoveKeepsHolder DEF LoopFade, Section
  <2>5. CASE LoopFlashTest
    <3>1. Goto("loop", "flashtest", "stoptake") \/ Goto("loop", "flashtest", "give")
        BY <2>5 DEF LoopFlashTest
    <3> QED BY <2>5, <3>1, <1>a, MoveKeepsHolder DEF LoopFlashTest, Section, shared
  <2>6. CASE LoopPulseTest
    <3>1. Goto("loop", "pulsetest", "stoptake") \/ Goto("loop", "pulsetest", "give")
        BY <2>6 DEF LoopPulseTest
    <3> QED BY <2>6, <3>1, <1>a, MoveKeepsHolder DEF LoopPulseTest, Section, shared
  <2>7. CASE LoopFadeFrame \/ LoopFlash \/ LoopFlashCount \/ LoopPulse \/ LoopRandom
      BY <2>7, <1>a, MoveKeepsHolder
         DEF LoopFadeFrame, LoopFlash, LoopFlashCount, LoopPulse, LoopRandom, Section
  <2>8. CASE LoopGive
      BY <2>8, <1>b DEF LoopGive, Give
  <2> QED BY <1>6, <1>7, <2>1, <2>2, <2>3, <2>4, <2>5, <2>6, <2>7, <2>8 DEF Loop
<1> QED
    BY <1>1, <1>2, <1>3, <1>4, <1>5, <1>6, <1>7 DEF Next, Arrives

(* The semaphore is never lost: whenever it is taken, a task is in its     *)
(* section and will give it.                                               *)
THEOREM SemaphoreNotLost == Spec => []NoLockLeak
<1>1. Init => NoLockLeak
    BY DEF Init, NoLockLeak
<1> QED
    BY <1>1, HolderStep, TypeCorrect, PTL DEF Spec

-----------------------------------------------------------------------------
(* Frames after a stop.                                                    *)

(* The loop is on its way to a frame it has not written yet. *)
FrameAhead ==
  \/ pc["loop"] \in {"take", "switch", "fade", "flash", "pulse", "random", "fadeframe"}
  \/ /\ pc["loop"] \in {"stoptake", "stopreg", "stoppwm", "stopgive"}
     /\ ret = "fadeframe"

(* A frame is late only if the loop has no other one to write. *)
LateInv == late \in 0 .. 1 /\ (anim_reg # 0 \/ FrameAhead => late = 0)

LEMMA LateStep == TypeOK /\ LateInv /\ [Next]_vars => LateInv'
<1> SUFFICES ASSUME TypeOK, LateInv, [Next]_vars
             PROVE  LateInv'
    OBVIOUS
<1>a. "loop" \in Tasks /\ "hsv" \in Tasks /\ "anim" \in Tasks
    BY DEF Tasks
<1>b. ASSUME NEW p \in Tasks, NEW from, NEW to, p # "loop", Goto(p, from, to),
             UNCHANGED <<anim_reg, late, ret>>
      PROVE  LateInv'
    BY <1>a, <1>b DEF LateInv, FrameAhead, Goto, TypeOK
<1>1. CASE HsvOff \/ HsvOn \/ HsvSet \/ FadeArrives \/ UNCHANGED vars
    BY <1>1 DEF HsvOff, HsvOn, HsvSet, FadeArrives, vars, shared, locals, history,
                LateInv, FrameAhead
<1>2. CASE HsvBrightRead \/ HsvBrightSet \/ AnimReceive
    BY <1>2, <1>a, <1>b
       DEF HsvBrightRead, HsvBrightSet, AnimReceive, shared, locals, history
<1>3. CASE SetupOrig \/ SetupCur \/ SetupTake \/ SetupR3 \/ SetupGive
    BY <1>3, <1>a, <1>b
       DEF SetupOrig, SetupCur, SetupTake, SetupR3, SetupGive, locals, history
<1>4. CASE SetupReg
    BY <1>4, <1>a DEF SetupReg, LateInv, FrameAhead, Goto, TypeOK, locals
<1>5. CASE Stop("anim")
    BY <1>5, <1>a DEF Stop, StopTake, StopReg, StopPwm, StopGive, locals, history,
                      LateInv, FrameAhead, Goto, TypeOK
<1>6. CASE Stop("loop")
    BY <1>6, <1>a DEF Stop, StopTake, StopReg, StopPwm, StopGive, locals, history,
                      LateInv, FrameAhead, Goto, TypeOK
<1>7. CASE LoopCheck \/ LoopTake \/ LoopGive
    BY <1>7, <1>a DEF LoopCheck, LoopTake, LoopGive, shared, locals, history,
                      LateInv, FrameAhead, Goto, TypeOK
<1>8. CASE LoopSwitch
    BY <1>8, <1>a DEF LoopSwitch, shared, locals, history, LateInv, FrameAhead, Goto, TypeOK
<1>f. ASSUME NEW from, NEW to \in {"flashcount", "pulsetest", "give"},
             Goto("loop", from, to), UNCHANGED <<anim_reg, ret>>,
             late' = IF anim_reg = 0 /\ late < 2 THEN late + 1 ELSE late,
             FrameAhead
      PROVE  LateInv'
    BY <1>a, <1>f DEF LateInv, FrameAhead, Goto, TypeOK
<1>9. CASE LoopFade
  <2>1. UNCHANGED anim_reg
      BY <1>9 DEF LoopFade
  <2>2. \/ Goto("loop", "fade", "stoptake") /\ UNCHANGED late
        \/ \E hsv : Goto("loop", "fade", "give") /\ Frame(hsv, FALSE) /\ UNCHANGED ret
      BY <1>9 DEF LoopFade
  <2>3. CASE Goto("loop", "fade", "stoptake") /\ UNCHANGED late
      BY <2>1, <2>3, <1>a DEF LateInv, FrameAhead, Goto, TypeOK
  <2>4. CASE \E hsv : Goto("loop", "fade", "give") /\ Frame(hsv, FALSE) /\ UNCHANGED ret
    <3>1. /\ Goto("loop", "fade", "give") /\ UNCHANGED ret
          /\ late' = IF anim_reg = 0 /\ late < 2 THEN late + 1 ELSE late
        BY <2>4, Zenon DEF Frame
    <3> QED BY <2>1, <3>1, <1>f DEF FrameAhead, Goto
  <2> QED BY <2>2, <2>3, <2>4
<1>10. CASE LoopFadeFrame \/ LoopFlash \/ LoopRandom \/ LoopPulse
  <2>1. \/ Goto("loop", "fadeframe", "give")
        \/ Goto("loop", "flash", "flashcount")
        \/ Goto("loop", "random", "give")
        \/ Goto("loop", "pulse", "pulsetest")
      BY <1>10 DEF LoopFadeFrame, LoopFlash, LoopRandom, LoopPulse
  <2>2. FrameAhead
      BY <2>1 DEF FrameAhead, Goto
  <2>3. UNCHANGED <<anim_reg, ret>>
      BY <1>10 DEF LoopFadeFrame, LoopFlash, LoopRandom, LoopPulse, locals
  <2>4. late' = IF anim_reg = 0 /\ late < 2 THEN late + 1 ELSE late
    <3>1. ASSUME NEW hsv, NEW fade, Frame(hsv, fade)
          PROVE  late' = IF anim_reg = 0 /\ late < 2 THEN late + 1 ELSE late
        BY <3>1 DEF Frame
    <3>2. CASE LoopFadeFrame
        BY <3>1, <3>2 DEF LoopFadeFrame
    <3>3. CASE LoopFlash
        BY <3>1, <3>3, Zenon DEF LoopFlash
    <3>4. CASE LoopRandom
        BY <3>1, <3>4, Zenon DEF LoopRandom
    <3>5. CASE LoopPulse
        BY <3>1, <3>5, Zenon DEF LoopPulse
    <3> QED BY <1>10, <3>2, <3>3, <3>4, <3>5
  <2> QED BY <1>f, <2>1, <2>2, <2>3, <2>4
<1>11. CASE LoopFlashCount \/ LoopFlashTest \/ LoopPulseTest
    BY <1>11, <1>a DEF LoopFlashCount, LoopFlashTest, LoopPulseTest, shared, history, LateInv,
                       FrameAhead, Goto, TypeOK
<1> QED
    BY <1>1, <1>2, <1>3, <1>4, <1>5, <1>6, <1>7, <1>8, <1>9, <1>10, <1>11
       DEF Next, Arrives, Setup, Loop

(* Whatever the interleaving of a STOP, a new command and the loop, the    *)
(* loop writes at most one frame while no animation is armed.              *)
THEOREM AtMostOneLateFrame == Spec => []StopLatency
<1>1. Init => LateInv
    BY DEF Init, LateInv, FrameAhead, Tasks
<1>2. LateInv => StopLatency
    BY DEF LateInv, StopLatency
<1> QED
    BY <1>1, <1>2, LateStep, TypeCorrect, PTL DEF Spec
-----------------------------------------------------------------------------
(* Commands one by one: a command arrives only when nothing is going on,   *)
(* but for a STOP, which arrives when it likes.                            *)
OneByOne == Settled

(* Whose turn it is.  After a STOP, until nothing goes on, the loop may be *)
(* anywhere.                                                               *)
AnimPlaces == {"idle", "orig", "cur", "settake", "reg", "r3", "setgive",
               "stoptake", "stopreg", "stoppwm", "stopgive"}
LoopTurn ==
  /\ pc["loop"] \notin {"fade", "fadeframe"}
  /\ pc["loop"] \in {"stoptake", "stopreg", "stoppwm", "stopgive"} => ret = "give"
  /\ pc["loop"] \in {"take", "switch", "stoptake", "stopreg"} => anim_reg # 0
  /\ pc["loop"] \in {"flash", "flashcount", "flashtest"} => anim_reg = ANIM_TYPE_FLASH
  /\ pc["loop"] \in {"pulse", "pulsetest"} => anim_reg = ANIM_TYPE_PULSE
  /\ pc["loop"] = "random" => anim_reg = ANIM_TYPE_RANDOM
TurnInv ==
  /\ pc["hsv"] \in {"idle", "bright"}
  /\ pc["hsv"] = "bright" => pc["anim"] = "idle" /\ pc["loop"] = "idle" /\ anim_reg = 0
  /\ pc["anim"] \in AnimPlaces
  /\ pc["anim"] \in {"orig", "cur", "settake", "reg"} => pc["loop"] = "idle" /\ anim_reg = 0
  /\ pc["anim"] \in {"orig", "cur", "settake"} => led = target
  /\ pc["anim"] \in {"orig", "cur", "settake", "reg", "r3", "setgive"} => cmd # "STOP"
  /\ pc["anim"] \in {"stoptake", "stopreg", "stoppwm", "stopgive"} => cmd = "STOP"
  /\ pc["loop"] = "stoppwm" \/ pc["anim"] = "stoppwm" => anim_reg = 0
  /\ cmd # "STOP" => LoopTurn

LEMMA TurnStep ==
  ASSUME OneByOne, TypeOK, TurnInv, [Next]_vars
  PROVE  TurnInv'
<1>a. "loop" \in Tasks /\ "hsv" \in Tasks /\ "anim" \in Tasks /\ pc \in [Tasks -> Places]
    BY DEF Tasks, TypeOK
<1> USE DEF ANIM_TYPE_FADE, ANIM_TYPE_FLASH, ANIM_TYPE_PULSE, ANIM_TYPE_RANDOM
<1>q. MayArrive => /\ pc["loop"] = "idle" /\ pc["hsv"] = "idle" /\ pc["anim"] = "idle"
                   /\ anim_reg = 0 /\ led = target
    BY <1>a DEF MayArrive, Quiet, OneByOne, Tasks
<1>h. StopMayArrive => pc["hsv"] = "idle"
    BY DEF StopMayArrive, OneByOne
<1>1. CASE HsvOff \/ HsvOn \/ HsvSet
    BY <1>1, <1>q DEF HsvOff, HsvOn, HsvSet, HsvCommand, locals, TurnInv, LoopTurn
<1>2. CASE HsvBrightRead \/ HsvBrightSet
    BY <1>2, <1>a, <1>q DEF HsvBrightRead, HsvBrightSet, HsvCommand, shared, lightVars, Goto, TurnInv,
                            LoopTurn
<1>3. CASE AnimReceive
  <2>1. PICK op \in AnimOps :
          /\ MayArrive \/ (op = "STOP" /\ StopMayArrive)
          /\ Goto("anim", "idle", IF op = "STOP" THEN "stoptake" ELSE "orig")
          /\ cmd' = op
      BY <1>3 DEF AnimReceive
  <2>2. /\ pc'["loop"] = pc["loop"] /\ pc'["hsv"] = pc["hsv"] /\ pc["anim"] = "idle"
        /\ pc'["anim"] = IF op = "STOP" THEN "stoptake" ELSE "orig"
      BY <2>1, <1>a DEF Goto
  <2>3. UNCHANGED <<anim_reg, led, target, ret>>
      BY <1>3 DEF AnimReceive, shared, lightVars
  <2>4. CASE op = "STOP"
      BY <2>1, <2>2, <2>3, <2>4, <1>q, <1>h DEF TurnInv, AnimPlaces
  <2>5. CASE op # "STOP"
      BY <2>1, <2>2, <2>3, <2>5, <1>q DEF TurnInv, AnimPlaces, LoopTurn
  <2> QED BY <2>4, <2>5
<1>4. CASE SetupOrig \/ SetupCur
    BY <1>4, <1>a DEF SetupOrig, SetupCur, locals, lightVars, Goto, TurnInv, AnimPlaces, LoopTurn
<1>5. CASE SetupTake \/ SetupGive
    BY <1>5, <1>a DEF SetupTake, SetupGive, locals, lightVars, Goto, TurnInv, AnimPlaces, LoopTurn
<1>6. CASE SetupReg \/ SetupR3
    BY <1>6, <1>a DEF SetupReg, SetupR3, locals, lightVars, Goto, TurnInv, AnimPlaces, LoopTurn
<1>7. CASE Stop("anim")
  <2>1. /\ cmd = "STOP" /\ UNCHANGED <<cmd, pc["loop"], pc["hsv"]>> /\ pc["hsv"] = "idle"
        /\ pc'["anim"] \in {"stopreg", "stoppwm", "stopgive", "idle"}
        /\ pc'["anim"] = "stoppwm" => anim_reg' = 0
        /\ pc["anim"] # "stopreg" => UNCHANGED anim_reg
        /\ pc["anim"] = "stopreg" => anim_reg' = 0
      BY <1>7, <1>a DEF Stop, StopTake, StopReg, StopPwm, StopGive, Goto, TurnInv, AnimPlaces, locals
  <2> QED BY <2>1 DEF TurnInv, AnimPlaces
<1>8. CASE Stop("loop")
  <2>1. UNCHANGED <<cmd, ret, pc["anim"], pc["hsv"]>>
      BY <1>8, <1>a DEF Stop, StopTake, StopReg, StopPwm, StopGive, Goto, locals
  <2>2. /\ pc["loop"] \in {"stoptake", "stopreg", "stoppwm", "stopgive"}
        /\ pc["loop"] = "stoptake" => pc'["loop"] = "stopreg" /\ UNCHANGED anim_reg
        /\ pc["loop"] = "stopreg" => pc'["loop"] = "stoppwm" /\ anim_reg' = 0
        /\ pc["loop"] = "stoppwm" => pc'["loop"] = "stopgive" /\ UNCHANGED anim_reg
        /\ pc["loop"] = "stopgive" => pc'["loop"] = ret /\ UNCHANGED anim_reg
      BY <1>8, <1>a DEF Stop, StopTake, StopReg, StopPwm, StopGive, Goto
  <2>3. ret \in {"give", "fadeframe"}
      BY DEF TypeOK
  <2>4. pc["anim"] \notin {"orig", "cur", "settake", "reg"} /\ pc["hsv"] = "idle"
      BY <2>2 DEF TurnInv
  <2> QED BY <2>1, <2>2, <2>3, <2>4 DEF TurnInv, LoopTurn
<1>9. CASE LoopCheck \/ LoopTake \/ LoopGive
    BY <1>9, <1>a DEF LoopCheck, LoopTake, LoopGive, shared, locals, lightVars, Goto, TurnInv, LoopTurn
<1>11. CASE LoopSwitch
    BY <1>11, <1>a DEF LoopSwitch, TypeOK, AnimTypes, shared, locals, lightVars, Goto, TurnInv, LoopTurn
<1>12. CASE LoopFade \/ LoopFadeFrame
  <2>1. /\ cmd = "STOP" /\ UNCHANGED <<cmd, anim_reg, pc["anim"], pc["hsv"]>>
        /\ pc["loop"] # "idle" /\ pc'["loop"] \in {"stoptake", "give"}
      BY <1>12, <1>a DEF LoopFade, LoopFadeFrame, Goto, TurnInv, LoopTurn, locals
  <2> QED BY <2>1 DEF TurnInv
<1>13. CASE LoopFlash \/ LoopPulse \/ LoopRandom
    BY <1>13, <1>a DEF LoopFlash, LoopPulse, LoopRandom, locals, Goto, TurnInv, LoopTurn
<1>14. CASE LoopFlashCount \/ LoopFlashTest \/ LoopPulseTest
    BY <1>14, <1>a DEF LoopFlashCount, LoopFlashTest, LoopPulseTest, shared, lightVars, Goto, TurnInv,
                       LoopTurn
<1>15. CASE FadeArrives \/ UNCHANGED vars
    BY <1>15 DEF FadeArrives, vars, shared, lightVars, locals, TurnInv, LoopTurn
<1> QED
    BY <1>1, <1>2, <1>3, <1>4, <1>5, <1>6, <1>7, <1>8, <1>9, <1>11, <1>12, <1>13, <1>14,
       <1>15 DEF Next, Arrives, Setup, Loop

(* The light is nobody's but the user's when no animation is armed or has  *)
(* its light still to put back; what is put back is origValue.             *)
Resting == anim_reg = 0 /\ pc["loop"] # "stoppwm" /\ pc["anim"] # "stoppwm"
Armed == \/ anim_reg # 0 \/ pc["loop"] # "idle"
         \/ pc["anim"] \in {"cur", "settake", "reg", "r3", "setgive", "stoppwm"}
Good(duty) == Lit(duty) => Near(duty)
LightInv == ~astray =>
  /\ Good(Shown(hsv_last_value)) \/ pc["anim"] = "stoppwm"
  /\ Resting => Good(target) /\ (Lit(target) => target = Shown(hsv_last_value))
  /\ Armed => Good(Shown(origValue))

(* What is asked for is near itself, and darkness is good. *)
LEMMA AskedIsGood ==
  ASSUME NEW h \in Asked, asked = h, lost \in Nat
  PROVE  Good(Shown(h))
<1>1. Shown(h) \in [LedcChannels -> 0 .. Full]
    BY ConversionAssumption DEF Duties
<1>2. \A c \in LedcChannels : Shown(h)[c] \in Shown(h)[c] - lost .. Shown(h)[c]
    BY <1>1
<1> QED
    BY <1>2 DEF Good, Near

LEMMA DarkIsGood == ~Lit(Dark) /\ Good(Dark)
BY DEF Good, Lit, Dark

(* What the light reads back as, shown, is near it. *)
LEMMA ReadBackIsGood ==
  ASSUME TypeOK, Good(target), led = target, NEW h \in iPwmGetValue,
         target' = target, asked' = asked, lost' = IF lost < Full THEN lost + 1 ELSE lost
  PROVE  /\ Lit(Shown(h)) =>
              \A c \in LedcChannels : Shown(h)[c] \in Shown(asked')[c] - lost' .. Shown(asked')[c]
         /\ Good(target)'
         /\ \A c \in LedcChannels : Shown(h)[c] \in {target[c] - 1, target[c]}
<1>a. /\ target \in [LedcChannels -> 0 .. Full] /\ Shown(asked) \in [LedcChannels -> 0 .. Full]
      /\ lost \in 0 .. Full /\ Full \in Nat
    BY ConversionAssumption, LightAssumption DEF TypeOK, Duties
<1>1. h = ReadBack(target)
  <2>1. PICK d \in UnderWay : h = ReadBack(d)
      BY DEF iPwmGetValue
  <2>2. d = target
    <3>1. d \in [LedcChannels -> 0 .. Full] /\ \A c \in LedcChannels : d[c] \in target[c] .. target[c]
        BY <2>1 DEF UnderWay, Passed, Duties
    <3>2. \A c \in LedcChannels : d[c] = target[c]
        BY <3>1, <1>a
    <3> QED BY <3>1, <3>2, <1>a
  <2> QED BY <2>1, <2>2
<1>2. \A c \in LedcChannels : Shown(h)[c] \in {target[c] - 1, target[c]}
    BY <1>1, ConversionAssumption DEF TypeOK
<1>3. Shown(h) \in [LedcChannels -> 0 .. Full]
    BY ReadType, Ranges, ConversionAssumption DEF Duties
<1>4. ASSUME Lit(target), NEW c \in LedcChannels
      PROVE  /\ Shown(h)[c] \in Shown(asked')[c] - lost' .. Shown(asked')[c]
             /\ target[c] \in Shown(asked')[c] - lost' .. Shown(asked')[c]
  <2>1. target[c] \in Shown(asked)[c] - lost .. Shown(asked)[c]
      BY <1>4 DEF Good, Near
  <2>2. Shown(h)[c] \in {target[c] - 1, target[c]} /\ Shown(h)[c] \in 0 .. Full
      BY <1>2, <1>3
  <2>3. target[c] \in 0 .. Full /\ Shown(asked)[c] \in 0 .. Full
      BY <1>a
  <2>4. lost' = IF lost < Full THEN lost + 1 ELSE lost
      OBVIOUS
  <2>5. Shown(asked') = Shown(asked)
      OBVIOUS
  <2>6. CASE lost < Full
      BY <1>a, <2>1, <2>2, <2>3, <2>4, <2>5, <2>6
  <2>7. CASE ~(lost < Full)
      BY <1>a, <2>1, <2>2, <2>3, <2>4, <2>5, <2>7
  <2> QED BY <2>6, <2>7
<1>5. Lit(Shown(h)) => Lit(target)
    BY <1>2, <1>3, <1>a DEF Lit
<1> QED
    BY <1>2, <1>4, <1>5 DEF Good, Near, Lit

(* A frame is shown without being recorded, and keeps an account of itself *)
(* if it comes late.                                                       *)
LEMMA FrameShown ==
  ASSUME OneByOne, LoopFadeFrame \/ LoopFlash \/ LoopPulse \/ LoopRandom
  PROVE  /\ UNCHANGED <<anim_reg, origValue, hsv_last_value, asked, lost, found, cmd>>
         /\ astray' = (astray \/ anim_reg = 0)
<1>1. \A hsv, fade : Frame(hsv, fade) =>
        hsv_last_value' = hsv_last_value /\ astray' = (astray \/ anim_reg = 0)
  <2>1. Settled
      BY Zenon DEF OneByOne
  <2> QED BY <2>1, Zenon DEF Frame, vPwmSetValueRec
<1>2. CASE LoopFadeFrame
    BY <1>1, <1>2, Zenon DEF LoopFadeFrame, locals
<1>3. CASE LoopFlash
    BY <1>1, <1>3, Zenon DEF LoopFlash, locals
<1>4. CASE LoopPulse
    BY <1>1, <1>4, Zenon DEF LoopPulse
<1>5. CASE LoopRandom
    BY <1>1, <1>5, Zenon DEF LoopRandom, locals
<1> QED
    BY <1>2, <1>3, <1>4, <1>5

(* The steps of the loop that touch no light. *)
LEMMA LoopKeepsLight ==
  ASSUME LoopCheck \/ LoopTake \/ LoopSwitch \/ LoopGive \/ LoopFlashCount \/ LoopFlashTest
         \/ LoopPulseTest
  PROVE  /\ UNCHANGED <<lightVars, hsv_last_value, restored, origValue, anim_reg, cmd>>
         /\ pc["loop"] # "idle" \/ anim_reg # 0
         /\ pc["loop"] # "stoppwm"
<1>1. /\ UNCHANGED <<lightVars, hsv_last_value, restored, origValue, anim_reg, cmd>>
    BY DEF LoopCheck, LoopTake, LoopSwitch, LoopGive, LoopFlashCount, LoopFlashTest, LoopPulseTest,
           shared, locals, history
<1>2. pc["loop"] \in {"take", "switch", "give", "flashcount", "flashtest", "pulsetest"}
      \/ (pc["loop"] = "idle" /\ anim_reg # 0)
    BY DEF LoopCheck, LoopTake, LoopSwitch, LoopGive, LoopFlashCount, LoopFlashTest, LoopPulseTest,
           Goto
<1> QED
    BY <1>1, <1>2

(* Every step of the loop leaves where the other tasks are. *)
LEMMA LoopMoves ==
  ASSUME pc \in [Tasks -> Places], Loop
  PROVE  UNCHANGED <<pc["anim"], pc["hsv"], cmd>>
<1>a. "loop" \in Tasks /\ "hsv" \in Tasks /\ "anim" \in Tasks
    BY DEF Tasks
<1>1. CASE LoopCheck \/ LoopTake \/ LoopSwitch \/ LoopGive
    BY <1>1, <1>a DEF LoopCheck, LoopTake, LoopSwitch, LoopGive, Goto, locals
<1>2. CASE LoopFade \/ LoopFadeFrame \/ LoopFlash \/ LoopPulse \/ LoopRandom
    BY <1>2, <1>a DEF LoopFade, LoopFadeFrame, LoopFlash, LoopPulse, LoopRandom, Goto, locals
<1>3. CASE LoopFlashCount \/ LoopFlashTest \/ LoopPulseTest
    BY <1>3, <1>a DEF LoopFlashCount, LoopFlashTest, LoopPulseTest, Goto
<1>4. CASE Stop("loop")
    BY <1>4, <1>a DEF Stop, StopTake, StopReg, StopPwm, StopGive, Goto, locals
<1> QED
    BY <1>1, <1>2, <1>3, <1>4 DEF Loop

LEMMA LightStep ==
  ASSUME OneByOne, TypeOK, TurnInv, LightInv, [Next]_vars
  PROVE  LightInv'
<1>a. /\ "loop" \in Tasks /\ "hsv" \in Tasks /\ "anim" \in Tasks /\ pc \in [Tasks -> Places]
      /\ TypeOK'
    BY TypeStep DEF Tasks, TypeOK
<1>b. /\ hsv_last_value \in Asked /\ origValue \in Asked /\ hval \in Asked /\ Black \in Asked
      /\ lost \in Nat /\ lost' \in Nat
    BY <1>a, Ranges DEF TypeOK
<1>q. MayArrive => /\ pc["loop"] = "idle" /\ pc["hsv"] = "idle" /\ pc["anim"] = "idle"
                   /\ anim_reg = 0 /\ led = target
    BY <1>a DEF MayArrive, Quiet, OneByOne, Tasks
<1>s. \A h : AsksFor(h) => asked' = h /\ lost' = 0 /\ astray' = FALSE /\ found' = found
  <2>1. Settled
      BY Zenon DEF OneByOne
  <2> QED BY <2>1, Zenon DEF AsksFor
<1>k. ASSUME UNCHANGED <<target, hsv_last_value, asked, lost, astray, origValue>>,
             Resting' => Resting, Armed' => Armed,
             pc["anim"] = "stoppwm" => pc'["anim"] = "stoppwm"
      PROVE  LightInv'
    BY <1>k DEF LightInv, Good, Near
<1>i. pc["loop"] = "idle" /\ pc["anim"] = "idle" /\ anim_reg = 0 => Resting /\ ~Armed
    BY DEF Resting, Armed
<1>j. ASSUME NEW h \in Asked, vPwmSetValue(h), AsksFor(h), pc["loop"] = "idle",
             pc["anim"] = "idle", anim_reg = 0,
             UNCHANGED <<pc["loop"], pc["anim"], anim_reg>>
      PROVE  LightInv'
  <2>1. target' = Shown(h) /\ hsv_last_value' = h /\ asked' = h
      BY <1>j, <1>s, Zenon DEF vPwmSetValue, vPwmSetValueRec
  <2>2. ~Armed'
      BY <1>j DEF Armed
  <2>3. Good(Shown(h))'
      BY <2>1, <1>b, ConversionAssumption DEF Good, Near, Duties
  <2> QED BY <2>1, <2>2, <2>3 DEF LightInv
<1>1. CASE HsvOff \/ HsvOn
  <2>1. /\ pc["loop"] = "idle" /\ pc["anim"] = "idle" /\ anim_reg = 0
        /\ UNCHANGED <<pc, anim_reg, restored>>
      BY <1>1, <1>q DEF HsvOff, HsvOn, HsvCommand, history
  <2>2. hsv_last_value' = hsv_last_value /\ target' \in {Dark, Shown(hsv_last_value)}
      BY <1>1, ConversionAssumption DEF HsvOff, HsvOn, vPwmSetValueRec
  <2>3. ~Armed' /\ Resting
      BY <2>1 DEF Armed, Resting
  <2> QED BY <2>1, <2>2, <2>3, DarkIsGood DEF LightInv, Good, Near, Lit, restored
<1>3. CASE HsvSet
  <2>1. PICK hue \in Hues, level \in SetLevels :
          vPwmSetValue([hs |-> hue, v |-> level]) /\ AsksFor([hs |-> hue, v |-> level])
      BY <1>3 DEF HsvSet
  <2>2. [hs |-> hue, v |-> level] \in Asked
      BY LightAssumption DEF Asked
  <2>3. UNCHANGED <<pc, anim_reg>> /\ MayArrive
      BY <1>3 DEF HsvSet, HsvCommand, locals
  <2> QED BY <2>1, <2>2, <2>3, <1>j, <1>q
<1>4. CASE HsvBrightRead
  <2>1. /\ UNCHANGED <<target, hsv_last_value, asked, lost, astray, origValue, anim_reg>>
        /\ UNCHANGED <<pc["loop"], pc["anim"]>>
      BY <1>4, <1>a DEF HsvBrightRead, shared, lightVars, history, restored, Goto
  <2> QED BY <2>1, <1>k DEF Resting, Armed
<1>5. CASE HsvBrightSet
  <2>1. pc["loop"] = "idle" /\ pc["anim"] = "idle" /\ anim_reg = 0
      BY <1>5 DEF HsvBrightSet, Goto, TurnInv
  <2>2. UNCHANGED <<pc["loop"], pc["anim"], anim_reg>>
      BY <1>5, <1>a DEF HsvBrightSet, Goto
  <2> QED BY <1>5, <2>1, <2>2, <1>b, <1>j DEF HsvBrightSet
<1>6. CASE AnimReceive
  <2>1. pc'["anim"] \in {"orig", "stoptake"} /\ pc'["loop"] = pc["loop"] /\ pc["anim"] = "idle"
      BY <1>6, <1>a DEF AnimReceive, Goto
  <2>2. UNCHANGED <<target, hsv_last_value, asked, lost, astray, origValue, anim_reg>>
      BY <1>6 DEF AnimReceive, shared, lightVars, history, restored
  <2> QED BY <2>1, <2>2, <1>k DEF Resting, Armed
<1>7. CASE SetupOrig
  <2>1. led = target /\ pc["loop"] = "idle" /\ anim_reg = 0 /\ pc["anim"] = "orig"
      BY <1>7 DEF SetupOrig, Goto, TurnInv
  <2>2. /\ origValue' \in iPwmGetValue /\ UNCHANGED <<target, asked, astray, hsv_last_value>>
        /\ lost' = IF lost < Full THEN lost + 1 ELSE lost
    <3>1. Settled
        BY Zenon DEF OneByOne
    <3> QED BY <1>7, <3>1 DEF SetupOrig, lightVars
  <2>3. Resting
      BY <2>1 DEF Resting
  <2>4. ASSUME ~astray
        PROVE  /\ Good(Shown(origValue))' /\ Good(target)'
               /\ Lit(target) => target = Shown(hsv_last_value)
               /\ Good(Shown(hsv_last_value))'
    <3>1. /\ Good(target) /\ Good(Shown(hsv_last_value))
          /\ Lit(target) => target = Shown(hsv_last_value)
        BY <2>4, <2>3, <2>1 DEF LightInv
    <3>2. /\ Good(target)'
          /\ Lit(Shown(origValue')) =>
               \A c \in LedcChannels :
                 Shown(origValue')[c] \in Shown(asked')[c] - lost' .. Shown(asked')[c]
        BY <3>1, <2>1, <2>2, ReadBackIsGood
    <3>3. Good(Shown(hsv_last_value))'
      <4>1. lost' >= lost /\ asked' = asked /\ Shown(asked) \in [LedcChannels -> 0 .. Full]
          BY <2>2, <1>b, LightAssumption, ConversionAssumption DEF TypeOK, Duties
      <4> QED BY <4>1, <3>1, <2>2, <1>b DEF Good, Near
    <3>4. Good(Shown(origValue))'
        BY <3>2 DEF Good, Near, Lit
    <3> QED BY <3>1, <3>2, <3>3, <3>4
  <2> QED BY <2>2, <2>4 DEF LightInv, Lit
<1>8. CASE SetupCur \/ SetupTake \/ SetupR3 \/ SetupGive
  <2>1. /\ UNCHANGED <<target, hsv_last_value, asked, lost, astray, origValue, anim_reg>>
        /\ pc'["loop"] = pc["loop"]
      BY <1>8, <1>a DEF SetupCur, SetupTake, SetupR3, SetupGive, lightVars, history, restored, Goto
  <2>2. /\ pc["anim"] \in {"cur", "settake", "r3", "setgive"} /\ pc'["anim"] # "stoppwm"
      BY <1>8, <1>a DEF SetupCur, SetupTake, SetupR3, SetupGive, Goto
  <2> QED BY <2>1, <2>2, <1>k DEF Resting, Armed
<1>9. CASE SetupReg
  <2>1. pc["anim"] = "reg" /\ anim_reg = 0 /\ pc["loop"] = "idle" /\ pc'["loop"] = "idle"
      BY <1>9, <1>a DEF SetupReg, Goto, TurnInv
  <2>2. UNCHANGED <<target, hsv_last_value, asked, lost, astray, origValue>>
      BY <1>9 DEF SetupReg, lightVars, restored
  <2> QED BY <2>1, <2>2, <1>k DEF Resting, Armed
<1>10. ASSUME NEW p \in {"loop", "anim"}, StopTake(p) \/ StopGive(p)
       PROVE  LightInv'
  <2>1. UNCHANGED <<target, hsv_last_value, asked, lost, astray, origValue, anim_reg>>
      BY <1>10 DEF StopTake, StopGive, lightVars, history, restored
  <2>2. /\ pc[p] \in {"stoptake", "stopgive"} /\ pc'[p] # "stoppwm"
        /\ \A q \in Tasks : q # p => pc'[q] = pc[q]
        /\ p = "anim" => pc'["anim"] \in {"stopreg", "idle"}
      BY <1>10, <1>a DEF StopTake, StopGive, Goto, TypeOK
  <2> QED BY <2>1, <2>2, <1>a, <1>k DEF Resting, Armed
<1>11. ASSUME NEW p \in {"loop", "anim"}, StopReg(p)
       PROVE  LightInv'
  <2>1. /\ pc[p] = "stopreg" /\ pc'[p] = "stoppwm" /\ anim_reg' = 0
        /\ \A q \in Tasks : q # p => pc'[q] = pc[q]
        /\ UNCHANGED <<target, hsv_last_value, origValue>>
        /\ IF p = "anim" /\ anim_reg = 0 THEN AsksFor(origValue) ELSE UNCHANGED restored
      BY <1>11, <1>a DEF StopReg, Goto, lightVars
  <2>2. ~Resting'
      BY <2>1 DEF Resting
  <2>3. CASE p = "anim" /\ anim_reg = 0
    <3>1. asked' = origValue' /\ pc'["anim"] = "stoppwm"
        BY <2>1, <2>3, <1>s
    <3>2. Good(Shown(origValue))'
        BY <3>1, <1>b, <2>1, ConversionAssumption DEF Good, Near, Duties
    <3> QED BY <3>1, <3>2, <2>2 DEF LightInv
  <2>4. CASE ~(p = "anim" /\ anim_reg = 0)
    <3>1. UNCHANGED restored
        BY <2>1, <2>4
    <3>2. Armed
        BY <2>1, <2>4 DEF Armed
    <3> QED BY <2>1, <2>2, <3>1, <3>2, <1>a, <1>k DEF restored
  <2> QED BY <2>3, <2>4
<1>12. ASSUME NEW p \in {"loop", "anim"}, StopPwm(p)
       PROVE  LightInv'
  <2>1. Armed
      BY <1>12 DEF StopPwm, Goto, Armed
  <2>2. /\ target' = Shown(origValue) /\ hsv_last_value' = origValue /\ origValue' = origValue
        /\ UNCHANGED <<asked, lost, astray>>
      BY <1>12 DEF StopPwm, vPwmSetValue, vPwmSetValueRec, history, restored
  <2> QED BY <2>1, <2>2 DEF LightInv, Good, Near
<1>13. CASE LoopCheck \/ LoopTake \/ LoopSwitch \/ LoopGive \/ LoopFlashCount \/ LoopFlashTest
            \/ LoopPulseTest
  <2>1. pc'["anim"] = pc["anim"]
      BY <1>13, <1>a, LoopMoves DEF Loop
  <2>2. /\ UNCHANGED <<target, hsv_last_value, asked, lost, astray, origValue, anim_reg>>
        /\ pc["loop"] # "idle" \/ anim_reg # 0
        /\ pc["loop"] # "stoppwm"
      BY <1>13, LoopKeepsLight DEF lightVars, restored
  <2> QED BY <2>1, <2>2, <1>k DEF Resting, Armed
<1>14. CASE LoopFade /\ UNCHANGED <<lightVars, hsv_last_value, late, astray>>
  <2>1. /\ UNCHANGED <<target, hsv_last_value, asked, lost, astray, origValue, anim_reg>>
        /\ pc["loop"] = "fade"
      BY <1>14 DEF LoopFade, lightVars, Goto
  <2>2. pc'["anim"] = pc["anim"]
      BY <1>14, <1>a, LoopMoves DEF Loop
  <2> QED BY <2>1, <2>2, <1>k DEF Resting, Armed
<1>15. ASSUME UNCHANGED <<anim_reg, origValue, hsv_last_value, asked, lost, found, cmd>>,
              astray' = (astray \/ anim_reg = 0), pc'["anim"] = pc["anim"]
       PROVE  LightInv'
  <2> SUFFICES ASSUME ~astray'
               PROVE  LightInv'
      BY DEF LightInv
  <2>1. ~astray /\ anim_reg # 0
      BY <1>15
  <2>2. ~Resting' /\ Armed
      BY <1>15, <2>1 DEF Resting, Armed
  <2> QED BY <1>15, <2>1, <2>2 DEF LightInv, Good, Near
<1>16. CASE LoopFadeFrame \/ LoopFlash \/ LoopPulse \/ LoopRandom
    BY <1>16, <1>15, <1>a, FrameShown, LoopMoves DEF Loop
<1>17. CASE LoopFade
  <2>1. \/ UNCHANGED <<hsv_last_value, lightVars, late, astray>>
        \/ \E next : Frame(next, FALSE)
      BY <1>17, Zenon DEF LoopFade
  <2>2. \A next : Frame(next, FALSE) => hsv_last_value' = hsv_last_value
                                        /\ astray' = (astray \/ anim_reg = 0)
    <3>1. Settled
        BY Zenon DEF OneByOne
    <3> QED BY <3>1, Zenon DEF Frame, vPwmSetValueRec
  <2>3. UNCHANGED <<anim_reg, origValue, asked, lost, found, cmd>> /\ pc'["anim"] = pc["anim"]
      BY <1>17, <1>a, LoopMoves DEF LoopFade, Loop
  <2> QED BY <1>17, <2>1, <2>2, <2>3, <1>14, <1>15
<1>18. CASE FadeArrives \/ UNCHANGED vars
    BY <1>18, <1>k DEF FadeArrives, vars, shared, lightVars, history, restored, Resting, Armed
<1> QED
    BY <1>1, <1>3, <1>4, <1>5, <1>6, <1>7, <1>8, <1>9, <1>10, <1>11, <1>12, <1>13, <1>16, <1>17,
       <1>18 DEF Next, Arrives, Setup, Loop, Stop

(* While an animation plays, what it puts back is the light it found, or   *)
(* one level darker, and so is the light whenever it rests.                *)
LessOne(duty) == \A c \in LedcChannels : duty[c] \in {found[c] - 1, found[c]}
SteadyInv == captured /\ cmd # "STOP" =>
  /\ LessOne(Shown(origValue))
  /\ Resting => LessOne(target)

LEMMA SteadyStep ==
  ASSUME OneByOne, TypeOK, TurnInv, LightInv, SteadyInv, [Next]_vars
  PROVE  SteadyInv'
<1>a. /\ "loop" \in Tasks /\ "hsv" \in Tasks /\ "anim" \in Tasks /\ pc \in [Tasks -> Places]
    BY DEF Tasks, TypeOK
<1> USE DEF ANIM_TYPE_FADE, ANIM_TYPE_FLASH, ANIM_TYPE_PULSE, ANIM_TYPE_RANDOM
<1>q. MayArrive => /\ pc["loop"] = "idle" /\ pc["hsv"] = "idle" /\ pc["anim"] = "idle"
                   /\ anim_reg = 0 /\ led = target
    BY <1>a DEF MayArrive, Quiet, OneByOne, Tasks
<1>k. ASSUME UNCHANGED <<origValue, found, cmd>>, captured' => captured,
             Resting' => Resting /\ UNCHANGED target
      PROVE  SteadyInv'
    BY <1>k DEF SteadyInv, LessOne
<1>i. ASSUME pc["loop"] = "idle", pc["anim"] = "idle", anim_reg = 0,
             UNCHANGED <<pc["loop"], pc["anim"], anim_reg>>
      PROVE  SteadyInv'
    BY <1>i DEF SteadyInv, captured, playing
<1>1. CASE HsvOff \/ HsvOn \/ HsvSet
    BY <1>1, <1>q, <1>i DEF HsvOff, HsvOn, HsvSet, HsvCommand, locals
<1>2. CASE HsvBrightRead \/ HsvBrightSet
  <2>1. pc["loop"] = "idle" /\ pc["anim"] = "idle" /\ anim_reg = 0
      BY <1>2, <1>q DEF HsvBrightRead, HsvBrightSet, HsvCommand, Goto, TurnInv
  <2>2. UNCHANGED <<pc["loop"], pc["anim"], anim_reg>>
      BY <1>2, <1>a DEF HsvBrightRead, HsvBrightSet, shared, Goto
  <2> QED BY <2>1, <2>2, <1>i
<1>3. CASE AnimReceive
  <2>1. PICK op \in AnimOps :
          Goto("anim", "idle", IF op = "STOP" THEN "stoptake" ELSE "orig") /\ cmd' = op
      BY <1>3 DEF AnimReceive
  <2>2. op = "STOP" \/ pc'["anim"] = "orig"
      BY <2>1, <1>a DEF Goto
  <2> QED BY <2>1, <2>2 DEF SteadyInv, captured
<1>4. CASE SetupOrig
  <2>1. led = target /\ pc["loop"] = "idle" /\ anim_reg = 0 /\ pc["anim"] = "orig"
      BY <1>4 DEF SetupOrig, Goto, TurnInv
  <2>2. origValue' \in iPwmGetValue /\ target' = target
      BY <1>4 DEF SetupOrig, lightVars
  <2>3. found' = target
    <3>1. Settled
        BY Zenon DEF OneByOne
    <3> QED BY <1>4, <3>1, Zenon DEF SetupOrig
  <2>4. origValue' = ReadBack(target)
    <3>1. PICK d \in UnderWay : origValue' = ReadBack(d)
        BY <2>2 DEF iPwmGetValue
    <3>2. target \in [LedcChannels -> 0 .. Full]
        BY DEF TypeOK, Duties
    <3>3. d \in [LedcChannels -> 0 .. Full] /\ \A c \in LedcChannels : d[c] \in target[c] .. target[c]
        BY <3>1, <2>1 DEF UnderWay, Passed, Duties
    <3>4. \A c \in LedcChannels : d[c] = target[c]
        BY <3>3, <3>2
    <3>5. d = target
        BY <3>2, <3>3, <3>4
    <3> QED BY <3>1, <3>5
  <2>5. \A c \in LedcChannels : Shown(origValue')[c] \in {target[c] - 1, target[c]}
      BY <2>4, ConversionAssumption DEF TypeOK
  <2> QED BY <2>2, <2>3, <2>5 DEF SteadyInv, LessOne
<1>5. CASE SetupCur \/ SetupTake \/ SetupReg \/ SetupR3 \/ SetupGive
  <2>1. UNCHANGED <<origValue, found, cmd, target, pc["loop"]>>
      BY <1>5, <1>a DEF SetupCur, SetupTake, SetupReg, SetupR3, SetupGive, locals, lightVars, history,
                        restored, Goto
  <2>2. pc["anim"] \in {"cur", "settake", "reg", "r3", "setgive"}
      BY <1>5 DEF SetupCur, SetupTake, SetupReg, SetupR3, SetupGive, Goto
  <2>3. SetupReg => Resting
      BY DEF SetupReg, Goto, TurnInv, Resting
  <2>4. ~SetupReg => anim_reg' = anim_reg
      BY <1>5 DEF SetupCur, SetupTake, SetupR3, SetupGive
  <2> QED BY <2>1, <2>2, <2>3, <2>4, <1>k DEF captured, playing, Resting
<1>6. CASE Stop("anim")
  <2>1. cmd' = "STOP"
      BY <1>6 DEF Stop, StopTake, StopReg, StopPwm, StopGive, Goto, TurnInv, locals
  <2> QED BY <2>1 DEF SteadyInv
<1>7. CASE Stop("loop")
  <2>1. UNCHANGED <<origValue, found, cmd, pc["anim"]>>
    <3>1. StopReg("loop") => found' = found
        BY DEF StopReg, restored
    <3>2. UNCHANGED <<cmd, pc["anim"]>>
        BY <1>7, <1>a, LoopMoves DEF Loop
    <3> QED BY <1>7, <3>1, <3>2 DEF Stop, StopTake, StopReg, StopPwm, StopGive, history, restored
  <2>2. pc["loop"] # "idle" /\ pc["anim"] # "orig"
      BY <1>7 DEF Stop, StopTake, StopReg, StopPwm, StopGive, Goto, TurnInv
  <2>3. captured
      BY <2>2 DEF captured, playing
  <2>4. CASE StopPwm("loop")
    <3>1. target' = Shown(origValue)
        BY <2>4 DEF StopPwm, vPwmSetValue, vPwmSetValueRec
    <3> QED BY <2>1, <2>3, <3>1 DEF SteadyInv, LessOne
  <2>5. CASE StopReg("loop")
    <3>1. ~Resting'
        BY <2>5, <1>a DEF StopReg, Goto, Resting
    <3> QED BY <2>1, <2>3, <3>1, <1>k
  <2>6. CASE StopTake("loop") \/ StopGive("loop")
    <3>1. UNCHANGED <<target, anim_reg>> /\ pc["loop"] # "stoppwm"
        BY <2>6 DEF StopTake, StopGive, lightVars, Goto
    <3> QED BY <2>1, <2>3, <3>1, <1>k DEF Resting
  <2> QED BY <1>7, <2>4, <2>5, <2>6 DEF Stop
<1>8. CASE LoopCheck \/ LoopTake \/ LoopSwitch \/ LoopGive \/ LoopFlashCount \/ LoopFlashTest
           \/ LoopPulseTest
  <2>1. pc'["anim"] = pc["anim"]
      BY <1>8, <1>a, LoopMoves DEF Loop
  <2>2. /\ UNCHANGED <<target, origValue, found, cmd, anim_reg>>
        /\ pc["loop"] # "idle" \/ anim_reg # 0
        /\ pc["loop"] # "stoppwm"
      BY <1>8, LoopKeepsLight DEF lightVars, restored
  <2> QED BY <2>1, <2>2, <1>k DEF captured, playing, Resting
<1>9. CASE LoopFade
  <2>1. cmd' = "STOP"
      BY <1>9 DEF LoopFade, Goto, TurnInv, LoopTurn
  <2> QED BY <2>1 DEF SteadyInv
<1>10. CASE LoopFadeFrame \/ LoopFlash \/ LoopPulse \/ LoopRandom
  <2>1. /\ UNCHANGED <<anim_reg, origValue, found, cmd>> /\ pc'["anim"] = pc["anim"]
      BY <1>10, <1>a, FrameShown, LoopMoves DEF Loop
  <2>2. pc["loop"] \in {"fadeframe", "flash", "pulse", "random"}
      BY <1>10 DEF LoopFadeFrame, LoopFlash, LoopPulse, LoopRandom, Goto
  <2>3. CASE cmd = "STOP"
      BY <2>1, <2>3 DEF SteadyInv
  <2>4. CASE cmd # "STOP"
    <3>1. anim_reg # 0
        BY <2>2, <2>4 DEF TurnInv, LoopTurn
    <3> QED BY <2>1, <3>1, <1>k DEF Resting, captured, playing
  <2> QED BY <2>3, <2>4
<1>11. CASE FadeArrives \/ UNCHANGED vars
    BY <1>11, <1>k DEF FadeArrives, vars, shared, lightVars, locals, history, restored, Resting,
                       captured, playing
<1> QED
    BY <1>1, <1>2, <1>3, <1>4, <1>5, <1>6, <1>7, <1>8, <1>9, <1>10, <1>11
       DEF Next, Arrives, Setup, Loop

OneByOneInv == TypeOK /\ TurnInv /\ LightInv /\ SteadyInv

LEMMA OneByOneStep ==
  ASSUME OneByOne, OneByOneInv, [Next]_vars
  PROVE  OneByOneInv'
BY TypeStep, TurnStep, LightStep, SteadyStep DEF OneByOneInv

LEMMA OneByOneStart == Init => OneByOneInv
<1> SUFFICES ASSUME Init
             PROVE  OneByOneInv
    OBVIOUS
<1>1. TypeOK
    BY TypeStart
<1>2. \A p \in {"loop", "hsv", "anim"} : pc[p] = "idle"
    BY DEF Init, Tasks
<1>3. TurnInv
    BY <1>2 DEF Init, TurnInv, LoopTurn, AnimPlaces
<1>4. LightInv
  <2>1. Good(Shown(hsv_last_value))
      BY <1>1, AskedIsGood DEF Init, TypeOK
  <2> QED BY <1>2, <2>1, DarkIsGood DEF Init, LightInv, Armed
<1>5. SteadyInv
    BY <1>2 DEF Init, SteadyInv
<1> QED
    BY <1>1, <1>3, <1>4, <1>5 DEF OneByOneInv

LEMMA AlwaysOneByOne == ASSUME OneByOne PROVE Spec => []OneByOneInv
BY OneByOneStart, OneByOneStep, PTL DEF Spec

(* Whatever commands, animations and STOPs have come and gone one by one,  *)
(* a light that is on is the one asked for last, but for a level per       *)
(* channel and read-back, and it is what ON would show; unless a STOP let  *)
(* a frame come late (light_controller.c:78-110, animation.c:136-151).     *)
THEOREM LightIsAsked == ASSUME OneByOne PROVE Spec => []LitIsAsked
<1>1. OneByOneInv => LitIsAsked
    BY DEF OneByOneInv, LightInv, LitIsAsked, Quiet, Resting, Good, Tasks
<1> QED
    BY <1>1, AlwaysOneByOne, PTL

-----------------------------------------------------------------------------
(* Without a STOP, and with a loop that waits for the semaphore for as     *)
(* long as another task has it, a FLASH is exact.                          *)
Uninterrupted == OneByOne /\ "loop" \notin Hurried /\ "STOP" \notin AnimOps

(* A command and the loop take turns. *)
AloneInv ==
  /\ cmd = "STOP" => pc["anim"] = "idle" /\ pc["loop"] = "idle" /\ anim_reg = 0
  /\ pc["anim"] \in {"reg", "r3", "setgive"} => sem = 0 /\ pc["loop"] \in {"idle", "take"}
  /\ pc["loop"] \in {"stoppwm", "stopgive"} => anim_reg = 0

LEMMA AloneStep ==
  ASSUME Uninterrupted, TypeOK, TurnInv, AloneInv, [Next]_vars
  PROVE  AloneInv'
<1>a. "loop" \in Tasks /\ "hsv" \in Tasks /\ "anim" \in Tasks /\ pc \in [Tasks -> Places]
    BY DEF Tasks, TypeOK
<1>1. CASE HsvOff \/ HsvOn \/ HsvSet
    BY <1>1 DEF HsvOff, HsvOn, HsvSet, locals, AloneInv
<1>2. CASE HsvBrightRead \/ HsvBrightSet
    BY <1>2, <1>a DEF HsvBrightRead, HsvBrightSet, shared, Goto, AloneInv
<1>3. CASE AnimReceive
  <2>1. PICK op \in AnimOps :
          Goto("anim", "idle", IF op = "STOP" THEN "stoptake" ELSE "orig") /\ cmd' = op
      BY <1>3 DEF AnimReceive
  <2>2. cmd' # "STOP" /\ pc'["anim"] = "orig" /\ pc'["loop"] = pc["loop"]
      BY <2>1, <1>a DEF Goto, Uninterrupted
  <2> QED BY <1>3, <2>2 DEF AloneInv, AnimReceive, shared
<1>4. CASE Setup
  <2>1. /\ cmd' = cmd /\ cmd # "STOP" /\ pc'["loop"] = pc["loop"]
      BY <1>4, <1>a DEF Setup, SetupOrig, SetupCur, SetupTake, SetupReg, SetupR3, SetupGive, locals,
                        Goto, TurnInv
  <2>2. pc'["anim"] \in {"reg", "r3", "setgive"} => sem' = 0 /\ pc["loop"] \in {"idle", "take"}
      BY <1>4, <1>a DEF Setup, SetupOrig, SetupCur, SetupTake, SetupReg, SetupR3, SetupGive, Take,
                        Goto, TurnInv, AloneInv
  <2>3. pc["loop"] \in {"stoppwm", "stopgive"} => anim_reg' = anim_reg
      BY <1>4 DEF Setup, SetupOrig, SetupCur, SetupTake, SetupReg, SetupR3, SetupGive, Goto, AloneInv
  <2> QED BY <2>1, <2>2, <2>3 DEF AloneInv
<1>5. CASE Stop("anim")
    BY <1>5 DEF Stop, StopTake, StopReg, StopPwm, StopGive, Goto, TurnInv, AloneInv
<1>6. CASE Loop
  <2>1. cmd' = cmd /\ pc'["anim"] = pc["anim"]
      BY <1>6, <1>a, LoopMoves
  <2>2. pc["loop"] # "idle" \/ anim_reg # 0
      BY <1>6 DEF Loop, LoopCheck, LoopTake, LoopSwitch, LoopGive, LoopFade, LoopFadeFrame, LoopFlash,
                  LoopFlashCount, LoopFlashTest, LoopPulse, LoopPulseTest, LoopRandom, Stop, StopTake,
                  StopReg, StopPwm, StopGive, Goto
  <2>3. cmd # "STOP"
      BY <2>2 DEF AloneInv
  <2>4. ASSUME pc["anim"] \in {"reg", "r3", "setgive"}
        PROVE  LoopCheck
    <3>1. pc["loop"] \in {"idle", "take"} /\ sem = 0 /\ InSection("anim")
        BY <2>4 DEF AloneInv, InSection, Section
    <3>2. ~LoopTake
        BY <3>1, <1>a DEF LoopTake, Take, Uninterrupted
    <3> QED BY <1>6, <3>1, <3>2
          DEF Loop, LoopSwitch, LoopGive, LoopFade, LoopFadeFrame, LoopFlash,
                  LoopFlashCount, LoopFlashTest, LoopPulse, LoopPulseTest, LoopRandom, Stop, StopTake,
                  StopReg, StopPwm, StopGive, Goto
  <2>5. LoopCheck => pc'["loop"] = "take" /\ sem' = sem
      BY <1>a DEF LoopCheck, shared, Goto
  <2>6. pc'["loop"] \in {"stoppwm", "stopgive"} => anim_reg' = 0
    <3>1. CASE Stop("loop")
        BY <3>1, <1>a, <2>3 DEF Stop, StopTake, StopReg, StopPwm, StopGive, Goto, AloneInv, TurnInv,
                                LoopTurn
    <3>2. CASE ~Stop("loop")
        BY <1>6, <3>2, <1>a DEF Loop, LoopCheck, LoopTake, LoopSwitch, LoopGive, LoopFade,
                  LoopFadeFrame, LoopFlash, LoopFlashCount, LoopFlashTest, LoopPulse, LoopPulseTest,
                  LoopRandom, Goto, TypeOK, AnimTypes, ANIM_TYPE_FADE, ANIM_TYPE_FLASH,
                  ANIM_TYPE_PULSE, ANIM_TYPE_RANDOM
    <3> QED BY <3>1, <3>2
  <2> QED BY <2>1, <2>3, <2>4, <2>5, <2>6 DEF AloneInv
<1>7. CASE FadeArrives \/ UNCHANGED vars
    BY <1>7 DEF FadeArrives, vars, shared, locals, AloneInv
<1> QED
    BY <1>1, <1>2, <1>3, <1>4, <1>5, <1>6, <1>7 DEF Next, Arrives

(* While a FLASH is armed, the repetitions left and the dark frames shown  *)
(* make up Count, with one more while a dark frame waits for its light one.*)
Left(n) == R3 > 0 /\ R3 + offs = n
FlashInv ==
  /\ anim_reg # ANIM_TYPE_FLASH => flash_on
  /\ pc["anim"] = "r3" => anim_reg = TypeOf(cmd) /\ offs = 0 /\ flash_on
  /\ anim_reg = ANIM_TYPE_FLASH /\ pc["anim"] # "r3" =>
       /\ pc["loop"] \in {"idle", "take", "switch", "flash", "give"} =>
            Left(IF flash_on THEN Count ELSE Count + 1)
       /\ pc["loop"] = "flashcount" => Left(Count + 1)
       /\ pc["loop"] = "flashtest" =>
            IF flash_on THEN R3 >= 0 /\ R3 + offs = Count ELSE Left(Count + 1)
       /\ pc["loop"] \in {"stoptake", "stopreg"} => offs = Count /\ flash_on

LEMMA FlashStep ==
  ASSUME Uninterrupted, TypeOK, TurnInv, AloneInv, FlashInv, [Next]_vars
  PROVE  FlashInv'
<1>a. /\ "loop" \in Tasks /\ "hsv" \in Tasks /\ "anim" \in Tasks /\ pc \in [Tasks -> Places]
      /\ R3 \in Int /\ offs \in Nat /\ Count \in Nat \ {0} /\ flash_on \in BOOLEAN
    BY LightAssumption DEF Tasks, TypeOK
<1> USE DEF ANIM_TYPE_FADE, ANIM_TYPE_FLASH, ANIM_TYPE_PULSE, ANIM_TYPE_RANDOM
<1>k. ASSUME UNCHANGED <<anim_reg, R3, offs, flash_on, pc["loop"]>>,
             pc["anim"] = "r3" => UNCHANGED cmd,
             pc'["anim"] = "r3" <=> pc["anim"] = "r3"
      PROVE  FlashInv'
    BY <1>k DEF FlashInv, Left
<1>1. CASE HsvOff \/ HsvOn \/ HsvSet \/ FadeArrives \/ UNCHANGED vars
    BY <1>1, <1>k DEF HsvOff, HsvOn, HsvSet, FadeArrives, vars, shared, locals, history
<1>2. CASE HsvBrightRead \/ HsvBrightSet
    BY <1>2, <1>a, <1>k DEF HsvBrightRead, HsvBrightSet, shared, history, Goto
<1>3. CASE AnimReceive
  <2>1. pc["anim"] = "idle" /\ pc'["anim"] \in {"orig", "stoptake"} /\ pc'["loop"] = pc["loop"]
      BY <1>3, <1>a DEF AnimReceive, Goto
  <2> QED BY <1>3, <2>1, <1>k DEF AnimReceive, shared, history
<1>4. CASE SetupOrig \/ SetupCur \/ SetupTake \/ SetupGive
    BY <1>4, <1>a, <1>k DEF SetupOrig, SetupCur, SetupTake, SetupGive, locals, history, Goto
<1>5. CASE SetupReg
  <2>1. /\ anim_reg = 0 /\ offs' = (IF flash_on THEN 0 ELSE 1)
        /\ UNCHANGED <<flash_on, cmd>> /\ pc'["anim"] = "r3" /\ anim_reg' = TypeOf(cmd)
      BY <1>5, <1>a DEF SetupReg, locals, Goto, TurnInv
  <2>2. flash_on /\ offs' = 0
      BY <2>1 DEF FlashInv
  <2> QED BY <2>1, <2>2 DEF FlashInv, TypeOf
<1>6. CASE SetupR3
  <2>1. /\ pc["anim"] = "r3" /\ pc'["anim"] = "setgive" /\ pc'["loop"] = pc["loop"]
        /\ pc["loop"] \in {"idle", "take"}
        /\ UNCHANGED <<anim_reg, offs, flash_on>> /\ R3' = RepeatsOf(cmd)
      BY <1>6, <1>a DEF SetupR3, locals, history, Goto, AloneInv
  <2>2. anim_reg = ANIM_TYPE_FLASH => R3' = Count
      BY <2>1 DEF RepeatsOf, TypeOf, FlashInv, TypeOK, AnimationOps
  <2> QED BY <1>a, <2>1, <2>2 DEF FlashInv, Left
<1>7. CASE Stop("anim")
    BY <1>7 DEF Stop, StopTake, StopReg, StopPwm, StopGive, Goto, TurnInv, AloneInv
<1>c. Loop => UNCHANGED <<cmd, pc["anim"]>>
    BY <1>a, LoopMoves
<1>d. pc["loop"] # "idle" => cmd # "STOP" /\ LoopTurn
    BY DEF AloneInv, TurnInv
<1>e. pc["anim"] = "r3" => pc["loop"] \in {"idle", "take"}
    BY DEF AloneInv
<1>8. CASE Stop("loop")
  <2>1. /\ UNCHANGED <<R3, offs, flash_on, cmd>> /\ pc'["anim"] = pc["anim"]
      BY <1>8, <1>c DEF Loop, Stop, StopTake, StopReg, StopPwm, StopGive, locals, history
  <2>2. CASE StopTake("loop")
      BY <2>1, <2>2, <1>a DEF StopTake, Goto, FlashInv
  <2>3. CASE StopReg("loop")
    <3>1. pc["loop"] = "stopreg" /\ anim_reg' = 0 /\ pc["anim"] # "r3"
        BY <2>3, <1>e DEF StopReg, Goto
    <3>2. flash_on
        BY <3>1 DEF FlashInv
    <3> QED BY <2>1, <3>1, <3>2 DEF FlashInv
  <2>4. CASE StopPwm("loop")
    <3>1. anim_reg = 0 /\ anim_reg' = anim_reg /\ pc["anim"] # "r3"
        BY <2>4, <1>e DEF StopPwm, Goto, TurnInv
    <3> QED BY <2>1, <3>1 DEF FlashInv
  <2>5. CASE StopGive("loop")
    <3>1. pc["loop"] = "stopgive" /\ pc'["loop"] = "give" /\ anim_reg' = anim_reg /\ pc["anim"] # "r3"
        BY <2>5, <1>a, <1>d, <1>e DEF StopGive, Goto, LoopTurn
    <3>2. anim_reg = 0
        BY <3>1 DEF AloneInv
    <3> QED BY <2>1, <3>1, <3>2 DEF FlashInv
  <2> QED BY <1>8, <2>2, <2>3, <2>4, <2>5 DEF Stop
<1>9. CASE LoopCheck \/ LoopTake \/ LoopGive \/ LoopSwitch
  <2>1. /\ UNCHANGED <<anim_reg, R3, offs, flash_on, cmd>> /\ pc'["anim"] = pc["anim"]
      BY <1>9, <1>c DEF Loop, LoopCheck, LoopTake, LoopGive, LoopSwitch, shared, locals, history
  <2>2. /\ pc["loop"] \in {"idle", "take", "give", "switch"}
        /\ anim_reg = ANIM_TYPE_FLASH => pc'["loop"] \in {"take", "switch", "idle", "flash"}
      BY <1>9, <1>a DEF LoopCheck, LoopTake, LoopGive, LoopSwitch, Goto
  <2> QED BY <2>1, <2>2 DEF FlashInv, Left
<1>10. CASE LoopFade \/ LoopFadeFrame
    BY <1>10, <1>d DEF LoopFade, LoopFadeFrame, Goto, LoopTurn
<1>11. CASE LoopFlash
  <2>1. /\ pc["loop"] = "flash" /\ pc'["loop"] = "flashcount" /\ pc'["anim"] = pc["anim"]
        /\ anim_reg = ANIM_TYPE_FLASH /\ pc["anim"] # "r3"
        /\ UNCHANGED <<anim_reg, R3, flash_on>>
        /\ offs' = IF flash_on /\ offs <= Count THEN offs + 1 ELSE offs
      BY <1>11, <1>a, <1>c, <1>d, <1>e DEF Loop, LoopFlash, locals, Goto, LoopTurn
  <2> QED BY <2>1, <1>a DEF FlashInv, Left
<1>12. CASE LoopPulse \/ LoopRandom
  <2>1. /\ anim_reg # ANIM_TYPE_FLASH /\ UNCHANGED <<anim_reg, flash_on, offs>>
        /\ pc["anim"] # "r3" /\ pc'["anim"] = pc["anim"]
    <3>1. /\ UNCHANGED <<anim_reg, flash_on, offs>>
          /\ \E from \in {"pulse", "random"} : \E to : Goto("loop", from, to)
        BY <1>12, Zenon DEF LoopPulse, LoopRandom, locals
    <3>2. pc["loop"] \in {"pulse", "random"} /\ pc'["anim"] = pc["anim"]
        BY <3>1, <1>a DEF Goto
    <3> QED BY <3>1, <3>2, <1>d, <1>e DEF LoopTurn
  <2> QED BY <2>1 DEF FlashInv
<1>13. CASE LoopFlashCount
  <2>1. /\ pc["loop"] = "flashcount" /\ pc'["loop"] = "flashtest"
        /\ pc["anim"] # "r3" /\ pc'["anim"] = pc["anim"]
        /\ anim_reg = ANIM_TYPE_FLASH /\ UNCHANGED <<anim_reg, offs>>
        /\ R3' = (IF flash_on THEN R3 ELSE Spent(R3)) /\ flash_on' = ~flash_on
      BY <1>13, <1>a, <1>c, <1>d, <1>e DEF Loop, LoopFlashCount, history, Goto, LoopTurn
  <2>2. R3 > 0 /\ R3 + offs = Count + 1 /\ Spent(R3) = R3 - 1
      BY <2>1 DEF FlashInv, Left, Spent
  <2>3. CASE flash_on
    <3>1. R3' = R3 /\ ~flash_on'
        BY <2>1, <2>3
    <3> QED BY <2>1, <2>2, <3>1, <1>a DEF FlashInv, Left
  <2>4. CASE ~flash_on
    <3>1. R3' = R3 - 1 /\ flash_on'
        BY <2>1, <2>2, <2>4
    <3> QED BY <2>1, <2>2, <3>1, <1>a DEF FlashInv, Left
  <2> QED BY <2>3, <2>4
<1>14. CASE LoopFlashTest
  <2>1. /\ pc["loop"] = "flashtest" /\ pc["anim"] # "r3" /\ pc'["anim"] = pc["anim"]
        /\ anim_reg = ANIM_TYPE_FLASH /\ UNCHANGED <<anim_reg, offs, R3>>
        /\ IF R3 = 0 THEN pc'["loop"] = "stoptake" /\ flash_on' = TRUE
                     ELSE pc'["loop"] = "give" /\ flash_on' = flash_on
      BY <1>14, <1>a, <1>c, <1>d, <1>e DEF Loop, LoopFlashTest, shared, history, Goto, LoopTurn
  <2>2. IF flash_on THEN R3 >= 0 /\ R3 + offs = Count ELSE Left(Count + 1)
      BY <2>1 DEF FlashInv
  <2>3. CASE R3 = 0
    <3>1. pc'["loop"] = "stoptake" /\ flash_on'
        BY <2>1, <2>3
    <3>2. offs = Count
        BY <2>2, <2>3, <1>a DEF Left
    <3> QED BY <2>1, <3>1, <3>2 DEF FlashInv
  <2>4. CASE R3 # 0
    <3>1. pc'["loop"] = "give" /\ flash_on' = flash_on
        BY <2>1, <2>4
    <3>2. CASE flash_on
        BY <2>1, <2>2, <2>4, <3>1, <3>2, <1>a DEF FlashInv, Left
    <3>3. CASE ~flash_on
        BY <2>1, <2>2, <3>1, <3>3, <1>a DEF FlashInv, Left
    <3> QED BY <3>2, <3>3
  <2> QED BY <2>3, <2>4
<1>15. CASE LoopPulseTest
  <2>1. /\ anim_reg # ANIM_TYPE_FLASH /\ UNCHANGED <<anim_reg, flash_on, offs>>
        /\ pc["anim"] # "r3" /\ pc'["anim"] = pc["anim"]
      BY <1>15, <1>c, <1>d, <1>e DEF Loop, LoopPulseTest, shared, history, Goto, LoopTurn
  <2> QED BY <2>1 DEF FlashInv
<1> QED
    BY <1>1, <1>2, <1>3, <1>4, <1>5, <1>6, <1>7, <1>8, <1>9, <1>10, <1>11, <1>12, <1>13,
       <1>14, <1>15 DEF Next, Arrives, Setup, Loop

FlashesInv == OneByOneInv /\ AloneInv /\ FlashInv

LEMMA AlwaysFlashes == ASSUME Uninterrupted PROVE Spec => []FlashesInv
<1>1. Init => FlashesInv
  <2> SUFFICES ASSUME Init
               PROVE  AloneInv /\ FlashInv
      BY OneByOneStart DEF FlashesInv
  <2>1. \A p \in {"loop", "hsv", "anim"} : pc[p] = "idle"
      BY DEF Init, Tasks
  <2> QED BY <2>1 DEF Init, AloneInv, FlashInv, ANIM_TYPE_FLASH
<1>2. FlashesInv /\ [Next]_vars => FlashesInv'
  <2>1. OneByOne
      BY Zenon DEF Uninterrupted
  <2> QED BY <2>1, OneByOneStep, AloneStep, FlashStep DEF FlashesInv, OneByOneInv
<1> QED
    BY <1>1, <1>2, PTL DEF Spec

(* A FLASH is dark exactly Count times before vAnimationStop, for any      *)
(* number of repetitions and whatever flash_on was left at                 *)
(* (animation.c:64-82), if commands come one by one and none is a STOP.    *)
THEOREM DarkExactly == ASSUME Uninterrupted PROVE Spec => []ExactFlashes
<1>1. FlashesInv => ExactFlashes
  <2> SUFFICES ASSUME FlashesInv, pc["loop"] = "stoptake", anim_reg = ANIM_TYPE_FLASH
               PROVE  offs = Count
      BY DEF ExactFlashes
  <2>1. pc["anim"] # "r3"
      BY DEF FlashesInv, AloneInv
  <2> QED BY <2>1 DEF FlashesInv, FlashInv
<1> QED
    BY <1>1, AlwaysFlashes, PTL

-----------------------------------------------------------------------------
(* The node implements SteadyLight.                                        *)

(* What SteadyLight calls the light and the phase. *)
Light == IF captured THEN found ELSE target
Phase == IF ~playing THEN "quiet" ELSE IF cmd = "STOP" THEN "stopping" ELSE "playing"

(* A step of the node is a step of SteadyLight, or changes nothing of it. *)
LEMMA Stutter ==
  ASSUME Phase' = Phase, Light' = Light
  PROVE  [Steady!Next]_(Steady!vars)
BY DEF Steady!vars, Light, Phase

LEMMA ALightCommand ==
  ASSUME ~playing, ~playing', Light' \in Duties
  PROVE  [Steady!Next]_(Steady!vars)
BY DEF Steady!Next, Steady!Command, Steady!Colours, Duties, Light, Phase, playing

LEMMA AnimationBegins ==
  ASSUME ~playing, playing', cmd' # "STOP", Light' = Light
  PROVE  [Steady!Next]_(Steady!vars)
BY DEF Steady!Next, Steady!Play, Light, playing

LEMMA AnimationOver ==
  ASSUME playing, ~playing', cmd # "STOP", Light' \in Duties,
         \A c \in LedcChannels : Light'[c] \in {Light[c] - 1, Light[c]}
  PROVE  [Steady!Next]_(Steady!vars)
BY DEF Steady!Next, Steady!End, Steady!LevelLost, Steady!Colours, Duties, Light, playing

LEMMA AStop ==
  ASSUME cmd # "STOP" \/ ~playing, cmd' = "STOP", playing', Light' \in Duties,
         playing => Light' = Light
  PROVE  [Steady!Next]_(Steady!vars)
BY DEF Steady!Next, Steady!Stop, Steady!Colours, Duties, Light, playing

LEMMA StopOver ==
  ASSUME playing, ~playing', cmd = "STOP", Light' \in Duties
  PROVE  [Steady!Next]_(Steady!vars)
BY DEF Steady!Next, Steady!Stopped, Steady!Colours, Duties, Light, playing

LEMMA RefinementStep ==
  ASSUME OneByOne, OneByOneInv, [Next]_vars
  PROVE  [Steady!Next]_(Steady!vars)
<1>a. /\ "loop" \in Tasks /\ "hsv" \in Tasks /\ "anim" \in Tasks /\ pc \in [Tasks -> Places]
      /\ TypeOK /\ TurnInv /\ LightInv /\ SteadyInv
    BY DEF Tasks, TypeOK, OneByOneInv
<1>b. TypeOK' /\ SteadyInv'
    BY OneByOneStep DEF OneByOneInv
<1>l. Light' \in Duties
    BY <1>b DEF Light, TypeOK
<1>q. MayArrive => pc["loop"] = "idle" /\ pc["anim"] = "idle" /\ anim_reg = 0
    BY <1>a DEF MayArrive, Quiet, OneByOne, Tasks
<1>k. ASSUME captured, captured', UNCHANGED <<found, cmd>>
      PROVE  [Steady!Next]_(Steady!vars)
    BY <1>k, Stutter DEF Light, Phase, captured
<1>1. ASSUME pc["loop"] = "idle", pc["anim"] = "idle", anim_reg = 0,
             UNCHANGED <<pc["loop"], pc["anim"], anim_reg>>
      PROVE  [Steady!Next]_(Steady!vars)
  <2>1. ~playing /\ ~playing'
      BY <1>1 DEF playing
  <2> QED BY <2>1, <1>l, ALightCommand
<1>2. CASE HsvOff \/ HsvOn \/ HsvSet
    BY <1>2, <1>1, <1>q DEF HsvOff, HsvOn, HsvSet, HsvCommand, locals
<1>3. CASE HsvBrightRead \/ HsvBrightSet
  <2>1. pc["loop"] = "idle" /\ pc["anim"] = "idle" /\ anim_reg = 0
      BY <1>3, <1>a, <1>q DEF HsvBrightRead, HsvBrightSet, HsvCommand, Goto, TurnInv
  <2>2. UNCHANGED <<pc["loop"], pc["anim"], anim_reg>>
      BY <1>3, <1>a DEF HsvBrightRead, HsvBrightSet, Goto, shared
  <2> QED BY <2>1, <2>2, <1>1
<1>4. CASE AnimReceive
  <2>1. PICK op \in AnimOps :
          /\ MayArrive \/ (op = "STOP" /\ StopMayArrive)
          /\ Goto("anim", "idle", IF op = "STOP" THEN "stoptake" ELSE "orig")
          /\ cmd' = op
      BY <1>4 DEF AnimReceive
  <2>2. /\ pc["anim"] = "idle" /\ pc'["anim"] = (IF op = "STOP" THEN "stoptake" ELSE "orig")
        /\ UNCHANGED <<pc["loop"], anim_reg, target, found>>
      BY <1>4, <2>1, <1>a DEF AnimReceive, Goto, shared, lightVars, history, restored
  <2>3. CASE op = "STOP"
    <3>1. playing' /\ captured' /\ (playing => captured)
        BY <2>2, <2>3 DEF playing, captured
    <3>2. playing => Light' = Light
        BY <2>2, <3>1 DEF Light
    <3>3. CASE cmd = "STOP" /\ playing
        BY <2>1, <2>2, <2>3, <3>1, <3>3, <1>k
    <3>4. CASE ~(cmd = "STOP" /\ playing)
        BY <2>1, <2>3, <3>1, <3>2, <3>4, <1>l, AStop
    <3> QED BY <3>3, <3>4
  <2>4. CASE op # "STOP"
    <3>1. ~playing /\ playing' /\ ~captured /\ ~captured'
        BY <2>1, <2>2, <2>4, <1>q DEF playing, captured
    <3> QED BY <2>1, <2>2, <2>4, <3>1, AnimationBegins DEF Light
  <2> QED BY <2>3, <2>4
<1>5. CASE SetupOrig
  <2>1. /\ pc["anim"] = "orig" /\ pc'["anim"] = "cur" /\ cmd' = cmd /\ target' = target
      BY <1>5, <1>a DEF SetupOrig, Goto, lightVars, locals
  <2>2. found' = target
    <3>1. Settled
        BY Zenon DEF OneByOne
    <3> QED BY <1>5, <3>1, Zenon DEF SetupOrig
  <2>3. playing /\ ~captured /\ captured' /\ playing'
      BY <2>1 DEF playing, captured
  <2> QED BY <2>1, <2>2, <2>3, Stutter DEF Light, Phase
<1>6. CASE SetupCur \/ SetupTake \/ SetupReg \/ SetupR3
  <2>1. pc["anim"] \notin {"idle", "orig"} /\ pc'["anim"] \notin {"idle", "orig"}
      BY <1>6, <1>a DEF SetupCur, SetupTake, SetupReg, SetupR3, Goto
  <2>2. UNCHANGED <<found, cmd>>
      BY <1>6 DEF SetupCur, SetupTake, SetupReg, SetupR3, history, restored, locals
  <2> QED BY <2>1, <2>2, <1>k DEF captured, playing
<1>o. ASSUME captured, UNCHANGED <<found, target, cmd>>, ~playing' => Resting,
             pc'["anim"] # "orig"
      PROVE  [Steady!Next]_(Steady!vars)
  <2>1. CASE playing'
      BY <1>o, <2>1, <1>k DEF captured
  <2>2. CASE ~playing' /\ cmd = "STOP"
      BY <1>o, <2>2, <1>l, StopOver DEF captured
  <2>3. CASE ~playing' /\ cmd # "STOP"
    <3>1. LessOne(target)
        BY <1>o, <1>a, <2>3 DEF SteadyInv
    <3>2. Light = found /\ Light' = target
        BY <1>o, <2>3 DEF Light, captured
    <3> QED BY <1>o, <2>3, <3>1, <3>2, <1>l, AnimationOver DEF LessOne, captured
  <2> QED BY <2>1, <2>2, <2>3
<1>7. CASE SetupGive
  <2>1. /\ pc["anim"] = "setgive" /\ pc'["anim"] = "idle" /\ pc'["loop"] = pc["loop"]
        /\ UNCHANGED <<found, target, cmd, anim_reg>>
      BY <1>7, <1>a DEF SetupGive, Goto, lightVars, locals, history, restored
  <2> QED BY <2>1, <1>o DEF captured, playing, Resting
<1>8. CASE LoopGive
  <2>1. /\ pc["loop"] = "give" /\ pc'["loop"] = "idle" /\ pc'["anim"] = pc["anim"]
        /\ UNCHANGED <<found, target, cmd, anim_reg>>
      BY <1>8, <1>a DEF LoopGive, Goto, lightVars, locals, history, restored
  <2>2. pc["anim"] # "orig"
      BY <2>1, <1>a DEF TurnInv
  <2> QED BY <2>1, <2>2, <1>o DEF captured, playing, Resting
<1>9. CASE \/ LoopCheck \/ LoopTake \/ LoopSwitch \/ LoopFade \/ LoopFadeFrame \/ LoopFlash
           \/ LoopFlashCount \/ LoopFlashTest \/ LoopPulse \/ LoopPulseTest \/ LoopRandom
           \/ Stop("loop")
  <2>1. pc["loop"] # "idle" \/ anim_reg # 0
      BY <1>9 DEF LoopCheck, LoopTake, LoopSwitch, LoopFade, LoopFadeFrame, LoopFlash,
                  LoopFlashCount, LoopFlashTest, LoopPulse, LoopPulseTest, LoopRandom, Stop, StopTake,
                  StopReg, StopPwm, StopGive, Goto
  <2>2. pc'["loop"] # "idle"
    <3>1. CASE LoopSwitch
        BY <3>1, <1>a DEF LoopSwitch, TypeOK, AnimTypes, ANIM_TYPE_FADE, ANIM_TYPE_FLASH,
                         ANIM_TYPE_PULSE, ANIM_TYPE_RANDOM, Goto
    <3>2. CASE LoopCheck \/ LoopTake \/ LoopFade \/ LoopFadeFrame
        BY <3>2, <1>a DEF LoopCheck, LoopTake, LoopFade, LoopFadeFrame, Goto
    <3>3. CASE LoopFlash \/ LoopPulse \/ LoopRandom
      <4>1. \E from : \E to \in {"flashcount", "pulsetest", "give"} : Goto("loop", from, to)
          BY <3>3, Zenon DEF LoopFlash, LoopPulse, LoopRandom
      <4> QED BY <4>1, <1>a DEF Goto
    <3>4. CASE LoopFlashCount \/ LoopFlashTest \/ LoopPulseTest
        BY <3>4, <1>a DEF LoopFlashCount, LoopFlashTest, LoopPulseTest, Goto
    <3>5. CASE Stop("loop")
        BY <3>5, <1>a DEF Stop, StopTake, StopReg, StopPwm, StopGive, TypeOK, Goto
    <3> QED BY <1>9, <3>1, <3>2, <3>3, <3>4, <3>5
  <2>3. pc'["anim"] = pc["anim"] /\ cmd' = cmd
      BY <1>9, <1>a, LoopMoves DEF Loop
  <2>4. pc["anim"] # "orig"
      BY <2>1, <1>a DEF TurnInv
  <2>5. UNCHANGED found
    <3>1. StopReg("loop") => found' = found
        BY DEF StopReg, restored
    <3> QED BY <1>9, <3>1 DEF LoopCheck, LoopTake, LoopSwitch, LoopFade, LoopFadeFrame, LoopFlash,
                  LoopFlashCount, LoopFlashTest, LoopPulse, LoopPulseTest, LoopRandom, Stop, StopTake,
                  StopPwm, StopGive, history, restored
  <2> QED BY <2>1, <2>2, <2>3, <2>4, <2>5, <1>k DEF captured, playing
<1>10. CASE StopTake("anim") \/ StopReg("anim") \/ StopPwm("anim")
  <2>1. pc["anim"] \notin {"idle", "orig"} /\ pc'["anim"] \notin {"idle", "orig"}
      BY <1>10, <1>a DEF StopTake, StopReg, StopPwm, Goto
  <2>2. cmd' = cmd /\ found' = found
    <3>1. StopReg("anim") => found' = found
      <4>1. Settled
          BY Zenon DEF OneByOne
      <4> QED BY <4>1 DEF StopReg, AsksFor, restored
    <3> QED BY <1>10, <3>1 DEF StopTake, StopReg, StopPwm, history, restored, locals
  <2> QED BY <2>1, <2>2, <1>k DEF captured, playing
<1>11. CASE StopGive("anim")
  <2>1. /\ pc["anim"] = "stopgive" /\ pc'["anim"] = "idle" /\ pc'["loop"] = pc["loop"]
        /\ UNCHANGED <<found, target, cmd, anim_reg>>
      BY <1>11, <1>a DEF StopGive, Goto, lightVars, locals, history, restored
  <2> QED BY <2>1, <1>o DEF captured, playing, Resting
<1>12. CASE FadeArrives \/ UNCHANGED vars
    BY <1>12, Stutter DEF FadeArrives, vars, shared, lightVars, locals, history, restored, playing,
                          captured, Light, Phase
<1> QED
    BY <1>2, <1>3, <1>4, <1>5, <1>6, <1>7, <1>8, <1>9, <1>10, <1>11, <1>12
       DEF Next, Arrives, Setup, Loop, Stop

(* Commands one by one: the node implements SteadyLight.  Only a command   *)
(* or a STOP changes the light it settles on; an animation of any kind,    *)
(* length and number of frames that plays to its end costs a channel at    *)
(* most one level, that of the read-back (animation.c:143, 139).           *)
THEOREM ImplementsSteadyLight == ASSUME OneByOne PROVE Spec => LightIsSteady
<1>1. Init => Steady!Init
  <2> SUFFICES ASSUME Init
               PROVE  Steady!Init
      OBVIOUS
  <2>1. ~playing /\ ~captured
      BY DEF Init, playing, captured, Tasks
  <2>2. target \in Duties
      BY OneByOneStart DEF OneByOneInv, TypeOK
  <2> QED BY <2>1, <2>2 DEF Steady!Init, Steady!Colours, Duties
<1> QED
    BY <1>1, RefinementStep, AlwaysOneByOne, PTL DEF Spec, LightIsSteady, Steady!Spec
=============================================================================
