---------------------------- MODULE MotionRules ----------------------------
(***************************************************************************)
(* rules/pir.rules and the day rule of rules/times.rules.  openHAB starts  *)
(* a rule in a thread of its own for each event it was written for, and    *)
(* the callback of a timer in yet another; motionTimer and fadeTimer are   *)
(* shared by all of them and not locked.                                   *)
(*                                                                         *)
(* A minute passes only when no rule or callback is running and no timer   *)
(* is due: rules take milliseconds.  What interleaves is what happens      *)
(* within a minute, a motion in the minute of a deadline among it.         *)
(***************************************************************************)
EXTENDS Integers, Sequences

CONSTANTS
  Lights,       \* members of gAllLights
  Kitchen,      \* cKitchen_Cabinet_Lights
  TimesOfDay,   \* the values of vTimeOfDay to consider
  Threads,      \* the rule engine's threads
  TimerIds,     \* timer objects, reused once they are over
  MaxBus,       \* bound on the events that wait for a thread
  MaxOverlaps   \* bound on motions and changes of the time if rules overlap

Kinds == {"motion", "fade"}   \* motionTimer, fadeTimer
Timers == Kinds \X TimerIds
None == "null"

ASSUME MotionAssumption ==
  /\ Kitchen \in Lights /\ None \notin TimerIds
  /\ {MaxBus, MaxOverlaps} \subseteq Nat \ {0}

Unscheduled == -1

VARIABLES
  serial,    \* does the engine run one rule or callback at a time
  tod,       \* vTimeOfDay
  lit,       \* the lights that are on
  bus,       \* events no rule has been started for: "ON", "OFF" of a PIR, "DAY"
  pc,        \* where the rule of a thread is, "free" if there is none
  todo,      \* the lights it has still to command
  timerVar,  \* motionTimer and fadeTimer
  left,      \* minutes until a timer fires, Unscheduled if it will not
  callback,  \* the statement its callback is at, "none" if it is not running
  pulsed,    \* history: has PULSE been sent since the last motion was handled
  overlaps   \* how many events there were, against the bound

ruleVars == <<pc, todo>>
timerVars == <<timerVar, left, callback>>
history == <<pulsed, overlaps>>
vars == <<serial, tod, lit, bus, ruleVars, timerVars, history>>

NoneRuns == (\A t \in Threads : pc[t] = "free") /\ \A x \in Timers : callback[x] = "none"
MayStart == serial => NoneRuns

Init ==
  /\ serial \in BOOLEAN /\ tod \in TimesOfDay
  /\ lit = {} /\ bus = <<>>
  /\ pc = [t \in Threads |-> "free"]
  /\ todo = [t \in Threads |-> {}]
  /\ timerVar = [k \in Kinds |-> None]
  /\ left = [x \in Timers |-> Unscheduled]
  /\ callback = [x \in Timers |-> "none"]
  /\ pulsed = FALSE /\ overlaps = 0

-----------------------------------------------------------------------------
(* Events                                                                  *)

Post(e) == bus' = Append(bus, e)

InBounds ==
  /\ Len(bus) < MaxBus /\ overlaps < MaxOverlaps
  /\ overlaps' = IF serial THEN 0 ELSE overlaps + 1

(* A sensor's message becomes the command ON of its item. *)
Motion ==
  /\ InBounds
  /\ Post("ON")
  /\ UNCHANGED <<serial, tod, lit, ruleVars, timerVars, pulsed>>

(* vTimeOfDay is calculated anew. *)
TimeOfDay ==
  /\ InBounds
  /\ tod' \in TimesOfDay \ {tod}
  /\ IF tod' = "DAY" THEN Post("DAY") ELSE UNCHANGED bus
  /\ UNCHANGED <<serial, lit, ruleVars, timerVars, pulsed>>

Tick ==
  /\ NoneRuns /\ bus = <<>> /\ \A x \in Timers : left[x] # 0
  /\ left' = [x \in Timers |-> IF left[x] = Unscheduled THEN left[x] ELSE left[x] - 1]
  /\ UNCHANGED <<serial, tod, lit, bus, ruleVars, timerVar, callback, history>>

-----------------------------------------------------------------------------
(* The rules                                                               *)

fadeMinutesTooLong == 2  \* mutant: no less than timeoutMinutes
fadeMinutes == 1
timeoutMinutes == 2
Minutes(k) == IF k = "motion" THEN timeoutMinutes ELSE fadeMinutes

Starts(t, e) ==
  /\ bus # <<>> /\ Head(bus) = e /\ bus' = Tail(bus)
  /\ pc[t] = "free" /\ MayStart

Goto(t, next) == pc' = [pc EXCEPT ![t] = next]

(* "PIR Changed To ON": which lights, by the time of day. *)
OnStart(t) ==
  /\ Starts(t, "ON")
  /\ IF tod \in {"DAY", "AFTERNOON"}
     THEN UNCHANGED <<pc, todo>>
     ELSE /\ Goto(t, "on")
          /\ todo' = [todo EXCEPT ![t] =
               CASE tod \in {"EVENING", "NIGHT", "MORNING"} -> Lights
                 [] tod = "BED" -> {Kitchen}
                 [] OTHER -> {}]
  /\ UNCHANGED <<serial, tod, lit, timerVars, history>>

(* "PIR Changed To OFF": all lights. *)
OffStart(t) ==
  /\ Starts(t, "OFF")
  /\ Goto(t, "off") /\ todo' = [todo EXCEPT ![t] = Lights]
  /\ UNCHANGED <<serial, tod, lit, timerVars, history>>

(* "Day time started": all lights, whatever the timers say. *)
DayStart(t) ==
  /\ Starts(t, "DAY")
  /\ Goto(t, "off") /\ todo' = [todo EXCEPT ![t] = Lights]
  /\ UNCHANGED <<serial, tod, lit, timerVars, history>>

(* forEach goes through a group's members in an order of its own. *)
NextLight(t) == CHOOSE l \in todo[t] : TRUE

(* item.sendCommand(ON) *)
SwitchOn(t) ==
  /\ pc[t] = "on"
  /\ IF todo[t] = {}
     THEN Goto(t, "testmotion") /\ UNCHANGED <<todo, lit>>
     ELSE LET l == NextLight(t) IN
            /\ lit' = lit \cup {l}
            /\ todo' = [todo EXCEPT ![t] = @ \ {l}]
            /\ UNCHANGED pc
  /\ UNCHANGED <<serial, tod, bus, timerVars, history>>

(* item.sendCommand(OFF) *)
SwitchOff(t) ==
  /\ pc[t] = "off"
  /\ IF todo[t] = {}
     THEN Goto(t, "free") /\ UNCHANGED <<todo, lit>>
     ELSE LET l == NextLight(t) IN
            /\ lit' = lit \ {l}
            /\ todo' = [todo EXCEPT ![t] = @ \ {l}]
            /\ UNCHANGED pc
  /\ UNCHANGED <<serial, tod, bus, timerVars, history>>

Test(k) == IF k = "motion" THEN "testmotion" ELSE "testfade"
Create(k) == IF k = "motion" THEN "createmotion" ELSE "createfade"
Reschedule(k) == IF k = "motion" THEN "setmotion" ELSE "setfade"
After(k) == IF k = "motion" THEN "testfade" ELSE "free"

(* if(motionTimer === null), if(fadeTimer === null) *)
TestTimer(t, k) ==
  /\ pc[t] = Test(k)
  /\ Goto(t, IF timerVar[k] = None THEN Create(k) ELSE Reschedule(k))
  /\ UNCHANGED <<serial, tod, lit, bus, todo, timerVars, history>>

(* A timer object nobody refers to. *)
Over(k, i) ==
  left[<<k, i>>] = Unscheduled /\ callback[<<k, i>>] = "none" /\ timerVar[k] # i

Handled(k) == pulsed' = (pulsed /\ k = "motion")

(* createTimer *)
CreateTimer(t, k) ==
  /\ pc[t] = Create(k)
  /\ \E i \in TimerIds :
       /\ Over(k, i) /\ left' = [left EXCEPT ![<<k, i>>] = Minutes(k)]
       /\ timerVar' = [timerVar EXCEPT ![k] = i]
  /\ Goto(t, After(k)) /\ Handled(k)
  /\ UNCHANGED <<serial, tod, lit, bus, todo, callback, overlaps>>

(* reschedule.  Whether the engine schedules a timer again whose callback  *)
(* has started is left open.                                               *)
RescheduleTimer(t, k) ==
  /\ pc[t] = Reschedule(k) /\ timerVar[k] # None
  /\ LET x == <<k, timerVar[k]>>
     IN  \/ left' = [left EXCEPT ![x] = Minutes(k)]
         \/ left[x] = Unscheduled /\ UNCHANGED left
  /\ Goto(t, After(k)) /\ Handled(k)
  /\ UNCHANGED <<serial, tod, lit, bus, todo, timerVar, callback, overlaps>>

(* reschedule of a timer that has become null since the test: the rule     *)
(* ends with an exception. *)
RescheduleFails(t, k) ==
  /\ pc[t] = Reschedule(k) /\ timerVar[k] = None
  /\ Goto(t, "free")
  /\ UNCHANGED <<serial, tod, lit, bus, todo, timerVars, history>>

Rule(t) ==
  \/ OnStart(t) \/ OffStart(t) \/ DayStart(t) \/ SwitchOn(t) \/ SwitchOff(t)
  \/ \E k \in Kinds : TestTimer(t, k) \/ CreateTimer(t, k) \/ RescheduleTimer(t, k)
                        \/ RescheduleFails(t, k)

-----------------------------------------------------------------------------
(* The callbacks                                                           *)

Step(x, next) == callback' = [callback EXCEPT ![x] = next]

Fire(x) ==
  /\ left[x] = 0 /\ MayStart
  /\ left' = [left EXCEPT ![x] = Unscheduled] /\ Step(x, "send")
  /\ UNCHANGED <<serial, tod, lit, bus, ruleVars, timerVar, history>>

SendSilent(x) ==  \* mutant: the command OFF is not sent
  /\ callback[x] = "send"
  /\ Step(x, "cancel")
  /\ pulsed' = (pulsed \/ x[1] = "fade")
  /\ UNCHANGED <<serial, tod, lit, bus, ruleVars, timerVar, left, overlaps>>

SendPostpones(x) ==  \* mutant: rescheduled instead of the command OFF
  /\ callback[x] = "send"
  /\ IF x[1] = "motion"
     THEN Step(x, "none") /\ left' = [left EXCEPT ![x] = timeoutMinutes] /\ UNCHANGED pulsed
     ELSE Step(x, "cancel") /\ pulsed' = TRUE /\ UNCHANGED left
  /\ UNCHANGED <<serial, tod, lit, bus, ruleVars, timerVar, overlaps>>

(* The command OFF of the PIR that created the timer, PULSE to the lights. *)
Send(x) ==
  /\ callback[x] = "send"
  /\ Step(x, "cancel")
  /\ IF x[1] = "motion" THEN Post("OFF") /\ UNCHANGED pulsed
                        ELSE pulsed' = TRUE /\ UNCHANGED bus
  /\ UNCHANGED <<serial, tod, lit, ruleVars, timerVar, left, overlaps>>

(* motionTimer.cancel(): whichever timer that is by now. *)
Cancel(x) ==
  /\ callback[x] = "cancel" /\ timerVar[x[1]] # None
  /\ Step(x, "clear")
  /\ left' = [left EXCEPT ![<<x[1], timerVar[x[1]]>>] = Unscheduled]
  /\ UNCHANGED <<serial, tod, lit, bus, ruleVars, timerVar, history>>

(* cancel of null: the callback ends with an exception. *)
CancelFails(x) ==
  /\ callback[x] = "cancel" /\ timerVar[x[1]] = None
  /\ Step(x, "none")
  /\ UNCHANGED <<serial, tod, lit, bus, ruleVars, timerVar, left, history>>

ClearForgotten(x) ==  \* mutant: motionTimer = null is missing
  /\ callback[x] = "clear"
  /\ Step(x, "none")
  /\ UNCHANGED <<serial, tod, lit, bus, ruleVars, timerVar, left, history>>

(* motionTimer = null *)
Clear(x) ==
  /\ callback[x] = "clear"
  /\ Step(x, "none") /\ timerVar' = [timerVar EXCEPT ![x[1]] = None]
  /\ UNCHANGED <<serial, tod, lit, bus, ruleVars, left, history>>

TimerTask(x) == Fire(x) \/ Send(x) \/ Cancel(x) \/ CancelFails(x) \/ Clear(x)

Next ==
  \/ Motion \/ TimeOfDay \/ Tick
  \/ \E t \in Threads : Rule(t)
  \/ \E x \in Timers : TimerTask(x)

Fairness ==
  /\ WF_vars(Tick)
  /\ \A t \in Threads : WF_vars(Rule(t))
  /\ \A x \in Timers : WF_vars(TimerTask(x))

Spec == Init /\ [][Next]_vars /\ Fairness

-----------------------------------------------------------------------------
(* Properties.                                                             *)

TypeOK ==
  /\ serial \in BOOLEAN /\ tod \in TimesOfDay /\ lit \subseteq Lights
  /\ bus \in Seq({"ON", "OFF", "DAY"})
  /\ pc \in [Threads -> {"free", "on", "off"}
                     \cup UNION {{Test(k), Create(k), Reschedule(k)} : k \in Kinds}]
  /\ todo \in [Threads -> SUBSET Lights]
  /\ timerVar \in [Kinds -> TimerIds \cup {None}]
  /\ left \in [Timers -> {Unscheduled} \cup 0 .. timeoutMinutes]
  /\ callback \in [Timers -> {"none", "send", "cancel", "clear"}]
  /\ pulsed \in BOOLEAN /\ overlaps \in 0 .. MaxOverlaps

Settled == NoneRuns /\ bus = <<>>
Scheduled(k, i) == left[<<k, i>>] # Unscheduled

(* However rules and callbacks overlap, they never leave a variable with a *)
(* timer that is over: the next motion sets a deadline again.              *)
NoStaleTimer ==
  /\ TypeOK
  /\ NoneRuns => \A k \in Kinds : timerVar[k] # None => Scheduled(k, timerVar[k])

(* pir.rules:5, "At any time if motion is detected the motion will be      *)
(* rescheduled": as long as rules and callbacks do not overlap, lights     *)
(* that are on have a deadline, and there is no second timer that nothing  *)
(* refers to.  With overlap neither is so.                                 *)
SerialDeadline == serial =>
  /\ Settled /\ lit # {} => \E i \in TimerIds : Scheduled("motion", i)
  /\ \A k \in Kinds, i \in TimerIds : Scheduled(k, i) => timerVar[k] = i

(* Nobody is left in the dark without the warning of the fade timer        *)
(* (pir.rules:14, "Should be less than timeoutMinutes").                   *)
PulseFirst ==
  [][serial /\ (\E x \in Timers : x[1] = "motion" /\ Send(x)) => pulsed]_vars

(* Without further motion the lights go out.                               *)
GoesDark == serial /\ <>[](\A i \in DOMAIN bus : bus[i] # "ON") => <>[](lit = {})
=============================================================================
