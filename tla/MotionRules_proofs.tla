------------------------- MODULE MotionRules_proofs -------------------------
(***************************************************************************)
(* Deadlines and warnings, for any lights, threads and timer objects and   *)
(* any number of events.                                                   *)
(***************************************************************************)
EXTENDS MotionRules, SequenceTheorems, TLAPS

(* One at a time: nothing else runs beside a rule or a callback.           *)
AloneInv == serial =>
  /\ \A t, u \in Threads : pc[t] # "free" /\ pc[u] # "free" => t = u
  /\ \A x, y \in Timers : callback[x] # "none" /\ callback[y] # "none" => x = y
  /\ \A t \in Threads, x \in Timers : pc[t] = "free" \/ callback[x] = "none"

(* A timer in a variable fires, or a callback is going to clear it: this   *)
(* one holds with overlap too.                                             *)
StaleInv == \A k \in Kinds : timerVar[k] # None =>
  Scheduled(k, timerVar[k]) \/ \E i \in TimerIds : callback[<<k, i>>] # "none"

(* One at a time: the only timer that is scheduled is the one in the       *)
(* variable, what a rule has found there is still so, and a callback is    *)
(* that of the timer in the variable and finds no other scheduled.         *)
TimerInv == serial => \A k \in Kinds :
  /\ \A i \in TimerIds : Scheduled(k, i) => timerVar[k] = i
  /\ \A t \in Threads : /\ pc[t] = Create(k) => timerVar[k] = None
                        /\ pc[t] = Reschedule(k) => timerVar[k] # None
  /\ \A i \in TimerIds : callback[<<k, i>>] # "none" =>
       /\ callback[<<k, i>>] # "clear" => timerVar[k] = i
       /\ \A j \in TimerIds : ~Scheduled(k, j)

(* One at a time: lights that are on are going out, or will be told to.    *)
BeforeDeadline == {"on", "testmotion", "createmotion", "setmotion"}
DeadlineInv == serial /\ lit # {} =>
  \/ \E i \in TimerIds : Scheduled("motion", i) \/ callback[<<"motion", i>>] = "send"
  \/ \E t \in Threads : pc[t] \in BeforeDeadline \/ (pc[t] = "off" /\ lit \subseteq todo[t])
  \/ \E j \in 1 .. Len(bus) : bus[j] = "OFF"

(* One at a time: the fade timer fires before the motion timer does.       *)
BeforePulse == {"testfade", "createfade", "setfade"}
PulseInv == serial => \A i \in TimerIds :
  /\ callback[<<"motion", i>>] = "send" => pulsed
  /\ Scheduled("motion", i) =>
       /\ \A t \in Threads : pc[t] \in BeforePulse => left[<<"motion", i>>] = timeoutMinutes
       /\ \/ pulsed
          \/ \E j \in TimerIds : \/ callback[<<"fade", j>>] = "send"
                                 \/ Scheduled("fade", j) /\ left[<<"fade", j>>] < left[<<"motion", i>>]
          \/ \E t \in Threads : pc[t] \in BeforePulse

IInv == TypeOK /\ AloneInv /\ StaleInv /\ TimerInv /\ DeadlineInv /\ PulseInv

LEMMA NextCases ==
  ASSUME [Next]_vars
  PROVE  \/ Motion \/ TimeOfDay \/ Tick \/ UNCHANGED vars
         \/ \E t \in Threads : \/ OnStart(t) \/ OffStart(t) \/ DayStart(t)
                               \/ SwitchOn(t) \/ SwitchOff(t)
         \/ \E t \in Threads, k \in Kinds : \/ TestTimer(t, k) \/ CreateTimer(t, k)
                                            \/ RescheduleTimer(t, k) \/ RescheduleFails(t, k)
         \/ \E k \in Kinds, i \in TimerIds : LET x == <<k, i>>
              IN Fire(x) \/ Send(x) \/ Cancel(x) \/ CancelFails(x) \/ Clear(x)
    BY DEF Next, Rule, TimerTask, Timers

-----------------------------------------------------------------------------
(* Types                                                                   *)

LEMMA TypeStep == TypeOK /\ [Next]_vars => TypeOK'
<1> SUFFICES ASSUME TypeOK, [Next]_vars
             PROVE  TypeOK'
    OBVIOUS
<1> USE MotionAssumption DEF TypeOK, Unscheduled, timeoutMinutes
<1> DEFINE Events == {"ON", "OFF", "DAY"}
<1>a. \A e \in Events : Append(bus, e) \in Seq(Events)
    BY AppendProperties
<1>b. bus # <<>> => Tail(bus) \in Seq(Events)
    BY HeadTailProperties
<1>1. CASE UNCHANGED vars
    BY <1>1 DEF vars, ruleVars, timerVars, history
<1>2. CASE Motion
    BY <1>2 DEF Motion, Post, InBounds, ruleVars, timerVars
<1>3. CASE TimeOfDay
  <2>1. bus' \in Seq(Events)
      BY <1>3, <1>a DEF TimeOfDay, Post
  <2> QED BY <1>3, <2>1 DEF TimeOfDay, InBounds, ruleVars, timerVars
<1>4. CASE Tick
  <2>1. \A x \in Timers : left'[x] \in {Unscheduled} \cup 0 .. timeoutMinutes
      BY <1>4 DEF Tick
  <2>2. left' = [x \in Timers |-> left'[x]]
      BY <1>4 DEF Tick
  <2>3. left' \in [Timers -> {Unscheduled} \cup 0 .. timeoutMinutes]
      BY <2>1, <2>2
  <2> QED BY <1>4, <2>3 DEF Tick, ruleVars, history
<1>5. ASSUME NEW t \in Threads, OnStart(t) \/ OffStart(t) \/ DayStart(t)
      PROVE  TypeOK'
  <2>1. bus' \in Seq(Events)
      BY <1>5, <1>b DEF OnStart, OffStart, DayStart, Starts
  <2>2. CASE OnStart(t)
    <3>1. todo' \in [Threads -> SUBSET Lights]
        BY <2>2 DEF OnStart
    <3>2. pc' = pc \/ pc' = [pc EXCEPT ![t] = "on"]
        BY <2>2 DEF OnStart, Goto
    <3> QED BY <2>1, <2>2, <3>1, <3>2 DEF OnStart, timerVars, history
  <2>3. CASE OffStart(t) \/ DayStart(t)
      BY <2>1, <2>3 DEF OffStart, DayStart, Goto, timerVars, history
  <2> QED BY <1>5, <2>2, <2>3
<1>6. ASSUME NEW t \in Threads, SwitchOn(t) \/ SwitchOff(t)
      PROVE  TypeOK'
  <2>1. todo[t] # {} => NextLight(t) \in todo[t]
      BY DEF NextLight
  <2> QED BY <1>6, <2>1 DEF SwitchOn, SwitchOff, Goto, Test, Kinds, timerVars, history
<1>7. ASSUME NEW t \in Threads, NEW k \in Kinds,
             TestTimer(t, k) \/ CreateTimer(t, k) \/ RescheduleTimer(t, k) \/ RescheduleFails(t, k)
      PROVE  TypeOK'
  <2> USE DEF Goto, Kinds, Timers
  <2>1. CASE TestTimer(t, k)
      BY <2>1 DEF TestTimer, timerVars, history
  <2>2. CASE CreateTimer(t, k)
      BY <2>2 DEF CreateTimer, Handled, Minutes, fadeMinutes, After, Test
  <2>3. CASE RescheduleTimer(t, k)
    <3>1. left' \in [Timers -> {Unscheduled} \cup 0 .. timeoutMinutes]
      <4> DEFINE x == <<k, timerVar[k]>>
      <4>1. x \in Timers /\ Minutes(k) \in {Unscheduled} \cup 0 .. timeoutMinutes
          BY <2>3 DEF RescheduleTimer, Minutes, fadeMinutes
      <4>2. left' = [left EXCEPT ![x] = Minutes(k)] \/ left' = left
          BY <2>3 DEF RescheduleTimer
      <4> HIDE DEF x
      <4> QED BY <4>1, <4>2
    <3> QED BY <2>3, <3>1 DEF RescheduleTimer, Handled, After, Test
  <2>4. CASE RescheduleFails(t, k)
      BY <2>4 DEF RescheduleFails, timerVars, history
  <2> QED BY <1>7, <2>1, <2>2, <2>3, <2>4
<1>8. ASSUME NEW k \in Kinds, NEW i \in TimerIds, LET x == <<k, i>>
                IN Fire(x) \/ Send(x) \/ Cancel(x) \/ CancelFails(x) \/ Clear(x)
      PROVE  TypeOK'
  <2> USE DEF Step, Timers
  <2>1. CASE Fire(<<k, i>>)
      BY <2>1 DEF Fire, ruleVars, history
  <2>2. CASE Send(<<k, i>>)
    <3>1. bus' \in Seq(Events)
        BY <2>2, <1>a DEF Send, Post
    <3> QED BY <2>2, <3>1 DEF Send, ruleVars
  <2>3. CASE Cancel(<<k, i>>)
      BY <2>3 DEF Cancel, ruleVars, history
  <2>4. CASE CancelFails(<<k, i>>) \/ Clear(<<k, i>>)
      BY <2>4 DEF CancelFails, Clear, ruleVars, history
  <2> QED BY <1>8, <2>1, <2>2, <2>3, <2>4
<1> QED BY <1>1, <1>2, <1>3, <1>4, <1>5, <1>6, <1>7, <1>8, NextCases

-----------------------------------------------------------------------------
(* One rule or callback at a time                                          *)

(* A step moves one rule or one callback, which was running or may start.  *)
LEMMA OneMoves ==
  ASSUME TypeOK, [Next]_vars
  PROVE  /\ serial' = serial
         /\ \/ pc' = pc /\ callback' = callback
            \/ \E t \in Threads : /\ pc[t] # "free" \/ MayStart
                                  /\ \A u \in Threads \ {t} : pc'[u] = pc[u]
                                  /\ callback' = callback
            \/ \E x \in Timers : /\ callback[x] # "none" \/ MayStart
                                 /\ \A y \in Timers \ {x} : callback'[y] = callback[y]
                                 /\ pc' = pc
<1> USE DEF TypeOK
<1>1. CASE Motion \/ TimeOfDay \/ Tick \/ UNCHANGED vars
    BY <1>1 DEF Motion, TimeOfDay, Tick, vars, ruleVars, timerVars
<1>2. ASSUME NEW t \in Threads, OnStart(t) \/ OffStart(t) \/ DayStart(t)
      PROVE  /\ serial' = serial /\ callback' = callback /\ MayStart
             /\ \A u \in Threads \ {t} : pc'[u] = pc[u]
    BY <1>2 DEF OnStart, OffStart, DayStart, Starts, Goto, timerVars
<1>3. ASSUME NEW t \in Threads, SwitchOn(t) \/ SwitchOff(t)
      PROVE  /\ serial' = serial /\ callback' = callback /\ pc[t] # "free"
             /\ \A u \in Threads \ {t} : pc'[u] = pc[u]
    BY <1>3 DEF SwitchOn, SwitchOff, Goto, timerVars
<1>4. ASSUME NEW t \in Threads, NEW k \in Kinds,
             TestTimer(t, k) \/ CreateTimer(t, k) \/ RescheduleTimer(t, k) \/ RescheduleFails(t, k)
      PROVE  /\ serial' = serial /\ callback' = callback /\ pc[t] # "free"
             /\ \A u \in Threads \ {t} : pc'[u] = pc[u]
    BY <1>4 DEF TestTimer, CreateTimer, RescheduleTimer, RescheduleFails, Goto, timerVars,
                Test, Create, Reschedule
<1>5. ASSUME NEW k \in Kinds, NEW i \in TimerIds, LET x == <<k, i>>
                IN Fire(x) \/ Send(x) \/ Cancel(x) \/ CancelFails(x) \/ Clear(x)
      PROVE  /\ serial' = serial /\ pc' = pc /\ (callback[<<k, i>>] # "none" \/ MayStart)
             /\ \A y \in Timers \ {<<k, i>>} : callback'[y] = callback[y]
    BY <1>5 DEF Fire, Send, Cancel, CancelFails, Clear, Step, ruleVars
<1>6. \A k \in Kinds, i \in TimerIds : <<k, i>> \in Timers
    BY DEF Timers
<1> QED BY <1>1, <1>2, <1>3, <1>4, <1>5, <1>6, NextCases

LEMMA AloneStep == TypeOK /\ AloneInv /\ [Next]_vars => AloneInv'
<1> SUFFICES ASSUME TypeOK, AloneInv, [Next]_vars, serial'
             PROVE  AloneInv'
    BY DEF AloneInv
<1>1. serial
    BY OneMoves
<1>2. CASE pc' = pc /\ callback' = callback
    BY <1>1, <1>2 DEF AloneInv
<1>3. ASSUME NEW t \in Threads, pc[t] # "free" \/ MayStart,
             \A u \in Threads \ {t} : pc'[u] = pc[u], callback' = callback
      PROVE  AloneInv'
    BY <1>1, <1>3 DEF AloneInv, MayStart, NoneRuns
<1>4. ASSUME NEW x \in Timers, callback[x] # "none" \/ MayStart,
             \A y \in Timers \ {x} : callback'[y] = callback[y], pc' = pc
      PROVE  AloneInv'
    BY <1>1, <1>4 DEF AloneInv, MayStart, NoneRuns
<1> QED BY <1>2, <1>3, <1>4, OneMoves

-----------------------------------------------------------------------------
(* The timer in a variable                                                 *)

LEMMA StaleStep == TypeOK /\ StaleInv /\ [Next]_vars => StaleInv'
<1> SUFFICES ASSUME TypeOK, StaleInv, [Next]_vars,
                    NEW k \in Kinds, timerVar'[k] # None
             PROVE  \/ Scheduled(k, timerVar[k])'
                    \/ \E i \in TimerIds : callback'[<<k, i>>] # "none"
    BY DEF StaleInv
<1> USE DEF TypeOK, Scheduled, Unscheduled
<1>1. CASE timerVar' = timerVar /\ left' = left /\ callback' = callback
    BY <1>1 DEF StaleInv
<1>2. CASE Tick
  <2>1. \A x \in Timers : /\ left[x] # 0
                         /\ left'[x] = IF left[x] = Unscheduled THEN left[x] ELSE left[x] - 1
      BY <1>2 DEF Tick
  <2>2. \A x \in Timers : left[x] # Unscheduled => left'[x] # Unscheduled
      BY <2>1, Z3 DEF timeoutMinutes
  <2>3. timerVar' = timerVar /\ callback' = callback /\ <<k, timerVar[k]>> \in Timers
      BY <1>2 DEF Tick, Timers
  <2> QED BY <2>2, <2>3 DEF StaleInv
<1>3. ASSUME NEW t \in Threads, NEW l \in Kinds, CreateTimer(t, l)
      PROVE  \/ Scheduled(k, timerVar[k])'
             \/ \E i \in TimerIds : callback'[<<k, i>>] # "none"
  <2>1. PICK i \in TimerIds : /\ left' = [left EXCEPT ![<<l, i>>] = Minutes(l)]
                              /\ timerVar' = [timerVar EXCEPT ![l] = i] /\ callback' = callback
      BY <1>3 DEF CreateTimer
  <2>2. Minutes(l) # Unscheduled /\ <<l, i>> \in Timers
      BY DEF Minutes, timeoutMinutes, fadeMinutes, Timers
  <2>3. CASE k = l
      BY <2>1, <2>2, <2>3
  <2>4. CASE k # l
    <3>1. timerVar'[k] = timerVar[k] /\ left'[<<k, timerVar[k]>>] = left[<<k, timerVar[k]>>]
        BY <2>1, <2>4, <2>2 DEF Timers
    <3> QED BY <2>1, <3>1 DEF StaleInv
  <2> QED BY <2>3, <2>4
<1>4. ASSUME NEW t \in Threads, NEW l \in Kinds, RescheduleTimer(t, l)
      PROVE  \/ Scheduled(k, timerVar[k])'
             \/ \E i \in TimerIds : callback'[<<k, i>>] # "none"
  <2> DEFINE x == <<l, timerVar[l]>>
  <2>1. /\ left' = [left EXCEPT ![x] = Minutes(l)] \/ left' = left
        /\ timerVar' = timerVar /\ callback' = callback
      BY <1>4 DEF RescheduleTimer
  <2>2. Minutes(l) # Unscheduled /\ x \in Timers
      BY <1>4 DEF RescheduleTimer, Minutes, timeoutMinutes, fadeMinutes, Timers
  <2>3. <<k, timerVar[k]>> \in Timers
      BY <2>1 DEF Timers
  <2>4. left'[<<k, timerVar[k]>>] # left[<<k, timerVar[k]>>] => left'[<<k, timerVar[k]>>] # Unscheduled
      BY <2>1, <2>2, <2>3
  <2> QED BY <2>1, <2>4 DEF StaleInv
<1>5. ASSUME NEW l \in Kinds, NEW i \in TimerIds, Fire(<<l, i>>)
      PROVE  \/ Scheduled(k, timerVar[k])'
             \/ \E j \in TimerIds : callback'[<<k, j>>] # "none"
  <2>1. /\ timerVar' = timerVar /\ left' = [left EXCEPT ![<<l, i>>] = Unscheduled]
        /\ callback' = [callback EXCEPT ![<<l, i>>] = "send"]
      BY <1>5 DEF Fire, Step
  <2>2. CASE k = l
      BY <2>1, <2>2 DEF Timers
  <2>3. CASE k # l
    <3>1. \A j \in TimerIds : /\ left'[<<k, j>>] = left[<<k, j>>]
                              /\ callback'[<<k, j>>] = callback[<<k, j>>]
        BY <2>1, <2>3 DEF Timers
    <3> QED BY <2>1, <3>1 DEF StaleInv
  <2> QED BY <2>2, <2>3
<1>6. ASSUME NEW l \in Kinds, NEW i \in TimerIds, Send(<<l, i>>)
      PROVE  \/ Scheduled(k, timerVar[k])'
             \/ \E j \in TimerIds : callback'[<<k, j>>] # "none"
  <2>1. /\ timerVar' = timerVar /\ left' = left
        /\ \A j \in TimerIds : callback[<<k, j>>] # "none" => callback'[<<k, j>>] # "none"
      BY <1>6 DEF Send, Step, Timers
  <2> QED BY <2>1 DEF StaleInv
<1>7. ASSUME NEW l \in Kinds, NEW i \in TimerIds, Cancel(<<l, i>>)
      PROVE  \/ Scheduled(k, timerVar[k])'
             \/ \E j \in TimerIds : callback'[<<k, j>>] # "none"
  <2>1. /\ timerVar' = timerVar /\ left' = [left EXCEPT ![<<l, timerVar[l]>>] = Unscheduled]
        /\ callback' = [callback EXCEPT ![<<l, i>>] = "clear"]
      BY <1>7 DEF Cancel, Step
  <2>2. CASE k = l
      BY <2>1, <2>2 DEF Timers
  <2>3. CASE k # l
    <3>1. \A j \in TimerIds : /\ left'[<<k, j>>] = left[<<k, j>>]
                              /\ callback'[<<k, j>>] = callback[<<k, j>>]
        BY <2>1, <2>3 DEF Timers
    <3> QED BY <2>1, <3>1 DEF StaleInv
  <2> QED BY <2>2, <2>3
<1>8. ASSUME NEW l \in Kinds, NEW i \in TimerIds, CancelFails(<<l, i>>) \/ Clear(<<l, i>>)
      PROVE  \/ Scheduled(k, timerVar[k])'
             \/ \E j \in TimerIds : callback'[<<k, j>>] # "none"
  <2>1. /\ left' = left
        /\ callback' = [callback EXCEPT ![<<l, i>>] = "none"]
      BY <1>8 DEF CancelFails, Clear, Step
  <2>2. k # l /\ timerVar'[k] = timerVar[k]
      BY <1>8, <2>1 DEF CancelFails, Clear
  <2>3. \A j \in TimerIds : callback'[<<k, j>>] = callback[<<k, j>>]
      BY <2>1, <2>2 DEF Timers
  <2> QED BY <2>1, <2>2, <2>3 DEF StaleInv
<1>9. CASE Motion \/ TimeOfDay \/ UNCHANGED vars
    BY <1>1, <1>9 DEF Motion, TimeOfDay, timerVars, vars
<1>10. ASSUME NEW t \in Threads, OnStart(t) \/ OffStart(t) \/ DayStart(t) \/ SwitchOn(t) \/ SwitchOff(t)
       PROVE  timerVar' = timerVar /\ left' = left /\ callback' = callback
    BY <1>10 DEF OnStart, OffStart, DayStart, SwitchOn, SwitchOff, timerVars
<1>11. ASSUME NEW t \in Threads, NEW l \in Kinds, TestTimer(t, l) \/ RescheduleFails(t, l)
       PROVE  timerVar' = timerVar /\ left' = left /\ callback' = callback
    BY <1>11 DEF TestTimer, RescheduleFails, timerVars
<1> QED BY <1>1, <1>2, <1>3, <1>4, <1>5, <1>6, <1>7, <1>8, <1>9, <1>10, <1>11, NextCases

-----------------------------------------------------------------------------
(* What the steps on timers do if rules and callbacks do not overlap       *)

SerialInv == TypeOK /\ AloneInv /\ StaleInv /\ TimerInv /\ serial

(* A rule leaves one timer of its kind, due in full.                       *)
LEMMA DeadlineSet ==
  ASSUME SerialInv, NEW t \in Threads, NEW k \in Kinds,
         CreateTimer(t, k) \/ RescheduleTimer(t, k)
  PROVE  /\ \E i \in TimerIds :
              /\ left'[<<k, i>>] = Minutes(k) /\ timerVar'[k] = i
              /\ \A y \in Timers \ {<<k, i>>} : left'[y] = left[y]
              /\ \A j \in TimerIds \ {i} : ~Scheduled(k, j)
         /\ \A l \in Kinds \ {k} : timerVar'[l] = timerVar[l]
         /\ callback' = callback /\ \A y \in Timers : callback[y] = "none"
         /\ pc[t] \in {Create(k), Reschedule(k)} /\ pc'[t] = After(k)
         /\ \A u \in Threads \ {t} : pc[u] = "free" /\ pc'[u] = "free"
         /\ pulsed' = (pulsed /\ k = "motion")
         /\ lit' = lit /\ bus' = bus /\ todo' = todo /\ tod' = tod
<1> USE DEF SerialInv
<1>1. pc[t] \in {Create(k), Reschedule(k)}
    BY DEF CreateTimer, RescheduleTimer
<1>2. /\ \A y \in Timers : callback[y] = "none"
      /\ \A u \in Threads \ {t} : pc[u] = "free"
    BY <1>1 DEF AloneInv, Create, Reschedule
<1>3. pc'[t] = After(k) /\ \A u \in Threads \ {t} : pc'[u] = pc[u]
    BY DEF CreateTimer, RescheduleTimer, Goto, TypeOK
<1>4. /\ callback' = callback /\ lit' = lit /\ bus' = bus /\ todo' = todo /\ tod' = tod
      /\ pulsed' = (pulsed /\ k = "motion")
    BY Zenon DEF CreateTimer, RescheduleTimer, Handled
<1>5. CASE CreateTimer(t, k)
  <2>1. PICK i \in TimerIds : /\ left' = [left EXCEPT ![<<k, i>>] = Minutes(k)]
                              /\ timerVar' = [timerVar EXCEPT ![k] = i]
      BY <1>5 DEF CreateTimer
  <2>2. timerVar[k] = None
      BY <1>5 DEF CreateTimer, TimerInv
  <2>3. \A j \in TimerIds : ~Scheduled(k, j)
      BY <2>2, MotionAssumption DEF TimerInv
  <2>4. <<k, i>> \in Timers
      BY DEF Timers
  <2>5. /\ left'[<<k, i>>] = Minutes(k) /\ timerVar'[k] = i
        /\ \A y \in Timers \ {<<k, i>>} : left'[y] = left[y]
        /\ \A l \in Kinds \ {k} : timerVar'[l] = timerVar[l]
      BY <2>1, <2>4 DEF TypeOK
  <2> QED BY <1>1, <1>2, <1>3, <1>4, <2>3, <2>5
<1>6. CASE RescheduleTimer(t, k)
  <2> DEFINE i == timerVar[k]
  <2>1. i \in TimerIds /\ <<k, i>> \in Timers /\ timerVar' = timerVar
      BY <1>6 DEF RescheduleTimer, TypeOK, Timers
  <2>2. Scheduled(k, i)
      BY <1>2, <1>6 DEF RescheduleTimer, StaleInv, Timers
  <2>3. left' = [left EXCEPT ![<<k, i>>] = Minutes(k)]
      BY <1>6, <2>2 DEF RescheduleTimer, Scheduled
  <2>4. /\ left'[<<k, i>>] = Minutes(k)
        /\ \A y \in Timers \ {<<k, i>>} : left'[y] = left[y]
      BY <2>1, <2>3 DEF TypeOK
  <2>5. \A j \in TimerIds \ {i} : ~Scheduled(k, j)
      BY DEF TimerInv
  <2> QED BY <1>1, <1>2, <1>3, <1>4, <2>1, <2>4, <2>5
<1> QED BY <1>5, <1>6

(* A callback starts for the timer in the variable, with nothing beside it.*)
LEMMA Fired ==
  ASSUME SerialInv, NEW k \in Kinds, NEW i \in TimerIds, Fire(<<k, i>>)
  PROVE  /\ left[<<k, i>>] = 0 /\ timerVar[k] = i /\ timerVar' = timerVar
         /\ NoneRuns /\ pc' = pc /\ callback'[<<k, i>>] = "send"
         /\ \A y \in Timers \ {<<k, i>>} : callback'[y] = "none" /\ left'[y] = left[y]
         /\ \A j \in TimerIds : ~Scheduled(k, j)'
         /\ lit' = lit /\ bus' = bus /\ pulsed' = pulsed
<1> USE DEF SerialInv
<1>1. <<k, i>> \in Timers /\ \A j \in TimerIds : <<k, j>> \in Timers
    BY DEF Timers
<1>2. /\ left[<<k, i>>] = 0 /\ NoneRuns
      /\ left' = [left EXCEPT ![<<k, i>>] = Unscheduled]
      /\ callback' = [callback EXCEPT ![<<k, i>>] = "send"]
      /\ lit' = lit /\ bus' = bus /\ pulsed' = pulsed /\ timerVar' = timerVar /\ pc' = pc
    BY DEF Fire, MayStart, Step, ruleVars, history
<1>3. /\ callback'[<<k, i>>] = "send" /\ left'[<<k, i>>] = Unscheduled
      /\ \A y \in Timers \ {<<k, i>>} : callback'[y] = "none" /\ left'[y] = left[y]
    BY <1>1, <1>2 DEF TypeOK, NoneRuns
<1>4. timerVar[k] = i
    BY <1>2 DEF TimerInv, Scheduled, Unscheduled
<1>5. \A j \in TimerIds : ~Scheduled(k, j)'
    BY <1>1, <1>3, <1>4 DEF TimerInv, Scheduled
<1> QED BY <1>2, <1>3, <1>4, <1>5

(* A callback finds no timer of its kind to cancel.                        *)
LEMMA CalledBack ==
  ASSUME SerialInv, NEW k \in Kinds, NEW i \in TimerIds,
         Send(<<k, i>>) \/ Cancel(<<k, i>>) \/ Clear(<<k, i>>)
  PROVE  /\ \A y \in Timers \ {<<k, i>>} : callback[y] = "none" /\ callback'[y] = "none"
         /\ \A t \in Threads : pc[t] = "free" /\ pc' = pc
         /\ \A j \in TimerIds : ~Scheduled(k, j)
         /\ left' = left /\ lit' = lit
         /\ callback[<<k, i>>] # "clear" => callback'[<<k, i>>] # "none" /\ timerVar' = timerVar
         /\ callback[<<k, i>>] = "clear" => /\ callback'[<<k, i>>] = "none"
                                            /\ timerVar' = [timerVar EXCEPT ![k] = None]
         /\ callback'[<<k, i>>] # "send"
<1> USE DEF SerialInv
<1>1. <<k, i>> \in Timers
    BY DEF Timers
<1>2. callback[<<k, i>>] # "none" /\ pc' = pc /\ lit' = lit
    BY DEF Send, Cancel, Clear, ruleVars
<1>3. /\ \A y \in Timers \ {<<k, i>>} : callback[y] = "none" /\ callback'[y] = callback[y]
      /\ \A t \in Threads : pc[t] = "free"
    BY <1>1, <1>2 DEF AloneInv, Send, Cancel, Clear, Step, TypeOK
<1>4. \A j \in TimerIds : ~Scheduled(k, j)
    BY <1>2 DEF TimerInv
<1>5. CASE Send(<<k, i>>)
    BY <1>1, <1>2, <1>3, <1>4, <1>5 DEF Send, Step, TypeOK
<1>6. CASE Cancel(<<k, i>>)
  <2>1. timerVar[k] \in TimerIds /\ left' = [left EXCEPT ![<<k, timerVar[k]>>] = Unscheduled]
      BY <1>6 DEF Cancel, TypeOK
  <2>2. left[<<k, timerVar[k]>>] = Unscheduled
      BY <1>4, <2>1 DEF Scheduled
  <2>3. left' = left
      BY <2>1, <2>2 DEF TypeOK
  <2> QED BY <1>1, <1>2, <1>3, <1>4, <1>6, <2>3 DEF Cancel, Step, TypeOK
<1>7. CASE Clear(<<k, i>>)
    BY <1>1, <1>2, <1>3, <1>4, <1>7 DEF Clear, Step, TypeOK
<1> QED BY <1>5, <1>6, <1>7

(* No rule and no callback ends with an exception.                         *)
LEMMA NoException ==
  ASSUME SerialInv, NEW k \in Kinds
  PROVE  /\ \A t \in Threads : ~RescheduleFails(t, k)
         /\ \A i \in TimerIds : ~CancelFails(<<k, i>>)
    BY MotionAssumption DEF SerialInv, TimerInv, RescheduleFails, CancelFails

(* The steps of a rule before it comes to the timers, and the test.        *)
LEMMA StartTimers ==
  ASSUME TypeOK, NEW t \in Threads,
         \/ OnStart(t) \/ OffStart(t) \/ DayStart(t) \/ SwitchOn(t) \/ SwitchOff(t)
         \/ \E k \in Kinds : TestTimer(t, k)
  PROVE  /\ timerVar' = timerVar /\ left' = left /\ callback' = callback /\ pulsed' = pulsed
         /\ \A u \in Threads \ {t} : pc'[u] = pc[u]
    BY DEF OnStart, OffStart, DayStart, SwitchOn, SwitchOff, TestTimer, Starts, Goto,
           TypeOK, timerVars, history

(* A minute passes with nothing running: every timer is a minute nearer.   *)
LEMMA MinutePassed ==
  ASSUME TypeOK, Tick
  PROVE  /\ timerVar' = timerVar /\ callback' = callback /\ pc' = pc /\ pulsed' = pulsed
         /\ NoneRuns /\ bus = <<>> /\ lit' = lit
         /\ \A k \in Kinds, i \in TimerIds :
              /\ Scheduled(k, i)' <=> Scheduled(k, i)
              /\ Scheduled(k, i) => left'[<<k, i>>] = left[<<k, i>>] - 1
<1>1. \A x \in Timers : /\ left[x] # 0 /\ left[x] \in {Unscheduled} \cup 0 .. timeoutMinutes
                        /\ left'[x] = IF left[x] = Unscheduled THEN left[x] ELSE left[x] - 1
    BY DEF Tick, TypeOK
<1>2. \A x \in Timers : /\ left'[x] # Unscheduled <=> left[x] # Unscheduled
                        /\ left[x] # Unscheduled => left'[x] = left[x] - 1
    BY <1>1 DEF timeoutMinutes, Unscheduled
<1>3. \A k \in Kinds, i \in TimerIds : <<k, i>> \in Timers
    BY DEF Timers
<1>4. /\ timerVar' = timerVar /\ callback' = callback /\ pc' = pc /\ pulsed' = pulsed
      /\ NoneRuns /\ bus = <<>> /\ lit' = lit
    BY DEF Tick, ruleVars, history
<1> QED BY <1>2, <1>3, <1>4 DEF Scheduled

LEMMA TimerStep == SerialInv /\ [Next]_vars => TimerInv'
<1> SUFFICES ASSUME SerialInv, [Next]_vars
             PROVE  TimerInv'
    OBVIOUS
<1> USE DEF SerialInv
<1>1. CASE Motion \/ TimeOfDay \/ UNCHANGED vars
    BY <1>1 DEF Motion, TimeOfDay, ruleVars, timerVars, vars, TimerInv, Scheduled
<1>2. CASE Tick
    BY <1>2, MinutePassed DEF TimerInv, Scheduled
<1>3. ASSUME NEW t \in Threads, \/ OnStart(t) \/ OffStart(t) \/ DayStart(t)
                                \/ SwitchOn(t) \/ SwitchOff(t)
                                \/ \E k \in Kinds : TestTimer(t, k)
      PROVE  TimerInv'
  <2>1. /\ timerVar' = timerVar /\ left' = left /\ callback' = callback
        /\ \A u \in Threads \ {t} : pc'[u] = pc[u]
      BY <1>3, StartTimers
  <2>2. \A k \in Kinds : /\ pc'[t] = Create(k) => timerVar[k] = None
                         /\ pc'[t] = Reschedule(k) => timerVar[k] # None
    <3>1. CASE \/ OnStart(t) \/ OffStart(t) \/ DayStart(t) \/ SwitchOn(t) \/ SwitchOff(t)
      <4>1. pc'[t] \in {pc[t], "on", "off", "testmotion", "free"}
          BY <3>1 DEF OnStart, OffStart, DayStart, SwitchOn, SwitchOff, Goto, TypeOK
      <4> QED BY <4>1 DEF TimerInv, Create, Reschedule
    <3>2. ASSUME NEW k \in Kinds, TestTimer(t, k)
          PROVE  pc'[t] = IF timerVar[k] = None THEN Create(k) ELSE Reschedule(k)
        BY <3>2 DEF TestTimer, Goto, TypeOK
    <3> QED BY <1>3, <3>1, <3>2 DEF Kinds, Create, Reschedule
  <2> QED BY <2>1, <2>2 DEF TimerInv, Scheduled
<1>4. ASSUME NEW t \in Threads, NEW k \in Kinds, CreateTimer(t, k) \/ RescheduleTimer(t, k)
      PROVE  TimerInv'
  <2>1. PICK i \in TimerIds : /\ timerVar'[k] = i
                              /\ \A y \in Timers \ {<<k, i>>} : left'[y] = left[y]
                              /\ \A j \in TimerIds \ {i} : ~Scheduled(k, j)
      BY <1>4, DeadlineSet
  <2>2. /\ \A l \in Kinds \ {k} : timerVar'[l] = timerVar[l]
        /\ \A y \in Timers : callback'[y] = "none"
        /\ pc'[t] \in {"testfade", "free"} /\ \A u \in Threads \ {t} : pc'[u] = "free"
      BY <1>4, DeadlineSet DEF After
  <2>3. \A l \in Kinds, j \in TimerIds : Scheduled(l, j)' => timerVar'[l] = j
      BY <2>1, <2>2 DEF TimerInv, Scheduled, Timers
  <2> QED BY <2>2, <2>3 DEF TimerInv, Timers, Create, Reschedule
<1>5. ASSUME NEW k \in Kinds, NEW i \in TimerIds, Fire(<<k, i>>)
      PROVE  TimerInv'
  <2>1. /\ timerVar[k] = i /\ timerVar' = timerVar /\ NoneRuns /\ pc' = pc
        /\ \A y \in Timers \ {<<k, i>>} : callback'[y] = "none" /\ left'[y] = left[y]
        /\ \A j \in TimerIds : ~Scheduled(k, j)'
      BY <1>5, Fired
  <2>2. \A l \in Kinds, j \in TimerIds : Scheduled(l, j)' => timerVar'[l] = j
      BY <2>1 DEF TimerInv, Scheduled, Timers
  <2>3. \A l \in Kinds, j \in TimerIds : callback'[<<l, j>>] # "none" => l = k /\ j = i
      BY <2>1 DEF Timers
  <2> QED BY <2>1, <2>2, <2>3 DEF TimerInv, NoneRuns, Create, Reschedule
<1>6. ASSUME NEW k \in Kinds, NEW i \in TimerIds,
             Send(<<k, i>>) \/ Cancel(<<k, i>>) \/ Clear(<<k, i>>)
      PROVE  TimerInv'
  <2>1. /\ \A t \in Threads : pc'[t] = "free"
        /\ \A j \in TimerIds : ~Scheduled(k, j)
        /\ left' = left
      BY <1>6, CalledBack
  <2>2. \A l \in Kinds \ {k} : timerVar'[l] = timerVar[l]
      BY <1>6 DEF Send, Cancel, Clear, TypeOK
  <2>3. \A l \in Kinds, j \in TimerIds : callback'[<<l, j>>] # "none" => l = k /\ j = i
      BY <1>6, CalledBack DEF Timers
  <2>4. callback'[<<k, i>>] \notin {"none", "clear"} => timerVar'[k] = i
    <3>1. callback'[<<k, i>>] \notin {"none", "clear"} => Send(<<k, i>>)
        BY <1>6 DEF Cancel, Clear, Step, TypeOK, Timers
    <3>2. Send(<<k, i>>) => callback[<<k, i>>] = "send" /\ timerVar' = timerVar
        BY DEF Send
    <3> QED BY <3>1, <3>2 DEF TimerInv
  <2> QED BY <2>1, <2>2, <2>3, <2>4 DEF TimerInv, Scheduled, Create, Reschedule
<1> QED BY <1>1, <1>2, <1>3, <1>4, <1>5, <1>6, NextCases, NoException

-----------------------------------------------------------------------------
(* A deadline for the lights that are on                                   *)

OffWaits == \E j \in 1 .. Len(bus) : bus[j] = "OFF"

(* The command OFF stays on the bus until a rule takes it.                 *)
LEMMA OffStays ==
  ASSUME TypeOK, OffWaits,
         \/ bus' = bus
         \/ \E e \in {"ON", "OFF", "DAY"} : bus' = Append(bus, e)
         \/ bus # <<>> /\ Head(bus) # "OFF" /\ bus' = Tail(bus)
  PROVE  OffWaits'
<1>1. CASE bus' = bus
    BY <1>1 DEF OffWaits
<1>2. ASSUME NEW e \in {"ON", "OFF", "DAY"}, bus' = Append(bus, e)
      PROVE  OffWaits'
    BY <1>2, AppendProperties DEF OffWaits, TypeOK
<1>3. CASE bus # <<>> /\ Head(bus) # "OFF" /\ bus' = Tail(bus)
  <2>1. PICK j \in 1 .. Len(bus) : bus[j] = "OFF"
      BY DEF OffWaits
  <2>2. /\ Len(bus') = Len(bus) - 1 /\ Head(bus) = bus[1]
        /\ \A i \in 1 .. Len(bus') : bus'[i] = bus[i + 1]
      BY <1>3, HeadTailProperties DEF TypeOK
  <2>3. j - 1 \in 1 .. Len(bus') /\ bus'[j - 1] = "OFF"
    <3>1. Len(bus) \in Nat /\ Len(bus') \in Nat /\ j # 1
        BY <1>3, <2>1, <2>2, LenProperties, HeadTailProperties DEF TypeOK
    <3>2. j - 1 \in 1 .. Len(bus')
        BY <2>1, <2>2, <3>1
    <3>3. bus'[j - 1] = bus[(j - 1) + 1] /\ (j - 1) + 1 = j
        BY <2>1, <2>2, <3>2
    <3> QED BY <2>1, <3>2, <3>3
  <2> QED BY <2>3 DEF OffWaits
<1> QED BY <1>1, <1>2, <1>3

LEMMA DeadlineStep == SerialInv /\ DeadlineInv /\ [Next]_vars => DeadlineInv'
<1> DEFINE Deadline == \/ \E i \in TimerIds : \/ Scheduled("motion", i)
                                              \/ callback[<<"motion", i>>] = "send"
                       \/ \E t \in Threads : \/ pc[t] \in BeforeDeadline
                                             \/ pc[t] = "off" /\ lit \subseteq todo[t]
                       \/ OffWaits
<1> SUFFICES ASSUME SerialInv, DeadlineInv, [Next]_vars, lit' # {}
             PROVE  Deadline'
    BY DEF DeadlineInv, OffWaits
<1> USE DEF SerialInv, BeforeDeadline, Scheduled
<1>0. /\ lit # {} => Deadline
      /\ "motion" \in Kinds /\ \A k \in Kinds, i \in TimerIds : <<k, i>> \in Timers
    BY DEF DeadlineInv, OffWaits, Kinds, Timers
<1>1. CASE Motion \/ TimeOfDay \/ UNCHANGED vars
  <2>1. /\ lit' = lit /\ left' = left /\ callback' = callback /\ pc' = pc /\ todo' = todo
        /\ bus' = bus \/ \E e \in {"ON", "OFF", "DAY"} : bus' = Append(bus, e)
      BY <1>1 DEF Motion, TimeOfDay, Post, ruleVars, timerVars, vars
  <2> QED BY <1>0, <2>1, OffStays
<1>2. CASE Tick
  <2>1. \E i \in TimerIds : Scheduled("motion", i)
      BY <1>0, <1>2, MinutePassed DEF NoneRuns, OffWaits
  <2> QED BY <1>0, <1>2, <2>1, MinutePassed
<1>3. ASSUME NEW t \in Threads, OnStart(t) \/ OffStart(t) \/ DayStart(t)
      PROVE  Deadline'
  <2>1. /\ lit' = lit /\ left' = left /\ callback' = callback /\ NoneRuns
        /\ bus # <<>> /\ bus' = Tail(bus)
      BY <1>3 DEF OnStart, OffStart, DayStart, Starts, MayStart, timerVars
  <2>2. CASE OnStart(t)
    <3>1. OffWaits => OffWaits'
        BY <2>1, <2>2, OffStays DEF OnStart, Starts
    <3>2. \A u \in Threads : pc[u] = "free"
        BY <2>1 DEF NoneRuns
    <3> QED BY <1>0, <2>1, <3>1, <3>2
  <2>3. CASE OffStart(t) \/ DayStart(t)
    <3>1. pc'[t] = "off" /\ todo'[t] = Lights
        BY <2>3 DEF OffStart, DayStart, Goto, TypeOK
    <3> QED BY <2>1, <3>1 DEF TypeOK
  <2> QED BY <1>3, <2>2, <2>3
<1>4. ASSUME NEW t \in Threads, SwitchOn(t)
      PROVE  Deadline'
  <2>1. pc'[t] \in {"on", "testmotion"}
      BY <1>4 DEF SwitchOn, Goto, TypeOK
  <2> QED BY <2>1
<1>5. ASSUME NEW t \in Threads, SwitchOff(t)
      PROVE  Deadline'
  <2>1. /\ left' = left /\ callback' = callback /\ bus' = bus /\ pc[t] = "off"
        /\ \A u \in Threads \ {t} : pc[u] = "free"
      BY <1>5 DEF SwitchOff, timerVars, AloneInv
  <2>2. CASE todo[t] = {}
    <3>1. lit' = lit
        BY <1>5, <2>2 DEF SwitchOff
    <3> QED BY <1>0, <2>1, <2>2, <3>1 DEF OffWaits
  <2>3. CASE todo[t] # {}
    <3>1. PICK l \in Lights : /\ lit' = lit \ {l}
                              /\ todo' = [todo EXCEPT ![t] = @ \ {l}] /\ pc' = pc
      <4>1. NextLight(t) \in todo[t]
          BY <2>3 DEF NextLight
      <4> QED BY <1>5, <2>3, <4>1 DEF SwitchOff, TypeOK
    <3>2. lit \subseteq todo[t] => lit' \subseteq todo'[t]
        BY <3>1 DEF TypeOK
    <3>3. lit # {}
        BY <3>1
    <3> QED BY <1>0, <2>1, <3>1, <3>2, <3>3 DEF OffWaits
  <2> QED BY <2>2, <2>3
<1>6. ASSUME NEW t \in Threads, NEW k \in Kinds, TestTimer(t, k)
      PROVE  Deadline'
  <2>1. /\ lit' = lit /\ left' = left /\ callback' = callback /\ bus' = bus /\ todo' = todo
        /\ pc[t] = Test(k) /\ pc'[t] \in {Create(k), Reschedule(k)}
        /\ \A u \in Threads \ {t} : pc[u] = "free"
      BY <1>6 DEF TestTimer, timerVars, Goto, TypeOK, AloneInv, Test, Create, Reschedule
  <2>2. CASE k = "motion"
      BY <2>1, <2>2 DEF Create, Reschedule
  <2>3. CASE k # "motion"
      BY <1>0, <2>1, <2>3 DEF OffWaits, Test
  <2> QED BY <2>2, <2>3
<1>7. ASSUME NEW t \in Threads, NEW k \in Kinds, CreateTimer(t, k) \/ RescheduleTimer(t, k)
      PROVE  Deadline'
  <2>1. PICK i \in TimerIds : /\ left'[<<k, i>>] = Minutes(k)
                              /\ \A y \in Timers \ {<<k, i>>} : left'[y] = left[y]
      BY <1>7, DeadlineSet
  <2>2. /\ lit' = lit /\ callback' = callback /\ bus' = bus /\ todo' = todo
        /\ pc[t] \in {Create(k), Reschedule(k)} /\ \A u \in Threads \ {t} : pc[u] = "free"
      BY <1>7, DeadlineSet
  <2>3. CASE k = "motion"
      BY <2>1, <2>3 DEF Minutes, timeoutMinutes, Unscheduled
  <2>4. CASE k # "motion"
    <3>1. \A j \in TimerIds : left'[<<"motion", j>>] = left[<<"motion", j>>]
        BY <1>0, <2>1, <2>4
    <3>2. pc[t] \notin BeforeDeadline /\ pc[t] # "off"
        BY <2>2, <2>4 DEF Create, Reschedule
    <3> QED BY <1>0, <2>2, <3>1, <3>2 DEF OffWaits
  <2> QED BY <2>3, <2>4
<1>8. ASSUME NEW k \in Kinds, NEW i \in TimerIds, Fire(<<k, i>>)
      PROVE  Deadline'
  <2>1. /\ NoneRuns /\ callback'[<<k, i>>] = "send" /\ lit' = lit /\ bus' = bus
        /\ \A y \in Timers \ {<<k, i>>} : left'[y] = left[y]
      BY <1>8, Fired
  <2>2. CASE k = "motion"
      BY <2>1, <2>2
  <2>3. CASE k # "motion"
    <3>1. \A j \in TimerIds : left'[<<"motion", j>>] = left[<<"motion", j>>]
        BY <1>0, <2>1, <2>3
    <3>2. (\E j \in TimerIds : Scheduled("motion", j)) \/ OffWaits
        BY <1>0, <2>1 DEF NoneRuns
    <3> QED BY <2>1, <3>1, <3>2 DEF OffWaits
  <2> QED BY <2>2, <2>3
<1>9. ASSUME NEW k \in Kinds, NEW i \in TimerIds,
             Send(<<k, i>>) \/ Cancel(<<k, i>>) \/ Clear(<<k, i>>)
      PROVE  Deadline'
  <2>1. /\ \A y \in Timers \ {<<k, i>>} : callback[y] = "none"
        /\ \A t \in Threads : pc[t] = "free"
        /\ \A j \in TimerIds : ~Scheduled(k, j)
        /\ left' = left /\ lit' = lit
      BY <1>9, CalledBack
  <2>2. bus' = bus \/ \E e \in {"ON", "OFF", "DAY"} : bus' = Append(bus, e)
      BY <1>9 DEF Send, Cancel, Clear, Post
  <2>3. CASE OffWaits
      BY <2>2, <2>3, OffStays
  <2>4. CASE k = "motion" /\ Send(<<k, i>>)
    <3>1. bus' = Append(bus, "OFF")
        BY <2>4 DEF Send, Post
    <3>2. Len(bus') = Len(bus) + 1 /\ bus'[Len(bus) + 1] = "OFF" /\ Len(bus) \in Nat
        BY <3>1, AppendProperties DEF TypeOK
    <3> QED BY <3>2 DEF OffWaits
  <2>5. CASE ~OffWaits /\ (k # "motion" \/ ~Send(<<k, i>>))
    <3>1. callback[<<"motion", i>>] = "send" => k = "motion" /\ Send(<<k, i>>)
        BY <1>0, <1>9, <2>1 DEF Cancel, Clear
    <3>2. \A j \in TimerIds : callback[<<"motion", j>>] # "send"
        BY <1>0, <2>1, <2>5, <3>1
    <3>3. \E j \in TimerIds : Scheduled("motion", j)
        BY <1>0, <2>1, <2>5, <3>2
    <3> QED BY <2>1, <3>3
  <2> QED BY <2>3, <2>4, <2>5
<1> QED BY <1>1, <1>2, <1>3, <1>4, <1>5, <1>6, <1>7, <1>8, <1>9, NextCases, NoException

-----------------------------------------------------------------------------
(* A warning before the deadline                                           *)

(* The fade timer is nearer than a motion timer's deadline of m minutes,   *)
(* or its callback has started.                                            *)
FadeBefore(m) == \E j \in TimerIds : \/ callback[<<"fade", j>>] = "send"
                                     \/ Scheduled("fade", j) /\ left[<<"fade", j>>] < m

LEMMA PulseStep == SerialInv /\ PulseInv /\ [Next]_vars => PulseInv'
<1> DEFINE Told(i) == callback[<<"motion", i>>] = "send" => pulsed
           AboutToFade == \E t \in Threads : pc[t] \in BeforePulse
           Warned(i) == Scheduled("motion", i) =>
             /\ AboutToFade => left[<<"motion", i>>] = timeoutMinutes
             /\ pulsed \/ FadeBefore(left[<<"motion", i>>]) \/ AboutToFade
<1> SUFFICES ASSUME SerialInv, PulseInv, [Next]_vars, NEW i \in TimerIds
             PROVE  Told(i)' /\ Warned(i)'
    BY DEF PulseInv, FadeBefore
<1> USE DEF SerialInv, BeforePulse, Scheduled
<1>0. /\ \A j \in TimerIds : Told(j) /\ Warned(j)
      /\ {"motion", "fade"} \subseteq Kinds /\ \A k \in Kinds, j \in TimerIds : <<k, j>> \in Timers
    BY DEF PulseInv, FadeBefore, Kinds, Timers
<1>1. CASE Motion \/ TimeOfDay \/ UNCHANGED vars
  <2>1. left' = left /\ callback' = callback /\ pc' = pc /\ pulsed' = pulsed
      BY <1>1 DEF Motion, TimeOfDay, ruleVars, timerVars, vars, history
  <2> QED BY <1>0, <2>1 DEF FadeBefore
<1>2. CASE Tick
  <2>1. /\ callback' = callback /\ pc' = pc /\ pulsed' = pulsed
        /\ \A t \in Threads : pc[t] = "free"
        /\ \A j \in TimerIds : callback[<<"motion", j>>] = "none" /\ callback[<<"fade", j>>] = "none"
      BY <1>0, <1>2, MinutePassed DEF NoneRuns
  <2>2. \A k \in Kinds, j \in TimerIds :
          /\ left'[<<k, j>>] # Unscheduled <=> left[<<k, j>>] # Unscheduled
          /\ left[<<k, j>>] # Unscheduled => left'[<<k, j>>] = left[<<k, j>>] - 1
      BY <1>2, MinutePassed
  <2>3. \A k \in Kinds, j \in TimerIds : left[<<k, j>>] \in Int
    <3>1. \A x \in Timers : left[x] \in {Unscheduled} \cup 0 .. timeoutMinutes
        BY Zenon DEF TypeOK
    <3>2. {Unscheduled} \cup 0 .. timeoutMinutes \subseteq Int
        BY DEF Unscheduled, timeoutMinutes
    <3> QED BY <1>0, <3>1, <3>2
  <2>4. ASSUME left'[<<"motion", i>>] # Unscheduled, ~pulsed
        PROVE  FadeBefore(left[<<"motion", i>>])'
    <3>1. PICK j \in TimerIds : /\ left[<<"fade", j>>] # Unscheduled
                                /\ left[<<"fade", j>>] < left[<<"motion", i>>]
        BY <1>0, <2>1, <2>2, <2>4 DEF FadeBefore
    <3>2. /\ left'[<<"fade", j>>] # Unscheduled
          /\ left'[<<"fade", j>>] < left'[<<"motion", i>>]
        BY <1>0, <2>2, <2>3, <2>4, <3>1
    <3> QED BY <3>2 DEF FadeBefore
  <2> QED BY <2>1, <2>4
<1>3. ASSUME NEW t \in Threads, \/ OnStart(t) \/ OffStart(t) \/ DayStart(t)
                                \/ SwitchOn(t) \/ SwitchOff(t)
                                \/ \E k \in Kinds : TestTimer(t, k)
      PROVE  Told(i)' /\ Warned(i)'
  <2>1. /\ left' = left /\ callback' = callback /\ pulsed' = pulsed
        /\ \A u \in Threads \ {t} : pc'[u] = pc[u]
      BY <1>3, StartTimers
  <2>2. pc'[t] \in BeforePulse <=> pc[t] \in BeforePulse
    <3>1. CASE \/ OnStart(t) \/ OffStart(t) \/ DayStart(t) \/ SwitchOn(t) \/ SwitchOff(t)
        BY <3>1 DEF OnStart, OffStart, DayStart, Starts, SwitchOn, SwitchOff, Goto, TypeOK
    <3>2. ASSUME NEW k \in Kinds, TestTimer(t, k)
          PROVE  pc'[t] \in BeforePulse <=> pc[t] \in BeforePulse
        BY <3>2 DEF TestTimer, Goto, TypeOK, Test, Create, Reschedule, Kinds
    <3> QED BY <1>3, <3>1, <3>2
  <2>3. AboutToFade' <=> AboutToFade
      BY <2>1, <2>2
  <2> QED BY <1>0, <2>1, <2>3 DEF FadeBefore
<1>4. ASSUME NEW t \in Threads, NEW k \in Kinds, CreateTimer(t, k) \/ RescheduleTimer(t, k)
      PROVE  Told(i)' /\ Warned(i)'
  <2>1. PICK d \in TimerIds : /\ left'[<<k, d>>] = Minutes(k)
                              /\ \A y \in Timers \ {<<k, d>>} : left'[y] = left[y]
                              /\ \A j \in TimerIds \ {d} : ~Scheduled(k, j)
      BY <1>4, DeadlineSet
  <2>2. /\ \A y \in Timers : callback'[y] = "none"
        /\ pc[t] \in {Create(k), Reschedule(k)} /\ pc'[t] = After(k)
        /\ \A u \in Threads \ {t} : pc'[u] = "free"
        /\ pulsed' = (pulsed /\ k = "motion")
      BY <1>4, DeadlineSet
  <2>3. CASE k = "motion"
    <3>1. pc'[t] \in BeforePulse
        BY <2>2, <2>3 DEF After
    <3>2. \A j \in TimerIds \ {d} : left'[<<"motion", j>>] = left[<<"motion", j>>]
        BY <1>0, <2>1, <2>3
    <3>3. Scheduled("motion", i)' => left'[<<"motion", i>>] = timeoutMinutes
        BY <2>1, <2>3, <3>2 DEF Minutes
    <3> QED BY <1>0, <2>2, <3>1, <3>3
  <2>4. CASE k = "fade"
    <3>1. pc[t] \in BeforePulse /\ \A u \in Threads : pc'[u] = "free"
        BY <2>2, <2>4 DEF Create, Reschedule, After
    <3>2. left'[<<"motion", i>>] = left[<<"motion", i>>]
        BY <1>0, <2>1, <2>4
    <3>3. Scheduled("motion", i)' => left'[<<"motion", i>>] = timeoutMinutes
        BY <1>0, <3>1, <3>2
    <3>4. left'[<<"fade", d>>] # Unscheduled /\ left'[<<"fade", d>>] < timeoutMinutes
        BY <2>1, <2>4 DEF Minutes, fadeMinutes, timeoutMinutes, Unscheduled
    <3> QED BY <1>0, <2>2, <3>1, <3>3, <3>4 DEF FadeBefore
  <2> QED BY <2>3, <2>4 DEF Kinds
<1>5. ASSUME NEW k \in Kinds, NEW f \in TimerIds, Fire(<<k, f>>)
      PROVE  Told(i)' /\ Warned(i)'
  <2>1. /\ left[<<k, f>>] = 0 /\ NoneRuns /\ pc' = pc /\ pulsed' = pulsed
        /\ callback'[<<k, f>>] = "send"
        /\ \A y \in Timers \ {<<k, f>>} : callback'[y] = "none" /\ left'[y] = left[y]
        /\ \A j \in TimerIds : ~Scheduled(k, j)'
      BY <1>5, Fired
  <2>2. ~AboutToFade /\ ~AboutToFade'
      BY <2>1 DEF NoneRuns
  <2>3. CASE k = "motion"
    <3>1. \A j \in TimerIds : Scheduled("fade", j) => ~(left[<<"fade", j>>] < 0)
        BY <1>0 DEF TypeOK, timeoutMinutes, Unscheduled
    <3>2. ~FadeBefore(0)
        BY <1>0, <2>1, <3>1 DEF FadeBefore, NoneRuns
    <3>3. Scheduled("motion", f)
        BY <2>1, <2>3 DEF Unscheduled
    <3>4. pulsed
        BY <1>0, <2>1, <2>2, <2>3, <3>2, <3>3
    <3> QED BY <2>1, <2>3, <3>4
  <2>4. CASE k = "fade"
    <3>1. callback'[<<"motion", i>>] = "none"
        BY <1>0, <2>1, <2>4
    <3>2. FadeBefore(left[<<"motion", i>>])'
        BY <2>1, <2>4 DEF FadeBefore
    <3> QED BY <2>2, <3>1, <3>2
  <2> QED BY <2>3, <2>4 DEF Kinds
<1>6. ASSUME NEW k \in Kinds, NEW f \in TimerIds,
             Send(<<k, f>>) \/ Cancel(<<k, f>>) \/ Clear(<<k, f>>)
      PROVE  Told(i)' /\ Warned(i)'
  <2>1. /\ \A y \in Timers \ {<<k, f>>} : callback[y] = "none" /\ callback'[y] = "none"
        /\ \A t \in Threads : pc[t] = "free" /\ pc' = pc
        /\ \A j \in TimerIds : ~Scheduled(k, j)
        /\ left' = left /\ callback'[<<k, f>>] # "send"
      BY <1>6, CalledBack
  <2>2. /\ pulsed => pulsed'
        /\ callback[<<"fade", f>>] = "send" => pulsed' \/ k = "motion"
    <3>1. <<k, f>>[1] = k
        OBVIOUS
    <3>2. CASE Send(<<k, f>>)
        BY <3>1, <3>2, Zenon DEF Send
    <3>3. CASE Cancel(<<k, f>>) \/ Clear(<<k, f>>)
      <4>1. pulsed' = pulsed
          BY <3>3, Zenon DEF Cancel, Clear, history
      <4>2. callback[<<k, f>>] # "send"
          BY <3>3 DEF Cancel, Clear
      <4> QED BY <4>1, <4>2 DEF Kinds
    <3> QED BY <1>6, <3>2, <3>3
  <2>3. Told(i)'
      BY <1>0, <2>1
  <2>4. CASE k = "motion"
      BY <2>1, <2>3, <2>4
  <2>5. CASE k = "fade"
    <3>1. FadeBefore(left[<<"motion", i>>]) => callback[<<"fade", f>>] = "send"
        BY <1>0, <2>1, <2>5 DEF FadeBefore
    <3>2. Scheduled("motion", i) => pulsed'
        BY <1>0, <2>1, <2>2, <2>5, <3>1
    <3> QED BY <2>1, <2>3, <3>2
  <2> QED BY <2>4, <2>5 DEF Kinds
<1> QED BY <1>1, <1>2, <1>3, <1>4, <1>5, <1>6, NextCases, NoException

-----------------------------------------------------------------------------

LEMMA AlwaysIInv == Spec => []IInv
<1>1. Init => IInv
  <2> SUFFICES ASSUME Init
               PROVE  IInv
      OBVIOUS
  <2>1. /\ lit = {} /\ bus = <<>> /\ pc = [t \in Threads |-> "free"]
        /\ todo = [t \in Threads |-> {}] /\ timerVar = [k \in Kinds |-> None]
        /\ left = [x \in Timers |-> Unscheduled] /\ callback = [x \in Timers |-> "none"]
        /\ serial \in BOOLEAN /\ tod \in TimesOfDay /\ pulsed \in BOOLEAN /\ overlaps = 0
      BY Zenon DEF Init
  <2>2. TypeOK
      BY <2>1, MotionAssumption DEF TypeOK
  <2>3. \A k \in Kinds, i \in TimerIds : <<k, i>> \in Timers
      BY DEF Timers
  <2>4. AloneInv /\ StaleInv /\ DeadlineInv
      BY <2>1 DEF AloneInv, StaleInv, DeadlineInv
  <2>5. TimerInv
      BY <2>1, <2>3 DEF TimerInv, Scheduled, Create, Reschedule
  <2>6. PulseInv
      BY <2>1, <2>3 DEF PulseInv, Scheduled, Kinds
  <2> QED BY <2>2, <2>4, <2>5, <2>6 DEF IInv
<1>2. IInv /\ [Next]_vars => IInv'
  <2> SUFFICES ASSUME IInv, [Next]_vars
               PROVE  IInv'
      OBVIOUS
  <2>1. TypeOK' /\ AloneInv' /\ StaleInv'
      BY TypeStep, AloneStep, StaleStep DEF IInv
  <2>2. CASE serial
    <3>1. SerialInv /\ DeadlineInv /\ PulseInv
        BY <2>2 DEF IInv, SerialInv
    <3> QED BY <2>1, <3>1, TimerStep, DeadlineStep, PulseStep DEF IInv
  <2>3. CASE ~serial
    <3>1. ~serial'
        BY <2>3, OneMoves DEF IInv
    <3>2. TimerInv' /\ DeadlineInv' /\ PulseInv'
        BY <3>1 DEF TimerInv, DeadlineInv, PulseInv
    <3> QED BY <2>1, <3>2 DEF IInv
  <2> QED BY <2>2, <2>3
<1> QED BY <1>1, <1>2, PTL DEF Spec

(* pir.rules: whichever statements of rules and callbacks interleave, a    *)
(* variable is never left with a timer that is over; the assignments of    *)
(* null at the end of the callbacks see to it.                             *)
THEOREM VariableIsLive == Spec => []NoStaleTimer
<1>1. IInv => NoStaleTimer
    BY DEF IInv, StaleInv, NoStaleTimer, NoneRuns, Timers
<1> QED BY <1>1, AlwaysIInv, PTL

(* pir.rules:5: with one rule or callback at a time every light that is on *)
(* has a deadline, and no timer is scheduled that a motion cannot put off. *)
THEOREM DeadlineIsKept == Spec => []SerialDeadline
<1>1. IInv => SerialDeadline
  <2> SUFFICES ASSUME IInv, serial
               PROVE  SerialDeadline
      BY DEF SerialDeadline
  <2>1. ASSUME Settled, lit # {}
        PROVE  \E i \in TimerIds : Scheduled("motion", i)
    <3>1. /\ bus = <<>> /\ \A t \in Threads : pc[t] = "free"
          /\ \A i \in TimerIds : callback[<<"motion", i>>] = "none"
        BY <2>1 DEF Settled, NoneRuns, Timers, Kinds
    <3>2. \A t \in Threads : pc[t] \notin BeforeDeadline /\ pc[t] # "off"
        BY <3>1 DEF BeforeDeadline
    <3>3. ~OffWaits
        BY <3>1 DEF OffWaits
    <3> QED BY <2>1, <3>1, <3>2, <3>3 DEF IInv, DeadlineInv, OffWaits
  <2>2. \A k \in Kinds, i \in TimerIds : Scheduled(k, i) => timerVar[k] = i
      BY DEF IInv, TimerInv
  <2> QED BY <2>1, <2>2 DEF SerialDeadline
<1> QED BY <1>1, AlwaysIInv, PTL

(* pir.rules:14: with one rule or callback at a time the command OFF of a  *)
(* motion timer comes after the PULSE of its fade timer.                   *)
THEOREM WarningComesFirst == Spec => PulseFirst
<1>1. IInv /\ [Next]_vars =>
        [serial /\ (\E x \in Timers : x[1] = "motion" /\ Send(x)) => pulsed]_vars
  <2> SUFFICES ASSUME IInv, serial, NEW x \in Timers, x[1] = "motion", Send(x)
               PROVE  pulsed
      OBVIOUS
  <2>1. PICK k \in Kinds, i \in TimerIds : x = <<k, i>>
      BY DEF Timers
  <2>2. k = "motion"
      BY <2>1
  <2>3. callback[<<"motion", i>>] = "send"
      BY <2>1, <2>2 DEF Send
  <2> QED BY <2>3 DEF IInv, PulseInv
<1> QED BY <1>1, AlwaysIInv, PTL DEF Spec, PulseFirst
=============================================================================
