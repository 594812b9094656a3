-------------------------- MODULE PwmDriver_proofs --------------------------
(***************************************************************************)
(* Theorems about PwmDriver, for any number of calling tasks and colours.  *)
(***************************************************************************)
EXTENDS PwmDriver, TLAPS

LEMMA PwmTypeStep == TypeOK /\ [Next]_vars => TypeOK'
<1> SUFFICES ASSUME TypeOK, [Next]_vars
             PROVE  TypeOK'
    OBVIOUS
<1> USE PwmAssumption DEF TypeOK
<1>1. CASE UNCHANGED vars
    BY <1>1 DEF vars
<1>2. ASSUME NEW t \in Tasks, SetStart(t)
      PROVE  TypeOK'
  <2>1. alone' \in [Tasks -> BOOLEAN]
      BY <1>2, Zenon DEF SetStart
  <2> QED BY <1>2, <2>1 DEF SetStart
<1>3. ASSUME NEW t \in Tasks, SetReturn(t) \/ GetReturn(t)
      PROVE  TypeOK'
  <2>1. Return(t)
      BY <1>3 DEF SetReturn, GetReturn
  <2> QED BY <2>1 DEF Return
<1>4. ASSUME NEW t \in Tasks, GetStart(t)
      PROVE  TypeOK'
  <2>1. alone' \in [Tasks -> BOOLEAN]
      BY <1>4 DEF GetStart
  <2> QED BY <1>4, <2>1 DEF GetStart
<1>5. ASSUME NEW t \in Tasks, NEW ch \in Channels, Configure(t, ch)
      PROVE  TypeOK'
  <2>1. conf' \in [Channels -> Duties] /\ step' \in [Tasks -> 0 .. 6]
      BY <1>5 DEF Configure, Channels
  <2> QED BY <1>5, <2>1 DEF Configure
<1>6. ASSUME NEW t \in Tasks, NEW ch \in Channels, Start(t, ch)
      PROVE  TypeOK'
  <2>1. out' \in [Channels -> Duties] /\ step' \in [Tasks -> 0 .. 6]
      BY <1>6 DEF Start, Channels
  <2>2. now' \in [Channels -> Duties]
      BY <1>6, <2>1 DEF Start, Moves
  <2> QED BY <1>6, <2>1, <2>2 DEF Start
<1>7. ASSUME NEW t \in Tasks, NEW ch \in Channels, GetDuty(t, ch)
      PROVE  TypeOK'
  <2>1. step' \in [Tasks -> 0 .. 6]
      BY <1>7 DEF GetDuty, Channels
  <2>2. [value[t] EXCEPT ![ch] = now[ch]] \in [Channels -> Duties]
      OBVIOUS
  <2>3. value' \in [Tasks -> [Channels -> Duties]]
      BY <1>7, <2>2 DEF GetDuty
  <2> QED BY <1>7, <2>1, <2>3 DEF GetDuty
<1>8. ASSUME NEW ch \in Channels, Fade(ch)
      PROVE  TypeOK'
  <2>1. Passed(now[ch], out[ch]) \subseteq Duties
      BY DEF Passed, Duties
  <2> QED BY <1>8, <2>1 DEF Fade
<1> QED
    BY <1>1, <1>2, <1>3, <1>4, <1>5, <1>6, <1>7, <1>8 DEF Next, TaskStep

(* The driver's variables keep their types. *)
THEOREM PwmTypeCorrect == Spec => []TypeOK
<1>1. Init => TypeOK
    BY PwmAssumption DEF Init, TypeOK
<1> QED
    BY <1>1, PwmTypeStep, PTL DEF Spec

(* A channel's starter: the call that configured it and has not started it. *)
Starts(t, ch) == call[t] = "set" /\ step[t] \in ch .. ch + 2

(* A step of the driver keeps every other channel's starter. *)
LEMMA StarterStays ==
  ASSUME TypeOK, NEW u \in Tasks, NEW ch \in Channels, Starts(u, ch), [Next]_vars,
         ~Start(u, ch)
  PROVE  Starts(u, ch)'
<1>a. step[u] \in 1 .. 5 /\ call[u] = "set"
    BY DEF Starts, TypeOK, Channels
<1>1. CASE UNCHANGED vars
    BY <1>1 DEF vars, Starts
<1>2. ASSUME NEW t \in Tasks, SetStart(t) \/ GetStart(t)
      PROVE  Starts(u, ch)'
  <2>1. t # u
      BY <1>2, <1>a DEF SetStart, GetStart
  <2> QED BY <1>2, <2>1 DEF SetStart, GetStart, Starts, TypeOK
<1>3. ASSUME NEW t \in Tasks, SetReturn(t) \/ GetReturn(t)
      PROVE  Starts(u, ch)'
  <2>1. t # u /\ Return(t)
      BY <1>3, <1>a DEF SetReturn, GetReturn
  <2> QED BY <2>1 DEF Return, Starts, TypeOK
<1>4. ASSUME NEW t \in Tasks, NEW c \in Channels, Configure(t, c) \/ GetDuty(t, c)
      PROVE  Starts(u, ch)'
  <2>1. CASE Configure(t, c)
    <3>1. step[u] \in ch .. ch + 2 /\ step \in [Tasks -> 0 .. 6]
        BY DEF Starts, TypeOK
    <3>2. call' = call /\ (t # u => step'[u] = step[u])
        BY <2>1, <3>1 DEF Configure
    <3>3. CASE t = u
      <4>1. step[u] = c - 1 /\ step'[u] = c
          BY <2>1, <3>1, <3>3 DEF Configure
      <4> QED BY <3>1, <3>2, <4>1, <1>a DEF Starts, Channels
    <3> QED BY <3>1, <3>2, <3>3, <1>a DEF Starts
  <2>2. CASE GetDuty(t, c)
    <3>1. t # u
        BY <2>2, <1>a DEF GetDuty
    <3> QED BY <2>2, <3>1 DEF GetDuty, Starts, TypeOK
  <2> QED BY <1>4, <2>1, <2>2
<1>5. ASSUME NEW t \in Tasks, NEW c \in Channels, Start(t, c)
      PROVE  Starts(u, ch)'
  <2>1. step[u] \in ch .. ch + 2 /\ step \in [Tasks -> 0 .. 6] /\ call' = call
      BY <1>5 DEF Start, Starts, TypeOK
  <2>2. CASE t = u
    <3>1. step[u] = c + 2 /\ step'[u] = c + 3
        BY <1>5, <2>1, <2>2 DEF Start
    <3>2. c # ch
        BY <1>5, <2>2
    <3> QED BY <2>1, <3>1, <3>2, <1>a DEF Starts, Channels
  <2>3. CASE t # u
      BY <1>5, <2>1, <2>3, <1>a DEF Start, Starts
  <2> QED BY <2>2, <2>3
<1>6. ASSUME NEW c \in Channels, Fade(c)
      PROVE  Starts(u, ch)'
    BY <1>6 DEF Fade, Starts
<1> QED
    BY <1>1, <1>2, <1>3, <1>4, <1>5, <1>6 DEF Next, TaskStep

(* However many tasks write the strip at once, a channel whose             *)
(* configuration is not what it was started with has a call that will      *)
(* start it.                                                               *)
THEOREM NothingLeftPending == Spec => []NothingPending
<1>1. Init => NothingPending
    BY DEF Init, NothingPending
<1>2. TypeOK /\ NothingPending /\ [Next]_vars => NothingPending'
  <2> SUFFICES ASSUME TypeOK, NothingPending, [Next]_vars,
                      NEW ch \in Channels, conf'[ch] # out'[ch]
               PROVE  \E t \in Tasks : Starts(t, ch)'
      BY DEF NothingPending, Starts
  <2>1. ASSUME NEW t \in Tasks, Configure(t, ch)
        PROVE  \E u \in Tasks : Starts(u, ch)'
      BY <2>1 DEF Configure, Starts, TypeOK, Channels
  <2>2. ASSUME NEW t \in Tasks, Start(t, ch)
        PROVE  FALSE
      BY <2>2 DEF Start, TypeOK
  <2>3. ASSUME \A t \in Tasks : ~Configure(t, ch) /\ ~Start(t, ch)
        PROVE  \E u \in Tasks : Starts(u, ch)'
    <3>1. conf'[ch] = conf[ch] /\ out'[ch] = out[ch]
      <4>1. ASSUME NEW t \in Tasks, NEW c \in Channels, Configure(t, c) \/ Start(t, c)
            PROVE  conf'[ch] = conf[ch] /\ out'[ch] = out[ch]
          BY <2>3, <4>1 DEF Configure, Start, TypeOK
      <4>2. CASE ~\E t \in Tasks, c \in Channels : Configure(t, c) \/ Start(t, c)
          BY <4>2 DEF Next, TaskStep, vars, SetStart, SetReturn, GetStart, GetReturn, GetDuty,
                      Return, Fade
      <4> QED BY <4>1, <4>2
    <3>2. PICK u \in Tasks : Starts(u, ch)
        BY <3>1 DEF NothingPending, Starts
    <3> QED BY <2>3, <3>2, StarterStays
  <2> QED BY <2>1, <2>2, <2>3
<1> QED
    BY <1>1, <1>2, PwmTypeCorrect, PTL DEF Spec

(* What a write that is alone has done so far is still there. *)
Holds(t) ==
  /\ \A u \in Tasks : call[u] = "set" => u = t
  /\ \A ch \in Channels : /\ step[t] >= ch => conf[ch] = value[t][ch]
                          /\ step[t] >= ch + 3 => out[ch] = value[t][ch]
LoneInv == \A t \in Tasks : call[t] = "set" /\ alone[t] => Holds(t)

LEMMA LoneStep == TypeOK /\ LoneInv /\ [Next]_vars => LoneInv'
<1> SUFFICES ASSUME TypeOK, LoneInv, [Next]_vars,
                    NEW t \in Tasks, call'[t] = "set", alone'[t]
             PROVE  Holds(t)'
    BY DEF LoneInv
<1>1. CASE UNCHANGED vars
    BY <1>1 DEF vars, LoneInv, Holds
<1>2. ASSUME NEW u \in Tasks, SetStart(u)
      PROVE  Holds(t)'
  <2>1. u = t /\ Writing = {}
    <3>1. call'[t] = "set" /\ alone'[t] = (IF t = u THEN Writing = {} ELSE call[t] = "none")
        BY <1>2, Zenon DEF SetStart
    <3>2. t # u => call[t] = "set"
        BY <1>2, <3>1 DEF SetStart, TypeOK
    <3> QED BY <3>1, <3>2
  <2>2. step'[t] = 0 /\ \A w \in Tasks : call'[w] = "set" => w = t
      BY <1>2, <2>1 DEF SetStart, TypeOK, Writing
  <2> QED BY <2>2 DEF Holds, Channels
<1>3. ASSUME NEW u \in Tasks, SetReturn(u) \/ GetReturn(u) \/ GetStart(u)
      PROVE  Holds(t)'
  <2>1. u # t
      BY <1>3 DEF SetReturn, GetReturn, Return, GetStart, TypeOK
  <2>2. /\ call[t] = "set" /\ alone[t] /\ step'[t] = step[t] /\ value'[t] = value[t]
        /\ UNCHANGED <<conf, out>>
        /\ \A w \in Tasks : call'[w] = "set" => call[w] = "set"
      BY <1>3, <2>1 DEF SetReturn, GetReturn, Return, GetStart, TypeOK
  <2> QED BY <2>2 DEF LoneInv, Holds
<1>4. ASSUME NEW u \in Tasks, NEW c \in Channels, Configure(u, c) \/ Start(u, c)
      PROVE  Holds(t)'
  <2>1. /\ UNCHANGED <<call, alone, value>> /\ call[u] = "set"
        /\ call[t] = "set" /\ alone[t]
      BY <1>4 DEF Configure, Start
  <2>2. u = t /\ Holds(t)
      BY <2>1 DEF LoneInv, Holds
  <2>3. conf \in [Channels -> Duties] /\ out \in [Channels -> Duties] /\ step \in [Tasks -> 0 .. 6]
      BY DEF TypeOK
  <2>4. CASE Configure(t, c)
    <3>1. /\ step[t] = c - 1 /\ step'[t] = c /\ out' = out /\ conf'[c] = value[t][c]
          /\ \A ch \in Channels \ {c} : conf'[ch] = conf[ch]
        BY <2>3, <2>4 DEF Configure
    <3>2. \A ch \in Channels : step'[t] >= ch => conf'[ch] = value[t][ch]
        BY <2>2, <2>3, <3>1 DEF Holds, Channels
    <3>3. \A ch \in Channels : ~(step'[t] >= ch + 3)
        BY <3>1 DEF Channels
    <3> QED BY <2>1, <2>2, <3>2, <3>3 DEF Holds
  <2>5. CASE Start(t, c)
    <3>1. /\ step[t] = c + 2 /\ step'[t] = c + 3 /\ conf' = conf /\ out'[c] = conf[c]
          /\ \A ch \in Channels \ {c} : out'[ch] = out[ch]
        BY <2>3, <2>5 DEF Start
    <3>2. \A ch \in Channels : conf[ch] = value[t][ch]
        BY <2>2, <3>1 DEF Holds, Channels
    <3>3. \A ch \in Channels : step'[t] >= ch + 3 => out'[ch] = value[t][ch]
        BY <2>2, <2>3, <3>1, <3>2 DEF Holds, Channels
    <3> QED BY <2>1, <2>2, <3>1, <3>2, <3>3 DEF Holds
  <2> QED BY <1>4, <2>2, <2>4, <2>5
<1>5. ASSUME NEW u \in Tasks, NEW c \in Channels, GetDuty(u, c)
      PROVE  Holds(t)'
  <2>1. u # t
      BY <1>5 DEF GetDuty
  <2>2. /\ UNCHANGED <<call, alone, conf, out>>
        /\ step'[t] = step[t] /\ value'[t] = value[t]
      BY <1>5, <2>1 DEF GetDuty, TypeOK
  <2> QED BY <2>2 DEF LoneInv, Holds
<1>6. ASSUME NEW c \in Channels, Fade(c)
      PROVE  Holds(t)'
  <2>1. UNCHANGED <<call, alone, conf, out, step, value>>
      BY <1>6 DEF Fade
  <2> QED BY <2>1 DEF LoneInv, Holds
<1> QED
    BY <1>1, <1>2, <1>3, <1>4, <1>5, <1>6 DEF Next, TaskStep

(* A write of any colour that no other write overlaps ends with every      *)
(* channel started with it, whatever the writes before it have left there. *)
THEOREM LoneWriteIsWhole == Spec => []LoneWriteShows
<1>1. Init => LoneInv
    BY DEF Init, LoneInv
<1>2. TypeOK /\ LoneInv => LoneWriteShows
  <2> SUFFICES ASSUME TypeOK, LoneInv, NEW t \in Tasks,
                      call[t] = "set", alone[t], step[t] = 6
               PROVE  out = value[t] /\ out = conf
      BY DEF LoneWriteShows
  <2>1. \A ch \in Channels : conf[ch] = value[t][ch] /\ out[ch] = value[t][ch]
      BY DEF LoneInv, Holds, Channels
  <2>2. {conf, out, value[t]} \subseteq [Channels -> Duties]
      BY DEF TypeOK
  <2> QED BY <2>1, <2>2
<1> QED
    BY <1>1, <1>2, LoneStep, PwmTypeCorrect, PTL DEF Spec

(* While a read is alone nothing writes, so each channel stays on its way  *)
(* from where it was when the read began to where it was started for.      *)
OnWay(t, ch, duty) == duty \in Passed(first[t][ch], out[ch])
Reads(t) ==
  /\ \A u \in Tasks : call[u] # "set"
  /\ \A ch \in Channels : OnWay(t, ch, now[ch]) /\ (step[t] >= ch => OnWay(t, ch, value[t][ch]))
ReadInv == \A t \in Tasks : call[t] = "get" /\ alone[t] => Reads(t)

LEMMA ReadStep == TypeOK /\ ReadInv /\ [Next]_vars => ReadInv'
<1> SUFFICES ASSUME TypeOK, ReadInv, [Next]_vars,
                    NEW t \in Tasks, call'[t] = "get", alone'[t]
             PROVE  Reads(t)'
    BY DEF ReadInv
<1>k. ASSUME call[t] = "get", alone[t], UNCHANGED <<out, now>>,
             step'[t] = step[t], value'[t] = value[t], first'[t] = first[t],
             \A w \in Tasks : call'[w] = "set" => call[w] = "set"
      PROVE  Reads(t)'
    BY <1>k DEF ReadInv, Reads, OnWay
<1>1. CASE UNCHANGED vars
    BY <1>1, <1>k DEF vars
<1>2. ASSUME NEW u \in Tasks, SetStart(u)
      PROVE  FALSE
  <2>1. call'[u] = "set" /\ u # t /\ call[t] = "get"
      BY <1>2 DEF SetStart, TypeOK
  <2>2. alone'[t] = (IF t = u THEN Writing = {} ELSE call[t] = "none")
      BY <1>2, Zenon DEF SetStart
  <2> QED BY <2>1, <2>2
<1>3. ASSUME NEW u \in Tasks, SetReturn(u) \/ GetReturn(u)
      PROVE  Reads(t)'
  <2>1. u # t /\ Return(u)
      BY <1>3 DEF SetReturn, GetReturn, Return, TypeOK
  <2> QED BY <2>1, <1>k DEF Return, TypeOK
<1>4. ASSUME NEW u \in Tasks, GetStart(u)
      PROVE  Reads(t)'
  <2>1. CASE u = t
    <3>1. /\ step'[t] = 0 /\ first'[t] = now /\ now' = now /\ out' = out
          /\ call[t] = "none" /\ (alone'[t] <=> Writing = {})
          /\ \A w \in Tasks : call'[w] = "set" => call[w] = "set"
        BY <1>4, <2>1 DEF GetStart, TypeOK
    <3>2. \A w \in Tasks : call[w] # "set"
        BY <3>1 DEF Writing
    <3>3. \A ch \in Channels : now[ch] \in Passed(now[ch], out[ch])
        BY PwmAssumption DEF TypeOK, Passed, Duties
    <3> QED BY <3>1, <3>2, <3>3 DEF Reads, OnWay, Channels
  <2>2. CASE u # t
      BY <1>4, <2>2, <1>k DEF GetStart, TypeOK
  <2> QED BY <2>1, <2>2
<1>5. ASSUME NEW u \in Tasks, NEW c \in Channels, Configure(u, c) \/ Start(u, c)
      PROVE  FALSE
  <2>1. call[u] = "set" /\ call[t] = "get" /\ alone[t]
      BY <1>5 DEF Configure, Start
  <2> QED BY <2>1 DEF ReadInv, Reads
<1>6. ASSUME NEW u \in Tasks, NEW c \in Channels, GetDuty(u, c)
      PROVE  Reads(t)'
  <2>1. UNCHANGED <<call, alone, out, now, first>> /\ Reads(t)
      BY <1>6 DEF GetDuty, ReadInv
  <2>2. CASE u = t
    <3>1. /\ step[t] = c - 1 /\ step'[t] = c /\ value'[t][c] = now[c]
          /\ \A ch \in Channels \ {c} : value'[t][ch] = value[t][ch]
        BY <1>6, <2>2 DEF GetDuty, TypeOK
    <3>2. \A ch \in Channels : c >= ch => OnWay(t, ch, value'[t][ch])
        BY <2>1, <3>1 DEF Reads, Channels
    <3> QED BY <2>1, <3>1, <3>2 DEF Reads, OnWay
  <2>3. CASE u # t
    <3>1. step'[t] = step[t] /\ value'[t] = value[t]
        BY <1>6, <2>3 DEF GetDuty, TypeOK
    <3> QED BY <2>1, <3>1 DEF Reads, OnWay
  <2> QED BY <2>2, <2>3
<1>7. ASSUME NEW c \in Channels, Fade(c)
      PROVE  Reads(t)'
  <2>1. UNCHANGED <<call, alone, out, step, value, first>> /\ Reads(t)
      BY <1>7 DEF Fade, ReadInv
  <2>2. PICK duty \in Passed(now[c], out[c]) : now' = [now EXCEPT ![c] = duty]
      BY <1>7 DEF Fade
  <2>3. OnWay(t, c, duty)
    <3>1. /\ now[c] \in 0 .. MaxDuty /\ out[c] \in 0 .. MaxDuty /\ first[t][c] \in 0 .. MaxDuty
          /\ MaxDuty \in Nat
        BY PwmAssumption DEF TypeOK, Duties
    <3>2. now[c] \in Passed(first[t][c], out[c])
        BY <2>1 DEF Reads, OnWay
    <3> QED BY <2>2, <3>1, <3>2 DEF OnWay, Passed
  <2>4. \A ch \in Channels : OnWay(t, ch, now'[ch])
      BY <2>1, <2>2, <2>3 DEF Reads, TypeOK
  <2> QED BY <2>1, <2>4 DEF Reads, OnWay
<1> QED
    BY <1>1, <1>2, <1>3, <1>4, <1>5, <1>6, <1>7 DEF Next, TaskStep

(* A read that no write overlaps returns, channel by channel, a duty on    *)
(* the way from where the channel was when the read began to where its     *)
(* fade goes (pwm.c:212-215): whichever other tasks read at the same time, *)
(* however mixed the channels are, wherever each fade has got to.          *)
THEOREM LoneReadIsOnTheWay == Spec => []LoneReadIsBetween
<1>1. Init => ReadInv
    BY DEF Init, ReadInv
<1>2. TypeOK /\ ReadInv => LoneReadIsBetween
    BY DEF LoneReadIsBetween, ReadInv, Reads, OnWay, Channels
<1> QED
    BY <1>1, <1>2, ReadStep, PwmTypeCorrect, PTL DEF Spec
=============================================================================
