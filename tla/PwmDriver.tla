----------------------------- MODULE PwmDriver -----------------------------
(***************************************************************************)
(* pwm.c below the level of Animation: vPwmSetValueRec configures the      *)
(* three channels one after the other and then starts them one after the   *)
(* other, and iPwmGetValue reads them one after the other.  No lock is     *)
(* held, so the calls of the tasks interleave channel by channel.          *)
(*                                                                         *)
(* The immediate write (ledc_set_duty, ledc_update_duty) and the fading    *)
(* one (ledc_set_fade_with_time, ledc_fade_start) have the same shape: out *)
(* is the duty a channel was started with, now the one it has got to.  A   *)
(* fade takes 800 ms, long after vPwmSetValueRec has returned, and a read  *)
(* returns the duty of the moment.                                         *)
(***************************************************************************)
EXTENDS Integers

CONSTANTS
  Setters,     \* the tasks that call vPwmSetValueRec
  Getters,     \* the tasks that call iPwmGetValue
  MaxDuty,     \* the duty cycle of a channel that is fully on
  Colours,     \* what tasks set: one duty per channel
  Dark,        \* the colour of vPwmStart, all channels 0
  Full         \* what hsv_last_value starts with

Tasks == Setters \cup Getters
Channels == 1 .. 3   \* PWM_C_RED, PWM_C_GREEN, PWM_C_BLUE

Duties == 0 .. MaxDuty

ASSUME PwmAssumption ==
  /\ MaxDuty \in Nat
  /\ {Dark, Full} \subseteq Colours /\ Colours \subseteq [Channels -> Duties]

VARIABLES
  conf,            \* the duty configured for a channel
  out,             \* the duty the channel was last started with
  now,             \* the duty it has got to
  hsv_last_value,  \* what ON shows
  call,            \* the call each task is in: "none", "set" or "get"
  step,            \* calls to the LEDC driver it has made, 0 .. 6
  value,           \* the colour it sets, or what it has read
  first,           \* history: the duties when the task's read began
  alone            \* history: no other write has overlapped the task's call

vars == <<conf, out, now, hsv_last_value, call, step, value, first, alone>>

Writing == {t \in Tasks : call[t] = "set"}

(* vPwmStart *)
Init ==
  /\ conf = Dark /\ out = Dark /\ now = Dark /\ hsv_last_value = Full
  /\ call = [t \in Tasks |-> "none"]
  /\ step = [t \in Tasks |-> 0]
  /\ value = [t \in Tasks |-> Dark] /\ first = [t \in Tasks |-> Dark]
  /\ alone = [t \in Tasks |-> TRUE]

(* The end of a call; its locals are gone. *)
Return(t) ==
  /\ call' = [call EXCEPT ![t] = "none"]
  /\ value' = [value EXCEPT ![t] = Dark]
  /\ first' = [first EXCEPT ![t] = Dark]
  /\ alone' = [alone EXCEPT ![t] = TRUE]
  /\ UNCHANGED <<conf, out, now, hsv_last_value, step>>

(* vPwmSetValueRec up to the first channel: the value is recorded here.    *)
SetStart(t) ==
  /\ t \in Setters /\ call[t] = "none"
  /\ \E c \in Colours, record \in BOOLEAN :
       /\ value' = [value EXCEPT ![t] = c]
       /\ hsv_last_value' = IF record THEN c ELSE hsv_last_value
  /\ call' = [call EXCEPT ![t] = "set"]
  /\ step' = [step EXCEPT ![t] = 0]
  /\ alone' = [u \in Tasks |-> IF u = t THEN Writing = {} ELSE call[u] = "none"]
  /\ UNCHANGED <<conf, out, now, first>>

(* Mutant: the channels are counted from 1 on. *)
ConfigureOneOff(t, ch) ==
  /\ call[t] = "set" /\ step[t] = ch - 1
  /\ conf' = [c \in DOMAIN conf \cup {ch + 1} |->
                IF c = ch + 1 THEN value[t][ch] ELSE conf[c]]
  /\ step' = [step EXCEPT ![t] = ch]
  /\ UNCHANGED <<out, now, hsv_last_value, call, value, first, alone>>

(* ledc_set_duty or ledc_set_fade_with_time of one channel *)
Configure(t, ch) ==
  /\ call[t] = "set" /\ step[t] = ch - 1
  /\ conf' = [conf EXCEPT ![ch] = value[t][ch]]
  /\ step' = [step EXCEPT ![t] = ch]
  /\ UNCHANGED <<out, now, hsv_last_value, call, value, first, alone>>

(* A fade starts from the duty of the moment, an immediate write is there  *)
(* at once.                                                                *)
Moves(ch) == now' \in {now, [now EXCEPT ![ch] = out'[ch]]}

(* Mutant: every call starts a channel with its own duty. *)
StartOwn(t, ch) ==
  /\ call[t] = "set" /\ step[t] = ch + 2
  /\ out' = [out EXCEPT ![ch] = value[t][ch]]
  /\ Moves(ch)
  /\ step' = [step EXCEPT ![t] = ch + 3]
  /\ UNCHANGED <<conf, hsv_last_value, call, value, first, alone>>

(* Mutant: the loop that starts the channels stops one short. *)
StartAllButBlue(t, ch) ==
  /\ call[t] = "set" /\ step[t] = ch + 2
  /\ out' = IF ch = 3 THEN out ELSE [out EXCEPT ![ch] = conf[ch]]
  /\ Moves(ch)
  /\ step' = [step EXCEPT ![t] = ch + 3]
  /\ UNCHANGED <<conf, hsv_last_value, call, value, first, alone>>

(* ledc_update_duty or ledc_fade_start of one channel *)
Start(t, ch) ==
  /\ call[t] = "set" /\ step[t] = ch + 2
  /\ out' = [out EXCEPT ![ch] = conf[ch]]
  /\ Moves(ch)
  /\ step' = [step EXCEPT ![t] = ch + 3]
  /\ UNCHANGED <<conf, hsv_last_value, call, value, first, alone>>

SetReturn(t) == call[t] = "set" /\ step[t] = 6 /\ Return(t)

(* iPwmGetValue *)
GetStart(t) ==
  /\ t \in Getters /\ call[t] = "none"
  /\ call' = [call EXCEPT ![t] = "get"]
  /\ step' = [step EXCEPT ![t] = 0]
  /\ first' = [first EXCEPT ![t] = now]
  /\ alone' = [alone EXCEPT ![t] = Writing = {}]
  /\ UNCHANGED <<conf, out, now, hsv_last_value, value>>

(* Mutant: every channel is read from the first. *)
GetDutyOfRed(t, ch) ==
  /\ call[t] = "get" /\ step[t] = ch - 1
  /\ value' = [value EXCEPT ![t] = [@ EXCEPT ![ch] = now[1]]]
  /\ step' = [step EXCEPT ![t] = ch]
  /\ UNCHANGED <<conf, out, now, hsv_last_value, call, first, alone>>

(* ledc_get_duty of one channel: the duty of the moment *)
GetDuty(t, ch) ==
  /\ call[t] = "get" /\ step[t] = ch - 1
  /\ value' = [value EXCEPT ![t] = [@ EXCEPT ![ch] = now[ch]]]
  /\ step' = [step EXCEPT ![t] = ch]
  /\ UNCHANGED <<conf, out, now, hsv_last_value, call, first, alone>>

GetReturn(t) == call[t] = "get" /\ step[t] = 3 /\ Return(t)

(* The LEDC hardware moves a channel towards the duty it was started with. *)
Passed(a, b) == IF a <= b THEN a .. b ELSE b .. a
Fade(ch) ==
  /\ now[ch] # out[ch]
  /\ \E duty \in Passed(now[ch], out[ch]) : now' = [now EXCEPT ![ch] = duty]
  /\ UNCHANGED <<conf, out, hsv_last_value, call, step, value, first, alone>>

TaskStep == \E t \in Tasks :
  \/ SetStart(t) \/ SetReturn(t) \/ GetStart(t) \/ GetReturn(t)
  \/ \E ch \in Channels : Configure(t, ch) \/ Start(t, ch) \/ GetDuty(t, ch)

Next == TaskStep \/ \E ch \in Channels : Fade(ch)

Spec == Init /\ [][Next]_vars

-----------------------------------------------------------------------------
(* Properties.                                                             *)

TypeOK ==
  /\ {conf, out, now} \subseteq [Channels -> Duties]
  /\ hsv_last_value \in Colours
  /\ call \in [Tasks -> {"none", "set", "get"}]
  /\ step \in [Tasks -> 0 .. 6]
  /\ {value, first} \subseteq [Tasks -> [Channels -> Duties]]
  /\ alone \in [Tasks -> BOOLEAN]

(* However the calls interleave, no configured duty is left unstarted: a   *)
(* channel that was not started with its configuration has a call that is  *)
(* going to start it.                                                      *)
NothingPending ==
  \A ch \in Channels : conf[ch] # out[ch] =>
    \E t \in Tasks : call[t] = "set" /\ step[t] \in ch .. ch + 2

(* A write that no other write overlaps starts all channels with its       *)
(* colour, whatever mixture the writes before it have left there.          *)
LoneWriteShows == \A t \in Tasks :
  call[t] = "set" /\ alone[t] /\ step[t] = 6 => out = value[t] /\ out = conf

(* A read that no write overlaps returns, for each channel, a duty its     *)
(* fade passes between the beginning of the read and its end; so it is     *)
(* exact if no channel is on its way, mixed or not.                        *)
LoneReadIsBetween == \A t \in Tasks :
  call[t] = "get" /\ alone[t] /\ step[t] = 3 =>
    \A ch \in Channels : value[t][ch] \in Passed(first[t][ch], out[ch])
=============================================================================
