---------------------------- MODULE PubSubClient ----------------------------
(* libraries/PubSubClient, the other MQTT client in the tree: its connection  *)
(* state and its keep-alive, with a sketch that calls it, a broker and time.  *)
(* A call is one action, but for the two places that wait: connect for the    *)
(* CONNACK, and loop for the rest of a packet.  Time passes in ticks between  *)
(* the calls and in those waits; the timestamps of the client are ages here.  *)
EXTENDS Integers, Sequences

CONSTANTS MQTT_KEEPALIVE, MQTT_SOCKET_TIMEOUT,
          MaxGap,       \* the sketch calls loop() at least so often
          Answer,       \* a broker that is alive answers within so many ticks
          Backlog,      \* bound: packets the client has not read yet
          MaxMessages,  \* bound: messages of the broker, and connections
          MAX_MSG_ID    \* 65535

ASSUME PromptEnough == /\ Answer + (Backlog + 1) * MaxGap <= MQTT_KEEPALIVE
                       /\ Answer < MQTT_SOCKET_TIMEOUT /\ MQTT_SOCKET_TIMEOUT <= MQTT_KEEPALIVE
                       /\ {MQTT_KEEPALIVE, MQTT_SOCKET_TIMEOUT, MaxGap, Answer, Backlog,
                           MaxMessages} \subseteq Nat
                       /\ MAX_MSG_ID \in Nat \ {0, 1}

VARIABLES socket,            \* "closed" by the client, "open", or "gone": closed by the other side
          hung,              \* the broker or the way to it is silent
          rx,                \* packets that have arrived
          owed,              \* what the broker has to answer: [type, age], or none
          heard,             \* age of what the broker has received last
          pc, waited,        \* "idle", or where the client waits and for how long
          state, pingOutstanding, inAge, outAge, nextMsgId,
          gap,               \* age of the last call of loop()
          messages           \* bound

broker == <<hung, owed, heard>>
client == <<state, pingOutstanding, inAge, outAge, nextMsgId>>
vars   == <<socket, rx, broker, pc, waited, client, gap, messages>>

MQTT_CONNECTION_TIMEOUT == -4
MQTT_CONNECTION_LOST    == -3
MQTT_CONNECT_FAILED     == -2
MQTT_DISCONNECTED       == -1
MQTT_CONNECTED          == 0
MQTT_CONNECT_UNAUTHORIZED == 5

None == [type |-> "none", age |-> 0]
Init ==
  /\ socket = "closed" /\ hung = FALSE /\ rx = <<>> /\ owed = None /\ heard = 0
  /\ pc = "idle" /\ waited = 0
  /\ state = MQTT_DISCONNECTED /\ pingOutstanding = FALSE
  /\ inAge = 0 /\ outAge = 0 /\ nextMsgId = 1
  /\ gap = 0 /\ messages = 0

-----------------------------------------------------------------------------
(* The other side.                                                            *)
Oldest == MQTT_KEEPALIVE + MQTT_SOCKET_TIMEOUT + MaxGap + 1     \* ages stay there
Older(age) == IF age < Oldest THEN age + 1 ELSE age

Tick ==
  /\ pc = "idle" => gap < MaxGap
  /\ pc # "idle" => waited < MQTT_SOCKET_TIMEOUT
  /\ owed # None /\ ~hung => owed.age < Answer
  /\ owed' = IF owed = None THEN None ELSE [owed EXCEPT !.age = Older(@)]
  /\ heard' = Older(heard) /\ inAge' = Older(inAge) /\ outAge' = Older(outAge)
  /\ IF pc = "idle" THEN gap' = gap + 1 /\ UNCHANGED waited
                    ELSE waited' = waited + 1 /\ UNCHANGED gap
  /\ UNCHANGED <<socket, hung, rx, pc, state, pingOutstanding, nextMsgId, messages>>

Alive == socket = "open" /\ ~hung
BrokerAnswers ==
  /\ Alive /\ owed # None
  /\ \E p \in IF owed.type = "CONNECT" THEN {"CONNACK", "REFUSED", "LONG"} ELSE {"PINGRESP"} :
       rx' = Append(rx, p)
  /\ owed' = None
  /\ UNCHANGED <<socket, hung, heard, pc, waited, client, gap, messages>>
BrokerSends ==
  /\ Alive /\ pc = "idle" /\ Len(rx) < Backlog /\ messages < MaxMessages
  /\ \E p \in {"PUBLISH", "PUBLISH QoS 1", "LONG", "PINGREQ"} : rx' = Append(rx, p)
  /\ messages' = messages + 1
  /\ UNCHANGED <<socket, broker, pc, waited, client, gap>>
Hang ==                               \* perhaps in the middle of a packet
  /\ Alive /\ hung' = TRUE
  /\ \E rest \in {<<>>, <<"CUT">>} : rx' = rx \o rest
  /\ UNCHANGED <<socket, owed, heard, pc, waited, client, gap, messages>>
Close ==
  /\ socket = "open" /\ socket' = "gone" /\ owed' = None
  /\ UNCHANGED <<rx, hung, heard, pc, waited, client, gap, messages>>

-----------------------------------------------------------------------------
(* The client.  Client::connected counts what has not been read.              *)
SocketUp == socket = "open" \/ (socket = "gone" /\ rx # <<>>)

LostUnrecorded ==                                                           \* mutant
  IF state = MQTT_CONNECTED THEN socket' = "closed" /\ UNCHANGED state
                            ELSE UNCHANGED <<socket, state>>
Lost ==      \* what connected() does when it is not
  IF state = MQTT_CONNECTED THEN socket' = "closed" /\ state' = MQTT_CONNECTION_LOST
                            ELSE UNCHANGED <<socket, state>>
NotConnected ==
  /\ ~SocketUp /\ Lost
  /\ rx' = IF state = MQTT_CONNECTED THEN <<>> ELSE rx

Stop == socket' = "closed" /\ rx' = <<>> /\ owed' = None
Heard == IF socket = "open" THEN 0 ELSE heard

Connect ==
  /\ pc = "idle" /\ ~SocketUp /\ messages < MaxMessages
  /\ messages' = messages + 1
  /\ \/ /\ socket' = "closed" /\ state' = MQTT_CONNECT_FAILED /\ rx' = <<>>
        /\ UNCHANGED <<broker, pc, waited, inAge, outAge, nextMsgId>>
     \/ /\ socket' = "open" /\ rx' = <<>> /\ hung' = FALSE
        /\ owed' = [type |-> "CONNECT", age |-> 0] /\ heard' = 0
        /\ nextMsgId' = 1 /\ inAge' = 0 /\ outAge' = 0
        /\ pc' = "connack" /\ waited' = 0
        /\ state' = IF state = MQTT_CONNECTED THEN MQTT_CONNECTION_LOST ELSE state
  /\ UNCHANGED <<pingOutstanding, gap>>

Returns == pc' = "idle" /\ gap' = 0 /\ waited' = 0

ConnackTakenPingKept ==                                                     \* mutant
  /\ rx # <<>> /\ Head(rx) = "CONNACK"
  /\ state' = MQTT_CONNECTED /\ inAge' = 0 /\ rx' = Tail(rx)
  /\ UNCHANGED <<socket, owed, pingOutstanding>>
ConnackTaken ==
  /\ rx # <<>> /\ Head(rx) = "CONNACK"
  /\ state' = MQTT_CONNECTED /\ pingOutstanding' = FALSE /\ inAge' = 0 /\ rx' = Tail(rx)
  /\ UNCHANGED <<socket, owed>>
(* Anything but a packet of four bytes leaves the state as it was.            *)
ConnackRefused ==
  /\ rx # <<>> /\ Head(rx) \notin {"CONNACK", "CUT"}
  /\ state' = (IF Head(rx) = "REFUSED" THEN MQTT_CONNECT_UNAUTHORIZED ELSE state) /\ Stop
  /\ UNCHANGED <<inAge, pingOutstanding>>
ConnackBegun ==
  /\ rx # <<>> /\ Head(rx) = "CUT" /\ pc' = "reading connack" /\ waited' = 0
  /\ UNCHANGED <<socket, rx, owed, state, inAge, pingOutstanding, gap>>
ConnackLate ==
  /\ rx = <<>> /\ waited = MQTT_SOCKET_TIMEOUT
  /\ state' = MQTT_CONNECTION_TIMEOUT /\ Stop
  /\ UNCHANGED <<inAge, pingOutstanding>>
Connack ==
  /\ pc = "connack"
  /\ \/ (ConnackTaken \/ ConnackRefused \/ ConnackLate) /\ Returns
     \/ ConnackBegun
  /\ UNCHANGED <<hung, heard, outAge, nextMsgId, messages>>

(* loop(): the keep-alive comes first, then one packet.                       *)
KeepAliveInbound == inAge > MQTT_KEEPALIVE                                  \* mutant
KeepAliveDue == inAge > MQTT_KEEPALIVE \/ outAge > MQTT_KEEPALIVE

LoopTimeoutPings ==                                                         \* mutant
  /\ KeepAliveDue /\ pingOutstanding
  /\ inAge' = 0 /\ outAge' = 0 /\ Returns
  /\ UNCHANGED <<socket, rx, owed, state, hung, heard, pingOutstanding>>
LoopTimeout ==
  /\ KeepAliveDue /\ pingOutstanding
  /\ state' = MQTT_CONNECTION_TIMEOUT /\ Stop /\ Returns
  /\ UNCHANGED <<hung, heard, pingOutstanding, inAge, outAge>>

(* What reading packet p does, after the ping if one was due.  A packet that  *)
(* is too long is read and ignored; the callback may publish.                 *)
LoopReads(p) ==
  /\ rx' = IF rx = <<>> THEN <<>> ELSE Tail(rx)
  /\ pingOutstanding' = (p # "PINGRESP" /\ (pingOutstanding \/ KeepAliveDue))
  /\ inAge' = IF p \notin {"none", "LONG"} \/ KeepAliveDue THEN 0 ELSE inAge
  /\ \E publishes \in IF p \in {"PUBLISH", "PUBLISH QoS 1"} THEN BOOLEAN ELSE {FALSE} :
       LET writes == publishes \/ p = "PUBLISH QoS 1"
       IN /\ outAge' = IF writes \/ KeepAliveDue THEN 0 ELSE outAge
          /\ heard' = IF writes \/ KeepAliveDue \/ p = "PINGREQ" THEN Heard ELSE heard

LoopPinged == owed' = IF KeepAliveDue /\ Alive THEN [type |-> "PINGREQ", age |-> 0] ELSE owed
Loop ==
  /\ pc = "idle"
  /\ \/ /\ NotConnected /\ Returns
        /\ UNCHANGED <<broker, pingOutstanding, inAge, outAge>>
     \/ SocketUp /\ LoopTimeout
     \/ /\ SocketUp /\ ~(KeepAliveDue /\ pingOutstanding)
        /\ LoopPinged
        /\ IF rx # <<>> /\ Head(rx) = "CUT"
           THEN /\ pc' = "reading" /\ waited' = 0 /\ gap' = 0
                /\ pingOutstanding' = (pingOutstanding \/ KeepAliveDue)
                /\ inAge' = (IF KeepAliveDue THEN 0 ELSE inAge)
                /\ outAge' = (IF KeepAliveDue THEN 0 ELSE outAge)
                /\ heard' = (IF KeepAliveDue THEN Heard ELSE heard)
                /\ UNCHANGED rx
           ELSE LoopReads(IF rx = <<>> THEN "none" ELSE Head(rx)) /\ Returns
        /\ UNCHANGED <<socket, hung, state>>
  /\ UNCHANGED <<nextMsgId, messages>>

(* readByte gives the packet up; loop() goes on as if there had been none,    *)
(* connect() stops, with the state as it was.                                 *)
ReadTimeout ==
  /\ waited = MQTT_SOCKET_TIMEOUT /\ Returns
  /\ \/ pc = "reading" /\ rx' = Tail(rx) /\ UNCHANGED <<socket, owed>>
     \/ pc = "reading connack" /\ Stop
  /\ UNCHANGED <<hung, heard, client, messages>>

(* publish, publish_P, subscribe, unsubscribe: they return at once, without   *)
(* a connection or when the request does not fit.                             *)
NextId == IF nextMsgId = MAX_MSG_ID THEN 1 ELSE nextMsgId + 1
Request ==
  /\ pc = "idle"
  /\ \/ /\ NotConnected /\ UNCHANGED <<heard, outAge, nextMsgId>>
     \/ /\ SocketUp /\ heard' = Heard /\ outAge' = 0 /\ nextMsgId' \in {nextMsgId, NextId}
        /\ UNCHANGED <<socket, rx, state>>
  /\ UNCHANGED <<hung, owed, pc, waited, pingOutstanding, inAge, gap, messages>>

Disconnect ==
  /\ pc = "idle"
  /\ state' = MQTT_DISCONNECTED /\ Stop /\ inAge' = 0 /\ outAge' = 0
  /\ UNCHANGED <<hung, heard, pc, waited, pingOutstanding, nextMsgId, gap, messages>>

Next == \/ Tick \/ BrokerAnswers \/ BrokerSends \/ Hang \/ Close
        \/ Connect \/ Connack \/ Loop \/ ReadTimeout \/ Request \/ Disconnect

(* Time passes, the sketch calls loop(), the client's waits end.              *)
Fairness == WF_vars(Tick) /\ WF_vars(BrokerAnswers) /\ WF_vars(Loop) /\ WF_vars(Connack) /\ WF_vars(ReadTimeout)
Spec == Init /\ [][Next]_vars /\ Fairness

-----------------------------------------------------------------------------
States == {MQTT_CONNECTION_TIMEOUT, MQTT_CONNECTION_LOST, MQTT_CONNECT_FAILED,
           MQTT_DISCONNECTED, MQTT_CONNECTED, MQTT_CONNECT_UNAUTHORIZED}
Packets == {"CONNACK", "REFUSED", "LONG", "PINGRESP", "PUBLISH", "PUBLISH QoS 1", "PINGREQ", "CUT"}
TypeOK ==
  /\ socket \in {"closed", "open", "gone"} /\ hung \in BOOLEAN /\ pingOutstanding \in BOOLEAN
  /\ rx \in Seq(Packets)
  /\ owed \in [type : {"none", "CONNECT", "PINGREQ"}, age : 0..Oldest]
  /\ {heard, inAge, outAge} \subseteq 0..Oldest
  /\ pc \in {"idle", "connack", "reading connack", "reading"} /\ waited \in 0..MQTT_SOCKET_TIMEOUT
  /\ state \in States /\ nextMsgId \in 1..MAX_MSG_ID
  /\ gap \in 0..MaxGap /\ messages \in 0..MaxMessages

(* Between calls state() tells the truth about the client's own side: it is   *)
(* MQTT_CONNECTED exactly when a connection has been accepted and not stopped *)
(* since, whichever of connect, connected, loop and disconnect has ended it.  *)
StateTells ==
  TypeOK /\ (pc = "idle" => (state = MQTT_CONNECTED <=> socket # "closed"))

(* keepalive_spec.cpp, "keeps a connection alive that ...": a broker that is  *)
(* connected hears something within the keep-alive interval and a gap between *)
(* two calls of loop(), whether the traffic goes in, out or nowhere.          *)
BrokerHears == Alive /\ state = MQTT_CONNECTED => heard <= MQTT_KEEPALIVE + MaxGap

(* A connection is not given up as timed out while the broker answers in      *)
(* time: the check for the answer comes before the answer is read, and only   *)
(* one packet is read at a time, but a backlog of PromptEnough is survived.   *)
NoFalseTimeout ==
  [][state # MQTT_CONNECTION_TIMEOUT /\ state' = MQTT_CONNECTION_TIMEOUT => ~Alive]_vars

(* keepalive_spec.cpp, "disconnects a hung connection": a broker that has     *)
(* gone silent is noticed, even by a sketch that keeps on publishing.         *)
SilenceNoticed == hung /\ state = MQTT_CONNECTED ~> ~hung \/ state # MQTT_CONNECTED
=============================================================================
