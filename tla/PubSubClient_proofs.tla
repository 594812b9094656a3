------------------------- MODULE PubSubClient_proofs -------------------------
(* What PubSubClient's state() tells, and that its keep-alive reaches the      *)
(* broker, for every interval, time-out and gap between two calls of loop().   *)
EXTENDS PubSubClient, SequenceTheorems, TLAPS

Waiting == {"connack", "reading connack"}

(* A packet that has been cut has no broker behind it any more, and only such  *)
(* a packet makes the client wait for the rest.                                *)
CutInv ==
  /\ \A i \in 1..Len(rx) : rx[i] = "CUT" => ~Alive
  /\ pc \in {"reading", "reading connack"} => rx # <<>> /\ Head(rx) = "CUT"

(* StateTells between calls, and what holds within them.                       *)
StateInv ==
  /\ pc = "idle" => (state = MQTT_CONNECTED <=> socket # "closed")
  /\ pc = "reading" => state = MQTT_CONNECTED /\ socket # "closed"
  /\ pc \in Waiting => state # MQTT_CONNECTED /\ socket # "closed"

(* outAge bounds what the broker has not heard for, and loop() bounds outAge.  *)
HearInv ==
  Alive => /\ pc = "idle" /\ state = MQTT_CONNECTED
                 => heard <= outAge /\ outAge <= MQTT_KEEPALIVE + gap
           /\ pc = "connack" => heard <= outAge /\ outAge <= waited

LEMMA Numbers ==
  /\ MQTT_KEEPALIVE \in Nat /\ MQTT_SOCKET_TIMEOUT \in Nat /\ MaxGap \in Nat
  /\ Backlog \in Nat /\ MaxMessages \in Nat /\ MAX_MSG_ID \in Nat \ {0, 1}
  /\ Oldest \in Nat /\ Oldest > MQTT_KEEPALIVE + MaxGap /\ Oldest > MQTT_SOCKET_TIMEOUT
  /\ MQTT_SOCKET_TIMEOUT <= MQTT_KEEPALIVE
  BY PromptEnough DEF Oldest

LEMMA Ages == \A a \in 0..Oldest : Older(a) \in 0..Oldest /\ Older(a) <= a + 1
  BY Numbers DEF Older

LEMMA Received ==
  ASSUME TypeOK
  PROVE  /\ rx \in Seq(Packets) /\ Len(rx) \in Nat
         /\ rx # <<>> => 1 \in 1..Len(rx) /\ Head(rx) = rx[1]
<1>1. rx \in Seq(Packets)
  BY DEF TypeOK
<1>2. Len(rx) \in Nat
  BY <1>1, LenProperties
<1>3. rx # <<>> => Len(rx) \in Nat \ {0}
  BY <1>1, EmptySeq
<1>4. Head(rx) = rx[1]
  BY <1>1
<1> QED
  BY <1>1, <1>2, <1>3, <1>4

(* The types: those of what the outside owes and of the packets separately.    *)
LEMMA OwedStep ==
  ASSUME TypeOK, [Next]_vars
  PROVE  owed' \in [type : {"none", "CONNECT", "PINGREQ"}, age : 0..Oldest]
<1>1. None \in [type : {"none", "CONNECT", "PINGREQ"}, age : 0..Oldest]
  BY Numbers DEF None
<1>2. [type |-> "CONNECT", age |-> 0] \in [type : {"none", "CONNECT", "PINGREQ"}, age : 0..Oldest]
  BY Numbers
<1>3. [type |-> "PINGREQ", age |-> 0] \in [type : {"none", "CONNECT", "PINGREQ"}, age : 0..Oldest]
  BY Numbers
<1>4. owed \in [type : {"none", "CONNECT", "PINGREQ"}, age : 0..Oldest]
  BY DEF TypeOK
<1>5. CASE Tick
  <2>1. Older(owed.age) \in 0..Oldest
    BY <1>4, Ages
  <2>2. [owed EXCEPT !.age = Older(@)] \in [type : {"none", "CONNECT", "PINGREQ"}, age : 0..Oldest]
    BY <1>4, <2>1
  <2> QED
    BY <1>5, <1>1, <2>2 DEF Tick
<1>6. CASE ~Tick
  <2>1. owed' \in {owed, None, [type |-> "CONNECT", age |-> 0], [type |-> "PINGREQ", age |-> 0]}
    BY <1>6 DEF Next, BrokerAnswers, BrokerSends, Hang, Close, Connect, Connack, ConnackTaken,
       ConnackRefused, ConnackBegun, ConnackLate, Loop, LoopTimeout, LoopPinged, ReadTimeout,
       Request, Disconnect, Stop, vars, broker, client
  <2> QED
    BY <2>1, <1>1, <1>2, <1>3, <1>4
<1> QED
  BY <1>5, <1>6

LEMMA PacketsStep ==
  ASSUME TypeOK, CutInv, [Next]_vars
  PROVE  rx' \in Seq(Packets)
<1>1. rx \in Seq(Packets) /\ <<>> \in Seq(Packets)
  BY EmptySeq DEF TypeOK
<1>2. \A p \in Packets : Append(rx, p) \in Seq(Packets)
  BY <1>1
<1>3. rx # <<>> => Tail(rx) \in Seq(Packets)
  BY <1>1
<1>4. CASE BrokerAnswers
  BY <1>4, <1>2 DEF BrokerAnswers, Packets
<1>5. CASE BrokerSends
  BY <1>5, <1>2 DEF BrokerSends, Packets
<1>6. CASE Hang
  <2>1. <<"CUT">> \in Seq(Packets)
    BY DEF Packets
  <2> QED
    BY <1>6, <1>1, <2>1, ConcatProperties DEF Hang
<1>7. CASE ReadTimeout
  BY <1>7, <1>1, <1>3 DEF ReadTimeout, Stop, CutInv
<1>8. CASE ~(BrokerAnswers \/ BrokerSends \/ Hang \/ ReadTimeout)
  <2>1. rx' \in {rx, <<>>} \/ (rx # <<>> /\ rx' = Tail(rx))
    BY <1>8 DEF Next, Tick, Close, Connect, Connack, ConnackTaken,
       ConnackRefused, ConnackBegun, ConnackLate, Loop, LoopTimeout, LoopReads, NotConnected,
       Request, Disconnect, Stop, vars
  <2> QED
    BY <2>1, <1>1, <1>3
<1> QED
  BY <1>4, <1>5, <1>6, <1>7, <1>8

LEMMA TypeStep ==
  ASSUME TypeOK, CutInv, [Next]_vars
  PROVE  TypeOK'
<1>1. /\ socket' \in {"closed", "open", "gone"} /\ hung' \in BOOLEAN
      /\ pc' \in {"idle", "connack", "reading connack", "reading"}
      /\ state' \in States
  BY DEF TypeOK, Next, Tick, BrokerAnswers, BrokerSends, Hang, Close, Connect, Connack,
     ConnackTaken, ConnackRefused, ConnackBegun, ConnackLate, Loop, LoopTimeout, NotConnected,
     Lost, ReadTimeout, Request, Disconnect, Stop, Returns, vars, broker, client, States
<1>2. pingOutstanding' \in BOOLEAN
  BY DEF TypeOK, Next, Tick, BrokerAnswers, BrokerSends, Hang, Close, Connect, Connack,
     ConnackTaken, ConnackRefused, ConnackBegun, ConnackLate, Loop, LoopTimeout, LoopReads,
     KeepAliveDue, ReadTimeout, Request, Disconnect, vars, broker, client
<1>3. {heard', inAge', outAge'} \subseteq 0..Oldest
  <2>0. 0 \in 0..Oldest
    BY Numbers
  <2>1. heard \in 0..Oldest /\ inAge \in 0..Oldest /\ outAge \in 0..Oldest
    BY DEF TypeOK
  <2>2. /\ heard' \in {heard, 0, Older(heard)} /\ inAge' \in {inAge, 0, Older(inAge)}
        /\ outAge' \in {outAge, 0, Older(outAge)}
    BY DEF Next, Tick, BrokerAnswers, BrokerSends, Hang, Close, Connect, Connack,
       ConnackTaken, ConnackRefused, ConnackBegun, ConnackLate, Loop, LoopTimeout, LoopReads,
       Heard, ReadTimeout, Request, Disconnect, vars, broker, client
  <2> QED
    BY <2>0, <2>1, <2>2, Ages
<1>4. waited' \in 0..MQTT_SOCKET_TIMEOUT /\ gap' \in 0..MaxGap /\ messages' \in 0..MaxMessages
  <2>1. waited \in 0..MQTT_SOCKET_TIMEOUT /\ gap \in 0..MaxGap /\ messages \in 0..MaxMessages
    BY DEF TypeOK
  <2>2. /\ waited' \in {waited, 0} \/ (waited < MQTT_SOCKET_TIMEOUT /\ waited' = waited + 1)
        /\ gap' \in {gap, 0} \/ (gap < MaxGap /\ gap' = gap + 1)
        /\ messages' = messages \/ (messages < MaxMessages /\ messages' = messages + 1)
    BY DEF TypeOK, Next, Tick, BrokerAnswers, BrokerSends, Hang, Close, Connect, Connack,
       ConnackBegun, Loop, LoopTimeout, ReadTimeout, Request, Disconnect, Returns, vars
  <2> QED
    BY <2>1, <2>2, Numbers
<1>5. nextMsgId' \in 1..MAX_MSG_ID
  <2>1. nextMsgId \in 1..MAX_MSG_ID
    BY DEF TypeOK
  <2>2. NextId \in 1..MAX_MSG_ID /\ 1 \in 1..MAX_MSG_ID
    BY <2>1, Numbers DEF NextId
  <2>3. nextMsgId' \in {nextMsgId, 1, NextId}
    BY DEF Next, Tick, BrokerAnswers, BrokerSends, Hang, Close, Connect, Connack,
       Loop, ReadTimeout, Request, Disconnect, vars, client
  <2> QED
    BY <2>1, <2>2, <2>3
<1> QED
  BY <1>1, <1>2, <1>3, <1>4, <1>5, OwedStep, PacketsStep DEF TypeOK

(* A packet is only cut by a broker that falls silent for this connection; a   *)
(* new connection starts with nothing received.                                *)
LEMMA CutStep ==
  ASSUME TypeOK, CutInv, StateInv, [Next]_vars
  PROVE  CutInv'
<1>0. rx' = <<>> /\ pc' \notin {"reading", "reading connack"} => CutInv'
  <2>1. rx' = <<>> => \A i \in 1..Len(rx') : FALSE
    OBVIOUS
  <2> QED
    BY <2>1 DEF CutInv
<1>1. /\ rx \in Seq(Packets) /\ Len(rx) \in Nat
      /\ rx # <<>> => 1 \in 1..Len(rx) /\ Head(rx) = rx[1]
  BY Received
<1>2. CASE BrokerAnswers \/ BrokerSends
  <2>1. Alive
    BY <1>2 DEF BrokerAnswers, BrokerSends
  <2>2. pc \notin {"reading", "reading connack"}
    BY <2>1, <1>1 DEF CutInv
  <2>3. PICK p \in Packets \ {"CUT"} : rx' = Append(rx, p)
    BY <1>2 DEF BrokerAnswers, BrokerSends, Packets
  <2>4. \A i \in 1..Len(rx') : rx'[i] # "CUT"
    <3>1. \A i \in 1..Len(rx) : rx'[i] = rx[i]
      BY <2>3, <1>1, AppendProperties
    <3>3. \A i \in 1..Len(rx) : rx[i] # "CUT"
      BY <2>1 DEF CutInv
    <3>2. Len(rx') = Len(rx) + 1 /\ rx'[Len(rx) + 1] = p
      BY <2>3, <1>1, AppendProperties
    <3> QED
      BY <3>1, <3>2, <3>3, <1>1, <2>3
  <2> QED
    BY <2>2, <2>4, <1>2 DEF BrokerAnswers, BrokerSends, CutInv
<1>3. CASE Hang
  <2>1. ~Alive'
    BY <1>3 DEF Hang, Alive
  <2>2. pc' \notin {"reading", "reading connack"}
    BY <1>3, <1>1 DEF Hang, CutInv
  <2> QED
    BY <2>1, <2>2 DEF CutInv
<1>4. CASE Connack \/ Loop \/ ReadTimeout
  <2>1. \/ rx' = rx
        \/ rx' = <<>> /\ pc' \notin {"reading", "reading connack"}
        \/ rx # <<>> /\ rx' = Tail(rx) /\ pc' \notin {"reading", "reading connack"}
    BY <1>4 DEF Connack, ConnackTaken, ConnackRefused, ConnackBegun, ConnackLate, Loop, LoopTimeout,
       LoopReads, NotConnected, ReadTimeout, Stop, Returns, CutInv
  <2>2. Alive' => Alive
    BY <1>4 DEF Alive, Connack, ConnackTaken, ConnackRefused, ConnackBegun, ConnackLate, Loop,
       LoopTimeout, NotConnected, Lost, ReadTimeout, Stop, broker
  <2>3. CASE rx' = rx
    BY <1>4, <2>2, <2>3 DEF CutInv, Connack, ConnackTaken, ConnackRefused, ConnackBegun,
       ConnackLate, Loop, LoopTimeout, LoopReads, ReadTimeout, Returns
  <2>4. CASE rx # <<>> /\ rx' = Tail(rx) /\ pc' \notin {"reading", "reading connack"}
    <3>1. \A i \in 1..Len(Tail(rx)) : i + 1 \in 1..Len(rx) /\ Tail(rx)[i] = rx[i + 1]
      <4>1. Len(Tail(rx)) = Len(rx) - 1 /\ \A i \in 1..Len(Tail(rx)) : Tail(rx)[i] = rx[i + 1]
        BY <2>4, <1>1, HeadTailProperties
      <4> QED
        BY <4>1, <1>1
    <3> QED
      BY <2>2, <2>4, <3>1 DEF CutInv
  <2>5. CASE rx' = <<>> /\ pc' \notin {"reading", "reading connack"}
    BY <2>5, <1>0
  <2> QED
    BY <2>1, <2>3, <2>4, <2>5
<1>5. CASE Connect
  <2>1. rx' = <<>> /\ pc' \in {"connack", "idle"}
    BY <1>5 DEF Connect
  <2> QED
    BY <2>1, <1>0
<1>6. CASE Request
  BY <1>6 DEF Request, NotConnected, Lost, CutInv, Alive
<1>7. CASE Disconnect
  BY <1>7, <1>0 DEF Disconnect, Stop
<1>8. CASE Close
  BY <1>8 DEF Close, CutInv, Alive
<1>9. CASE Tick \/ UNCHANGED vars
  <2>1. UNCHANGED <<rx, pc, socket, hung>>
    BY <1>9 DEF Tick, vars, broker
  <2> QED
    BY <2>1 DEF CutInv, Alive
<1> QED
  BY <1>2, <1>3, <1>4, <1>5, <1>6, <1>7, <1>8, <1>9 DEF Next

LEMMA StateStep ==
  ASSUME TypeOK, StateInv, [Next]_vars
  PROVE  StateInv'
<1> USE DEF MQTT_CONNECTED, MQTT_CONNECTION_TIMEOUT, MQTT_CONNECTION_LOST, MQTT_CONNECT_FAILED,
            MQTT_DISCONNECTED, MQTT_CONNECT_UNAUTHORIZED, StateInv, Waiting
<1>1. CASE Connect
  <2>1. \/ pc' = "connack" /\ socket' = "open" /\ state' # MQTT_CONNECTED
        \/ pc' = "idle" /\ socket' = "closed" /\ state' # MQTT_CONNECTED
    BY <1>1 DEF Connect
  <2> QED
    BY <2>1
<1>2. CASE Connack
  <2>1. CASE ConnackTaken /\ Returns
    BY <1>2, <2>1 DEF Connack, ConnackTaken, Returns
  <2>2. CASE (ConnackRefused \/ ConnackLate) /\ Returns
    BY <1>2, <2>2 DEF Connack, ConnackRefused, ConnackLate, Stop, Returns
  <2>3. CASE ConnackBegun
    BY <1>2, <2>3 DEF Connack, ConnackBegun
  <2> QED
    BY <1>2, <2>1, <2>2, <2>3 DEF Connack
<1>3. CASE Loop
  <2>1. pc = "idle"
    BY <1>3 DEF Loop
  <2>2. CASE NotConnected /\ Returns
    BY <2>1, <2>2 DEF NotConnected, Lost, Returns
  <2>3. CASE SocketUp /\ LoopTimeout
    BY <2>1, <2>3 DEF LoopTimeout, Stop, Returns
  <2>4. CASE SocketUp /\ UNCHANGED <<socket, hung, state>> /\ pc' \in {"idle", "reading"}
    BY <2>1, <2>4 DEF SocketUp
  <2> QED
    BY <1>3, <2>2, <2>3, <2>4 DEF Loop, Returns
<1>4. CASE ReadTimeout
  BY <1>4 DEF ReadTimeout, Stop, Returns, client
<1>5. CASE Request
  BY <1>5 DEF Request, NotConnected, Lost, SocketUp
<1>6. CASE Disconnect
  BY <1>6 DEF Disconnect, Stop
<1>7. CASE Close
  BY <1>7 DEF Close, client
<1>8. CASE Tick \/ BrokerAnswers \/ BrokerSends \/ Hang \/ UNCHANGED vars
  BY <1>8 DEF Tick, BrokerAnswers, BrokerSends, Hang, vars, client
<1> QED
  BY <1>1, <1>2, <1>3, <1>4, <1>5, <1>6, <1>7, <1>8 DEF Next

(* Whatever makes outAge 0 sends something; loop() lets it grow to the keep-   *)
(* alive at most, and the sketch calls loop() again within the gap.            *)
LEMMA HearStep ==
  ASSUME TypeOK, CutInv, StateInv, HearInv, TypeOK', CutInv', StateInv', [Next]_vars, Alive'
  PROVE  HearInv'
<1>1. /\ heard \in 0..Oldest /\ outAge \in 0..Oldest /\ waited \in 0..MQTT_SOCKET_TIMEOUT
      /\ gap \in 0..MaxGap
  BY DEF TypeOK
<1>2. CASE Tick
  <2>1. Older(heard) = heard + 1 \/ heard = Oldest
    BY <1>1, Numbers DEF Older
  <2>2. /\ Older(heard) \in {heard, heard + 1} /\ (heard < Oldest => Older(heard) = heard + 1)
        /\ Older(outAge) \in {outAge, outAge + 1} /\ (outAge < Oldest => Older(outAge) = outAge + 1)
    BY DEF Older
  <2>3. CASE pc = "idle"
    BY <2>2, <2>3, <1>1, <1>2, Numbers DEF Tick, HearInv, Alive
  <2>4. CASE pc # "idle"
    BY <2>2, <2>4, <1>1, <1>2, Numbers DEF Tick, HearInv, Alive
  <2> QED
    BY <2>3, <2>4
<1>3. CASE Connect
  BY <1>3, Numbers DEF Connect, HearInv, Alive
<1>4. CASE Connack
  <2>1. pc = "connack" /\ Alive /\ heard' = heard /\ outAge' = outAge
    BY <1>4 DEF Connack, ConnackTaken, ConnackRefused, ConnackBegun, ConnackLate, Stop, Alive
  <2>2. heard <= outAge /\ outAge <= MQTT_KEEPALIVE
    BY <2>1, <1>1, Numbers DEF HearInv
  <2>3. \/ pc' = "idle" /\ gap' = 0
        \/ pc' = "reading connack"
    BY <1>4 DEF Connack, ConnackBegun, Returns
  <2> QED
    <3>1. pc' = "idle" => heard' <= outAge' /\ outAge' <= MQTT_KEEPALIVE + gap'
      BY <2>1, <2>2, <2>3, <1>1, Numbers
    <3> QED
      BY <2>3, <3>1 DEF HearInv
<1>5. CASE Loop
  <2>1. pc = "idle" /\ pc' # "connack"
    BY <1>5 DEF Loop, Returns, LoopTimeout
  <2>2. SUFFICES ASSUME pc' = "idle", state' = MQTT_CONNECTED
                 PROVE  heard' <= outAge' /\ outAge' <= MQTT_KEEPALIVE + gap'
    BY <2>1 DEF HearInv
  <2>3. SocketUp /\ ~LoopTimeout /\ socket' = socket /\ hung' = hung /\ state' = state
    BY <1>5, <2>2 DEF Loop, NotConnected, Lost, LoopTimeout, Stop, Alive, MQTT_CONNECTED,
       MQTT_CONNECTION_LOST, MQTT_CONNECTION_TIMEOUT, SocketUp, StateInv
  <2>4. socket = "open" /\ Heard = 0 /\ heard <= outAge
    BY <2>1, <2>2, <2>3, Alive' DEF Alive, Heard, HearInv
  <2>5. gap' = 0 /\ \E p : LoopReads(p)
    BY <1>5, <2>2, <2>3, <2>4 DEF Loop, Returns, NotConnected
  <2>6. CASE KeepAliveDue
    <3>1. outAge' = 0 /\ heard' = 0
      BY <2>4, <2>5, <2>6 DEF LoopReads
    <3> QED
      BY <2>5, <3>1, Numbers
  <2>7. CASE ~KeepAliveDue
    <3>1. outAge <= MQTT_KEEPALIVE
      BY <2>7, <1>1, Numbers DEF KeepAliveDue
    <3>2. \/ outAge' = 0 /\ heard' = 0
          \/ outAge' = outAge /\ heard' \in {heard, 0}
      BY <2>4, <2>5, <2>7 DEF LoopReads
    <3> QED
      BY <3>1, <3>2, <2>4, <2>5, <1>1, Numbers
  <2> QED
    BY <2>6, <2>7
<1>6. CASE Request
  <2>1. pc = "idle" /\ pc' = "idle" /\ gap' = gap /\ Heard \in {0, heard}
    BY <1>6 DEF Request, Heard
  <2>2. CASE NotConnected /\ UNCHANGED <<heard, outAge>>
    BY <2>1, <2>2 DEF NotConnected, Lost, SocketUp, HearInv, Alive
  <2>3. CASE SocketUp /\ heard' = Heard /\ outAge' = 0 /\ UNCHANGED <<socket, hung, state>>
    BY <2>1, <2>3, <1>1, Numbers DEF Heard, HearInv, Alive
  <2> QED
    BY <1>6, <2>2, <2>3 DEF Request
<1>7. CASE ReadTimeout
  <2>1. pc \in {"reading", "reading connack"} /\ socket' \in {socket, "closed"} /\ hung' = hung
    BY <1>7 DEF ReadTimeout, Stop
  <2>2. Alive
    BY <2>1 DEF Alive
  <2>3. rx # <<>> /\ Head(rx) = "CUT"
    BY <2>1 DEF CutInv
  <2>4. 1 \in 1..Len(rx) /\ rx[1] = "CUT"
    BY <2>3, Received
  <2> QED
    BY <2>2, <2>4 DEF CutInv
<1>8. CASE BrokerAnswers \/ BrokerSends \/ UNCHANGED vars
  BY <1>8 DEF BrokerAnswers, BrokerSends, HearInv, Alive, vars, broker, client
<1>9. CASE Hang \/ Close \/ Disconnect
  BY <1>9 DEF Hang, Close, Disconnect, Stop, Alive
<1> QED
  BY <1>2, <1>3, <1>4, <1>5, <1>6, <1>7, <1>8, <1>9 DEF Next

ClientInv == TypeOK /\ CutInv /\ StateInv /\ HearInv

LEMMA ClientInvariant == Spec => []ClientInv
<1>1. Init => ClientInv
  <2> SUFFICES ASSUME Init PROVE ClientInv
    OBVIOUS
  <2>1. TypeOK
    <3>1. None \in [type : {"none", "CONNECT", "PINGREQ"}, age : 0..Oldest]
      BY Numbers DEF None
    <3>2. <<>> \in Seq(Packets)
      BY EmptySeq
    <3>3. 0 \in 0..Oldest /\ 0 \in 0..MQTT_SOCKET_TIMEOUT /\ 0 \in 0..MaxGap /\ 0 \in 0..MaxMessages
          /\ 1 \in 1..MAX_MSG_ID
      BY Numbers
    <3>4. {0} \subseteq 0..Oldest
      BY <3>3
    <3> QED
      BY <3>1, <3>2, <3>3, <3>4 DEF Init, TypeOK, States
  <2>2. CutInv /\ StateInv /\ HearInv
    BY DEF Init, CutInv, StateInv, HearInv, Alive, Waiting, MQTT_DISCONNECTED, MQTT_CONNECTED
  <2> QED
    BY <2>1, <2>2 DEF ClientInv
<1>2. ClientInv /\ [Next]_vars => ClientInv'
  <2> SUFFICES ASSUME ClientInv, [Next]_vars PROVE ClientInv'
    OBVIOUS
  <2>1. TypeOK' /\ CutInv' /\ StateInv'
    BY TypeStep, CutStep, StateStep DEF ClientInv
  <2>2. CASE Alive'
    BY <2>1, <2>2, HearStep DEF ClientInv
  <2>3. CASE ~Alive'
    BY <2>1, <2>3 DEF ClientInv, HearInv
  <2> QED
    BY <2>2, <2>3
<1> QED
  BY <1>1, <1>2, PTL DEF Spec

(* Between calls state() agrees with the client's own side, whichever of       *)
(* connect, connected, loop, disconnect or the other side has changed it, for  *)
(* any time-outs.                                                              *)
THEOREM StateIsTrue == Spec => []StateTells
<1>1. ClientInv => StateTells
  BY DEF ClientInv, StateInv, StateTells
<1> QED
  BY <1>1, ClientInvariant, PTL

(* A broker that is connected is never left without a packet for longer than   *)
(* the keep-alive interval and one gap: outAge is reset only together with a   *)
(* packet, and a wait for a packet that was cut means there is no broker.      *)
THEOREM KeepAliveReaches == Spec => []BrokerHears
<1>1. ClientInv => BrokerHears
  <2> SUFFICES ASSUME ClientInv, Alive, state = MQTT_CONNECTED
               PROVE  heard <= MQTT_KEEPALIVE + MaxGap
    BY DEF BrokerHears
  <2>1. rx # <<>> => 1 \in 1..Len(rx) /\ Head(rx) = rx[1]
    BY Received DEF ClientInv
  <2>2. pc = "idle"
    BY <2>1 DEF ClientInv, TypeOK, CutInv, StateInv, Waiting
  <2>3. heard <= outAge /\ outAge <= MQTT_KEEPALIVE + gap
    BY <2>2 DEF ClientInv, HearInv
  <2>4. heard \in 0..Oldest /\ outAge \in 0..Oldest /\ gap \in 0..MaxGap
    BY DEF ClientInv, TypeOK
  <2> QED
    BY <2>3, <2>4, Numbers
<1> QED
  BY <1>1, ClientInvariant, PTL
-----------------------------------------------------------------------------
(* Whoever is alive answers in time.                                           *)
AgeInv == Alive /\ owed # None => owed.age <= Answer

(* While connect waits for a broker that is alive, the answer is to come or    *)
(* the only thing that has arrived.                                            *)
ConnackInv == Alive /\ pc = "connack" =>
  \/ owed.type = "CONNECT" /\ owed.age = waited /\ rx = <<>>
  \/ owed = None /\ Len(rx) = 1

(* Between calls there is room in the backlog for the answer to a ping.        *)
RoomInv == Alive /\ pc = "idle" =>
  \/ owed.type = "PINGREQ" /\ Len(rx) <= Backlog
  \/ owed = None /\ Len(rx) <= Backlog + 1

(* The ages count from the ping at the earliest.  Its answer is to come, or    *)
(* has come and waits behind the packets that loop() reads before it, one at a *)
(* time: at place j it has waited for at most so many gaps.                    *)
Late(j) == Answer + (Backlog + 1 - j) * MaxGap
Since(t) == inAge <= t /\ outAge <= t
PingInv == Alive /\ pc = "idle" /\ pingOutstanding =>
  \/ owed.type = "PINGREQ" /\ Since(owed.age)
  \/ \E j \in 1..Len(rx) : rx[j] = "PINGRESP" /\ Since(Late(j) + gap)

AnswerInv == AgeInv /\ ConnackInv /\ RoomInv /\ PingInv

LEMMA Prompt ==
  /\ Answer \in Nat /\ Answer < MQTT_SOCKET_TIMEOUT /\ Answer <= MQTT_KEEPALIVE
  /\ \A j \in 1..Backlog + 1 : Late(j) \in Nat /\ Answer <= Late(j) /\ Late(j) + MaxGap <= MQTT_KEEPALIVE
  /\ \A j \in 2..Backlog + 1 : Late(j - 1) = Late(j) + MaxGap
<1>1. /\ Answer \in Nat /\ Answer < MQTT_SOCKET_TIMEOUT /\ MQTT_SOCKET_TIMEOUT <= MQTT_KEEPALIVE
      /\ Answer + (Backlog + 1) * MaxGap <= MQTT_KEEPALIVE
      /\ MaxGap \in Nat /\ Backlog \in Nat /\ MQTT_KEEPALIVE \in Nat /\ MQTT_SOCKET_TIMEOUT \in Nat
  BY PromptEnough
<1>2. \A n, m \in Nat : n * m \in Nat
  OBVIOUS
<1>3. \A n, m \in Int : (n + 1) * m = n * m + m
  OBVIOUS
<1>4. \A n, m, d \in Nat : n * m <= (n + d) * m
  <2>1. \A n, m, d \in Nat : (n + d) * m = n * m + d * m
    OBVIOUS
  <2> QED
    BY <2>1, <1>2
<1>5. ASSUME NEW j \in 1..Backlog + 1
      PROVE  Late(j) \in Nat /\ Answer <= Late(j) /\ Late(j) + MaxGap <= MQTT_KEEPALIVE
  <2> DEFINE n == Backlog + 1 - j
  <2>1. n \in Nat /\ j - 1 \in Nat /\ Backlog + 1 = (n + 1) + (j - 1)
    BY <1>1
  <2>2. n * MaxGap \in Nat /\ (n + 1) * MaxGap = n * MaxGap + MaxGap
    BY <2>1, <1>1, <1>2, <1>3
  <2>3. (n + 1) * MaxGap <= (Backlog + 1) * MaxGap
    BY <2>1, <1>1, <1>4
  <2>4. (Backlog + 1) * MaxGap \in Nat
    BY <1>1, <1>2
  <2>5. Late(j) = Answer + n * MaxGap
    BY DEF Late
  <2> HIDE DEF n
  <2> QED
    BY <1>1, <2>2, <2>3, <2>4, <2>5
<1>6. ASSUME NEW j \in 2..Backlog + 1
      PROVE  Late(j - 1) = Late(j) + MaxGap
  <2> DEFINE n == Backlog + 1 - j
  <2>1. n \in Int /\ Backlog + 1 - (j - 1) = n + 1
    BY <1>1
  <2>2. (n + 1) * MaxGap = n * MaxGap + MaxGap /\ n * MaxGap \in Int
    BY <2>1, <1>1, <1>3
  <2>3. Late(j) = Answer + n * MaxGap /\ Late(j - 1) = Answer + (n + 1) * MaxGap
    BY <2>1 DEF Late
  <2> HIDE DEF n
  <2> QED
    BY <1>1, <2>2, <2>3
<1> QED
  BY <1>1, <1>5, <1>6

LEMMA WhenAlive ==
  ASSUME ClientInv, Alive
  PROVE  /\ pc \in {"idle", "connack"} /\ SocketUp
         /\ rx # <<>> => Head(rx) # "CUT"
         /\ inAge \in Nat /\ outAge \in Nat /\ gap \in 0..MaxGap /\ waited \in Nat
<1>1. rx # <<>> => 1 \in 1..Len(rx) /\ Head(rx) = rx[1]
  BY Received DEF ClientInv
<1>2. rx # <<>> => Head(rx) # "CUT"
  BY <1>1 DEF ClientInv, CutInv
<1>3. pc \in {"idle", "connack"}
  BY <1>2 DEF ClientInv, CutInv, TypeOK
<1>4. inAge \in Nat /\ outAge \in Nat /\ gap \in 0..MaxGap /\ waited \in Nat
  <2>1. inAge \in 0..Oldest /\ outAge \in 0..Oldest /\ gap \in 0..MaxGap
        /\ waited \in 0..MQTT_SOCKET_TIMEOUT
    BY DEF ClientInv, TypeOK
  <2> QED
    BY <2>1
<1> QED
  BY <1>2, <1>3, <1>4 DEF Alive, SocketUp

(* Only connect brings a connection to life.                                   *)
LEMMA StaysAlive ==
  ASSUME [Next]_vars, ~Connect, Alive'
  PROVE  Alive /\ socket' = socket /\ hung' = hung
<1>1. CASE Tick \/ BrokerAnswers \/ BrokerSends \/ UNCHANGED vars
  <2>1. socket' = socket /\ hung' = hung
    BY <1>1, Zenon DEF Tick, BrokerAnswers, BrokerSends, vars, broker
  <2> QED
    BY <2>1, Zenon DEF Alive
<1>2. CASE Connack
  BY <1>2 DEF Alive, Connack, ConnackTaken, ConnackRefused, ConnackBegun, ConnackLate, Stop
<1>3. CASE Loop
  BY <1>3 DEF Alive, Loop, LoopTimeout, NotConnected, Lost, Stop, broker
<1>4. CASE ReadTimeout \/ Request \/ Disconnect
  BY <1>4 DEF Alive, ReadTimeout, Request, NotConnected, Lost, Disconnect, Stop
<1>5. CASE Hang \/ Close
  BY <1>5, Zenon DEF Alive, Hang, Close
<1> QED
  BY <1>1, <1>2, <1>3, <1>4, <1>5 DEF Next

LEMMA AnswerStep ==
  ASSUME ClientInv, AnswerInv, [Next]_vars, Alive'
  PROVE  AnswerInv'
<1>0. /\ Answer \in Nat /\ MaxGap \in Nat /\ Backlog \in Nat /\ Oldest \in Nat
      /\ None.type = "none" /\ None.age = 0
  BY Prompt, Numbers DEF None
<1>1. CASE Connect
  <2>1. /\ owed' = [type |-> "CONNECT", age |-> 0] /\ waited' = 0 /\ rx' = <<>> /\ pc' = "connack"
    BY <1>1 DEF Connect, Alive
  <2> QED
    BY <2>1, <1>0 DEF AnswerInv, AgeInv, ConnackInv, RoomInv, PingInv
<1> SUFFICES ASSUME ~Connect
             PROVE  AnswerInv'
  BY <1>1
<1>2. /\ Alive /\ socket' = socket /\ hung' = hung /\ SocketUp /\ pc \in {"idle", "connack"}
      /\ rx # <<>> => Head(rx) # "CUT"
      /\ inAge \in Nat /\ outAge \in Nat /\ gap \in 0..MaxGap /\ waited \in Nat
  BY StaysAlive, WhenAlive
<1>3. /\ rx \in Seq(Packets) /\ Len(rx) \in Nat
      /\ rx # <<>> => 1 \in 1..Len(rx) /\ Head(rx) = rx[1]
      /\ owed.type \in {"none", "CONNECT", "PINGREQ"} /\ owed.age \in 0..Oldest
      /\ owed \in [type : {"none", "CONNECT", "PINGREQ"}, age : 0..Oldest]
      /\ waited \in 0..MQTT_SOCKET_TIMEOUT
  BY Received DEF ClientInv, TypeOK
<1>4. /\ owed # None => owed.age <= Answer
      /\ pc = "connack" => \/ owed.type = "CONNECT" /\ owed.age = waited /\ rx = <<>>
                           \/ owed = None /\ Len(rx) = 1
      /\ pc = "idle" => \/ owed.type = "PINGREQ" /\ Len(rx) <= Backlog
                        \/ owed = None /\ Len(rx) <= Backlog + 1
      /\ pc = "idle" /\ pingOutstanding =>
           \/ owed.type = "PINGREQ" /\ Since(owed.age)
           \/ \E j \in 1..Len(rx) : rx[j] = "PINGRESP" /\ Since(Late(j) + gap)
  BY <1>2 DEF AnswerInv, AgeInv, ConnackInv, RoomInv, PingInv
<1>5. CASE Tick
  <2>1. /\ rx' = rx /\ pc' = pc /\ pingOutstanding' = pingOutstanding
        /\ owed = None => owed' = None
        /\ owed # None => /\ owed' = [owed EXCEPT !.age = Older(@)]
                          /\ owed.age < Answer
        /\ inAge' = Older(inAge) /\ outAge' = Older(outAge)
        /\ pc = "idle" => gap' = gap + 1
        /\ pc = "connack" => waited' = waited + 1 /\ waited < MQTT_SOCKET_TIMEOUT
    BY <1>2, <1>5 DEF Tick, Alive
  <2>2. owed # None => /\ owed'.type = owed.type /\ owed'.age = owed.age + 1
                       /\ owed' # None
    <3>1. Answer < Oldest
      BY Prompt, Numbers
    <3>2. owed # None => Older(owed.age) = owed.age + 1
      BY <1>0, <1>3, <2>1, <3>1 DEF Older
    <3>3. owed # None => owed'.type = owed.type /\ owed'.age = owed.age + 1
      BY <1>3, <2>1, <3>2
    <3> QED
      BY <1>0, <1>3, <3>3
  <2>3. /\ inAge' <= inAge + 1 /\ outAge' <= outAge + 1 /\ inAge' \in Nat /\ outAge' \in Nat
    <3>1. inAge \in 0..Oldest /\ outAge \in 0..Oldest
      BY DEF ClientInv, TypeOK
    <3>2. \A a \in 0..Oldest : Older(a) \in Nat /\ Older(a) <= a + 1
      BY <1>0, Ages
    <3> QED
      BY <2>1, <3>1, <3>2
  <2>4. AgeInv' /\ ConnackInv' /\ RoomInv'
    BY <1>0, <1>3, <1>4, <2>1, <2>2 DEF AgeInv, ConnackInv, RoomInv
  <2>5. PingInv'
    <3>1. ASSUME pc = "idle", owed.type = "PINGREQ", Since(owed.age)
          PROVE  Since(owed.age)' /\ owed'.type = "PINGREQ"
      BY <1>0, <1>2, <1>3, <2>2, <2>3, <3>1 DEF Since
    <3>2. ASSUME pc = "idle", NEW j \in 1..Len(rx), rx[j] = "PINGRESP", Since(Late(j) + gap)
          PROVE  j \in 1..Len(rx') /\ rx'[j] = "PINGRESP" /\ Since(Late(j) + gap)'
      <4>1. j \in 1..Backlog + 1
        BY <1>0, <1>3, <1>4, <3>2
      <4>2. Late(j) \in Nat
        BY <4>1, Prompt
      <4>3. inAge' <= Late(j) + gap' /\ outAge' <= Late(j) + gap'
        BY <1>2, <2>1, <2>3, <3>2, <4>2 DEF Since
      <4> QED
        BY <2>1, <3>2, <4>3 DEF Since, Late
    <3> QED
      BY <1>4, <2>1, <3>1, <3>2 DEF PingInv
  <2> QED
    BY <2>4, <2>5 DEF AnswerInv
<1>6. CASE BrokerAnswers
  <2>1. PICK p \in Packets : /\ rx' = Append(rx, p) /\ owed' = None /\ owed # None
                             /\ owed.type = "CONNECT" \/ p = "PINGRESP"
    BY <1>6 DEF BrokerAnswers, Packets
  <2>2. UNCHANGED <<pc, waited, pingOutstanding, inAge, outAge, gap>>
    BY <1>6 DEF BrokerAnswers, client
  <2>3. Len(rx') = Len(rx) + 1 /\ rx'[Len(rx) + 1] = p
    BY <1>3, <2>1, AppendProperties
  <2>4. rx = <<>> => Len(rx) = 0
    OBVIOUS
  <2>5. AgeInv' /\ ConnackInv' /\ RoomInv'
    BY <1>0, <1>3, <1>4, <2>1, <2>2, <2>3, <2>4 DEF AgeInv, ConnackInv, RoomInv
  <2>6. PingInv'
    <3> SUFFICES ASSUME pc = "idle", pingOutstanding
                 PROVE  \E j \in 1..Len(rx') : rx'[j] = "PINGRESP" /\ Since(Late(j) + gap)'
      BY <2>2 DEF PingInv
    <3>1. owed.type = "PINGREQ" /\ owed.age <= Answer /\ Len(rx) <= Backlog
      BY <1>4, <2>1
    <3>2. CASE Since(owed.age)
      <4> DEFINE j == Len(rx) + 1
      <4>1. j \in 1..Len(rx') /\ rx'[j] = "PINGRESP" /\ j \in 1..Backlog + 1
        BY <1>0, <1>3, <2>1, <2>3, <3>1
      <4>2. Late(j) \in Nat /\ Answer <= Late(j)
        BY <4>1, Prompt
      <4>3. inAge' <= Late(j) + gap' /\ outAge' <= Late(j) + gap'
        BY <1>0, <1>2, <1>3, <2>2, <3>1, <3>2, <4>2 DEF Since
      <4> QED
        BY <4>1, <4>3 DEF Since, Late
    <3>3. CASE ~Since(owed.age)
      <4>1. PICK j \in 1..Len(rx) : rx[j] = "PINGRESP" /\ Since(Late(j) + gap)
        BY <1>4, <3>3
      <4>2. j \in 1..Len(rx') /\ rx'[j] = "PINGRESP"
        BY <1>3, <2>1, <2>3, <4>1, AppendProperties
      <4> QED
        BY <2>2, <4>1, <4>2 DEF Since, Late
    <3> QED
      BY <3>2, <3>3
  <2> QED
    BY <2>5, <2>6 DEF AnswerInv
<1>7. CASE BrokerSends
  <2>1. PICK p \in Packets : rx' = Append(rx, p)
    BY <1>7 DEF BrokerSends, Packets
  <2>2. /\ UNCHANGED <<owed, pc, waited, pingOutstanding, inAge, outAge, gap>>
        /\ pc = "idle" /\ Len(rx) < Backlog
    BY <1>7 DEF BrokerSends, client, broker
  <2>3. Len(rx') = Len(rx) + 1 /\ \A j \in 1..Len(rx) : j \in 1..Len(rx') /\ rx'[j] = rx[j]
    BY <1>3, <2>1, AppendProperties
  <2>4. AgeInv' /\ ConnackInv' /\ RoomInv'
    BY <1>0, <1>3, <1>4, <2>2, <2>3 DEF AgeInv, ConnackInv, RoomInv
  <2>5. PingInv'
    <3>1. CASE pingOutstanding /\ ~(owed.type = "PINGREQ" /\ Since(owed.age))
      <4>1. PICK j \in 1..Len(rx) : rx[j] = "PINGRESP" /\ Since(Late(j) + gap)
        BY <1>4, <2>2, <3>1
      <4>2. j \in 1..Len(rx') /\ rx'[j] = "PINGRESP"
        BY <2>3, <4>1
      <4> QED
        BY <2>2, <4>1, <4>2 DEF PingInv, Since, Late
    <3>2. CASE ~pingOutstanding \/ (owed.type = "PINGREQ" /\ Since(owed.age))
      BY <2>2, <3>2 DEF PingInv, Since
    <3> QED
      BY <3>1, <3>2
  <2> QED
    BY <2>4, <2>5 DEF AnswerInv
<1>8. CASE Connack
  <2>1. pc = "connack" /\ ConnackTaken /\ Returns
    BY <1>2, <1>8 DEF Connack, ConnackRefused, ConnackBegun, ConnackLate, Stop, Alive
  <2>2. /\ rx # <<>> /\ rx' = Tail(rx) /\ owed' = owed /\ pingOutstanding' = FALSE /\ pc' = "idle"
    BY <2>1 DEF ConnackTaken, Returns
  <2>3. owed = None /\ Len(rx) = 1
    BY <1>4, <2>1, <2>2
  <2>4. Len(rx') = 0
    BY <1>3, <2>2, <2>3, HeadTailProperties
  <2>5. PingInv'
    BY <2>2, Zenon DEF PingInv
  <2>6. owed' = None /\ pc' = "idle"
    BY <2>2, <2>3, Zenon
  <2>7. AgeInv' /\ ConnackInv' /\ RoomInv'
    BY <1>0, <2>4, <2>6 DEF AgeInv, ConnackInv, RoomInv
  <2> QED
    BY <2>5, <2>7 DEF AnswerInv
<1>9. CASE Loop
  <2>1. /\ pc = "idle" /\ pc' = "idle" /\ gap' = 0 /\ LoopPinged
        /\ ~(KeepAliveDue /\ pingOutstanding)
        /\ LoopReads(IF rx = <<>> THEN "none" ELSE Head(rx))
    BY <1>2, <1>9 DEF Loop, NotConnected, LoopTimeout, Stop, Alive, Returns
  <2> DEFINE p == IF rx = <<>> THEN "none" ELSE Head(rx)
  <2>2. /\ rx' = IF rx = <<>> THEN <<>> ELSE Tail(rx)
        /\ pingOutstanding' = (p # "PINGRESP" /\ (pingOutstanding \/ KeepAliveDue))
        /\ inAge' \in {inAge, 0} /\ outAge' \in {outAge, 0}
        /\ KeepAliveDue => inAge' = 0 /\ outAge' = 0
    BY <2>1 DEF LoopReads
  <2>3. /\ KeepAliveDue => owed' = [type |-> "PINGREQ", age |-> 0]
        /\ ~KeepAliveDue => owed' = owed
    BY <1>2, <2>1 DEF LoopPinged
  <2>4. /\ Len(rx') \in Nat /\ Len(rx') <= Len(rx) /\ (rx # <<>> => Len(rx') = Len(rx) - 1)
        /\ rx = <<>> => Len(rx') = 0
        /\ rx # <<>> => \A j \in 1..Len(rx) : j # 1 => j - 1 \in 1..Len(rx') /\ rx'[j - 1] = rx[j]
    <3>1. CASE rx = <<>>
      BY <1>3, <2>2, <3>1
    <3>2. CASE rx # <<>>
      <4>1. /\ rx' = Tail(rx) /\ Len(rx') = Len(rx) - 1
            /\ \A i \in 1..Len(rx') : rx'[i] = rx[i + 1]
        BY <1>3, <2>2, <3>2, HeadTailProperties
      <4>2. ASSUME NEW j \in 1..Len(rx), j # 1
            PROVE  j - 1 \in 1..Len(rx') /\ rx'[j - 1] = rx[j]
        <5>1. j - 1 \in 1..Len(rx') /\ (j - 1) + 1 = j
          BY <1>3, <4>1, <4>2
        <5> QED
          BY <4>1, <5>1
      <4>3. Len(rx') \in Nat
        BY <1>3, <3>2, <4>1
      <4> QED
        BY <1>3, <3>2, <4>1, <4>2, <4>3
    <3> QED
      BY <3>1, <3>2
  <2> HIDE DEF p
  <2>5. AgeInv' /\ ConnackInv' /\ RoomInv'
    BY <1>0, <1>3, <1>4, <2>1, <2>3, <2>4 DEF AgeInv, ConnackInv, RoomInv
  <2>6. PingInv'
    <3>1. CASE KeepAliveDue
      BY <1>0, <2>2, <2>3, <3>1 DEF PingInv, Since
    <3>2. CASE ~KeepAliveDue
      <4> SUFFICES ASSUME pingOutstanding, p # "PINGRESP"
                   PROVE  PingInv'
        BY <2>2, <3>2, Zenon DEF PingInv
      <4>1. CASE owed.type = "PINGREQ" /\ Since(owed.age)
        BY <1>2, <1>3, <2>2, <2>3, <3>2, <4>1 DEF PingInv, Since
      <4>2. ASSUME NEW j \in 1..Len(rx), rx[j] = "PINGRESP", Since(Late(j) + gap)
            PROVE  PingInv'
        <5>1. rx # <<>> /\ j # 1
          <6>1. rx # <<>>
            BY <1>3, <4>2
          <6>2. Head(rx) = rx[1] /\ p = Head(rx)
            BY <1>3, <6>1 DEF p
          <6> QED
            BY <4>2, <6>1, <6>2
        <5>2. j - 1 \in 1..Len(rx') /\ rx'[j - 1] = "PINGRESP"
          BY <2>4, <4>2, <5>1
        <5>3. j \in 2..Backlog + 1 /\ j \in 1..Backlog + 1
          BY <1>0, <1>3, <1>4, <2>1, <4>2, <5>1
        <5>4. Late(j - 1) = Late(j) + MaxGap /\ Late(j) \in Nat
          BY <5>3, Prompt
        <5>5. inAge' <= Late(j - 1) + gap' /\ outAge' <= Late(j - 1) + gap'
          BY <1>0, <1>2, <2>1, <2>2, <4>2, <5>4 DEF Since
        <5> QED
          BY <5>2, <5>5 DEF PingInv, Since, Late
      <4> QED
        BY <1>4, <2>1, <4>1, <4>2
    <3> QED
      BY <3>1, <3>2
  <2> QED
    BY <2>5, <2>6 DEF AnswerInv
<1>10. CASE Request
  <2>1. /\ UNCHANGED <<rx, owed, pc, waited, pingOutstanding, inAge, gap>>
        /\ outAge' \in {outAge, 0}
    BY <1>2, <1>10 DEF Request, NotConnected
  <2>2. inAge' = inAge /\ outAge' <= outAge
    BY <1>2, <2>1
  <2>3. AgeInv' /\ ConnackInv' /\ RoomInv'
    BY <1>4, <2>1 DEF AgeInv, ConnackInv, RoomInv
  <2>4. PingInv'
    <3>1. CASE pingOutstanding /\ owed.type = "PINGREQ" /\ Since(owed.age)
      BY <1>2, <1>3, <2>1, <2>2, <3>1 DEF PingInv, Since
    <3>2. CASE pingOutstanding /\ ~(owed.type = "PINGREQ" /\ Since(owed.age)) /\ pc = "idle"
      <4>1. PICK j \in 1..Len(rx) : rx[j] = "PINGRESP" /\ Since(Late(j) + gap)
        BY <1>4, <3>2
      <4>2. j \in 1..Backlog + 1
        BY <1>0, <1>3, <1>4, <3>2, <4>1
      <4>3. Late(j) \in Nat
        BY <4>2, Prompt
      <4>4. inAge' <= Late(j) + gap' /\ outAge' <= Late(j) + gap'
        BY <1>0, <1>2, <2>1, <2>2, <4>1, <4>3 DEF Since
      <4> QED
        BY <2>1, <4>1, <4>4 DEF PingInv, Since, Late
    <3>3. CASE ~pingOutstanding \/ pc # "idle"
      BY <2>1, <3>3 DEF PingInv
    <3> QED
      BY <3>1, <3>2, <3>3
  <2> QED
    BY <2>3, <2>4 DEF AnswerInv
<1>11. CASE UNCHANGED vars
  BY <1>4, <1>11 DEF vars, broker, client, AnswerInv, AgeInv, ConnackInv, RoomInv, PingInv, Since, Late
<1>12. CASE Hang \/ Close \/ ReadTimeout \/ Disconnect
  BY <1>2, <1>12 DEF Hang, Close, ReadTimeout, Disconnect, Stop, Alive
<1> QED
  BY <1>5, <1>6, <1>7, <1>8, <1>9, <1>10, <1>11, <1>12 DEF Next

LEMMA AnswerInvariant == Spec => []AnswerInv
<1>1. Init => AnswerInv
  BY DEF Init, AnswerInv, AgeInv, ConnackInv, RoomInv, PingInv, Alive
<1>2. ClientInv /\ AnswerInv /\ [Next]_vars => AnswerInv'
  <2> SUFFICES ASSUME ClientInv, AnswerInv, [Next]_vars, ~Alive'
               PROVE  AnswerInv'
    BY AnswerStep
  <2> QED
    BY DEF AnswerInv, AgeInv, ConnackInv, RoomInv, PingInv
<1> QED
  BY <1>1, <1>2, ClientInvariant, PTL DEF Spec

(* PubSubClient.cpp, loop() and connect(): neither gives a connection up as    *)
(* timed out that has a broker answering in time, for any interval, time-out,  *)
(* gap and backlog for which the answer can be in time at all (PromptEnough).  *)
THEOREM TimeoutIsTrue == Spec => NoFalseTimeout
<1>1. ClientInv /\ AnswerInv /\ [Next]_vars =>
        [state # MQTT_CONNECTION_TIMEOUT /\ state' = MQTT_CONNECTION_TIMEOUT => ~Alive]_vars
  <2> SUFFICES ASSUME ClientInv, AnswerInv, [Next]_vars, Alive,
                      state # MQTT_CONNECTION_TIMEOUT, state' = MQTT_CONNECTION_TIMEOUT
               PROVE  FALSE
    OBVIOUS
  <2>1. /\ SocketUp /\ inAge \in Nat /\ outAge \in Nat /\ gap \in 0..MaxGap
        /\ pc \in {"idle", "connack"}
    BY WhenAlive
  <2>2. /\ MaxGap \in Nat /\ MQTT_KEEPALIVE \in Nat /\ Len(rx) \in Nat /\ Backlog \in Nat
        /\ owed.age \in 0..Oldest /\ None.type = "none" /\ (rx = <<>> => Len(rx) = 0)
    <3>1. Len(rx) \in Nat /\ owed.age \in 0..Oldest
      BY Received DEF ClientInv, TypeOK
    <3>2. None.type = "none" /\ (rx = <<>> => Len(rx) = 0)
      BY DEF None
    <3> QED
      BY <3>1, <3>2, Numbers
  <2>3. (pc = "connack" /\ ConnackLate) \/ (pc = "idle" /\ LoopTimeout)
    <3> USE DEF MQTT_CONNECTED, MQTT_CONNECTION_TIMEOUT, MQTT_CONNECTION_LOST, MQTT_CONNECT_FAILED,
                MQTT_DISCONNECTED, MQTT_CONNECT_UNAUTHORIZED
    <3>1. CASE Connack
      <4>1. ~ConnackTaken
        BY DEF ConnackTaken
      <4>2. ~ConnackRefused
        BY DEF ConnackRefused
      <4>3. ~ConnackBegun
        BY Zenon DEF ConnackBegun
      <4> QED
        BY <3>1, <4>1, <4>2, <4>3, Zenon DEF Connack
    <3>2. CASE Loop
      <4>1. state' = state \/ LoopTimeout
        BY <2>1, <3>2, Zenon DEF Loop, NotConnected
      <4> QED
        BY <3>2, <4>1, Zenon DEF Loop
    <3>3. CASE Connect \/ Request \/ Disconnect
      BY <3>3, <2>1 DEF Connect, Request, NotConnected, Disconnect
    <3>4. CASE ReadTimeout \/ Tick \/ BrokerAnswers \/ BrokerSends \/ Hang \/ Close \/ UNCHANGED vars
      BY <3>4 DEF ReadTimeout, Tick, BrokerAnswers, BrokerSends, Hang, Close, vars, client
    <3> QED
      BY <3>1, <3>2, <3>3, <3>4 DEF Next
  <2>4. CASE pc = "connack" /\ ConnackLate
    <3>1. pc = "connack" /\ rx = <<>> /\ waited = MQTT_SOCKET_TIMEOUT
      BY <2>4 DEF ConnackLate
    <3>2. owed.type = "CONNECT" /\ owed.age = waited
      BY <2>2, <3>1 DEF AnswerInv, ConnackInv
    <3>3. owed.age <= Answer
      BY <2>2, <3>2 DEF AnswerInv, AgeInv
    <3> QED
      BY <2>2, <3>1, <3>2, <3>3, Prompt, Numbers
  <2>5. CASE pc = "idle" /\ LoopTimeout
    <3>1. pc = "idle" /\ pingOutstanding /\ KeepAliveDue
      BY <2>5 DEF LoopTimeout
    <3>2. inAge <= MQTT_KEEPALIVE /\ outAge <= MQTT_KEEPALIVE
      <4>1. CASE owed.type = "PINGREQ" /\ Since(owed.age)
        <5>1. owed.age <= Answer
          BY <2>2, <4>1 DEF AnswerInv, AgeInv
        <5> QED
          BY <2>1, <2>2, <4>1, <5>1, Prompt DEF Since
      <4>2. ASSUME NEW j \in 1..Len(rx), Since(Late(j) + gap)
            PROVE  inAge <= MQTT_KEEPALIVE /\ outAge <= MQTT_KEEPALIVE
        <5>1. j \in 1..Backlog + 1
          BY <2>2, <3>1, <4>2 DEF AnswerInv, RoomInv
        <5>2. Late(j) \in Nat /\ Late(j) + MaxGap <= MQTT_KEEPALIVE
          BY <5>1, Prompt
        <5> QED
          BY <2>1, <2>2, <4>2, <5>2 DEF Since
      <4> QED
        BY <3>1, <4>1, <4>2 DEF AnswerInv, PingInv
    <3> QED
      BY <2>1, <2>2, <3>1, <3>2 DEF KeepAliveDue
  <2> QED
    BY <2>3, <2>4, <2>5
<1> QED
  BY <1>1, ClientInvariant, AnswerInvariant, PTL DEF Spec, NoFalseTimeout
=============================================================================
