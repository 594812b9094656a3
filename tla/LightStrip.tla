----------------------------- MODULE LightStrip -----------------------------
(* The first prototype: one thread (LightStrip.ino) that keeps a connection   *)
(* to the broker, subscribes to its topics, takes commands and reports the    *)
(* light, over the blocking client of libraries/MQTT.  PacketStream is about  *)
(* the bytes of packets; here one is whole, cut by TCP when it is read, or    *)
(* what is left of one.  A step of the thread is one pass of                  *)
(* MQTT::Client::cycle, or what lies between two of them; the three timers    *)
(* are left open: whether one has run out is a choice, unless it would have   *)
(* to be waited for longer than an answer takes.                              *)
EXTENDS Integers, Sequences

CONSTANTS Commands,     \* messages others publish: [topic, payload]
          MaxCommands,  \* bound: messages forwarded to the strip
          MaxFaults     \* bound: outages, partial writes and reads, refusals and late answers

ASSUME CommandAssumption == MaxCommands \in Nat /\ MaxFaults \in Nat

VARIABLES wifi, up,               \* is the access point there, is the broker running
          socket,                 \* "closed", "open", or "dead": gone, but TCP has not noticed
          subs,                   \* what the broker's session has subscribed
          toBroker, toClient,     \* packets on the way
          pc, booted,             \* the thread; has setup() returned
          topic,                  \* index of the topic being subscribed
          isconnected, ping_outstanding, light,
          forwarded, faults       \* bounds

outside == <<wifi, up>>
thread  == <<pc, booted, topic, isconnected, ping_outstanding, light>>
vars    == <<outside, socket, subs, toBroker, toClient, thread, forwarded, faults>>

Topics   == <<"/example", "light/cmd", "light/color">>
TopicSet == {Topics[i] : i \in DOMAIN Topics}

Init ==
  /\ wifi \in BOOLEAN /\ up \in BOOLEAN
  /\ socket = "closed" /\ subs = {} /\ toBroker = <<>> /\ toClient = <<>>
  /\ pc = "wifi" /\ booted = FALSE /\ topic = 1
  /\ isconnected = FALSE /\ ping_outstanding = FALSE /\ light = "off"
  /\ forwarded = 0 /\ faults = 0

Fault(cost) == faults' = faults + cost /\ faults' <= MaxFaults

-----------------------------------------------------------------------------
(* Network and broker.  A session is clean: it ends with its connection.      *)
Reachable == wifi /\ up
SessionEnds == subs' = {} /\ toBroker' = <<>>

WifiDrops ==      \* some of what the broker has sent has been received
  /\ wifi /\ Fault(1) /\ wifi' = FALSE
  /\ socket' = IF socket = "open" THEN "dead" ELSE socket
  /\ \E n \in 0..Len(toClient) : toClient' = SubSeq(toClient, 1, n)
  /\ SessionEnds /\ UNCHANGED <<up, thread, forwarded>>
BrokerStops ==
  /\ up /\ Fault(1) /\ up' = FALSE
  /\ socket' = IF socket = "open" THEN "closed" ELSE socket
  /\ SessionEnds /\ UNCHANGED <<wifi, toClient, thread, forwarded>>
WifiJoins    == ~wifi /\ wifi' = TRUE
                /\ UNCHANGED <<up, socket, subs, toBroker, toClient, thread, forwarded, faults>>
BrokerStarts == ~up /\ up' = TRUE
                /\ UNCHANGED <<wifi, socket, subs, toBroker, toClient, thread, forwarded, faults>>
Notice       == socket = "dead" /\ socket' = "closed"
                /\ UNCHANGED <<outside, subs, toBroker, toClient, thread, forwarded, faults>>

Answer(p) == toBroker' = Tail(toBroker) /\ toClient' = Append(toClient, p)
BrokerTakes ==
  /\ toBroker # <<>>
  /\ LET p == Head(toBroker)
     IN \/ /\ p.type = "CONNECT"
           /\ \/ /\ Answer([type |-> "CONNACK", ok |-> TRUE]) /\ Fault(0)
                 /\ UNCHANGED <<socket, subs>>
              \/ /\ toClient' = Append(toClient, [type |-> "CONNACK", ok |-> FALSE]) /\ Fault(1)
                 /\ socket' = "closed" /\ SessionEnds
        \/ /\ p.type = "SUBSCRIBE"
           /\ \E granted \in BOOLEAN :
                /\ Answer([type |-> "SUBACK", topic |-> p.topic, ok |-> granted])
                /\ subs' = IF granted THEN subs \cup {p.topic} ELSE subs
                /\ Fault(IF granted THEN 0 ELSE 1)
           /\ UNCHANGED socket
        \/ /\ p.type = "PINGREQ"
           /\ Answer([type |-> "PINGRESP"]) /\ Fault(0)
           /\ UNCHANGED <<socket, subs>>
        \/ /\ p.type = "junk" \/ (p.type = "part" /\ Len(toBroker) > 1)
           /\ socket' = "closed" /\ SessionEnds /\ Fault(0)
           /\ UNCHANGED toClient
  /\ UNCHANGED <<outside, thread, forwarded>>

Forward(m) ==
  /\ m.topic \in subs /\ forwarded < MaxCommands
  /\ toClient' = Append(toClient, [type |-> "PUBLISH", topic |-> m.topic, payload |-> m.payload])
  /\ forwarded' = forwarded + 1
  /\ UNCHANGED <<outside, socket, subs, toBroker, thread, faults>>

-----------------------------------------------------------------------------
(* Sending and receiving.                                                     *)

(* WiFiClient::connected: data that has not been read counts.                 *)
Connected == socket # "closed" \/ toClient # <<>>

(* What sendPacket can do with a packet: "out" is what the broker gets.  On   *)
(* an open connection it can time out with nothing sent, or with a part of    *)
(* the packet, which the broker takes together with what is sent next; or a   *)
(* write was partial and the next one, which asks for the full length again,  *)
(* runs over: the packet is followed by junk, and the call fails.             *)
NothingSent == [ok |-> TRUE, out |-> <<>>, cost |-> 0]
Left(out) == {<<>>, <<[type |-> "part"]>>, Append(out, [type |-> "junk"])}
Outcomes(out) ==
  CASE socket = "open"   -> { [ok |-> TRUE,  out |-> out, cost |-> 0] } \cup
                            { [ok |-> FALSE, out |-> left, cost |-> 1] : left \in Left(out) }
    [] socket = "dead"   -> { [ok |-> b, out |-> <<>>, cost |-> 0] : b \in BOOLEAN }
    [] socket = "closed" -> { [ok |-> FALSE, out |-> <<>>, cost |-> 0] }
Send(o) == toBroker' = toBroker \o o.out /\ Fault(o.cost)

(* messageReceived, called for any topic.                                     *)
Shown(p) ==
  CASE p.topic = "light/cmd" /\ p.payload = "0" -> "off"
    [] p.topic = "light/cmd" /\ p.payload = "1" -> "white"
    [] p.topic = "light/color"                  -> p.payload
    [] OTHER                                    -> light
Reports(p) == p.type = "PUBLISH" /\ p.topic = "light/cmd" /\ p.payload \in {"0", "1"}

(* Client::publish does nothing without a connection, and a report that fails *)
(* clears isconnected from inside the callback; its result is not looked at.  *)
(* Nobody reads the reports here: only whether they can be sent matters.      *)
ReportOutcomes(p) == IF Reports(p) /\ isconnected THEN Outcomes(<<>>) ELSE {NothingSent}

(* keepalive sends a PINGREQ when one of its timers has run out, unless it    *)
(* still waits for an answer: PINGRESP ends that, and so does a PUBLISH,      *)
(* whose case has no break with QoS 1 and 2 left out.                         *)
Waits(p) == ping_outstanding /\ p.type \notin {"PINGRESP", "PUBLISH"}
PingOutcomes(p) == {NothingSent} \cup (IF Waits(p) THEN {} ELSE Outcomes(<<[type |-> "PINGREQ"]>>))

(* What readPacket makes of a packet of which only the first byte has come:   *)
(* decodePacket's failure goes unnoticed, and the packet has no body.  The    *)
(* deserializers let that pass; what they should have filled in stays.        *)
Bodiless(type) ==
  CASE type = "CONNACK" -> [type |-> type, ok |-> FALSE]
    [] type = "SUBACK"  -> [type |-> type, topic |-> "", ok |-> FALSE]
    [] type = "PUBLISH" -> [type |-> type, topic |-> "", payload |-> ""]
    [] OTHER            -> [type |-> type]
Answering == {"CONNACK", "SUBACK", "PUBLISH", "PINGRESP"}

(* What readPacket can find: "left" is what it leaves unread.  A read does    *)
(* not wait for bytes to start coming: cut at its header or at its body, a    *)
(* packet is given up, as is one that is too long, and so is one whose body   *)
(* takes too long to come.  What is left of it is next read as if it began a  *)
(* packet: of any type, or none, and of a length that may reach into those    *)
(* that follow.                                                               *)
Empty == [type |-> "none"]
Rest  == [type |-> "rest"]
Behind(n) == SubSeq(toClient, n + 1, Len(toClient))
Found(p, left, cost) == [packet |-> p, left |-> left, cost |-> cost]
Proper ==
  LET p == Head(toClient)
  IN { Found(p, Tail(toClient), 0) } \cup
     { Found(torn, <<Rest>> \o Behind(1), 1) : torn \in {Empty, Bodiless(p.type)} }
Garbled ==
  UNION { { Found(q, Behind(n), 0), Found(q, <<Rest>> \o Behind(n), 1) } :
            q \in {Empty} \cup {Bodiless(type) : type \in Answering}, n \in DOMAIN toClient }
PacketReads ==
  CASE toClient = <<>>       -> { Found(Empty, <<>>, 0) }
    [] toClient # <<>> /\ Head(toClient) # Rest -> Proper
    [] toClient # <<>> /\ Head(toClient) = Rest -> Garbled

(* One pass of cycle over what a read has found.  "still" is what the         *)
(* callback leaves of isconnected.                                            *)
CycleDeaf(r, still) ==                                                      \* mutant
  /\ toClient' = r.left
  /\ light' = IF r.packet.type = "PUBLISH" /\ pc = "yield" THEN Shown(r.packet) ELSE light
  /\ \E report \in ReportOutcomes(r.packet), ping \in PingOutcomes(r.packet) :
       /\ still = (isconnected /\ report.ok)
       /\ ping_outstanding' = (Waits(r.packet) \/ (ping # NothingSent /\ ping.ok))
       /\ toBroker' = toBroker \o report.out \o ping.out
       /\ Fault(r.cost + report.cost + ping.cost)
Cycle(r, still) ==
  /\ toClient' = r.left
  /\ light' = IF r.packet.type = "PUBLISH" THEN Shown(r.packet) ELSE light
  /\ \E report \in ReportOutcomes(r.packet), ping \in PingOutcomes(r.packet) :
       /\ still = (isconnected /\ report.ok)
       /\ ping_outstanding' = (Waits(r.packet) \/ (ping # NothingSent /\ ping.ok))
       /\ toBroker' = toBroker \o report.out \o ping.out
       /\ Fault(r.cost + report.cost + ping.cost)

(* A message without a body has a payload nobody has set, and the callback    *)
(* ends it with a zero wherever that points: at worst the chip starts again.  *)
Restart ==
  /\ pc \in {"connack", "suback", "yield"}
  /\ \E r \in PacketReads : r.packet = Bodiless("PUBLISH") /\ Fault(r.cost)
  /\ pc' = "wifi" /\ booted' = FALSE /\ topic' = 1
  /\ isconnected' = FALSE /\ ping_outstanding' = FALSE /\ light' = "off"
  /\ socket' = "closed" /\ toClient' = <<>> /\ SessionEnds
  /\ UNCHANGED <<outside, forwarded>>

(* waitfor gives up when the command timer has run out.  That it does while   *)
(* the answer is still coming is a fault of the broker's.                     *)
Coming(request, answer) ==
  \/ \E i \in DOMAIN toClient : toClient[i].type = answer
  \/ socket = "open" /\ \E i \in DOMAIN toBroker : toBroker[i].type = request
TimedOut(request, answer) ==
  /\ Fault(IF Coming(request, answer) THEN 1 ELSE 0)
  /\ UNCHANGED <<toClient, toBroker, light, ping_outstanding>>

-----------------------------------------------------------------------------
(* connect() of the sketch, which setup() and loop() call.                    *)
InConnect == UNCHANGED <<outside, subs, forwarded, booted>>

WifiWait ==
  /\ pc = "wifi" /\ wifi /\ pc' = "dial"
  /\ UNCHANGED <<outside, socket, subs, toBroker, toClient, booted, topic, isconnected,
                 ping_outstanding, light, forwarded, faults>>

(* A new connection replaces the old one and all that was on its way.         *)
Dial ==
  /\ pc = "dial"
  /\ IF Reachable THEN socket' = "open" /\ pc' = "connect"
                  ELSE socket' = "closed" /\ pc' = "dial"
  /\ toClient' = <<>> /\ SessionEnds
  /\ UNCHANGED <<outside, booted, topic, isconnected, ping_outstanding, light, forwarded, faults>>

Connect ==
  /\ pc = "connect"
  /\ IF isconnected THEN pc' = "dial" /\ UNCHANGED <<toBroker, faults>>
     ELSE \E o \in Outcomes(<<[type |-> "CONNECT"]>>) :
            Send(o) /\ pc' = IF o.ok THEN "connack" ELSE "dial"
  /\ UNCHANGED <<socket, toClient, topic, isconnected, ping_outstanding, light>>
  /\ InConnect

ConnackTaken ==
  \E r \in PacketReads :
    /\ r.packet.type = "CONNACK" /\ Cycle(r, isconnected)
    /\ IF r.packet.ok THEN isconnected' = TRUE /\ pc' = "subscribe" /\ topic' = 1
                      ELSE pc' = "dial" /\ UNCHANGED <<isconnected, topic>>
ConnackLate ==
  TimedOut("CONNECT", "CONNACK") /\ pc' = "dial" /\ UNCHANGED <<isconnected, topic>>
Connack == pc = "connack" /\ (ConnackTaken \/ ConnackLate) /\ UNCHANGED socket /\ InConnect

(* The result of client.subscribe is not looked at: the next topic follows.   *)
NextTopic == IF topic < Len(Topics) THEN pc' = "subscribe" /\ topic' = topic + 1
             ELSE pc' = "connected" /\ UNCHANGED topic

Subscribe ==
  /\ pc = "subscribe"
  /\ IF ~isconnected THEN NextTopic /\ UNCHANGED <<toBroker, isconnected, faults>>
     ELSE \E o \in Outcomes(<<[type |-> "SUBSCRIBE", topic |-> Topics[topic]]>>) :
            /\ Send(o)
            /\ isconnected' = o.ok
            /\ IF o.ok THEN pc' = "suback" /\ UNCHANGED topic ELSE NextTopic
  /\ UNCHANGED <<socket, toClient, ping_outstanding, light>> /\ InConnect

GrantedAnyway(p, still) == still                                            \* mutant
Granted(p, still) == p.ok /\ still
SubackTaken ==
  \E r \in PacketReads, still \in BOOLEAN :
    /\ r.packet.type = "SUBACK" /\ Cycle(r, still)
    /\ isconnected' = Granted(r.packet, still)
    /\ NextTopic
SubackLateIgnored ==                                                        \* mutant
  TimedOut("SUBSCRIBE", "SUBACK") /\ UNCHANGED isconnected /\ NextTopic
SubackLate ==
  TimedOut("SUBSCRIBE", "SUBACK") /\ isconnected' = FALSE /\ NextTopic
Suback == pc = "suback" /\ (SubackTaken \/ SubackLate) /\ UNCHANGED socket /\ InConnect

(* While it waits for one packet the client handles all others.               *)
Meanwhile ==
  /\ pc \in {"connack", "suback"}
  /\ \E r \in PacketReads, still \in BOOLEAN :
       /\ r.packet.type # (IF pc = "connack" THEN "CONNACK" ELSE "SUBACK")
       /\ Cycle(r, still) /\ isconnected' = still
  /\ UNCHANGED <<socket, pc, topic>> /\ InConnect

(* connect() returns to setup(), or into the middle of loop().                *)
Return ==
  /\ pc = "connected" /\ pc' = (IF booted THEN "hello" ELSE "loop") /\ booted' = TRUE
  /\ UNCHANGED <<outside, socket, subs, toBroker, toClient, topic, isconnected,
                 ping_outstanding, light, forwarded, faults>>

-----------------------------------------------------------------------------
(* loop() of the sketch.                                                      *)
InLoop == UNCHANGED <<outside, subs, forwarded, booted, topic>>

(* Client::disconnect cannot send anything here; it resets isconnected.       *)
Loop ==
  /\ pc = "loop" /\ pc' = "yield"
  /\ isconnected' = (isconnected /\ Connected)
  /\ UNCHANGED <<socket, toBroker, toClient, ping_outstanding, light, faults>> /\ InLoop

(* yield ends with the first read that fails, or after its second; that it    *)
(* has failed is not looked at.                                               *)
Yield ==
  /\ pc = "yield"
  /\ \E r \in PacketReads, still \in BOOLEAN :
       /\ Cycle(r, still) /\ isconnected' = still
       /\ pc' \in {"check"} \cup (IF r.packet = Empty THEN {} ELSE {"yield"})
  /\ UNCHANGED socket /\ InLoop
YieldEnds == Yield /\ pc' = "check"

CheckNetwork ==                                                             \* mutant
  /\ pc = "check" /\ pc' = IF Connected THEN "hello" ELSE "wifi"
  /\ UNCHANGED <<socket, toBroker, toClient, isconnected, ping_outstanding, light, faults>> /\ InLoop
Check ==
  /\ pc = "check" /\ pc' = IF isconnected THEN "hello" ELSE "wifi"
  /\ UNCHANGED <<socket, toBroker, toClient, isconnected, ping_outstanding, light, faults>> /\ InLoop

(* Once a second "/hello" is published.                                       *)
Hello ==
  /\ pc = "hello" /\ pc' = "loop"
  /\ \/ UNCHANGED <<toBroker, isconnected, faults>>
     \/ isconnected /\ \E o \in Outcomes(<<>>) : Send(o) /\ isconnected' = o.ok
  /\ UNCHANGED <<socket, toClient, ping_outstanding, light>> /\ InLoop

Client == \/ WifiWait \/ Dial \/ Connect \/ Connack \/ Subscribe \/ Suback \/ Meanwhile
          \/ Return \/ Loop \/ Yield \/ Check \/ Hello \/ Restart

Next == \/ WifiDrops \/ BrokerStops \/ WifiJoins \/ BrokerStarts \/ Notice
        \/ BrokerTakes \/ (\E m \in Commands : Forward(m))
        \/ Client

(* The thread runs, and the timers of yield and waitfor end what else might   *)
(* go on for ever; the broker answers, TCP notices a lost connection in the   *)
(* end, and access point and broker come back.                                *)
Fairness == /\ WF_vars(Client) /\ WF_vars(YieldEnds) /\ WF_vars(Connack) /\ WF_vars(Suback)
            /\ WF_vars(BrokerTakes) /\ WF_vars(Notice)
            /\ WF_vars(WifiJoins) /\ WF_vars(BrokerStarts)
Spec == Init /\ [][Next]_vars /\ Fairness

-----------------------------------------------------------------------------
ToBroker == [type : {"CONNECT", "PINGREQ", "part", "junk"}] \cup [type : {"SUBSCRIBE"}, topic : TopicSet]
ToClient == [type : {"CONNACK"}, ok : BOOLEAN] \cup [type : {"PINGRESP", "rest"}]
            \cup [type : {"SUBACK"}, topic : TopicSet, ok : BOOLEAN]
            \cup {[type |-> "PUBLISH", topic |-> m.topic, payload |-> m.payload] : m \in Commands}
Looping  == {"loop", "yield", "check", "hello"}
TypeOK ==
  /\ {wifi, up, booted, isconnected, ping_outstanding} \subseteq BOOLEAN
  /\ socket \in {"closed", "open", "dead"} /\ subs \subseteq TopicSet
  /\ toBroker \in Seq(ToBroker) /\ toClient \in Seq(ToClient)
  /\ pc \in {"wifi", "dial", "connect", "connack", "subscribe", "suback", "connected"} \cup Looping
  /\ topic \in DOMAIN Topics
  /\ forwarded \in 0..MaxCommands /\ faults \in 0..MaxFaults

(* The client takes any SUBACK for the answer to its SUBSCRIBE, without a     *)
(* look at the id (MQTTClient.h:734): it is its own all the same, although    *)
(* answers may come after the client has given up and gone on.                *)
SubackIsOwn == pc = "suback" =>
  \A i \in DOMAIN toClient : toClient[i].type = "SUBACK" => toClient[i].topic = Topics[topic]

(* In its loop, a strip that believes to be connected, over a connection that *)
(* is there, is subscribed to all its topics: no refusal, time-out, partial   *)
(* write, torn packet or failed report on the way leaves it deaf.             *)
SubscribedInLoop ==
  TypeOK /\ (pc \in Looping /\ isconnected /\ socket = "open" => subs = TopicSet)

(* A command the broker has forwarded is obeyed, whatever the client waits    *)
(* for at the time, unless the connection ends or a packet comes in pieces.   *)
Torn == \E i \in DOMAIN toClient : toClient[i] = Rest
Obeyed == \A m \in {c \in Commands : c.topic # "/example"} :
  (\E i \in DOMAIN toClient : toClient[i].type = "PUBLISH" /\ toClient[i].topic = m.topic
                               /\ toClient[i].payload = m.payload)
    ~> light = Shown(m) \/ socket # "open" \/ pc = "dial" \/ Torn

(* Again and again the strip serves: after any outage it finds its way back.  *)
Recovers == []<>(pc = "loop" /\ isconnected /\ socket = "open" /\ subs = TopicSet)
=============================================================================
