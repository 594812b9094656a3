---------------------------- MODULE PacketStream ----------------------------
(* A client and its broker exchange packets over a stream of bytes: a request *)
(* is serialized into the client's buffer, answers and messages arrive in     *)
(* pieces of any size and are put together by one of the three readers of the *)
(* library:                                                                   *)
(*   "readnb"      MQTTPacket_readnb, which is called again for each piece    *)
(*   "read"        MQTTPacket_read, whose read function waits                 *)
(*   "readPacket"  MQTT::Client::readPacket over Network::read, which waits   *)
(*                 for the rest of what it is asked for, but not for its      *)
(*                 first byte                                                 *)
(* One action is one call of the function that reads from the transport.      *)
(* StreamInit to StreamSpec are named so that LightStrip_proofs can extend    *)
(* this module beside LightStrip, which uses the same library.                *)
EXTENDS MqttPacket

CONSTANTS Setups,        \* pairs of a reader and where the network may cut (see Cut)
          BufLen,        \* size of the client's buffer
          AppRequests,   \* requests of the client
          Messages,      \* publications of the broker
          MaxPackets,    \* bound: packets the broker sends
          MaxCut         \* bound: a packet is cut in its first MaxCut bytes, the rest arrives at once

(* A buffer of this size takes every packet that the length can express.      *)
Unlimited == 268435460
ASSUME StreamAssumption ==
  /\ Setups \subseteq {"readnb", "read", "readPacket"} \X {"none", "body", "anywhere"}
  /\ BufLen \in Nat /\ 5 <= BufLen /\ BufLen <= Unlimited
  /\ MaxPackets \in Nat /\ MaxCut \in Nat

VARIABLES reader, cuts,
          out,           \* the last request and what serializing it has returned
          sent,          \* history: packets of the broker, in order
          wire,          \* their bytes on the way: those left of each, and how many have arrived
          arrived,       \* bytes the transport has
          state, buf, len, remLen, multiplier,   \* the reader: MQTTTransport or locals
          got            \* history: what the reader has returned

stream     == <<reader, cuts, sent, wire>>
streamVars == <<reader, cuts, out, sent, wire, arrived, state, buf, len, remLen, multiplier, got>>

StreamInit ==
  /\ \E s \in Setups : reader = s[1] /\ cuts = s[2]
  /\ out = [request |-> [op |-> "none"]]
  /\ sent = <<>> /\ wire = <<>> /\ arrived = <<>> /\ got = <<>>
  /\ state = 0 /\ buf = <<>> /\ len = 0 /\ remLen = 0 /\ multiplier = 1

-----------------------------------------------------------------------------
(* The client.                                                                *)
Serialized(r, buflen) ==
  CASE r.op = "CONNECT"     -> MQTTSerialize_connect(buflen, r)
    [] r.op = "SUBSCRIBE"   -> MQTTSerialize_subscribe(buflen, 0, r.id, r.filters, r.qos)
    [] r.op = "UNSUBSCRIBE" -> MQTTSerialize_unsubscribe(buflen, 0, r.id, r.filters)
    [] r.op = "PUBLISH"     -> MQTTSerialize_publish(buflen, r)
    [] r.op \in {"PUBACK", "PUBREC", "PUBREL", "PUBCOMP"}
                            -> MQTTSerialize_ack(buflen, r.op, 0, r.id)
    [] r.op \in {"PINGREQ", "DISCONNECT"} -> MQTTSerialize_zero(buflen, r.op)

(* What the client may ask and the broker publish: fields of the types that   *)
(* the functions take, in packets that the length can express, and for the    *)
(* broker's in packets for which the client has a buffer.                     *)
Strings     == Seq(Nat)
Optional(S) == {s \in Seq(S) : Len(s) <= 1}
Wills       == [topicName : Strings, message : Strings, qos : 0..2, retained : 0..1]
Shorts      == {n \in Nat : n < 65536}
ConnectRequests ==
  [op : {"CONNECT"}, version : {3, 4}, clientID : Strings, will : Optional(Wills),
   username : Optional(Strings), password : Optional(Strings), cleansession : 0..1,
   keepAliveInterval : Shorts]
SubscribeRequests   == [op : {"SUBSCRIBE"}, id : Shorts, filters : Seq(Strings), qos : Seq(0..2)]
UnsubscribeRequests == [op : {"UNSUBSCRIBE"}, id : Shorts, filters : Seq(Strings)]
PublishRequests ==
  [op : {"PUBLISH"}, qos : 0..2, dup : 0..1, retained : 0..1, id : Shorts,
   topicName : Strings, payload : Strings]
AckRequests  == [op : {"PUBACK", "PUBREC", "PUBREL", "PUBCOMP"}, id : Shorts]
ZeroRequests == [op : {"PINGREQ", "DISCONNECT"}]
RequestTypes == ConnectRequests \cup SubscribeRequests \cup UnsubscribeRequests
                \cup PublishRequests \cup AckRequests \cup ZeroRequests
ASSUME RequestsAreSane ==
  \A r \in AppRequests : /\ r \in RequestTypes
                         /\ r.op = "SUBSCRIBE" => Len(r.qos) = Len(r.filters)
                         /\ Serialized(r, Unlimited).rc > 0
ASSUME MessagesFit ==
  \A m \in Messages :
    /\ m \in [type : {"PUBLISH"}, qos : 0..2, dup : 0..1, retained : 0..1, id : Shorts,
              topicName : Strings, payload : Strings]
    /\ m.qos = 0 => m.id = 0
    /\ Len(m.topicName) <= 65535
    /\ MQTTSerialize_publish(BufLen, m).rc > 0

(* The broker's packets and their bytes, by the protocol.                     *)
AnswersTo(r) ==
  CASE r.op = "CONNECT"     -> {[type |-> "CONNACK", connackRc |-> rc] : rc \in {0, 5}}
    [] r.op = "SUBSCRIBE"   -> {[type |-> "SUBACK", id |-> r.id, grantedQoSs |-> <<g>>] : g \in {0, 128}}
    [] r.op = "UNSUBSCRIBE" -> {[type |-> "UNSUBACK", id |-> r.id]}
    [] r.op = "PUBLISH" /\ r.qos = 1 -> {[type |-> "PUBACK", id |-> r.id]}
    [] r.op = "PINGREQ" -> {[type |-> "PINGRESP"]}
    [] OTHER -> {}
BrokerBytes(p) ==
  CASE p.type = "CONNACK" -> <<32, 2, 0, p.connackRc>>
    [] p.type = "SUBACK"  -> <<144, 2 + Len(p.grantedQoSs)>> \o writeInt(p.id) \o p.grantedQoSs
    [] p.type = "PINGRESP" -> <<208, 0>>
    [] p.type = "PUBLISH" -> MQTTSerialize_publish(BufLen, p).bytes
    [] OTHER              -> <<16 * msgTypes[p.type], 2>> \o writeInt(p.id)

Post(p) == /\ Len(sent) < MaxPackets
           /\ sent' = Append(sent, p)
           /\ wire' = Append(wire, [left |-> BrokerBytes(p), taken |-> 0,
                                  fixed |-> 1 + MQTTPacket_decode(Tail(BrokerBytes(p))).len])

(* Bound: the client asks until the broker has sent its first packet.         *)
Ask(r) ==
  /\ sent = <<>>
  /\ out' = [request |-> r, result |-> Serialized(r, BufLen)]
  /\ IF Serialized(r, BufLen).rc > 0 /\ AnswersTo(r) # {} /\ Len(sent) < MaxPackets
     THEN \E p \in AnswersTo(r) : Post(p)
     ELSE UNCHANGED <<sent, wire>>
  /\ UNCHANGED <<reader, cuts, arrived, state, buf, len, remLen, multiplier, got>>

Publish(m) == /\ Post(m)
              /\ out' = [request |-> [op |-> "none"]]      \* of no interest any more
              /\ UNCHANGED <<reader, cuts, arrived, state, buf, len, remLen, multiplier, got>>

(* The network delivers the next k bytes.  It cuts "anywhere", in the "body"  *)
(* of a packet only, or not at all ("none").                                  *)
Cut(k) ==
  LET head == Head(wire)
  IN \/ k = Len(head.left)
     \/ /\ head.taken + k <= MaxCut
        /\ \/ cuts = "anywhere"
           \/ cuts = "body" /\ head.taken + k >= head.fixed
Deliver(k) ==
  /\ arrived' = arrived \o SubSeq(Head(wire).left, 1, k)
  /\ wire' = IF k = Len(Head(wire).left) THEN Tail(wire)
             ELSE <<[Head(wire) EXCEPT !.left = SubSeq(@, k + 1, Len(@)), !.taken = @ + k]>> \o Tail(wire)
  /\ out' = [request |-> [op |-> "none"]]
  /\ UNCHANGED <<reader, cuts, sent, state, buf, len, remLen, multiplier, got>>
Arrive ==
  /\ wire # <<>>
  /\ \E k \in 1..MaxCut \cup {Len(Head(wire).left)} : k <= Len(Head(wire).left) /\ Cut(k) /\ Deliver(k)

-----------------------------------------------------------------------------
(* The readers.                                                               *)

(* What the client takes out of a packet it has been returned (an empty one   *)
(* stands for a failure).  Of a packet too short for its fields it takes      *)
(* whatever the variables held before.                                        *)
ConnackIn(packet) ==
  [type |-> "CONNACK", connackRc |-> MQTTDeserialize_connack(packet).connackRc]
SubackIn(packet) ==
  LET d == MQTTDeserialize_suback(packet, 1)
  IN [type |-> "SUBACK", id |-> d.id, grantedQoSs |-> d.grantedQoSs]
UnsubackIn(packet) == [type |-> "UNSUBACK", id |-> MQTTDeserialize_unsuback(packet).id]
PubackIn(packet)   == [type |-> "PUBACK", id |-> MQTTDeserialize_ack(packet).id]
MessageIn(packet) ==
  LET d == MQTTDeserialize_publish(packet)
  IN [type |-> "PUBLISH", qos |-> d.qos, dup |-> d.dup, retained |-> d.retained,
      id |-> d.id, topicName |-> d.topicName, payload |-> d.payload]

Understood(packet) ==
  LET type == HeaderFields(packet[1]).type  f == Frame(packet)
  IN IF packet = <<>> THEN [type |-> "failed"]
     ELSE IF type = msgTypes["PINGRESP"] THEN [type |-> "PINGRESP"]
     ELSE IF f.end - f.start < 2 THEN [type |-> "unknown"]
     ELSE CASE type = msgTypes["CONNACK"]  -> ConnackIn(packet)
            [] type = msgTypes["SUBACK"]   -> SubackIn(packet)
            [] type = msgTypes["UNSUBACK"] -> UnsubackIn(packet)
            [] type = msgTypes["PUBACK"]   -> PubackIn(packet)
            [] type = msgTypes["PUBLISH"] /\ readMQTTLenString(packet, f.start, f.end).ok
                                           -> MessageIn(packet)
            [] OTHER -> [type |-> "unknown"]

HandOver(packet) == /\ got' = Append(got, packet)
                    /\ state' = 0 /\ buf' = <<>> /\ len' = 0 /\ remLen' = 0 /\ multiplier' = 1
Failed == <<>>

TakeBytes(k) == arrived' = SubSeq(arrived, k + 1, Len(arrived))

ReadHeader ==
  /\ state = 0 /\ arrived # <<>>
  /\ TakeBytes(1)
  /\ buf' = <<arrived[1]>> /\ len' = 0 /\ state' = 1
  /\ UNCHANGED <<stream, out, remLen, multiplier, got>>

(* The length is known: it is written back behind the header, and a packet    *)
(* that does not fit is given up, with its bytes left on the stream.          *)
LengthKnown(n) ==
  IF n + 1 + LengthBytes(n) > BufLen THEN HandOver(Failed)
  ELSE /\ buf' = buf \o MQTTPacket_encode(n)
       /\ state' = 2 /\ remLen' = n /\ len' = 1 + LengthBytes(n)
       /\ UNCHANGED <<multiplier, got>>

TooManyBytes ==
  /\ state = 1 /\ len >= MAX_NO_OF_REMAINING_LENGTH_BYTES
  /\ IF reader = "readnb" THEN HandOver(Failed) ELSE LengthKnown(remLen)
  /\ UNCHANGED <<stream, out, arrived>>

ReadLengthNoCarry ==                                                          \* mutant
  /\ state = 1 /\ len < MAX_NO_OF_REMAINING_LENGTH_BYTES /\ arrived # <<>>
  /\ TakeBytes(1)
  /\ LengthKnown(arrived[1] % 128)
  /\ UNCHANGED <<stream, out>>
ReadLength ==
  /\ state = 1 /\ len < MAX_NO_OF_REMAINING_LENGTH_BYTES /\ arrived # <<>>
  /\ TakeBytes(1)
  /\ LET n == remLen + (arrived[1] % 128) * multiplier
     IN IF arrived[1] >= 128
        THEN /\ remLen' = n /\ multiplier' = multiplier * 128 /\ len' = len + 1
             /\ UNCHANGED <<state, buf, got>>
        ELSE LengthKnown(n)
  /\ UNCHANGED <<stream, out>>

(* No length byte is there yet.  readnb asks to be called again and has       *)
(* counted the round; readPacket goes on with the length it has so far.       *)
NoLengthByte ==
  /\ state = 1 /\ len < MAX_NO_OF_REMAINING_LENGTH_BYTES /\ arrived = <<>>
  /\ \/ /\ reader = "readnb"
        /\ len' = len + 1
        /\ UNCHANGED <<state, buf, remLen, multiplier, got>>
     \/ reader = "readPacket" /\ LengthKnown(remLen)
  /\ UNCHANGED <<stream, out, arrived>>

(* readnb takes what is there and is called again for the rest.               *)
ReadSomeMore ==                                                               \* mutant
  /\ state = 2 /\ reader = "readnb"
  /\ LET k == IF remLen < Len(arrived) THEN remLen ELSE Len(arrived)
     IN /\ k > 0
        /\ TakeBytes(k)
        /\ buf' = buf \o SubSeq(arrived, 1, k)
        /\ remLen' = remLen - k /\ len' = len + k
        /\ UNCHANGED <<state, multiplier, got>>
  /\ UNCHANGED <<stream, out>>
ReadSome ==
  /\ state = 2 /\ reader = "readnb"
  /\ LET k == IF remLen < Len(arrived) THEN remLen ELSE Len(arrived)
     IN /\ k > 0
        /\ TakeBytes(k)
        /\ IF k = remLen THEN HandOver(buf \o SubSeq(arrived, 1, k))
           ELSE /\ buf' = buf \o SubSeq(arrived, 1, k)
                /\ remLen' = remLen - k /\ len' = len + k
                /\ UNCHANGED <<state, multiplier, got>>
  /\ UNCHANGED <<stream, out>>

ReadRest ==
  /\ state = 2 /\ reader # "readnb"
  /\ Len(arrived) >= remLen
  /\ TakeBytes(remLen)
  /\ HandOver(buf \o SubSeq(arrived, 1, remLen))
  /\ UNCHANGED <<stream, out>>

(* Network::read returns 0 at once when nothing is there, and what it has     *)
(* when the wait for the rest runs out: the packet is given up.               *)
RestMissing ==
  /\ state = 2 /\ reader = "readPacket"
  /\ Len(arrived) < remLen
  /\ arrived' = <<>>
  /\ HandOver(Failed)
  /\ UNCHANGED <<stream, out>>

Read == \/ ReadHeader \/ TooManyBytes \/ ReadLength \/ NoLengthByte
        \/ ReadSome \/ ReadRest \/ RestMissing
StreamNext == \/ \E r \in AppRequests : Ask(r)
              \/ \E m \in Messages : Publish(m)
              \/ Arrive
              \/ Read

(* The network delivers, and the client keeps calling its reader.             *)
StreamFairness == WF_streamVars(Arrive) /\ WF_streamVars(Read)
StreamSpec == StreamInit /\ [][StreamNext]_streamVars /\ StreamFairness

-----------------------------------------------------------------------------
StreamTypeOK ==
  /\ <<reader, cuts>> \in Setups
  /\ Len(sent) <= MaxPackets /\ Len(wire) <= Len(sent)
  /\ state \in 0..2 /\ len \in 0..BufLen /\ remLen \in Nat /\ multiplier \in {1, 128, 16384, 2097152, 268435456}
  /\ Len(buf) + (IF state = 2 THEN remLen ELSE 0) <= BufLen

(* A request the client sends announces exactly the bytes that follow: what   *)
(* the ...Length functions calculate is what the writers write, so that the   *)
(* broker finds the next packet.  One that is refused would not have fitted,  *)
(* or just so, where MQTTPacket_len takes it for one byte longer than it is.  *)
Overestimated == {129, 16386, 2097154, 2097155}
RequestFits ==
  out.request.op # "none" =>
    LET b == out.result.bytes  d == MQTTPacket_decode(Tail(b))
        needed == Serialized(out.request, Unlimited).rc
    IN IF out.result.rc > 0
       THEN /\ out.result.rc = Len(b) /\ Len(b) <= BufLen
            /\ d.value = Len(b) - 1 - d.len
       ELSE needed > BufLen \/ (needed = BufLen /\ BufLen \in Overestimated)

(* Which cuts each reader copes with.                                         *)
Tolerates == [readnb |-> {"none", "body"}, read |-> {"none", "body", "anywhere"},
              readPacket |-> {"none"}]

Received == [i \in DOMAIN got |-> Understood(got[i])]

(* In whatever pieces a reader copes with they arrive, packets come out as    *)
(* the broker sent them: ids, results, topics and payloads, in order, and     *)
(* with no byte of one taken for another.                                     *)
InStep == StreamTypeOK /\ (cuts \in Tolerates[reader] => IsPrefix(Received, sent))

(* And all of them come out, except that readnb takes the missing body of an  *)
(* empty packet (a PINGRESP) for one that has not arrived yet, and waits.     *)
Returnable == \A i \in DOMAIN sent : ~(reader = "readnb" /\ sent[i].type = "PINGRESP")
AllReturned == \A i \in 1..MaxPackets :
                 (cuts \in Tolerates[reader] /\ Returnable /\ Len(sent) >= i) ~> Len(got) >= i
=============================================================================
