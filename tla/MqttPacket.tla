----------------------------- MODULE MqttPacket -----------------------------
(* The packets of the MQTT library the prototype is built with                *)
(* (libraries/MQTT/src/lib/MQTT*.c): how a request is written into a buffer   *)
(* and how an answer is taken out of one.  A byte is a number below 256, a    *)
(* string or a payload is the sequence of its bytes, an optional string is a  *)
(* sequence of at most one string.                                            *)
EXTENDS Integers, Sequences, SequencesExt

BUFFER_TOO_SHORT == -2

msgTypes == [CONNECT |-> 1, CONNACK |-> 2, PUBLISH |-> 3, PUBACK |-> 4, PUBREC |-> 5,
             PUBREL |-> 6, PUBCOMP |-> 7, SUBSCRIBE |-> 8, SUBACK |-> 9,
             UNSUBSCRIBE |-> 10, UNSUBACK |-> 11, PINGREQ |-> 12, PINGRESP |-> 13,
             DISCONNECT |-> 14]

(* The header byte is a bit field: retain, qos (2 bits), dup, type (4).       *)
MQTTHeader(type, dup, qos, retain) == 16 * msgTypes[type] + 8 * dup + 2 * qos + retain
HeaderFields(byte) == [type   |-> byte \div 16,       dup    |-> (byte \div 8) % 2,
                       qos    |-> (byte \div 2) % 4,  retain |-> byte % 2]

-----------------------------------------------------------------------------
(* The remaining length: seven bits per byte, the lowest first; the top bit   *)
(* says that another byte follows.  Lengths are below 128^4.                  *)
MAX_NO_OF_REMAINING_LENGTH_BYTES == 4
Power128 == <<1, 128, 128 * 128, 128 * 128 * 128>>
LengthBytes(n) == IF n < 128 THEN 1 ELSE IF n < 16384 THEN 2 ELSE IF n < 2097152 THEN 3 ELSE 4
SevenBits(n, i) == (n \div Power128[i]) % 128
MQTTPacket_encode(n) ==
  [i \in 1..LengthBytes(n) |-> SevenBits(n, i) + (IF i < LengthBytes(n) THEN 128 ELSE 0)]

(* What the reading loop makes of the bytes that follow the header.  "len" is *)
(* the number of rounds it has begun, which is also what it returns when it   *)
(* has given up after four bytes, or ran out of bytes.                        *)
MQTTPacket_decode(bytes) ==
  LET most  == IF Len(bytes) < MAX_NO_OF_REMAINING_LENGTH_BYTES THEN Len(bytes)
               ELSE MAX_NO_OF_REMAINING_LENGTH_BYTES
      stops == {i \in 1..most : bytes[i] < 128}
      used  == IF stops = {} THEN most ELSE CHOOSE i \in stops : \A j \in stops : i <= j
      part(i) == IF i <= used THEN (bytes[i] % 128) * Power128[i] ELSE 0
  IN [value |-> part(1) + part(2) + part(3) + part(4),
      len   |-> IF used \in stops THEN used ELSE used + 1]

(* How long a packet will be, header and length included: an estimate, which  *)
(* counts the header into the length it compares (line 83).                   *)
MQTTPacket_len(remLen) ==
  LET n == remLen + 1
  IN n + (IF n < 128 THEN 1 ELSE IF n < 16384 THEN 2 ELSE IF n < 2097151 THEN 3 ELSE 4)

writeInt(n)         == << (n \div 256) % 256, n % 256 >>
readInt(buf, i)     == 256 * buf[i] + buf[i + 1]
writeMQTTString(s)  == writeInt(Len(s)) \o s
writeAll(strings)   == FlattenSeq([i \in DOMAIN strings |-> writeMQTTString(strings[i])])
lengthAll(strings)  ==
  LET upTo[i \in 0..Len(strings)] == IF i = 0 THEN 0 ELSE upTo[i - 1] + Len(strings[i]) + 2
  IN upTo[Len(strings)]

(* A string that starts at buf[i] and must end before buf[end].               *)
readMQTTLenString(buf, i, end) ==
  IF end - i > 1 /\ i + 2 + readInt(buf, i) <= end
  THEN [ok |-> TRUE, string |-> SubSeq(buf, i + 2, i + 1 + readInt(buf, i)),
        next |-> i + 2 + readInt(buf, i)]
  ELSE [ok |-> FALSE]

-----------------------------------------------------------------------------
(* Requests.  The remaining length is calculated by a function of its own and *)
(* written before the fields are: nothing but these two agreeing makes the    *)
(* broker find the end of the packet.                                         *)
Written(header, remLen, fields) == <<header>> \o MQTTPacket_encode(remLen) \o fields
InBuffer(buflen, remLen, packet) ==
  IF MQTTPacket_len(remLen) > buflen THEN [rc |-> BUFFER_TOO_SHORT, bytes |-> <<>>]
                                     ELSE [rc |-> Len(packet), bytes |-> packet]

(* Options: version (3 or 4), clientID, will (optional, with topicName,       *)
(* message, qos, retained), username and password (optional), cleansession,   *)
(* keepAliveInterval.                                                         *)
WillStrings(o) == IF o.will = <<>> THEN <<>> ELSE <<o.will[1].topicName, o.will[1].message>>
ConnectLengthNoWill(o) ==                                                   \* mutant
  (IF o.version = 3 THEN 12 ELSE 10) + Len(o.clientID) + 2
     + lengthAll(o.username) + lengthAll(o.password)
MQTTSerialize_connectLength(o) ==
  (IF o.version = 3 THEN 12 ELSE 10) + Len(o.clientID) + 2
     + lengthAll(WillStrings(o)) + lengthAll(o.username) + lengthAll(o.password)
MQTTConnectFlags(o) ==
  128 * Len(o.username) + 64 * Len(o.password) + 2 * o.cleansession
     + (IF o.will = <<>> THEN 0 ELSE 32 * o.will[1].retained + 8 * o.will[1].qos + 4)
Protocol(version) == IF version = 4 THEN writeMQTTString(<<77, 81, 84, 84>>) \o <<4>>
                                    ELSE writeMQTTString(<<77, 81, 73, 115, 100, 112>>) \o <<3>>
MQTTSerialize_connect(buflen, o) ==
  LET remLen == MQTTSerialize_connectLength(o)
  IN InBuffer(buflen, remLen, Written(MQTTHeader("CONNECT", 0, 0, 0), remLen,
       Protocol(o.version) \o <<MQTTConnectFlags(o)>> \o writeInt(o.keepAliveInterval)
         \o writeAll(<<o.clientID>> \o WillStrings(o) \o o.username \o o.password)))

(* A publication: qos, retained, dup, id, topicName, payload.                 *)
MQTTSerialize_publishLength(m) ==
  2 + Len(m.topicName) + Len(m.payload) + (IF m.qos > 0 THEN 2 ELSE 0)
MQTTSerialize_publish(buflen, m) ==
  LET remLen == MQTTSerialize_publishLength(m)
  IN InBuffer(buflen, remLen, Written(MQTTHeader("PUBLISH", m.dup, m.qos, m.retained), remLen,
       writeMQTTString(m.topicName) \o (IF m.qos > 0 THEN writeInt(m.id) ELSE <<>>) \o m.payload))

MQTTSerialize_ack(buflen, type, dup, id) ==
  IF buflen < 4 THEN [rc |-> BUFFER_TOO_SHORT, bytes |-> <<>>]
  ELSE [rc |-> 4, bytes |-> Written(MQTTHeader(type, dup, IF type = "PUBREL" THEN 1 ELSE 0, 0),
                                    2, writeInt(id))]
MQTTSerialize_zero(buflen, type) ==
  IF buflen < 2 THEN [rc |-> BUFFER_TOO_SHORT, bytes |-> <<>>]
  ELSE [rc |-> 2, bytes |-> Written(MQTTHeader(type, 0, 0, 0), 0, <<>>)]

(* Topic filters, for a SUBSCRIBE with the qos that goes with each.           *)
MQTTSerialize_subscribeLength(filters)   == 2 + lengthAll(filters) + Len(filters)
MQTTSerialize_unsubscribeLength(filters) == 2 + lengthAll(filters)
MQTTSerialize_subscribe(buflen, dup, id, filters, qos) ==
  LET remLen == MQTTSerialize_subscribeLength(filters)
  IN InBuffer(buflen, remLen, Written(MQTTHeader("SUBSCRIBE", dup, 1, 0), remLen,
       writeInt(id) \o FlattenSeq([i \in DOMAIN filters |->
                                     writeMQTTString(filters[i]) \o <<qos[i]>>])))
MQTTSerialize_unsubscribe(buflen, dup, id, filters) ==
  LET remLen == MQTTSerialize_unsubscribeLength(filters)
  IN InBuffer(buflen, remLen, Written(MQTTHeader("UNSUBSCRIBE", dup, 1, 0), remLen,
       writeInt(id) \o writeAll(filters)))

-----------------------------------------------------------------------------
(* Answers, taken out of a buffer that holds a packet.  A field's place       *)
(* follows from the length: "start" is where the fields start, "end" where    *)
(* the packet ends.  When a packet is too short for its fields, what is       *)
(* returned is the number of length bytes, in which 1 also means success.     *)
Frame(buf) == LET d == MQTTPacket_decode(Tail(buf))
              IN [rc |-> d.len, start |-> 2 + d.len, end |-> 2 + d.len + d.value]

MQTTDeserialize_publish(buf) ==
  LET h == HeaderFields(buf[1])  f == Frame(buf)
      t == readMQTTLenString(buf, f.start, f.end)
      payload == t.next + (IF h.qos > 0 THEN 2 ELSE 0)
  IN IF h.type # msgTypes["PUBLISH"] THEN [rc |-> 0]
     ELSE IF ~t.ok THEN [rc |-> f.rc]
     ELSE [rc |-> 1, qos |-> h.qos, dup |-> h.dup, retained |-> h.retain,
           id |-> IF h.qos > 0 THEN readInt(buf, t.next) ELSE 0,
           topicName |-> t.string, payload |-> SubSeq(buf, payload, f.end - 1)]

MQTTDeserialize_ack(buf) ==
  LET f == Frame(buf)
  IN IF f.end - f.start < 2 THEN [rc |-> f.rc]
     ELSE [rc |-> 1, type |-> HeaderFields(buf[1]).type, dup |-> HeaderFields(buf[1]).dup,
           id |-> readInt(buf, f.start)]

MQTTDeserialize_unsuback(buf) ==
  LET a == MQTTDeserialize_ack(buf)
  IN IF HeaderFields(buf[1]).type = msgTypes["UNSUBACK"] THEN [a EXCEPT !.rc = 1] ELSE a

(* The loop gives up (-1) when a grant is left and it has one too many.       *)
MQTTDeserialize_suback(buf, maxcount) ==
  LET f == Frame(buf)
  IN IF HeaderFields(buf[1]).type # msgTypes["SUBACK"] THEN [rc |-> 0]
     ELSE IF f.end - f.start < 2 THEN [rc |-> f.rc]
     ELSE IF f.end - f.start - 2 > maxcount + 1 THEN [rc |-> -1]
     ELSE [rc |-> 1, id |-> readInt(buf, f.start),
           grantedQoSs |-> SubSeq(buf, f.start + 2, f.end - 1)]

(* The bit field of the flags takes the highest bit for "session present".    *)
MQTTDeserialize_connack(buf) ==
  LET f == Frame(buf)
  IN IF HeaderFields(buf[1]).type # msgTypes["CONNACK"] THEN [rc |-> 0]
     ELSE IF f.end - f.start < 2 THEN [rc |-> f.rc]
     ELSE [rc |-> 1, sessionPresent |-> buf[f.start] \div 128, connackRc |-> buf[f.start + 1]]
=============================================================================
