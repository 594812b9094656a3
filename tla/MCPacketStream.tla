--------------------------- MODULE MCPacketStream ---------------------------
(* Requests and messages for TLC.  Payloads and topics of several lengths, so *)
(* that packets of one and of two length bytes occur, packets that just fit   *)
(* and packets that just do not.                                              *)
EXTENDS PacketStream

Bytes(b, n) == [i \in 1..n |-> b]
NoWill == <<>>
Will == <<[topicName |-> Bytes(97, 2), message |-> Bytes(98, 3), qos |-> 1, retained |-> 1]>>
MCConnects ==
  { [op |-> "CONNECT", version |-> v, clientID |-> Bytes(99, 7), will |-> w, username |-> u,
     password |-> u, cleansession |-> 1, keepAliveInterval |-> 60]
      : v \in {3, 4}, w \in {NoWill, Will}, u \in {<<>>, <<Bytes(116, 3)>>, <<Bytes(116, 60)>>} }
MCPublications(ns) ==
  { [op |-> "PUBLISH", qos |-> q, dup |-> 0, retained |-> 1, id |-> IF q = 0 THEN 0 ELSE 258,
     topicName |-> Bytes(47, 1), payload |-> Bytes(119, n)] : q \in {0, 1}, n \in ns }
MCRequests ==
  MCConnects \cup MCPublications({0, 121, 122, 123, 124, 132, 133, 134, 135})
   \cup { [op |-> "SUBSCRIBE", id |-> i, filters |-> f, qos |-> [k \in DOMAIN f |-> 0]]
            : i \in {1, 65535}, f \in {<<Bytes(47, 8)>>, <<Bytes(47, 133)>>, <<Bytes(47, 2), Bytes(47, 60)>>} }
   \cup { [op |-> "UNSUBSCRIBE", id |-> 257, filters |-> <<Bytes(47, n)>>] : n \in {8, 123, 134} }
   \cup { [op |-> o, id |-> 513] : o \in {"PUBACK", "PUBREC", "PUBREL", "PUBCOMP"} }
   \cup { [op |-> o] : o \in {"PINGREQ", "DISCONNECT"} }
MCMessages ==
  { [type |-> "PUBLISH", qos |-> n % 2, dup |-> n % 2, retained |-> 0, id |-> 515 * (n % 2),
     topicName |-> Bytes(47, 1), payload |-> Bytes(49, n)] : n \in {0, 1, 126} }
MCSetups == {"readnb", "read", "readPacket"} \X {"none", "body", "anywhere"}
=============================================================================
