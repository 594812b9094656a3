------------------------- MODULE LightStrip_proofs --------------------------
(* The prototype takes only its own answers and is never deaf in its loop, for *)
(* all commands, and however many commands and faults there are.  The packets  *)
(* of the library it is built with (PacketStream): each announces the bytes    *)
(* that follow, and the client reads what the broker has written.              *)
EXTENDS LightStrip, PacketStream, SequenceTheorems, WellFoundedInduction, TLAPS

(* How many packets of a type are in a queue: none; none but one for a topic.  *)
Free(q, type) == \A i \in 1..Len(q) : q[i].type # type
Single(q, type, t) ==
  \A i, j \in 1..Len(q) : q[i].type = type /\ q[j].type = type => i = j /\ q[i].topic = t

(* Requests to subscribe and their answers: none, or one, on its way or back.  *)
Quiet == Free(toBroker, "SUBSCRIBE") /\ Free(toClient, "SUBACK")
OneAsked ==
  /\ Single(toBroker, "SUBSCRIBE", Topics[topic]) /\ Single(toClient, "SUBACK", Topics[topic])
  /\ Free(toBroker, "SUBSCRIBE") \/ Free(toClient, "SUBACK")

(* Answers that come late are left only where the client has given up the      *)
(* connection, and none is left where it opens the next one.                   *)
OwnInv ==
  /\ pc \in {"connect", "connack"} => Quiet
  /\ pc # "suback" /\ isconnected => Quiet
  /\ pc = "suback" => OneAsked

(* What has been granted is subscribed while the connection lasts.             *)
GrantInv == socket = "open" =>
  \A i \in 1..Len(toClient) :
    toClient[i].type = "SUBACK" /\ toClient[i].ok = TRUE => toClient[i].topic \in subs
SubsInv == socket = "open" /\ isconnected =>
  /\ pc \in {"subscribe", "suback"} => \A k \in 1..3 : k < topic => Topics[k] \in subs
  /\ pc \in {"connected"} \cup Looping => \A k \in 1..3 : Topics[k] \in subs
IInv == TypeOK /\ OwnInv /\ GrantInv /\ SubsInv

-----------------------------------------------------------------------------
(* Queues.                                                                    *)
LEMMA FreeIsSingle ==
  ASSUME NEW q, NEW type, NEW t, Free(q, type)
  PROVE  Single(q, type, t)
BY DEF Free, Single

LEMMA EmptyIsFree == \A type : Free(<<>>, type)
BY DEF Free

LEMMA OfOne ==
  ASSUME NEW S, NEW p \in S, NEW type
  PROVE  /\ <<p>> \in Seq(S) /\ Len(<<p>>) = 1
         /\ p.type # type => Free(<<p>>, type)
         /\ \A t : p.topic = t => Single(<<p>>, type, t)
BY DEF Free, Single

LEMMA OnConcat ==
  ASSUME NEW S, NEW q \in Seq(S), NEW r \in Seq(S), NEW type, NEW t
  PROVE  /\ Free(q, type) /\ Free(r, type) => Free(q \o r, type)
         /\ Single(q, type, t) /\ Free(r, type) => Single(q \o r, type, t)
         /\ Free(q, type) /\ Single(r, type, t) => Single(q \o r, type, t)
<1>1. /\ Len(q) \in Nat /\ Len(r) \in Nat /\ Len(q \o r) = Len(q) + Len(r)
      /\ \A i \in 1..Len(q) + Len(r) :
           (q \o r)[i] = IF i <= Len(q) THEN q[i] ELSE r[i - Len(q)]
  BY LenProperties, ConcatProperties
<1>2. ASSUME NEW i \in 1..Len(q \o r)
      PROVE  \/ i \in 1..Len(q) /\ (q \o r)[i] = q[i]
             \/ i - Len(q) \in 1..Len(r) /\ (q \o r)[i] = r[i - Len(q)]
  BY <1>1
<1>3. Free(q, type) /\ Free(r, type) => Free(q \o r, type)
  BY <1>2 DEF Free
<1>4. Single(q, type, t) /\ Free(r, type) => Single(q \o r, type, t)
  BY <1>2 DEF Free, Single
<1>5. ASSUME Free(q, type), Single(r, type, t)
      PROVE  Single(q \o r, type, t)
  <2>1. ASSUME NEW i \in 1..Len(q \o r), NEW j \in 1..Len(q \o r),
               (q \o r)[i].type = type, (q \o r)[j].type = type
        PROVE  i = j /\ (q \o r)[i].topic = t
    <3>1. i - Len(q) \in 1..Len(r) /\ (q \o r)[i] = r[i - Len(q)]
      BY <1>2, <1>5, <2>1 DEF Free
    <3>2. j - Len(q) \in 1..Len(r) /\ (q \o r)[j] = r[j - Len(q)]
      BY <1>2, <1>5, <2>1 DEF Free
    <3>3. i - Len(q) = j - Len(q) /\ r[i - Len(q)].topic = t
      BY <3>1, <3>2, <1>5, <2>1 DEF Single
    <3>4. i \in Int /\ j \in Int
      BY <1>1
    <3> QED
      BY <3>1, <3>3, <3>4, <1>1
  <2> QED
    BY <2>1 DEF Single
<1> QED
  BY <1>3, <1>4, <1>5

LEMMA OnAppend ==
  ASSUME NEW S, NEW q \in Seq(S), NEW p \in S, NEW type, NEW t
  PROVE  /\ Append(q, p) \in Seq(S)
         /\ p.type # type /\ Free(q, type) => Free(Append(q, p), type)
         /\ p.type # type /\ Single(q, type, t) => Single(Append(q, p), type, t)
         /\ p.topic = t /\ Free(q, type) => Single(Append(q, p), type, t)
<1>1. Append(q, p) \in Seq(S) /\ Append(q, p) = q \o <<p>>
  BY AppendProperties, AppendIsConcat
<1>2. <<p>> \in Seq(S)
  BY OfOne
<1>3. /\ Free(q, type) /\ Free(<<p>>, type) => Free(q \o <<p>>, type)
      /\ Single(q, type, t) /\ Free(<<p>>, type) => Single(q \o <<p>>, type, t)
      /\ Free(q, type) /\ Single(<<p>>, type, t) => Single(q \o <<p>>, type, t)
  BY <1>2, OnConcat
<1> QED
  BY <1>1, <1>3, OfOne

LEMMA OnTail ==
  ASSUME NEW S, NEW q \in Seq(S), q # <<>>, NEW type, NEW t
  PROVE  /\ Tail(q) \in Seq(S) /\ Head(q) = q[1] /\ Head(q) \in S /\ 1 \in 1..Len(q)
         /\ \A i \in 1..Len(Tail(q)) : i + 1 \in 1..Len(q) /\ Tail(q)[i] = q[i + 1]
         /\ Free(q, type) => Free(Tail(q), type) /\ Head(q).type # type
         /\ Single(q, type, t) => Single(Tail(q), type, t)
         /\ Single(q, type, t) /\ Head(q).type = type =>
              Free(Tail(q), type) /\ Head(q).topic = t
<1>1. Len(q) \in Nat \ {0} /\ Head(q) = q[1] /\ Head(q) \in S /\ Tail(q) \in Seq(S)
  BY EmptySeq, HeadTailProperties
<1>2. ASSUME NEW i \in 1..Len(Tail(q))
      PROVE  i \in Int /\ i + 1 \in 2..Len(q) /\ Tail(q)[i] = q[i + 1]
  BY <1>1, HeadTailProperties
<1>3. Free(q, type) => Free(Tail(q), type) /\ Head(q).type # type
  BY <1>1, <1>2 DEF Free
<1>4. ASSUME Single(q, type, t)
      PROVE  Single(Tail(q), type, t)
  <2>1. ASSUME NEW i \in 1..Len(Tail(q)), NEW j \in 1..Len(Tail(q)),
               Tail(q)[i].type = type, Tail(q)[j].type = type
        PROVE  i = j /\ Tail(q)[i].topic = t
    <3>1. i + 1 = j + 1 /\ q[i + 1].topic = t
      BY <1>1, <1>2, <1>4, <2>1 DEF Single
    <3> QED
      BY <3>1, <1>2
  <2> QED
    BY <2>1 DEF Single
<1>5. ASSUME Single(q, type, t), Head(q).type = type
      PROVE  Free(Tail(q), type) /\ Head(q).topic = t
  <2>1. ASSUME NEW i \in 1..Len(Tail(q)), Tail(q)[i].type = type
        PROVE  FALSE
    <3>1. i + 1 = 1
      BY <1>1, <1>2, <1>5, <2>1 DEF Single
    <3> QED
      BY <3>1, <1>2
  <2>2. Head(q).topic = t
    BY <1>1, <1>5 DEF Single
  <2> QED
    BY <2>1, <2>2 DEF Free
<1> QED
  BY <1>1, <1>2, <1>3, <1>4, <1>5

LEMMA OnPrefix ==
  ASSUME NEW S, NEW q \in Seq(S), NEW n \in 0..Len(q), NEW type, NEW t
  PROVE  /\ SubSeq(q, 1, n) \in Seq(S)
         /\ Free(q, type) => Free(SubSeq(q, 1, n), type)
         /\ Single(q, type, t) => Single(SubSeq(q, 1, n), type, t)
<1>1. Len(q) \in Nat /\ n \in Int
  BY LenProperties
<1>2. \A i \in 1..n : q[i] \in S /\ i \in 1..Len(q)
  BY <1>1, ElementOfSeq
<1>3. /\ SubSeq(q, 1, n) \in Seq(S) /\ Len(SubSeq(q, 1, n)) = n
      /\ \A i \in 1..n : SubSeq(q, 1, n)[i] = q[i]
  BY <1>1, <1>2, SubSeqProperties
<1> QED
  BY <1>1, <1>2, <1>3 DEF Free, Single

LEMMA OnSuffix ==
  ASSUME NEW S, NEW q \in Seq(S), NEW n \in 1..Len(q), NEW type, NEW t
  PROVE  /\ SubSeq(q, n + 1, Len(q)) \in Seq(S)
         /\ Free(q, type) => Free(SubSeq(q, n + 1, Len(q)), type)
         /\ Single(q, type, t) => Single(SubSeq(q, n + 1, Len(q)), type, t)
         /\ \A i \in 1..Len(SubSeq(q, n + 1, Len(q))) :
              i \in Nat /\ i + n \in 1..Len(q) /\ SubSeq(q, n + 1, Len(q))[i] = q[i + n]
<1> DEFINE r == SubSeq(q, n + 1, Len(q))
<1>1. Len(q) \in Nat /\ n \in Nat
  BY LenProperties
<1>2. \A i \in n + 1 .. Len(q) : q[i] \in S
  BY <1>1, ElementOfSeq
<1>3. /\ r \in Seq(S) /\ Len(r) = (IF n + 1 <= Len(q) THEN Len(q) - n ELSE 0)
      /\ \A i \in 1..Len(r) : r[i] = q[n + 1 + i - 1]
  BY <1>1, <1>2, SubSeqProperties, SMTT(30)
<1>4. ASSUME NEW i \in 1..Len(r)
      PROVE  i \in Nat /\ i + n \in 1..Len(q) /\ r[i] = q[i + n]
  <2>1. i \in Nat /\ i + n \in 1..Len(q) /\ n + 1 + i - 1 = i + n
    BY <1>1, <1>3
  <2> QED
    BY <1>3, <2>1
<1> HIDE DEF r
<1>5. Free(q, type) => Free(r, type)
  BY <1>4 DEF Free
<1>6. ASSUME Single(q, type, t)
      PROVE  Single(r, type, t)
  <2>1. ASSUME NEW i \in 1..Len(r), NEW j \in 1..Len(r), r[i].type = type, r[j].type = type
        PROVE  i = j /\ r[i].topic = t
    <3>1. i + n = j + n /\ q[i + n].topic = t
      BY <1>4, <1>6, <2>1 DEF Single
    <3> QED
      BY <1>1, <1>4, <3>1
  <2> QED
    BY <2>1 DEF Single
<1> QED
  BY <1>3, <1>4, <1>5, <1>6 DEF r

LEMMA OnFront ==
  ASSUME NEW S, NEW q \in Seq(S), NEW p \in S, NEW type, NEW t
  PROVE  /\ <<p>> \o q \in Seq(S)
         /\ p.type # type /\ Free(q, type) => Free(<<p>> \o q, type)
         /\ p.type # type /\ Single(q, type, t) => Single(<<p>> \o q, type, t)
         /\ \A i \in 1..Len(<<p>> \o q) :
              (<<p>> \o q)[i] = p \/ \E j \in 1..Len(q) : (<<p>> \o q)[i] = q[j]
<1>1. <<p>> \in Seq(S) /\ Len(<<p>>) = 1 /\ <<p>>[1] = p
  BY OfOne
<1>2. /\ <<p>> \o q \in Seq(S)
      /\ Free(<<p>>, type) /\ Free(q, type) => Free(<<p>> \o q, type)
      /\ Free(<<p>>, type) /\ Single(q, type, t) => Single(<<p>> \o q, type, t)
  BY <1>1, OnConcat, ConcatProperties
<1>3. Len(q) \in Nat /\ Len(<<p>> \o q) = 1 + Len(q)
      /\ \A i \in 1..1 + Len(q) : (<<p>> \o q)[i] = IF i <= 1 THEN <<p>>[i] ELSE q[i - 1]
  BY <1>1, ConcatProperties, LenProperties
<1>4. ASSUME NEW i \in 1..Len(<<p>> \o q)
      PROVE  (<<p>> \o q)[i] = p \/ \E j \in 1..Len(q) : (<<p>> \o q)[i] = q[j]
  <2>1. CASE i = 1
    BY <1>1, <1>3, <2>1
  <2>2. CASE i # 1
    <3>1. i - 1 \in 1..Len(q) /\ (<<p>> \o q)[i] = q[i - 1]
      BY <1>3, <2>2
    <3> QED
      BY <3>1
  <2> QED
    BY <2>1, <2>2
<1> QED
  BY <1>2, <1>4, OfOne

-----------------------------------------------------------------------------
(* What the client sends and takes.                                           *)
LEMMA TopicsAre ==
  /\ DOMAIN Topics = 1..3 /\ Len(Topics) = 3
  /\ TopicSet = {Topics[1], Topics[2], Topics[3]}
BY DEF Topics, TopicSet

LEMMA Requests ==
  /\ \A type \in {"CONNECT", "PINGREQ", "part", "junk"} : [type |-> type] \in ToBroker
  /\ \A t \in TopicSet : [type |-> "SUBSCRIBE", topic |-> t] \in ToBroker
BY DEF ToBroker

(* Junk is no request: what sendPacket leaves on the way is what was asked, or *)
(* a part of it that nobody can read.                                          *)
LEMMA OutcomesAre ==
  ASSUME TypeOK, NEW asked \in Seq(ToBroker), NEW o \in Outcomes(asked), NEW t
  PROVE  /\ o.ok \in BOOLEAN /\ o.cost \in {0, 1} /\ o.out \in Seq(ToBroker)
         /\ Free(asked, "SUBSCRIBE") => Free(o.out, "SUBSCRIBE")
         /\ Single(asked, "SUBSCRIBE", t) => Single(o.out, "SUBSCRIBE", t)
<1>1. /\ o.ok \in BOOLEAN /\ o.cost \in {0, 1}
      /\ o.out \in {<<>>, asked, <<[type |-> "part"]>>, Append(asked, [type |-> "junk"])}
  <2>1. CASE socket = "open"
    <3>1. Outcomes(asked) = { [ok |-> TRUE,  out |-> asked, cost |-> 0] } \cup
                            { [ok |-> FALSE, out |-> left, cost |-> 1] : left \in Left(asked) }
      BY <2>1 DEF Outcomes
    <3>2. CASE o = [ok |-> TRUE, out |-> asked, cost |-> 0]
      BY <3>2
    <3>3. CASE \E left \in Left(asked) : o = [ok |-> FALSE, out |-> left, cost |-> 1]
      BY <3>3 DEF Left
    <3> QED
      BY <3>1, <3>2, <3>3
  <2>2. CASE socket = "dead"
    <3>1. Outcomes(asked) = { [ok |-> b, out |-> <<>>, cost |-> 0] : b \in BOOLEAN }
      BY <2>2 DEF Outcomes
    <3> QED
      BY <3>1
  <2>3. CASE socket = "closed"
    <3>1. Outcomes(asked) = { [ok |-> FALSE, out |-> <<>>, cost |-> 0] }
      BY <2>3 DEF Outcomes
    <3>2. o = [ok |-> FALSE, out |-> <<>>, cost |-> 0]
      BY <3>1
    <3> QED
      BY <3>2
  <2> QED
    BY <2>1, <2>2, <2>3 DEF TypeOK
<1>2. [type |-> "junk"] \in ToBroker /\ [type |-> "part"] \in ToBroker
  BY Requests
<1>5. <<[type |-> "part"]>> \in Seq(ToBroker) /\ Free(<<[type |-> "part"]>>, "SUBSCRIBE")
  BY <1>2, OfOne
<1>6. Single(<<[type |-> "part"]>>, "SUBSCRIBE", t)
  BY <1>5, FreeIsSingle
<1>3. /\ Append(asked, [type |-> "junk"]) \in Seq(ToBroker)
      /\ Free(asked, "SUBSCRIBE") => Free(Append(asked, [type |-> "junk"]), "SUBSCRIBE")
      /\ Single(asked, "SUBSCRIBE", t) => Single(Append(asked, [type |-> "junk"]), "SUBSCRIBE", t)
  BY <1>2, OnAppend
<1>4. <<>> \in Seq(ToBroker) /\ Free(<<>>, "SUBSCRIBE") /\ Single(<<>>, "SUBSCRIBE", t)
  BY EmptySeq, EmptyIsFree, FreeIsSingle
<1> QED
  BY <1>1, <1>3, <1>4, <1>5, <1>6

LEMMA ReadCosts == ASSUME NEW r \in PacketReads PROVE r.cost \in {0, 1}
<1>1. CASE toClient = <<>>
  BY <1>1 DEF PacketReads, Found
<1>2. CASE toClient # <<>> /\ Head(toClient) # Rest
  <2>1. r \in Proper
    BY <1>2 DEF PacketReads
  <2> QED
    BY <2>1 DEF Proper, Found
<1>3. CASE toClient # <<>> /\ Head(toClient) = Rest
  <2>1. r \in Garbled
    BY <1>3 DEF PacketReads
  <2> QED
    BY <2>1 DEF Garbled, Found
<1> QED
  BY <1>1, <1>2, <1>3

(* A packet taken is the oldest one; the others stay, or are lost.             *)
LEMMA Taken ==
  ASSUME TypeOK, NEW r \in PacketReads, toClient' = r.left, NEW type, NEW t
  PROVE  /\ toClient' \in Seq(ToClient)
         /\ Free(toClient, type) /\ type # "rest" => Free(toClient', type)
         /\ Single(toClient, type, t) /\ type # "rest" => Single(toClient', type, t)
         /\ r.packet.type = "SUBACK" =>
              \/ r.packet.ok = FALSE
              \/ /\ toClient # <<>> /\ r.packet = toClient[1] /\ 1 \in 1..Len(toClient)
                 /\ Single(toClient, "SUBACK", t) =>
                      Free(toClient', "SUBACK") /\ r.packet.topic = t
         /\ \A i \in 1..Len(toClient') :
              toClient'[i] = Rest \/ \E j \in 1..Len(toClient) : toClient'[i] = toClient[j]
<1>1. toClient \in Seq(ToClient) /\ Rest \in ToClient /\ Rest.type = "rest"
  BY DEF TypeOK, Rest, ToClient
<1>2. \A torn : Bodiless(torn).type = "SUBACK" => Bodiless(torn).ok = FALSE
  BY DEF Bodiless
<1>3. Empty.type # "SUBACK"
  BY DEF Empty
<1>4. CASE toClient = <<>>
  <2>1. r = Found(Empty, <<>>, 0)
    BY <1>4 DEF PacketReads
  <2> QED
    BY <1>1, <1>3, <1>4, <2>1 DEF Found
<1>5. ASSUME toClient # <<>>, r = Found(Head(toClient), Tail(toClient), 0)
      PROVE  /\ r.cost = 0 /\ toClient' = Tail(toClient) /\ r.packet = Head(toClient)
             /\ \A i \in 1..Len(Tail(toClient)) :
                  \E j \in 1..Len(toClient) : Tail(toClient)[i] = toClient[j]
  <2>1. \A i \in 1..Len(Tail(toClient)) :
          i + 1 \in 1..Len(toClient) /\ Tail(toClient)[i] = toClient[i + 1]
    BY <1>1, <1>5, OnTail
  <2> QED
    BY <1>5, <2>1 DEF Found
<1>6. ASSUME NEW n \in 1..Len(toClient), NEW q, NEW cost \in {0, 1},
             r = Found(q, Behind(n), cost) \/ r = Found(q, <<Rest>> \o Behind(n), cost)
      PROVE  /\ r.cost \in {0, 1} /\ r.packet = q /\ toClient' \in Seq(ToClient)
             /\ Free(toClient, type) /\ type # "rest" => Free(toClient', type)
             /\ Single(toClient, type, t) /\ type # "rest" => Single(toClient', type, t)
             /\ \A i \in 1..Len(toClient') :
                  toClient'[i] = Rest \/ \E j \in 1..Len(toClient) : toClient'[i] = toClient[j]
  <2>1. /\ Behind(n) \in Seq(ToClient)
        /\ Free(toClient, type) => Free(Behind(n), type)
        /\ Single(toClient, type, t) => Single(Behind(n), type, t)
        /\ \A i \in 1..Len(Behind(n)) : \E j \in 1..Len(toClient) : Behind(n)[i] = toClient[j]
    BY <1>1, OnSuffix DEF Behind
  <2>2. /\ <<Rest>> \o Behind(n) \in Seq(ToClient)
        /\ Free(Behind(n), type) /\ type # "rest" => Free(<<Rest>> \o Behind(n), type)
        /\ Single(Behind(n), type, t) /\ type # "rest" => Single(<<Rest>> \o Behind(n), type, t)
        /\ \A i \in 1..Len(<<Rest>> \o Behind(n)) : (<<Rest>> \o Behind(n))[i] = Rest
             \/ \E j \in 1..Len(Behind(n)) : (<<Rest>> \o Behind(n))[i] = Behind(n)[j]
    <3> DEFINE b == Behind(n)
    <3>1. b \in Seq(ToClient) /\ Rest \in ToClient /\ Rest.type = "rest"
      BY <1>1, <2>1
    <3> HIDE DEF b
    <3>2. /\ <<Rest>> \o b \in Seq(ToClient)
          /\ Free(b, type) /\ type # "rest" => Free(<<Rest>> \o b, type)
          /\ Single(b, type, t) /\ type # "rest" => Single(<<Rest>> \o b, type, t)
      BY <3>1, OnFront
    <3>3. \A i \in 1..Len(<<Rest>> \o b) : (<<Rest>> \o b)[i] = Rest
            \/ \E j \in 1..Len(b) : (<<Rest>> \o b)[i] = b[j]
      BY <3>1, OnFront
    <3> QED
      BY <3>2, <3>3 DEF b
  <2>3. r.cost \in {0, 1} /\ r.packet = q
        /\ (toClient' = Behind(n) \/ toClient' = <<Rest>> \o Behind(n))
    BY <1>6 DEF Found
  <2>4. CASE toClient' = Behind(n)
    BY <2>1, <2>3, <2>4
  <2>5. CASE toClient' = <<Rest>> \o Behind(n)
    BY <2>1, <2>2, <2>3, <2>5
  <2> QED
    BY <2>3, <2>4, <2>5
<1>7. CASE toClient # <<>> /\ Head(toClient) # Rest
  <2>0. /\ Tail(toClient) \in Seq(ToClient) /\ Head(toClient) = toClient[1] /\ 1 \in 1..Len(toClient)
        /\ Free(toClient, type) => Free(Tail(toClient), type)
        /\ Single(toClient, type, t) => Single(Tail(toClient), type, t)
        /\ Single(toClient, "SUBACK", t) /\ Head(toClient).type = "SUBACK" =>
              Free(Tail(toClient), "SUBACK") /\ Head(toClient).topic = t
    BY <1>1, <1>7, OnTail
  <2>1. CASE r = Found(Head(toClient), Tail(toClient), 0)
    BY <1>5, <1>7, <2>0, <2>1
  <2>2. CASE \E torn \in {Empty, Bodiless(Head(toClient).type)} :
               r = Found(torn, <<Rest>> \o Behind(1), 1)
    <3>1. PICK torn \in {Empty, Bodiless(Head(toClient).type)} :
            r = Found(torn, <<Rest>> \o Behind(1), 1)
      BY <2>2
    <3> QED
      BY <1>2, <1>3, <1>6, <2>0, <3>1
  <2>3. r \in Proper
    BY <1>7 DEF PacketReads
  <2> QED
    BY <2>1, <2>2, <2>3 DEF Proper
<1>8. CASE toClient # <<>> /\ Head(toClient) = Rest
  <2>1. PICK q \in {Empty} \cup {Bodiless(torn) : torn \in Answering}, n \in DOMAIN toClient :
          r = Found(q, Behind(n), 0) \/ r = Found(q, <<Rest>> \o Behind(n), 1)
    <3>1. r \in Garbled
      BY <1>8 DEF PacketReads
    <3> QED
      BY <3>1 DEF Garbled
  <2>2. n \in 1..Len(toClient)
    BY <1>1, LenProperties
  <2> QED
    BY <1>2, <1>3, <1>6, <2>1, <2>2
<1> QED
  BY <1>4, <1>7, <1>8

(* A pass of cycle: it takes a packet and sends no request to subscribe, and   *)
(* nothing in it makes a connection.                                          *)
LEMMA CycleMoves ==
  ASSUME TypeOK, NEW r \in PacketReads, NEW still, Cycle(r, still)
  PROVE  /\ toClient' = r.left /\ still \in BOOLEAN /\ (still => isconnected)
         /\ ping_outstanding' \in BOOLEAN /\ faults' \in 0..MaxFaults
         /\ toBroker' \in Seq(ToBroker)
         /\ Free(toBroker, "SUBSCRIBE") => Free(toBroker', "SUBSCRIBE")
         /\ \A t : Single(toBroker, "SUBSCRIBE", t) => Single(toBroker', "SUBSCRIBE", t)
<1>1. PICK report \in ReportOutcomes(r.packet), ping \in PingOutcomes(r.packet) :
        /\ still = (isconnected /\ report.ok)
        /\ ping_outstanding' = (Waits(r.packet) \/ (ping # NothingSent /\ ping.ok))
        /\ toBroker' = toBroker \o report.out \o ping.out
        /\ Fault(r.cost + report.cost + ping.cost)
  BY DEF Cycle
<1>2. <<>> \in Seq(ToBroker) /\ Free(<<>>, "SUBSCRIBE")
  BY EmptySeq, EmptyIsFree
<1>3. /\ NothingSent.ok \in BOOLEAN /\ NothingSent.cost = 0 /\ NothingSent.out = <<>>
  BY DEF NothingSent
<1>4. /\ report.ok \in BOOLEAN /\ report.cost \in {0, 1}
      /\ report.out \in Seq(ToBroker) /\ Free(report.out, "SUBSCRIBE")
  <2>1. CASE report = NothingSent
    BY <2>1, <1>2, <1>3
  <2>2. CASE report \in Outcomes(<<>>)
    BY <2>2, <1>2, OutcomesAre
  <2> QED
    BY <2>1, <2>2 DEF ReportOutcomes
<1>5. /\ ping.ok \in BOOLEAN /\ ping.cost \in {0, 1}
      /\ ping.out \in Seq(ToBroker) /\ Free(ping.out, "SUBSCRIBE")
  <2>1. CASE ping = NothingSent
    BY <2>1, <1>2, <1>3
  <2>2. CASE ping \in Outcomes(<<[type |-> "PINGREQ"]>>)
    <3>1. [type |-> "PINGREQ"] \in ToBroker
      BY Requests
    <3>2. <<[type |-> "PINGREQ"]>> \in Seq(ToBroker) /\ Free(<<[type |-> "PINGREQ"]>>, "SUBSCRIBE")
      BY <3>1, OfOne
    <3> QED
      BY <2>2, <3>2, OutcomesAre
  <2> QED
    BY <2>1, <2>2 DEF PingOutcomes
<1>6. toBroker \in Seq(ToBroker) /\ isconnected \in BOOLEAN /\ ping_outstanding \in BOOLEAN
  BY DEF TypeOK
<1>7. still \in BOOLEAN /\ (still => isconnected) /\ ping_outstanding' \in BOOLEAN
  BY <1>1, <1>4, <1>5, <1>6 DEF Waits
<1>8. faults' \in 0..MaxFaults
  <2>1. r.cost \in {0, 1}
    BY ReadCosts
  <2> QED
    BY <1>1, <1>4, <1>5, <2>1, CommandAssumption DEF TypeOK, Fault
<1>9. /\ toBroker \o report.out \in Seq(ToBroker)
      /\ Free(toBroker, "SUBSCRIBE") => Free(toBroker \o report.out, "SUBSCRIBE")
      /\ \A t : Single(toBroker, "SUBSCRIBE", t) => Single(toBroker \o report.out, "SUBSCRIBE", t)
  BY <1>4, <1>6, OnConcat, ConcatProperties
<1>10. /\ toBroker' \in Seq(ToBroker)
       /\ Free(toBroker, "SUBSCRIBE") => Free(toBroker', "SUBSCRIBE")
       /\ \A t : Single(toBroker, "SUBSCRIBE", t) => Single(toBroker', "SUBSCRIBE", t)
  BY <1>1, <1>5, <1>9, OnConcat, ConcatProperties
<1> QED
  BY <1>7, <1>8, <1>10 DEF Cycle

-----------------------------------------------------------------------------
(* The types.                                                                  *)
LEMMA Answers ==
  /\ \A ok \in BOOLEAN : [type |-> "CONNACK", ok |-> ok] \in ToClient
  /\ [type |-> "PINGRESP"] \in ToClient /\ Rest \in ToClient
  /\ \A t \in TopicSet, ok \in BOOLEAN : [type |-> "SUBACK", topic |-> t, ok |-> ok] \in ToClient
  /\ \A m \in Commands :
       [type |-> "PUBLISH", topic |-> m.topic, payload |-> m.payload] \in ToClient
BY DEF ToClient, Rest

LEMMA Kinds ==
  ASSUME NEW p \in ToBroker, p.type = "SUBSCRIBE"
  PROVE  p.topic \in TopicSet
BY DEF ToBroker

(* A step of the client that sends "asked" after what is already on its way.     *)
LEMMA Sent ==
  ASSUME TypeOK, NEW asked \in Seq(ToBroker), NEW o \in Outcomes(asked), Send(o)
  PROVE  /\ toBroker' \in Seq(ToBroker) /\ faults' \in 0..MaxFaults /\ o.ok \in BOOLEAN
         /\ Free(asked, "SUBSCRIBE") =>
              /\ Free(toBroker, "SUBSCRIBE") => Free(toBroker', "SUBSCRIBE")
              /\ \A t : Single(toBroker, "SUBSCRIBE", t) => Single(toBroker', "SUBSCRIBE", t)
         /\ \A t : Free(toBroker, "SUBSCRIBE") /\ Single(asked, "SUBSCRIBE", t)
                     => Single(toBroker', "SUBSCRIBE", t)
<1>1. /\ o.ok \in BOOLEAN /\ o.cost \in {0, 1} /\ o.out \in Seq(ToBroker)
      /\ Free(asked, "SUBSCRIBE") => Free(o.out, "SUBSCRIBE")
      /\ \A t : Single(asked, "SUBSCRIBE", t) => Single(o.out, "SUBSCRIBE", t)
  BY OutcomesAre
<1>2. toBroker \in Seq(ToBroker) /\ toBroker' = toBroker \o o.out
  BY DEF TypeOK, Send
<1>3. toBroker' \in Seq(ToBroker)
  BY <1>1, <1>2, ConcatProperties
<1>4. faults' \in 0..MaxFaults
  BY <1>1, CommandAssumption DEF TypeOK, Send, Fault
<1> QED
  BY <1>1, <1>2, <1>3, <1>4, OnConcat

LEMMA OutsideTypes ==
  ASSUME TypeOK,
         \/ WifiDrops \/ BrokerStops \/ WifiJoins \/ BrokerStarts \/ Notice
         \/ BrokerTakes \/ (\E m \in Commands : Forward(m))
  PROVE  TypeOK'
<1>0. /\ <<>> \in Seq(ToBroker) /\ toBroker \in Seq(ToBroker) /\ toClient \in Seq(ToClient)
      /\ {} \subseteq TopicSet
  BY EmptySeq DEF TypeOK
<1>1. CASE WifiDrops
  <2>1. toClient' \in Seq(ToClient)
    BY <1>0, <1>1, OnPrefix DEF WifiDrops
  <2>2. faults' \in 0..MaxFaults
    BY <1>1, CommandAssumption DEF WifiDrops, Fault, TypeOK
  <2> QED
    BY <1>0, <1>1, <2>1, <2>2 DEF WifiDrops, SessionEnds, TypeOK, thread
<1>2. CASE BrokerStops
  <2>1. faults' \in 0..MaxFaults
    BY <1>2, CommandAssumption DEF BrokerStops, Fault, TypeOK
  <2> QED
    BY <1>0, <1>2, <2>1 DEF BrokerStops, SessionEnds, TypeOK, thread
<1>3. CASE WifiJoins \/ BrokerStarts \/ Notice
  BY <1>3 DEF WifiJoins, BrokerStarts, Notice, TypeOK, thread, outside
<1>4. CASE BrokerTakes
  <2>1. UNCHANGED <<outside, thread, forwarded>> /\ toBroker # <<>>
    BY <1>4 DEF BrokerTakes
  <2>2. Head(toBroker) \in ToBroker /\ Tail(toBroker) \in Seq(ToBroker)
    BY <1>0, <2>1, OnTail
  <2>3. /\ toBroker' \in {<<>>, Tail(toBroker)}
        /\ socket' \in {socket, "closed"}
        /\ subs' \in {subs, {}} \/
             (Head(toBroker).type = "SUBSCRIBE" /\ subs' = subs \cup {Head(toBroker).topic})
    BY <1>4 DEF BrokerTakes, Answer, SessionEnds
  <2>4. faults' \in 0..MaxFaults
    <3>1. Fault(0) \/ Fault(1)
      BY <1>4 DEF BrokerTakes
    <3> QED
      BY <3>1, CommandAssumption DEF Fault, TypeOK
  <2>5. toClient' = toClient \/ \E p \in ToClient : toClient' = Append(toClient, p)
    BY <1>4, <2>2, Kinds, Answers DEF BrokerTakes, Answer
  <2>6. toClient' \in Seq(ToClient)
    BY <1>0, <2>5, AppendProperties, SMTT(30)
  <2>7. subs' \subseteq TopicSet
    BY <2>2, <2>3, Kinds DEF TypeOK
  <2> QED
    BY <1>0, <2>1, <2>2, <2>3, <2>4, <2>6, <2>7 DEF TypeOK, thread, outside
<1>5. ASSUME NEW m \in Commands, Forward(m)
      PROVE  TypeOK'
  <2>1. toClient' \in Seq(ToClient)
    BY <1>0, <1>5, Answers, AppendProperties DEF Forward
  <2>2. forwarded' \in 0..MaxCommands
    BY <1>5, CommandAssumption DEF Forward, TypeOK
  <2> QED
    BY <1>5, <2>1, <2>2 DEF Forward, TypeOK, thread, outside
<1> QED
  BY <1>1, <1>2, <1>3, <1>4, <1>5

LEMMA ClientTypes ==
  ASSUME TypeOK, Client
  PROVE  TypeOK'
<1>0. /\ <<>> \in Seq(ToBroker) /\ toBroker \in Seq(ToBroker)
      /\ <<>> \in Seq(ToClient) /\ toClient \in Seq(ToClient)
      /\ {} \subseteq TopicSet /\ topic \in 1..3 /\ topic \in DOMAIN Topics
      /\ isconnected \in BOOLEAN
  BY EmptySeq, TopicsAre DEF TypeOK
<1>a. NextTopic => /\ topic' \in DOMAIN Topics /\ pc' \in {"subscribe", "connected"}
  BY <1>0, TopicsAre DEF NextTopic
<1>b. ASSUME NEW r \in PacketReads, NEW still, Cycle(r, still)
      PROVE  /\ toClient' \in Seq(ToClient) /\ toBroker' \in Seq(ToBroker)
             /\ still \in BOOLEAN /\ ping_outstanding' \in BOOLEAN /\ faults' \in 0..MaxFaults
  BY <1>b, CycleMoves, Taken
<1>c. ASSUME NEW request, NEW answer, TimedOut(request, answer)
      PROVE  /\ UNCHANGED <<toClient, toBroker, light, ping_outstanding>>
             /\ faults' \in 0..MaxFaults
  BY <1>c, CommandAssumption DEF TimedOut, Fault, TypeOK
<1>1. CASE WifiWait
  BY <1>1 DEF WifiWait, outside, TypeOK
<1>2. CASE Dial
  BY <1>0, <1>2 DEF Dial, SessionEnds, outside, TypeOK
<1>3. CASE Connect
  <2>1. [type |-> "CONNECT"] \in ToBroker
    BY Requests
  <2>2. <<[type |-> "CONNECT"]>> \in Seq(ToBroker)
    BY <2>1, OfOne
  <2>3. toBroker' \in Seq(ToBroker) /\ faults' \in 0..MaxFaults
    BY <1>0, <1>3, <2>2, Sent DEF Connect, TypeOK
  <2> QED
    BY <1>3, <2>3 DEF Connect, InConnect, outside, TypeOK
<1>4. CASE Connack
  <2>0. UNCHANGED socket /\ InConnect
    BY <1>4 DEF Connack
  <2>1. CASE ConnackTaken
    <3>1. \E r \in PacketReads : Cycle(r, isconnected)
      BY <2>1 DEF ConnackTaken
    <3>2. /\ isconnected' \in BOOLEAN /\ topic' \in DOMAIN Topics /\ pc' \in {"subscribe", "dial"}
      <4>1. \/ isconnected' = TRUE /\ pc' = "subscribe" /\ topic' = 1
            \/ isconnected' = isconnected /\ pc' = "dial" /\ topic' = topic
        BY <2>1 DEF ConnackTaken
      <4>2. 1 \in DOMAIN Topics
        BY TopicsAre
      <4> QED
        BY <1>0, <4>1, <4>2
    <3> QED
      BY <1>b, <2>0, <3>1, <3>2 DEF InConnect, outside, TypeOK
  <2>2. CASE ConnackLate
    BY <1>0, <1>c, <2>0, <2>2 DEF ConnackLate, InConnect, outside, TypeOK
  <2> QED
    BY <1>4, <2>1, <2>2 DEF Connack
<1>5. CASE Subscribe
  <2>1. [type |-> "SUBSCRIBE", topic |-> Topics[topic]] \in ToBroker
    BY <1>0, Requests, TopicsAre
  <2>2. <<[type |-> "SUBSCRIBE", topic |-> Topics[topic]]>> \in Seq(ToBroker)
    BY <2>1, OfOne
  <2>3. /\ toBroker' \in Seq(ToBroker) /\ faults' \in 0..MaxFaults /\ isconnected' \in BOOLEAN
        /\ topic' \in DOMAIN Topics /\ pc' \in {"subscribe", "connected", "suback"}
    BY <1>0, <1>5, <1>a, <2>2, Sent DEF Subscribe, TypeOK
  <2> QED
    BY <1>5, <2>3 DEF Subscribe, InConnect, outside, TypeOK
<1>6. CASE Suback
  <2>0. UNCHANGED socket /\ InConnect
    BY <1>6 DEF Suback
  <2>1. CASE SubackTaken
    <3>1. PICK r \in PacketReads, still \in BOOLEAN : /\ Cycle(r, still)
                                               /\ isconnected' = Granted(r.packet, still)
      BY <2>1 DEF SubackTaken
    <3>2. isconnected' \in BOOLEAN /\ topic' \in DOMAIN Topics /\ pc' \in {"subscribe", "connected"}
      BY <2>1, <3>1, <1>a DEF SubackTaken, Granted
    <3> QED
      BY <1>b, <2>0, <3>1, <3>2 DEF InConnect, outside, TypeOK
  <2>2. CASE SubackLate
    BY <1>0, <1>a, <1>c, <2>0, <2>2 DEF SubackLate, InConnect, outside, TypeOK
  <2> QED
    BY <1>6, <2>1, <2>2 DEF Suback
<1>7. CASE Meanwhile
  BY <1>7, <1>b DEF Meanwhile, InConnect, outside, TypeOK
<1>8. CASE Return
  BY <1>8 DEF Return, outside, TypeOK, Looping
<1>9. CASE Loop
  BY <1>0, <1>9 DEF Loop, InLoop, outside, TypeOK, Looping
<1>10. CASE Yield
  <2>1. pc' \in {"check", "yield"}
    BY <1>10 DEF Yield
  <2> QED
    BY <1>10, <1>b, <2>1 DEF Yield, InLoop, outside, TypeOK, Looping
<1>11. CASE Check
  BY <1>11 DEF Check, InLoop, outside, TypeOK, Looping
<1>12. CASE Hello
  <2>1. /\ toBroker' \in Seq(ToBroker) /\ faults' \in 0..MaxFaults /\ isconnected' \in BOOLEAN
    BY <1>0, <1>12, Sent DEF Hello, TypeOK
  <2> QED
    BY <1>12, <2>1 DEF Hello, InLoop, outside, TypeOK, Looping
<1>13. CASE Restart
  <2>1. faults' \in 0..MaxFaults
    <3>1. PICK r \in PacketReads : Fault(r.cost)
      BY <1>13 DEF Restart
    <3>2. r.cost \in {0, 1}
      BY ReadCosts
    <3> QED
      BY <3>1, <3>2, CommandAssumption DEF Fault, TypeOK
  <2>2. 1 \in DOMAIN Topics
    BY TopicsAre
  <2> QED
    BY <1>0, <1>13, <2>1, <2>2 DEF Restart, SessionEnds, outside, TypeOK
<1> QED
  BY <1>1, <1>2, <1>3, <1>4, <1>5, <1>6, <1>7, <1>8, <1>9, <1>10, <1>11, <1>12, <1>13 DEF Client

-----------------------------------------------------------------------------
(* Whose answer it is.                                                         *)

(* A queue gets no request or answer of a subscription; what was there stays.  *)
Undisturbed ==
  /\ Free(toBroker, "SUBSCRIBE") => Free(toBroker', "SUBSCRIBE")
  /\ \A t : Single(toBroker, "SUBSCRIBE", t) => Single(toBroker', "SUBSCRIBE", t)
  /\ Free(toClient, "SUBACK") => Free(toClient', "SUBACK")
  /\ \A t : Single(toClient, "SUBACK", t) => Single(toClient', "SUBACK", t)

LEMMA QuietStays ==
  ASSUME Undisturbed
  PROVE  (Quiet => Quiet') /\ (OneAsked /\ topic' = topic => OneAsked')
BY DEF Undisturbed, Quiet, OneAsked

LEMMA QuietIsOne == ASSUME Quiet PROVE OneAsked
BY FreeIsSingle DEF Quiet, OneAsked

LEMMA CycleUndisturbed ==
  ASSUME TypeOK, NEW r \in PacketReads, NEW still, Cycle(r, still)
  PROVE  Undisturbed
BY CycleMoves, Taken DEF Undisturbed

LEMMA SentUndisturbed ==
  ASSUME TypeOK, NEW asked \in Seq(ToBroker), Free(asked, "SUBSCRIBE"), NEW o \in Outcomes(asked),
         Send(o), UNCHANGED toClient
  PROVE  Undisturbed
BY Sent DEF Undisturbed

LEMMA OutsideOwn ==
  ASSUME TypeOK, OwnInv,
         \/ WifiDrops \/ BrokerStops \/ WifiJoins \/ BrokerStarts \/ Notice
         \/ BrokerTakes \/ (\E m \in Commands : Forward(m)) \/ UNCHANGED vars
  PROVE  OwnInv'
<1>0. toBroker \in Seq(ToBroker) /\ toClient \in Seq(ToClient)
  BY DEF TypeOK
<1>1. UNCHANGED <<pc, topic, isconnected>>
  BY DEF WifiDrops, BrokerStops, WifiJoins, BrokerStarts, Notice, BrokerTakes, Forward, vars, thread
<1>2. Undisturbed => OwnInv'
  BY <1>1, QuietStays DEF OwnInv
<1>3. SessionEnds => /\ Free(toBroker', "SUBSCRIBE")
                     /\ \A t : Single(toBroker', "SUBSCRIBE", t)
  BY EmptyIsFree, FreeIsSingle DEF SessionEnds
<1>4. CASE WifiDrops
  <2>1. PICK n \in 0..Len(toClient) : toClient' = SubSeq(toClient, 1, n)
    BY <1>4 DEF WifiDrops
  <2>2. /\ Free(toClient, "SUBACK") => Free(toClient', "SUBACK")
        /\ \A t : Single(toClient, "SUBACK", t) => Single(toClient', "SUBACK", t)
    BY <1>0, <2>1, OnPrefix
  <2> QED
    BY <1>2, <1>3, <1>4, <2>2 DEF WifiDrops, Undisturbed
<1>5. CASE BrokerStops
  BY <1>2, <1>3, <1>5 DEF BrokerStops, Undisturbed
<1>6. CASE WifiJoins \/ BrokerStarts \/ Notice \/ UNCHANGED vars
  <2>1. UNCHANGED <<toBroker, toClient>>
    BY <1>6 DEF WifiJoins, BrokerStarts, Notice, vars
  <2> QED
    BY <1>2, <2>1 DEF Undisturbed
<1>7. CASE BrokerTakes
  <2>0. toBroker # <<>>
    BY <1>7 DEF BrokerTakes
  <2>1. /\ Head(toBroker) \in ToBroker /\ Tail(toBroker) \in Seq(ToBroker)
        /\ Free(toBroker, "SUBSCRIBE") =>
             Free(Tail(toBroker), "SUBSCRIBE") /\ Head(toBroker).type # "SUBSCRIBE"
        /\ \A t : /\ Single(toBroker, "SUBSCRIBE", t) => Single(Tail(toBroker), "SUBSCRIBE", t)
                  /\ Single(toBroker, "SUBSCRIBE", t) /\ Head(toBroker).type = "SUBSCRIBE" =>
                       Free(Tail(toBroker), "SUBSCRIBE") /\ Head(toBroker).topic = t
    BY <1>0, <2>0, OnTail
  <2>2. CASE Head(toBroker).type # "SUBSCRIBE"
    <3>1. \/ toClient' = toClient
          \/ \E p \in ToClient : p.type # "SUBACK" /\ toClient' = Append(toClient, p)
      BY <1>7, <2>2, Answers DEF BrokerTakes, Answer
    <3>2. /\ Free(toClient, "SUBACK") => Free(toClient', "SUBACK")
          /\ \A t : Single(toClient, "SUBACK", t) => Single(toClient', "SUBACK", t)
      BY <1>0, <3>1, OnAppend
    <3>3. SessionEnds \/ toBroker' = Tail(toBroker)
      BY <1>7, <2>2 DEF BrokerTakes, Answer
    <3> QED
      BY <1>2, <1>3, <2>1, <3>2, <3>3 DEF Undisturbed
  <2>3. CASE Head(toBroker).type = "SUBSCRIBE"
    <3>1. toBroker' = Tail(toBroker) /\
          \E granted \in BOOLEAN : toClient' =
            Append(toClient, [type |-> "SUBACK", topic |-> Head(toBroker).topic, ok |-> granted])
      BY <1>7, <2>3 DEF BrokerTakes, Answer
    <3>2. ~Quiet
      BY <2>1, <2>3 DEF Quiet
    <3>3. CASE pc = "suback"
      <4>1. OneAsked /\ Free(toClient, "SUBACK")
        BY <3>3, <2>1, <2>3 DEF OwnInv, OneAsked
      <4>2. Free(toBroker', "SUBSCRIBE") /\ Head(toBroker).topic = Topics[topic]
        BY <2>1, <2>3, <3>1, <4>1 DEF OneAsked
      <4>3. \A granted \in BOOLEAN :
              [type |-> "SUBACK", topic |-> Head(toBroker).topic, ok |-> granted] \in ToClient
        BY <2>1, <2>3, Answers, Kinds
      <4>4. Single(toClient', "SUBACK", Topics[topic])
        BY <1>0, <3>1, <4>1, <4>2, <4>3, OnAppend
      <4>5. OneAsked'
        BY <1>1, <4>2, <4>4, FreeIsSingle DEF OneAsked
      <4> QED
        BY <1>1, <3>3, <4>5 DEF OwnInv
    <3>4. CASE pc # "suback"
      BY <1>1, <3>2, <3>4 DEF OwnInv
    <3> QED
      BY <3>3, <3>4
  <2> QED
    BY <2>2, <2>3
<1>8. ASSUME NEW m \in Commands, Forward(m)
      PROVE  OwnInv'
  <2>1. toBroker' = toBroker /\ \E p \in ToClient : p.type # "SUBACK" /\ toClient' = Append(toClient, p)
    BY <1>8, Answers DEF Forward
  <2>2. /\ Free(toClient, "SUBACK") => Free(toClient', "SUBACK")
        /\ \A t : Single(toClient, "SUBACK", t) => Single(toClient', "SUBACK", t)
    BY <1>0, <2>1, OnAppend
  <2> QED
    BY <1>2, <2>1, <2>2 DEF Undisturbed
<1> QED
  BY <1>4, <1>5, <1>6, <1>7, <1>8

LEMMA ClientOwn ==
  ASSUME TypeOK, OwnInv, Client
  PROVE  OwnInv'
<1>0. /\ topic \in DOMAIN Topics /\ topic \in 1..3 /\ Topics[topic] \in TopicSet
      /\ toClient \in Seq(ToClient) /\ isconnected \in BOOLEAN
  BY TopicsAre DEF TypeOK
<1>a. NextTopic => pc' \in {"subscribe", "connected"}
  BY DEF NextTopic
<1>b. ASSUME Undisturbed \/ Quiet', isconnected' => isconnected, pc # "suback",
             pc' \notin {"connect", "connack", "suback"}
      PROVE  OwnInv'
  BY <1>b, QuietStays DEF OwnInv
<1>c. UNCHANGED <<toBroker, toClient>> => Undisturbed
  BY DEF Undisturbed
<1>1. CASE WifiWait
  BY <1>1, <1>b, <1>c DEF WifiWait
<1>2. CASE Dial
  <2>1. Quiet'
    BY <1>2, EmptyIsFree DEF Dial, SessionEnds, Quiet
  <2> QED
    BY <1>2, <2>1 DEF Dial, OwnInv
<1>3. CASE Connect
  <2>1. [type |-> "CONNECT"] \in ToBroker
    BY Requests
  <2>2. <<[type |-> "CONNECT"]>> \in Seq(ToBroker) /\ Free(<<[type |-> "CONNECT"]>>, "SUBSCRIBE")
    BY <2>1, OfOne
  <2>3. UNCHANGED <<toBroker, toClient>>
        \/ \E o \in Outcomes(<<[type |-> "CONNECT"]>>) : Send(o) /\ UNCHANGED toClient
    BY <1>3 DEF Connect
  <2>4. Undisturbed
    BY <1>c, <2>2, <2>3, SentUndisturbed
  <2>5. Quiet' /\ pc' \in {"connack", "dial"}
    BY <1>3, <2>4, QuietStays DEF Connect, OwnInv
  <2> QED
    BY <2>5 DEF OwnInv
<1>4. CASE Connack
  <2>1. Undisturbed
    <3>1. CASE ConnackTaken
      <4>1. \E r \in PacketReads : Cycle(r, isconnected)
        BY <3>1 DEF ConnackTaken
      <4> QED
        BY <4>1, CycleUndisturbed
    <3>2. CASE ConnackLate
      BY <1>c, <3>2 DEF ConnackLate, TimedOut
    <3> QED
      BY <1>4, <3>1, <3>2 DEF Connack
  <2>2. pc' \in {"dial", "subscribe"}
    BY <1>4 DEF Connack, ConnackTaken, ConnackLate
  <2>3. Quiet'
    BY <1>4, <2>1, QuietStays DEF Connack, OwnInv
  <2> QED
    BY <2>2, <2>3 DEF OwnInv
<1>5. CASE Subscribe
  <2>1. CASE ~isconnected
    <3>1. isconnected' = isconnected /\ pc' \in {"subscribe", "connected"}
      BY <1>5, <2>1, <1>a DEF Subscribe
    <3> QED
      BY <2>1, <3>1 DEF OwnInv
  <2>2. CASE isconnected
    <3> DEFINE r == [type |-> "SUBSCRIBE", topic |-> Topics[topic]]
    <3>1. PICK o \in Outcomes(<<r>>) :
            /\ Send(o) /\ isconnected' = o.ok /\ UNCHANGED toClient
            /\ IF o.ok THEN pc' = "suback" /\ UNCHANGED topic ELSE NextTopic
      BY <1>5, <2>2 DEF Subscribe
    <3>2. r \in ToBroker
      BY <1>0, Requests
    <3>3. <<r>> \in Seq(ToBroker) /\ Single(<<r>>, "SUBSCRIBE", Topics[topic])
      BY <3>2, OfOne
    <3>4. Quiet
      BY <1>5, <2>2 DEF Subscribe, OwnInv
    <3>5. Single(toBroker', "SUBSCRIBE", Topics[topic]) /\ o.ok \in BOOLEAN
      BY <3>1, <3>3, <3>4, Sent DEF Quiet
    <3>6. CASE o.ok = TRUE
      <4>1. pc' = "suback" /\ topic' = topic
        BY <3>1, <3>6
      <4>2. OneAsked'
        BY <3>1, <3>4, <3>5, <4>1, FreeIsSingle DEF OneAsked, Quiet
      <4> QED
        BY <4>1, <4>2 DEF OwnInv
    <3>7. CASE o.ok = FALSE
      BY <3>1, <3>7, <1>a DEF OwnInv
    <3> QED
      BY <3>5, <3>6, <3>7
  <2> QED
    BY <1>0, <2>1, <2>2
<1>6. CASE Suback
  <2>1. CASE SubackTaken
    <3>1. PICK r \in PacketReads, still \in BOOLEAN :
            /\ r.packet.type = "SUBACK" /\ Cycle(r, still) /\ NextTopic
            /\ isconnected' = Granted(r.packet, still)
      BY <2>1 DEF SubackTaken
    <3>2. OneAsked /\ Undisturbed /\ toClient' = r.left
      BY <1>6, <3>1, CycleUndisturbed, CycleMoves DEF Suback, OwnInv
    <3>3. CASE r.packet.ok = FALSE
      <4>1. ~isconnected'
        BY <3>1, <3>3 DEF Granted
      <4> QED
        BY <3>1, <4>1, <1>a DEF OwnInv
    <3>4. CASE r.packet.ok # FALSE
      <4>1. /\ 1 \in 1..Len(toClient) /\ r.packet = toClient[1] /\ Free(toClient', "SUBACK")
        BY <3>1, <3>2, <3>4, Taken DEF OneAsked
      <4>2. Free(toBroker, "SUBSCRIBE")
        BY <3>1, <3>2, <4>1 DEF OneAsked, Free
      <4>3. Quiet'
        BY <3>2, <4>1, <4>2 DEF Quiet, Undisturbed
      <4> QED
        BY <3>1, <4>3, <1>a DEF OwnInv
    <3> QED
      BY <3>3, <3>4
  <2>2. CASE SubackLate
    BY <2>2, <1>a DEF SubackLate, OwnInv
  <2> QED
    BY <1>6, <2>1, <2>2 DEF Suback
<1>7. CASE Meanwhile
  <2>1. PICK r \in PacketReads, still \in BOOLEAN : Cycle(r, still) /\ isconnected' = still
    BY <1>7 DEF Meanwhile
  <2>2. Undisturbed /\ (isconnected' => isconnected)
    BY <2>1, CycleMoves, CycleUndisturbed
  <2>3. UNCHANGED <<pc, topic>>
    BY <1>7 DEF Meanwhile
  <2> QED
    BY <2>2, <2>3, QuietStays DEF OwnInv
<1>8. CASE Return
  <2>1. pc' \in {"hello", "loop"}
    BY <1>8 DEF Return
  <2> QED
    BY <1>8, <2>1, <1>b, <1>c DEF Return
<1>9. CASE Loop
  <2>1. isconnected' => isconnected
    BY <1>9 DEF Loop
  <2> QED
    BY <1>9, <2>1, <1>b, <1>c DEF Loop
<1>10. CASE Yield
  <2>1. PICK r \in PacketReads, still \in BOOLEAN : Cycle(r, still) /\ isconnected' = still
    BY <1>10 DEF Yield
  <2>2. Undisturbed /\ (isconnected' => isconnected)
    BY <2>1, CycleMoves, CycleUndisturbed
  <2>3. pc = "yield" /\ pc' \in {"check", "yield"}
    BY <1>10 DEF Yield
  <2> QED
    BY <2>2, <2>3, <1>b
<1>11. CASE Check
  <2>1. pc' \in {"hello", "wifi"}
    BY <1>11 DEF Check
  <2> QED
    BY <1>11, <2>1, <1>b, <1>c DEF Check
<1>12. CASE Hello
  <2>1. <<>> \in Seq(ToBroker) /\ Free(<<>>, "SUBSCRIBE")
    BY EmptySeq, EmptyIsFree
  <2>2. Undisturbed
    BY <1>12, <1>c, <2>1, SentUndisturbed DEF Hello
  <2>3. isconnected' => isconnected
    BY <1>12 DEF Hello
  <2> QED
    BY <1>12, <2>2, <2>3, <1>b DEF Hello
<1>13. CASE Restart
  <2>1. Quiet'
    BY <1>13, EmptyIsFree DEF Restart, SessionEnds, Quiet
  <2> QED
    BY <1>13, <2>1 DEF Restart, OwnInv
<1> QED
  BY <1>1, <1>2, <1>3, <1>4, <1>5, <1>6, <1>7, <1>8, <1>9, <1>10, <1>11, <1>12, <1>13 DEF Client

-----------------------------------------------------------------------------
(* What is subscribed.                                                         *)

(* A session lasts as long as its connection, and only Dial makes one.         *)
LEMMA SessionLasts ==
  ASSUME [Next]_vars, socket' = "open", ~Dial
  PROVE  socket = "open" /\ subs \subseteq subs'
<1>1. CASE WifiDrops \/ BrokerStops \/ WifiJoins \/ BrokerStarts \/ Notice \/ UNCHANGED vars
  BY <1>1 DEF WifiDrops, BrokerStops, WifiJoins, BrokerStarts, Notice, vars
<1>2. CASE BrokerTakes
  BY <1>2 DEF BrokerTakes
<1>3. CASE \E m \in Commands : Forward(m)
  BY <1>3 DEF Forward
<1>4. CASE Client
  BY <1>4 DEF Client, WifiWait, Connect, Connack, Subscribe, Suback, Meanwhile, Return, Loop,
     Yield, Check, Hello, Restart, InConnect, InLoop
<1> QED
  BY <1>1, <1>2, <1>3, <1>4 DEF Next

LEMMA GrantStep ==
  ASSUME TypeOK, GrantInv, [Next]_vars
  PROVE  GrantInv'
<1>0. toClient \in Seq(ToClient) /\ toBroker \in Seq(ToBroker)
  BY DEF TypeOK
<1>1. CASE Dial
  <2>1. \A i \in 1..Len(toClient') : FALSE
    BY <1>1 DEF Dial
  <2> QED
    BY <2>1 DEF GrantInv
<1> SUFFICES ASSUME ~Dial, socket' = "open"
             PROVE  GrantInv'
  BY <1>1 DEF GrantInv
<1>2. socket = "open" /\ subs \subseteq subs'
  BY SessionLasts
<1>3. ASSUME \A i \in 1..Len(toClient') :
               toClient'[i] = Rest \/ \E j \in 1..Len(toClient) : toClient'[i] = toClient[j]
      PROVE  GrantInv'
  <2>1. Rest.type # "SUBACK"
    BY DEF Rest
  <2> QED
    BY <1>2, <1>3, <2>1 DEF GrantInv
<1>4. ASSUME NEW p \in ToClient, toClient' = Append(toClient, p),
             p.type = "SUBACK" /\ p.ok = TRUE => p.topic \in subs'
      PROVE  GrantInv'
  <2>1. /\ Len(toClient') = Len(toClient) + 1 /\ Len(toClient) \in Nat
        /\ toClient'[Len(toClient) + 1] = p
        /\ \A i \in 1..Len(toClient) : toClient'[i] = toClient[i]
    BY <1>0, <1>4, AppendProperties, LenProperties
  <2>2. \A i \in 1..Len(toClient') : i \in 1..Len(toClient) \/ i = Len(toClient) + 1
    BY <2>1
  <2> QED
    BY <1>2, <1>4, <2>1, <2>2 DEF GrantInv
<1>5. UNCHANGED toClient => GrantInv'
  BY <1>3
<1>6. ASSUME NEW r \in PacketReads, NEW still, Cycle(r, still)
      PROVE  GrantInv'
  <2>1. toClient' = r.left
    BY <1>6, CycleMoves
  <2>2. \A i \in 1..Len(toClient') :
          toClient'[i] = Rest \/ \E j \in 1..Len(toClient) : toClient'[i] = toClient[j]
    BY <2>1, Taken
  <2> QED
    BY <1>3, <2>2
<1>7. CASE WifiDrops \/ BrokerStops \/ WifiJoins \/ BrokerStarts \/ Notice \/ UNCHANGED vars
  <2>1. WifiDrops => socket' # "open"
    BY DEF WifiDrops
  <2> QED
    BY <1>5, <1>7, <2>1 DEF BrokerStops, WifiJoins, BrokerStarts, Notice, vars
<1>8. CASE BrokerTakes
  <2>1. Head(toBroker) \in ToBroker
    BY <1>0, <1>8, OnTail DEF BrokerTakes
  <2>2. CASE Head(toBroker).type = "SUBSCRIBE"
    <3>1. PICK granted \in BOOLEAN :
            /\ toClient' = Append(toClient,
                 [type |-> "SUBACK", topic |-> Head(toBroker).topic, ok |-> granted])
            /\ subs' = IF granted THEN subs \cup {Head(toBroker).topic} ELSE subs
      BY <1>8, <2>2 DEF BrokerTakes, Answer
    <3>2. [type |-> "SUBACK", topic |-> Head(toBroker).topic, ok |-> granted] \in ToClient
      BY <2>1, <2>2, Answers, Kinds
    <3> QED
      BY <1>4, <3>1, <3>2
  <2>3. CASE Head(toBroker).type # "SUBSCRIBE"
    <3>1. \/ toClient' = toClient
          \/ \E p \in ToClient : p.type # "SUBACK" /\ toClient' = Append(toClient, p)
      BY <1>8, <2>3, Answers DEF BrokerTakes, Answer
    <3> QED
      BY <1>4, <1>5, <3>1
  <2> QED
    BY <2>2, <2>3
<1>9. ASSUME NEW m \in Commands, Forward(m)
      PROVE  GrantInv'
  <2>1. \E p \in ToClient : p.type # "SUBACK" /\ toClient' = Append(toClient, p)
    BY <1>9, Answers DEF Forward
  <2> QED
    BY <1>4, <2>1
<1>10. CASE Client
  <2>0. ~Restart
    BY DEF Restart
  <2>1. UNCHANGED toClient \/ \E r \in PacketReads : \E still : Cycle(r, still)
    BY <1>10, <2>0 DEF Client, WifiWait, Connect, Connack, ConnackTaken, ConnackLate, Subscribe, Suback,
       SubackTaken, SubackLate, TimedOut, Meanwhile, Return, Loop, Yield, Check, Hello
  <2> QED
    BY <1>5, <1>6, <2>1
<1> QED
  BY <1>7, <1>8, <1>9, <1>10 DEF Next

LEMMA SubsStep ==
  ASSUME IInv, [Next]_vars
  PROVE  SubsInv'
<1>0. /\ topic \in 1..3 /\ isconnected \in BOOLEAN /\ Len(Topics) = 3
  BY TopicsAre DEF IInv, TypeOK
<1>1. CASE Dial
  <2>1. pc' \in {"connect", "dial"}
    BY <1>1 DEF Dial
  <2> QED
    BY <2>1 DEF SubsInv, Looping
<1> SUFFICES ASSUME ~Dial, socket' = "open", isconnected'
             PROVE  SubsInv'
  BY <1>1 DEF SubsInv
<1>2. socket = "open" /\ subs \subseteq subs' /\ SubsInv
  BY SessionLasts DEF IInv
<1>3. ASSUME isconnected, topic' = topic,
             (pc \in {"subscribe", "suback"} /\ pc' = "suback") \/ pc' = pc
      PROVE  SubsInv'
  BY <1>2, <1>3 DEF SubsInv, Looping
<1>4. ASSUME isconnected, pc \in {"connected"} \cup Looping, pc' \in Looping
      PROVE  SubsInv'
  BY <1>2, <1>4 DEF SubsInv, Looping
<1>5. pc' \in {"wifi", "dial", "connect", "connack"} => SubsInv'
  BY DEF SubsInv, Looping
<1>6. CASE \/ WifiDrops \/ BrokerStops \/ WifiJoins \/ BrokerStarts \/ Notice
           \/ BrokerTakes \/ (\E m \in Commands : Forward(m)) \/ UNCHANGED vars
  <2>1. UNCHANGED <<pc, topic, isconnected>>
    BY <1>6 DEF WifiDrops, BrokerStops, WifiJoins, BrokerStarts, Notice, BrokerTakes, Forward,
       vars, thread
  <2> QED
    BY <1>3, <2>1
<1>7. CASE WifiWait \/ Connect
  BY <1>5, <1>7 DEF WifiWait, Connect
<1>8. CASE Connack
  <2>1. CASE ConnackTaken
    <3>1. (pc' = "subscribe" /\ topic' = 1) \/ pc' = "dial"
      BY <2>1 DEF ConnackTaken
    <3> QED
      BY <1>5, <3>1 DEF SubsInv, Looping
  <2>2. CASE ConnackLate
    BY <1>5, <2>2 DEF ConnackLate
  <2> QED
    BY <1>8, <2>1, <2>2 DEF Connack
<1>9. CASE Subscribe
  <2>1. isconnected
    BY <1>9 DEF Subscribe
  <2>2. pc = "subscribe" /\ pc' = "suback" /\ topic' = topic
    BY <1>9, <2>1 DEF Subscribe
  <2> QED
    BY <1>3, <2>1, <2>2
<1>10. CASE Suback
  <2>1. PICK r \in PacketReads, still \in BOOLEAN :
          /\ r.packet.type = "SUBACK" /\ Cycle(r, still)
          /\ isconnected' = Granted(r.packet, still) /\ NextTopic
    BY <1>10 DEF Suback, SubackTaken, SubackLate
  <2>a. TypeOK /\ toClient' = r.left
    BY <2>1, CycleMoves DEF IInv
  <2>b. r.packet.ok # FALSE /\ still = TRUE
    BY <2>1 DEF Granted
  <2>c. /\ r.packet = toClient[1] /\ 1 \in 1..Len(toClient)
        /\ Single(toClient, "SUBACK", Topics[topic]) => r.packet.topic = Topics[topic]
    BY <2>1, <2>a, <2>b, Taken
  <2>2. isconnected /\ r.packet.ok = TRUE
    <3>1. still => isconnected
      BY <2>1, <2>a, CycleMoves
    <3>2. r.packet \in ToClient /\ r.packet.type = "SUBACK"
      BY <2>1, <2>a, <2>c, ElementOfSeq, SMTT(30) DEF TypeOK
    <3>3. r.packet.ok \in BOOLEAN
      BY <3>2 DEF ToClient
    <3> QED
      BY <2>b, <3>1, <3>3
  <2>3. Topics[topic] \in subs
    <3>1. Single(toClient, "SUBACK", Topics[topic])
      BY <1>10 DEF Suback, IInv, OwnInv, OneAsked
    <3> QED
      BY <1>2, <2>1, <2>2, <2>c, <3>1 DEF IInv, GrantInv
  <2>4. \A k \in 1..3 : k < topic \/ k = topic => Topics[k] \in subs'
    BY <1>2, <1>10, <2>2, <2>3 DEF SubsInv, Suback
  <2>5. \/ topic < 3 /\ pc' = "subscribe" /\ topic' = topic + 1
        \/ topic = 3 /\ pc' = "connected" /\ topic' = topic
    BY <1>0, <2>1 DEF NextTopic
  <2> QED
    BY <1>0, <2>4, <2>5 DEF SubsInv, Looping
<1>11. CASE Meanwhile
  <2>1. isconnected
    <3>1. PICK r \in PacketReads, still \in BOOLEAN : Cycle(r, still) /\ isconnected' = still
      BY <1>11 DEF Meanwhile
    <3> QED
      BY <3>1, CycleMoves DEF IInv
  <2> QED
    BY <1>3, <1>11, <2>1 DEF Meanwhile
<1>12. CASE Return
  BY <1>4, <1>12 DEF Return, Looping
<1>13. CASE Loop \/ Hello
  BY <1>4, <1>13 DEF Loop, Hello, Looping
<1>14. CASE Yield
  <2>1. isconnected
    <3>1. PICK r \in PacketReads, still \in BOOLEAN : Cycle(r, still) /\ isconnected' = still
      BY <1>14 DEF Yield
    <3> QED
      BY <3>1, CycleMoves DEF IInv
  <2> QED
    BY <1>4, <1>14, <2>1 DEF Yield, Looping
<1>15. CASE Check
  <2>1. pc' \in {"hello", "wifi"} /\ pc = "check" /\ isconnected' = isconnected
    BY <1>15 DEF Check
  <2> QED
    BY <1>4, <1>5, <2>1 DEF Looping
<1>16. CASE Restart
  BY <1>5, <1>16 DEF Restart
<1> QED
  BY <1>6, <1>7, <1>8, <1>9, <1>10, <1>11, <1>12, <1>13, <1>14, <1>15, <1>16 DEF Next, Client

-----------------------------------------------------------------------------
LEMMA Starts == Init => IInv
<1>1. Init => TypeOK
  <2>1. <<>> \in Seq(ToBroker) /\ <<>> \in Seq(ToClient)
    BY EmptySeq
  <2>2. 0 \in 0..MaxCommands /\ 0 \in 0..MaxFaults /\ 1 \in DOMAIN Topics
    BY TopicsAre, CommandAssumption
  <2> QED
    BY <2>1, <2>2 DEF Init, TypeOK
<1>2. Init => OwnInv
  BY EmptyIsFree DEF Init, OwnInv, Quiet
<1>3. Init => GrantInv /\ SubsInv
  BY DEF Init, GrantInv, SubsInv
<1> QED
  BY <1>1, <1>2, <1>3 DEF IInv

LEMMA Stays == IInv /\ [Next]_vars => IInv'
<1> SUFFICES ASSUME IInv, [Next]_vars
             PROVE  IInv'
  OBVIOUS
<1>1. TypeOK'
  <2>1. CASE UNCHANGED vars
    BY <2>1 DEF IInv, TypeOK, vars, outside, thread
  <2> QED
    BY <2>1, OutsideTypes, ClientTypes DEF IInv, Next
<1>2. OwnInv'
  BY OutsideOwn, ClientOwn DEF IInv, Next
<1> QED
  BY <1>1, <1>2, GrantStep, SubsStep DEF IInv

(* The answer the client takes for its own, without a look at the id           *)
(* (MQTTClient.h:734), is its own: answers that come late find the client      *)
(* without a connection, or are dropped with the one they came over.           *)
THEOREM AnswersAreOwn == Spec => []SubackIsOwn
<1>1. IInv => SubackIsOwn
  <2> SUFFICES ASSUME IInv, pc = "suback", NEW i \in DOMAIN toClient, toClient[i].type = "SUBACK"
               PROVE  toClient[i].topic = Topics[topic]
    BY DEF SubackIsOwn
  <2>1. i \in 1..Len(toClient)
    BY LenProperties DEF IInv, TypeOK
  <2> QED
    BY <2>1 DEF IInv, OwnInv, OneAsked, Single
<1> QED
  BY <1>1, Starts, Stays, PTL DEF Spec

(* A strip in its loop that believes to be connected, over a connection that   *)
(* is there, is subscribed to all its topics: connect() of the sketch ignores  *)
(* every result, but the client remembers each failure in isconnected.         *)
THEOREM NeverDeaf == Spec => []SubscribedInLoop
<1>1. IInv => SubscribedInLoop
  <2>1. IInv => TypeOK
    BY DEF IInv
  <2>2. IInv /\ pc \in Looping /\ isconnected /\ socket = "open" => subs = TopicSet
    BY TopicsAre DEF IInv, SubsInv, TypeOK
  <2> QED
    BY <2>1, <2>2 DEF SubscribedInLoop
<1> QED
  BY <1>1, Starts, Stays, PTL DEF Spec

-----------------------------------------------------------------------------
(* Sequences: induction, recursive definitions, and how long what the loops    *)
(* write is.                                                                   *)

NatLess == {x \in Nat \X Nat : x[1] < x[2]}

(* "Less" on the natural numbers has a least member in every set, so that facts*)
(* about sequences are proved by the first length at which they fail.          *)
LEMMA LessIsWellFounded == IsWellFoundedOn(NatLess, Nat)
<1>1. OpToRel(<, Nat) = NatLess
  BY DEF OpToRel, NatLess
<1> QED BY <1>1, NatLessThanWellFounded

(* Induction over the members of a set of numbers.                             *)
LEMMA SetInduction ==
  ASSUME NEW T \in SUBSET Nat, 0 \in T, \A n \in T : n + 1 \in T
  PROVE  T = Nat
<1> SUFFICES ASSUME Nat \ T # {} PROVE FALSE
  OBVIOUS
<1>1. PICK x \in Nat \ T : \A y \in Nat \ T : ~(<<y, x>> \in NatLess)
  BY LessIsWellFounded, WFMin, Nat \ T \subseteq Nat
<1>2. x # 0 /\ x - 1 \in Nat
  OBVIOUS
<1>3. x - 1 \notin T
  OBVIOUS
<1>4. x - 1 \in Nat \ T /\ <<x - 1, x>> \in NatLess
  BY <1>2, <1>3 DEF NatLess
<1> QED BY <1>1, <1>4

(* A function on 0..n that starts with c and goes on by step.                  *)
Follows(f, c, n, step) == f[0] = c /\ \A i \in 1..n : f[i] = step[<<i, f[i - 1]>>]

(* A function that is defined by such a step exists.                           *)
LEMMA Recursion ==
  ASSUME NEW S, NEW c \in S, NEW n \in Nat, NEW step \in [(1..n) \X S -> S]
  PROVE  \E f \in [0..n -> S] : Follows(f, c, n, step)
<1> DEFINE T == {k \in Nat : k > n \/ \E f \in [0..k -> S] : Follows(f, c, k, step)}
<1>1. 0 \in T
  <2> DEFINE f == [i \in 0..0 |-> c]
  <2>1. f \in [0..0 -> S] /\ Follows(f, c, 0, step)
    BY DEF Follows
  <2> QED BY <2>1
<1>2. ASSUME NEW k \in T PROVE k + 1 \in T
  <2>1. CASE k + 1 > n
    BY <2>1
  <2>2. CASE k + 1 <= n
    <3>1. PICK f \in [0..k -> S] : Follows(f, c, k, step)
      BY <2>2
    <3> DEFINE g == [i \in 0..(k + 1) |-> IF i = k + 1 THEN step[<<i, f[k]>>] ELSE f[i]]
    <3>2. f[k] \in S /\ k + 1 \in 1..n
      BY <2>2
    <3>3. step[<<k + 1, f[k]>>] \in S
      BY <3>2
    <3>4. g \in [0..(k + 1) -> S] /\ g[0] = c
      BY <3>3, <3>1 DEF Follows
    <3>5. \A i \in 1..(k + 1) : g[i] = step[<<i, g[i - 1]>>]
      BY <3>1, <3>2 DEF Follows
    <3> HIDE DEF g
    <3> QED BY <3>4, <3>5 DEF Follows
  <2> QED BY <2>1, <2>2
<1>3. T = Nat
  <2> HIDE DEF T
  <2>1. T \in SUBSET Nat
    BY DEF T
  <2> QED BY <1>1, <1>2, <2>1, SetInduction
<1>4. n \in T
  <2> HIDE DEF T
  <2> QED BY <1>3
<1> QED BY <1>4

(* The total up to each string.                                                *)
LEMMA Lengths ==
  ASSUME NEW strings \in Seq(Strings)
  PROVE  \E u \in [0..Len(strings) -> Nat] :
           /\ lengthAll(strings) = u[Len(strings)]
           /\ u[0] = 0
           /\ \A i \in 1..Len(strings) : u[i] = u[i - 1] + Len(strings[i]) + 2
<1> DEFINE n == Len(strings)
           step == [x \in (1..n) \X Nat |-> x[2] + Len(strings[x[1]]) + 2]
           F(u) == [i \in 0..n |-> IF i = 0 THEN 0 ELSE u[i - 1] + Len(strings[i]) + 2]
           u == CHOOSE u : u = F(u)
<1>1. n \in Nat /\ \A i \in 1..n : Len(strings[i]) \in Nat
  BY DEF Strings
<1>2. step \in [(1..n) \X Nat -> Nat]
  BY <1>1
<1>3. \A i \in 1..n, m \in Nat : step[<<i, m>>] = m + Len(strings[i]) + 2
  OBVIOUS
<1>4. PICK f \in [0..n -> Nat] : Follows(f, 0, n, step)
  <2> HIDE DEF step, n
  <2> QED BY <1>1, <1>2, Recursion
<1>5. f = F(f)
  <2>1. ASSUME NEW i \in 1..n PROVE f[i - 1] \in Nat /\ f[i] = step[<<i, f[i - 1]>>]
    <3> HIDE DEF step, n
    <3>1. i - 1 \in 0..n
      BY <1>1
    <3> QED BY <1>4, <3>1 DEF Follows
  <2>2. f[0] = 0 /\ \A i \in 1..n : f[i] = f[i - 1] + Len(strings[i]) + 2
    <3> HIDE DEF step, n
    <3> QED BY <1>3, <1>4, <2>1 DEF Follows
  <2> HIDE DEF n
  <2> QED BY <1>1, <2>2
<1>6. u = F(u)
  BY <1>5, Zenon
<1>7. lengthAll(strings) = u[n]
  BY Zenon DEF lengthAll
<1> HIDE DEF u
<1>8. u[0] = 0 /\ \A i \in 1..n : u[i] = u[i - 1] + Len(strings[i]) + 2
  <2> HIDE DEF n
  <2> QED BY <1>1, <1>6
<1>9. u \in [0..n -> Nat]
  <2> DEFINE T == {k \in Nat : k > n \/ u[k] \in Nat}
  <2>1. 0 \in T /\ \A k \in T : k + 1 \in T
    <3>1. 0 \in T
      BY <1>8
    <3>2. ASSUME NEW k \in T PROVE k + 1 \in T
      <4>1. CASE k + 1 > n
        BY <4>1
      <4>2. CASE k + 1 <= n
        <5>1. k + 1 \in 1..n /\ (k + 1) - 1 = k /\ u[k] \in Nat
          BY <1>1, <4>2
        <5>2. u[k + 1] = u[k] + Len(strings[k + 1]) + 2
          BY <1>8, <5>1
        <5> QED BY <1>1, <5>1, <5>2
      <4> QED BY <1>1, <4>1, <4>2
    <3> QED BY <3>1, <3>2
  <2>2. T = Nat
    <3>1. T \in SUBSET Nat
      OBVIOUS
    <3> HIDE DEF T
    <3> QED BY <2>1, <3>1, SetInduction
  <2>3. \A k \in 0..n : u[k] \in Nat
    <3>1. \A k \in Nat : k \in T
      <4> HIDE DEF T
      <4> QED BY <2>2
    <3> HIDE DEF n
    <3> QED BY <1>1, <3>1
  <2> HIDE DEF n
  <2> QED BY <1>1, <1>6, <2>3
<1> QED BY <1>7, <1>8, <1>9

(* A property of every number up to n, by induction.                           *)
LEMMA UpTo ==
  ASSUME NEW n \in Nat, NEW T, 0 \in T, \A k \in T : k < n => k + 1 \in T
  PROVE  \A k \in 0..n : k \in T
<1> DEFINE U == {k \in Nat : k > n \/ k \in T}
<1>1. 0 \in U /\ \A k \in U : k + 1 \in U
  OBVIOUS
<1>2. U \in SUBSET Nat
  OBVIOUS
<1>3. U = Nat
  <2> HIDE DEF U
  <2> QED BY <1>1, <1>2, SetInduction
<1>4. ASSUME NEW k \in 0..n PROVE k \in T
  <2>1. k \in U
    <3> HIDE DEF U
    <3> QED BY <1>3
  <2> QED BY <2>1
<1> QED BY <1>4

(* What has been written up to each string.                                    *)
LEMMA Flattened ==
  ASSUME NEW parts \in Seq(Strings)
  PROVE  \E f \in [0..Len(parts) -> Strings] :
           /\ FlattenSeq(parts) = f[Len(parts)]
           /\ f[0] = <<>>
           /\ \A i \in 1..Len(parts) : f[i] = f[i - 1] \o parts[i]
<1> DEFINE n == Len(parts)
           step == [x \in (1..n) \X Strings |-> x[2] \o parts[x[1]]]
           F(u) == [i \in 1..n |-> IF i = 1 THEN parts[i] ELSE u[i - 1] \o parts[i]]
           u == CHOOSE u : u = F(u)
           w == [i \in 0..n |-> IF i = 0 THEN <<>> ELSE u[i]]
<1>1. n \in Nat /\ <<>> \in Strings /\ \A i \in 1..n : parts[i] \in Strings
  BY DEF Strings
<1>2. \A a, b \in Strings : a \o b \in Strings
  BY DEF Strings
<1>3. step \in [(1..n) \X Strings -> Strings]
  BY <1>1, <1>2
<1>4. \A i \in 1..n, a \in Strings : step[<<i, a>>] = a \o parts[i]
  OBVIOUS
<1>5. PICK f \in [0..n -> Strings] : Follows(f, <<>>, n, step)
  <2> HIDE DEF step, n
  <2> QED BY <1>1, <1>3, Recursion
<1>6. \A i \in 1..n : i - 1 \in 0..n /\ f[i] = f[i - 1] \o parts[i]
  <2> HIDE DEF step, n
  <2> SUFFICES ASSUME NEW i \in 1..n PROVE i - 1 \in 0..n /\ f[i] = f[i - 1] \o parts[i]
    OBVIOUS
  <2>1. i - 1 \in 0..n
    BY <1>1
  <2> QED BY <1>4, <1>5, <2>1 DEF Follows
<1>7. n > 0 => f[1] = parts[1]
  <2>1. \A a \in Strings : <<>> \o a = a
    BY ConcatEmptySeq DEF Strings
  <2>2. f[0] = <<>>
    BY <1>5 DEF Follows
  <2> HIDE DEF step, n
  <2>3. n > 0 => 1 \in 1..n /\ 1 - 1 = 0
    BY <1>1
  <2> QED BY <1>1, <1>6, <2>1, <2>2, <2>3
<1> DEFINE g == [i \in 1..n |-> f[i]]
<1>8. g = F(g)
  <2> HIDE DEF step, n
  <2>1. ASSUME NEW i \in 1..n PROVE g[i] = IF i = 1 THEN parts[i] ELSE g[i - 1] \o parts[i]
    <3>1. CASE i = 1
      BY <1>1, <1>7, <3>1
    <3>2. CASE i # 1
      <4>1. i - 1 \in 1..n
        BY <1>1, <3>2
      <4> QED BY <1>6, <3>2, <4>1
    <3> QED BY <3>1, <3>2
  <2> QED BY <2>1
<1>9. u = F(u)
  <2> HIDE DEF g
  <2> QED BY <1>8, Zenon
<1>10. n # 0 => FlattenSeq(parts) = u[n]
  BY Zenon DEF FlattenSeq
<1>11. n = 0 => FlattenSeq(parts) = <<>>
  BY DEF FlattenSeq
<1> HIDE DEF u, step, n, g
<1>12. w[0] = <<>> /\ FlattenSeq(parts) = w[n]
  BY <1>1, <1>10, <1>11
<1>13. ASSUME NEW i \in 1..n PROVE w[i] = w[i - 1] \o parts[i]
  <2>1. CASE i = 1
    <3>1. w[i] = parts[i] /\ w[i - 1] = <<>>
      BY <1>1, <1>9, <2>1
    <3>2. <<>> \o parts[i] = parts[i]
      BY <1>1, ConcatEmptySeq DEF Strings
    <3> QED BY <3>1, <3>2
  <2>2. CASE i # 1
    <3>1. i - 1 \in 1..n
      BY <1>1, <2>2
    <3>2. w[i] = u[i] /\ w[i - 1] = u[i - 1]
      BY <1>1, <2>2, <3>1
    <3>3. u[i] = u[i - 1] \o parts[i]
      BY <1>1, <1>9, <2>2, <3>1
    <3> QED BY <3>2, <3>3
  <2> QED BY <2>1, <2>2
<1> HIDE DEF w
<1>14. \A k \in 0..n : w[k] \in Strings
  <2> DEFINE T == {k \in 0..n : w[k] \in Strings}
  <2>1. 0 \in T
    BY <1>1, <1>12
  <2>2. ASSUME NEW k \in T, k < n PROVE k + 1 \in T
    <3>1. k + 1 \in 1..n /\ (k + 1) - 1 = k
      BY <1>1, <2>2
    <3> QED BY <1>1, <1>2, <1>13, <3>1, SMTT(30)
  <2>3. \A k \in 0..n : k \in T
    <3> HIDE DEF T
    <3> QED BY <1>1, <2>1, <2>2, UpTo
  <2> QED BY <2>3
<1>15. w \in [0..n -> Strings]
  BY <1>14 DEF w
<1> QED BY <1>12, <1>13, <1>15 DEF n

(* What the loops write is as long as what the length functions add up, when   *)
(* each part is a string with its length and some more bytes.                  *)
Sums(u, s, n, more) ==
  u \in [0..n -> Nat] /\ s \in [1..n -> Nat] /\ u[0] = 0 /\ \A i \in 1..n : u[i] = u[i - 1] + s[i] + more

(* What is added up with a byte more for each part is longer by the number of  *)
(* parts.                                                                      *)
LEMMA SameSum ==
  ASSUME NEW n \in Nat, NEW extra \in {0, 1}, NEW s, NEW u, NEW v,
         Sums(u, s, n, 2), Sums(v, s, n, 2 + extra)
  PROVE  (extra = 1 => v[n] = u[n] + n) /\ (extra = 0 => v[n] = u[n])
<1> DEFINE T == {k \in 0..n : v[k] = u[k] + (IF extra = 1 THEN k ELSE 0)}
<1> HIDE DEF T
<1>0. \A i \in 0..n : u[i] \in Nat /\ v[i] \in Nat /\ (i > 0 => s[i] \in Nat)
  BY SMTT(30) DEF Sums
<1>1. 0 \in T
  BY DEF T, Sums
<1>2. ASSUME NEW k \in T, k < n PROVE k + 1 \in T
  <2>1. k + 1 \in 1..n /\ (k + 1) - 1 = k /\ k \in 0..n /\ k + 1 \in 0..n
    BY <1>2 DEF T
  <2>2. u[k + 1] = u[k] + s[k + 1] + 2 /\ v[k + 1] = v[k] + s[k + 1] + (2 + extra)
    BY <2>1 DEF Sums
  <2>3. v[k] = u[k] + (IF extra = 1 THEN k ELSE 0)
    BY DEF T
  <2>4. u[k] \in Nat /\ v[k] \in Nat /\ s[k + 1] \in Nat /\ k \in Nat
    BY <1>0, <2>1
  <2>5. v[k + 1] = u[k + 1] + (IF extra = 1 THEN k + 1 ELSE 0)
    BY <2>2, <2>3, <2>4
  <2> QED BY <2>1, <2>5 DEF T
<1>3. \A k \in 0..n : k \in T
  BY <1>1, <1>2, UpTo
<1>4. n \in T
  BY <1>3
<1> QED BY <1>0, <1>4 DEF T

(* writeAll and the loops that write topic filters write what the ...Length    *)
(* functions have added up.                                                    *)
LEMMA FlattenedLength ==
  ASSUME NEW strings \in Seq(Strings), NEW parts \in Seq(Strings), NEW extra \in {0, 1},
         Len(parts) = Len(strings),
         \A i \in 1..Len(strings) : Len(parts[i]) = Len(strings[i]) + 2 + extra
  PROVE  /\ FlattenSeq(parts) \in Strings
         /\ lengthAll(strings) \in Nat
         /\ Len(FlattenSeq(parts)) = lengthAll(strings) + (IF extra = 1 THEN Len(strings) ELSE 0)
<1> DEFINE n == Len(strings)
<1>1. n \in Nat /\ \A i \in 1..n : strings[i] \in Strings /\ parts[i] \in Strings
  BY DEF Strings
<1> HIDE DEF n
<1>2. PICK u \in [0..n -> Nat] :
        /\ lengthAll(strings) = u[n] /\ u[0] = 0
        /\ \A i \in 1..n : u[i] = u[i - 1] + Len(strings[i]) + 2
  BY Lengths DEF n
<1>3. PICK f \in [0..n -> Strings] :
        /\ FlattenSeq(parts) = f[n] /\ f[0] = <<>>
        /\ \A i \in 1..n : f[i] = f[i - 1] \o parts[i]
  <2>1. n = Len(parts)
    BY DEF n
  <2> QED BY <2>1, Flattened
<1>4. \A a, b \in Strings : Len(a) \in Nat /\ Len(a \o b) = Len(a) + Len(b)
  BY DEF Strings
<1> DEFINE v == [i \in 0..n |-> Len(f[i])]
           l == [i \in 1..n |-> Len(strings[i])]
<1>5. v \in [0..n -> Nat] /\ l \in [1..n -> Nat] /\ v[0] = 0 /\ v[n] = Len(f[n])
  BY <1>1, <1>3, <1>4
<1>6. ASSUME NEW i \in 1..n PROVE v[i] = v[i - 1] + l[i] + (2 + extra) /\ u[i] = u[i - 1] + l[i] + 2
  <2>1. i - 1 \in 0..n /\ i \in 0..n
    BY <1>1
  <2>2. Len(f[i]) = Len(f[i - 1]) + Len(parts[i])
    BY <1>1, <1>3, <1>4, <2>1
  <2>3. Len(parts[i]) = Len(strings[i]) + 2 + extra /\ Len(strings[i]) \in Nat /\ Len(f[i - 1]) \in Nat
    BY <1>1, <1>3, <1>4, <2>1 DEF n
  <2>4. v[i] = Len(f[i]) /\ v[i - 1] = Len(f[i - 1]) /\ l[i] = Len(strings[i])
    BY <2>1
  <2> HIDE DEF v, l
  <2>5. v[i] = v[i - 1] + (l[i] + 2 + extra) /\ l[i] \in Nat /\ v[i - 1] \in Nat
    BY <2>2, <2>3, <2>4
  <2>6. u[i] = u[i - 1] + l[i] + 2
    BY <1>2, <2>4
  <2>7. v[i - 1] + (l[i] + 2 + extra) = v[i - 1] + l[i] + (2 + extra)
    BY <2>5
  <2> QED BY <2>5, <2>6, <2>7
<1> HIDE DEF v, l
<1>7. (extra = 1 => v[n] = u[n] + n) /\ (extra = 0 => v[n] = u[n])
  <2>1. Sums(u, l, n, 2) /\ Sums(v, l, n, 2 + extra)
    BY <1>2, <1>5, <1>6 DEF Sums
  <2> HIDE DEF Sums
  <2> QED BY <1>1, <2>1, SameSum
<1>8. f[n] \in Strings /\ u[n] \in Nat
  BY <1>1, <1>2, <1>3
<1> QED BY <1>2, <1>3, <1>5, <1>7, <1>8 DEF n

(* The ...Length functions may add up the strings of a packet one by one.      *)
LEMMA LengthsAdd ==
  ASSUME NEW s \in Seq(Strings), NEW t \in Seq(Strings)
  PROVE  lengthAll(s \o t) = lengthAll(s) + lengthAll(t)
<1> DEFINE m == Len(s)
           n == Len(t)
           st == s \o t
<1>1. /\ m \in Nat /\ n \in Nat /\ Len(st) = m + n /\ st \in Seq(Strings)
      /\ \A i \in 1..m : Len(st[i]) = Len(s[i])
      /\ \A i \in 1..n : Len(st[m + i]) = Len(t[i])
      /\ \A i \in 1..(m + n) : Len(st[i]) \in Nat
  <2>1. \A i \in 1..(m + n) : st[i] \in Strings
    BY DEF Strings
  <2> QED BY <2>1 DEF Strings
<1>2. PICK us \in [0..m -> Nat] :
        /\ lengthAll(s) = us[m] /\ us[0] = 0
        /\ \A i \in 1..m : us[i] = us[i - 1] + Len(s[i]) + 2
  BY Lengths
<1>3. PICK ut \in [0..n -> Nat] :
        /\ lengthAll(t) = ut[n] /\ ut[0] = 0
        /\ \A i \in 1..n : ut[i] = ut[i - 1] + Len(t[i]) + 2
  BY Lengths
<1>4. PICK u \in [0..(m + n) -> Nat] :
        /\ lengthAll(st) = u[m + n] /\ u[0] = 0
        /\ \A i \in 1..(m + n) : u[i] = u[i - 1] + Len(st[i]) + 2
  <2> HIDE DEF m, n, st
  <2>1. \E u \in [0..Len(st) -> Nat] :
        /\ lengthAll(st) = u[Len(st)] /\ u[0] = 0
        /\ \A i \in 1..Len(st) : u[i] = u[i - 1] + Len(st[i]) + 2
    BY <1>1, Lengths
  <2> QED BY <1>1, <2>1
<1> HIDE DEF m, n, st
<1>5. \A k \in 0..m : u[k] = us[k]
  <2> DEFINE T == {k \in 0..m : u[k] = us[k]}
  <2> HIDE DEF T
  <2>1. 0 \in T
    BY <1>1, <1>2, <1>4 DEF T
  <2>2. ASSUME NEW k \in T, k < m PROVE k + 1 \in T
    <3>1. k + 1 \in 1..m /\ k + 1 \in 1..(m + n) /\ (k + 1) - 1 = k /\ k + 1 \in 0..m
      BY <1>1, <2>2 DEF T
    <3>2. u[k + 1] = u[k] + Len(st[k + 1]) + 2
      BY <1>4, <3>1
    <3>3. us[k + 1] = us[k] + Len(s[k + 1]) + 2
      BY <1>2, <3>1
    <3>4. u[k] = us[k]
      BY <2>2 DEF T
    <3>5. Len(st[k + 1]) = Len(s[k + 1])
      BY <1>1, <3>1
    <3> QED BY <3>1, <3>2, <3>3, <3>4, <3>5 DEF T
  <2>3. \A k \in 0..m : k \in T
    BY <1>1, <2>1, <2>2, UpTo
  <2> QED BY <2>3 DEF T
<1>6. \A k \in 0..n : u[m + k] = us[m] + ut[k]
  <2> DEFINE T == {k \in 0..n : u[m + k] = us[m] + ut[k]}
  <2> HIDE DEF T
  <2>1. 0 \in T
    BY <1>1, <1>2, <1>3, <1>5 DEF T
  <2>2. ASSUME NEW k \in T, k < n PROVE k + 1 \in T
    <3>1. /\ k + 1 \in 1..n /\ m + (k + 1) \in 1..(m + n) /\ (k + 1) - 1 = k
          /\ (m + (k + 1)) - 1 = m + k /\ k \in 0..n /\ k + 1 \in 0..n
      BY <1>1, <2>2 DEF T
    <3>2. u[m + (k + 1)] = u[m + k] + Len(st[m + (k + 1)]) + 2
      BY <1>4, <3>1
    <3>3. ut[k + 1] = ut[k] + Len(t[k + 1]) + 2
      BY <1>3, <3>1
    <3>4. ut[k] \in Nat /\ us[m] \in Nat
      BY <1>1, <1>2, <1>3, <3>1
    <3>5. Len(st[m + (k + 1)]) = Len(t[k + 1]) /\ Len(t[k + 1]) \in Nat
      BY <1>1, <3>1
    <3>6. u[m + k] = us[m] + ut[k]
      BY <2>2 DEF T
    <3>7. u[m + (k + 1)] = us[m] + ut[k + 1]
      BY <3>2, <3>3, <3>4, <3>5, <3>6
    <3> QED BY <3>1, <3>7 DEF T
  <2>3. \A k \in 0..n : k \in T
    BY <1>1, <2>1, <2>2, UpTo
  <2> QED BY <2>3 DEF T
<1> QED BY <1>1, <1>2, <1>3, <1>4, <1>6 DEF st

(* lengthAll of an optional string that is there.                              *)
LEMMA LengthOfOne ==
  ASSUME NEW s \in Strings
  PROVE  <<s>> \in Seq(Strings) /\ lengthAll(<<s>>) = Len(s) + 2
<1>1. <<s>> \in Seq(Strings) /\ Len(<<s>>) = 1 /\ <<s>>[1] = s /\ Len(s) \in Nat
  BY DEF Strings
<1>2. PICK u \in [0..1 -> Nat] :
        /\ lengthAll(<<s>>) = u[1] /\ u[0] = 0
        /\ \A i \in 1..1 : u[i] = u[i - 1] + Len(<<s>>[i]) + 2
  <2>1. \E u \in [0..Len(<<s>>) -> Nat] :
        /\ lengthAll(<<s>>) = u[Len(<<s>>)] /\ u[0] = 0
        /\ \A i \in 1..Len(<<s>>) : u[i] = u[i - 1] + Len(<<s>>[i]) + 2
    BY <1>1, Lengths
  <2> QED BY <1>1, <2>1
<1>3. u[1] = u[1 - 1] + Len(<<s>>[1]) + 2
  BY <1>2
<1> QED BY <1>1, <1>2, <1>3

-----------------------------------------------------------------------------
(* The remaining length.                                                       *)

Remaining == {n \in Nat : n < 268435456}

(* What MQTTPacket_decode multiplies by is 128 once more for each byte.        *)
LEMMA Powers == /\ Power128[1] = 1 /\ Power128[2] = 128 /\ Power128[3] = 128 * 128
                /\ Power128[4] = 128 * 128 * 128 /\ \A i \in 1..4 : Power128[i] \in Nat
BY DEF Power128

(* MQTTPacket_encode writes one to four bytes, seven bits in each, and only the*)
(* last has its top bit clear.                                                 *)
LEMMA Encoded ==
  ASSUME NEW n \in Remaining
  PROVE  /\ LengthBytes(n) \in 1..4
         /\ MQTTPacket_encode(n) \in Strings /\ Len(MQTTPacket_encode(n)) = LengthBytes(n)
         /\ \A i \in 1..LengthBytes(n) :
              /\ MQTTPacket_encode(n)[i] % 128 = (n \div Power128[i]) % 128
              /\ MQTTPacket_encode(n)[i] \in 0..255
              /\ (MQTTPacket_encode(n)[i] < 128) <=> (i = LengthBytes(n))
<1> DEFINE k == LengthBytes(n)
           e == MQTTPacket_encode(n)
<1>1. k \in 1..4
  BY DEF LengthBytes
<1>2. n \in Nat /\ \A i \in 1..4 : n \div Power128[i] \in Nat
  <2>1. n \in Nat /\ \A i \in 1..4 : Power128[i] \in Nat \ {0}
    BY SMT DEF Remaining, Power128
  <2>2. \A m, p \in Nat : p # 0 => m \div p \in Nat
    OBVIOUS
  <2> QED BY <2>1, <2>2
<1> HIDE DEF k
<1>3. \A i \in 1..k : e[i] = SevenBits(n, i) + (IF i < k THEN 128 ELSE 0)
  BY DEF MQTTPacket_encode, k
<1>4. \A i \in 1..k : SevenBits(n, i) \in 0..127
  BY <1>1, <1>2 DEF SevenBits
<1>5. e = [i \in 1..k |-> e[i]]
  BY DEF MQTTPacket_encode, k
<1> HIDE DEF e
<1>6. ASSUME NEW i \in 1..k
      PROVE  e[i] \in 0..255 /\ e[i] % 128 = SevenBits(n, i) /\ ((e[i] < 128) <=> (i = k))
  <2> DEFINE x == SevenBits(n, i)
  <2>1. x \in 0..127 /\ e[i] = x + (IF i < k THEN 128 ELSE 0)
    BY <1>3, <1>4
  <2> HIDE DEF x
  <2>2. e[i] \in 0..255 /\ e[i] % 128 = x
    BY <2>1
  <2>3. (e[i] < 128) <=> (i = k)
    BY <1>1, <2>1
  <2> QED BY <2>2, <2>3 DEF x
<1>7. e \in Seq(Nat) /\ Len(e) = k
  <2>1. \A i \in 1..k : e[i] \in Nat
    BY <1>6, SMTT(30)
  <2>2. k \in Nat
    BY <1>1
  <2> QED BY <1>5, <2>1, <2>2
<1> QED BY <1>1, <1>6, <1>7 DEF k, e, SevenBits, Strings

(* MQTTPacket_decode takes bytes up to the first with its top bit clear.       *)
LEMMA Decoded ==
  ASSUME NEW bytes \in Seq(Nat), NEW k \in 1..4, Len(bytes) >= k,
         \A i \in 1..k : (bytes[i] < 128) <=> (i = k)
  PROVE  MQTTPacket_decode(bytes) =
           [value |-> (bytes[1] % 128) * Power128[1]
                      + (IF 2 <= k THEN (bytes[2] % 128) * Power128[2] ELSE 0)
                      + (IF 3 <= k THEN (bytes[3] % 128) * Power128[3] ELSE 0)
                      + (IF 4 <= k THEN (bytes[4] % 128) * Power128[4] ELSE 0),
            len |-> k]
<1> DEFINE most  == IF Len(bytes) < MAX_NO_OF_REMAINING_LENGTH_BYTES THEN Len(bytes)
                    ELSE MAX_NO_OF_REMAINING_LENGTH_BYTES
           stops == {i \in 1..most : bytes[i] < 128}
           used  == IF stops = {} THEN most ELSE CHOOSE i \in stops : \A j \in stops : i <= j
<1>1. k \in 1..most /\ most \in Nat
  BY DEF MAX_NO_OF_REMAINING_LENGTH_BYTES
<1>2. k \in stops /\ \A j \in stops : k <= j
  <2> HIDE DEF most
  <2> QED BY <1>1
<1>3. used = k
  <2> HIDE DEF stops
  <2>1. \A i \in stops : (\A j \in stops : i <= j) => i <= k /\ k <= i
    BY <1>2
  <2>2. stops \subseteq Int
    BY <1>1 DEF stops
  <2>3. \A i \in stops : (\A j \in stops : i <= j) => i = k
    BY <1>1, <2>1, <2>2
  <2> QED BY <1>2, <2>3
<1>4. used \in stops
  BY <1>2, <1>3
<1> DEFINE part(i) == IF i <= used THEN (bytes[i] % 128) * Power128[i] ELSE 0
<1>5. MQTTPacket_decode(bytes) = [value |-> part(1) + part(2) + part(3) + part(4),
                                  len   |-> IF used \in stops THEN used ELSE used + 1]
  BY Zenon DEF MQTTPacket_decode
<1> HIDE DEF used, stops
<1>6. MQTTPacket_decode(bytes) = [value |-> part(1) + part(2) + part(3) + part(4), len |-> k]
  BY <1>3, <1>4, <1>5
<1>7. /\ part(1) = (bytes[1] % 128) * Power128[1]
      /\ \A i \in 1..4 : part(i) = IF i <= k THEN (bytes[i] % 128) * Power128[i] ELSE 0
  BY <1>3
<1> HIDE DEF part
<1> QED BY <1>6, <1>7

(* What is decoded is what has been encoded, whatever follows it.              *)
Parts(n) == [i \in 1..4 |-> ((n \div Power128[i]) % 128) * Power128[i]]

(* What the bytes of a length are worth.                                       *)
LEMMA PartsAre ==
  ASSUME NEW n \in Nat
  PROVE  /\ Parts(n)[1] = ((n \div 1) % 128) * 1 /\ Parts(n)[2] = ((n \div 128) % 128) * 128
         /\ Parts(n)[3] = ((n \div 16384) % 128) * 16384
         /\ Parts(n)[4] = ((n \div 2097152) % 128) * 2097152
<1> DEFINE f(p) == ((n \div p) % 128) * p
<1>1. Parts(n)[1] = f(Power128[1]) /\ Parts(n)[2] = f(Power128[2])
      /\ Parts(n)[3] = f(Power128[3]) /\ Parts(n)[4] = f(Power128[4])
  <2>1. Parts(n) = [i \in 1..4 |-> f(Power128[i])]
    BY Zenon DEF Parts
  <2>2. 1 \in 1..4 /\ 2 \in 1..4 /\ 3 \in 1..4 /\ 4 \in 1..4
    OBVIOUS
  <2> HIDE DEF f
  <2> QED BY <2>1, <2>2, Zenon
<1>2. /\ Parts(n)[1] = f(1) /\ Parts(n)[2] = f(128) /\ Parts(n)[3] = f(16384) /\ Parts(n)[4] = f(2097152)
  <2> HIDE DEF f
  <2>1. Power128[1] = 1 /\ Power128[2] = 128 /\ Power128[3] = 16384 /\ Power128[4] = 2097152
    BY SMT DEF Power128
  <2> QED BY <1>1, <2>1, SMT
<1> QED BY <1>2

(* A number is the sum of its digits to the base 128, as many as it has.       *)
LEMMA Digits ==
  ASSUME NEW n \in Nat
  PROVE  /\ n < 128 => ((n \div 1) % 128) * 1 = n
         /\ n < 16384 => ((n \div 1) % 128) * 1 + ((n \div 128) % 128) * 128 = n
         /\ n < 2097152 => ((n \div 1) % 128) * 1 + ((n \div 128) % 128) * 128
                            + ((n \div 16384) % 128) * 16384 = n
         /\ n < 268435456 => ((n \div 1) % 128) * 1 + ((n \div 128) % 128) * 128
                              + ((n \div 16384) % 128) * 16384 + ((n \div 2097152) % 128) * 2097152 = n
<1>1. n < 128 => ((n \div 1) % 128) * 1 = n
  BY SMT
<1>2. n < 16384 => ((n \div 1) % 128) * 1 + ((n \div 128) % 128) * 128 = n
  BY SMT
<1>3. n < 2097152 => ((n \div 1) % 128) * 1 + ((n \div 128) % 128) * 128
                            + ((n \div 16384) % 128) * 16384 = n
  BY SMT
<1>4. n < 268435456 => ((n \div 1) % 128) * 1 + ((n \div 128) % 128) * 128
                              + ((n \div 16384) % 128) * 16384 + ((n \div 2097152) % 128) * 2097152 = n
  BY SMT
<1> QED BY <1>1, <1>2, <1>3, <1>4, SMT

(* The bytes of a length are worth the length.                                 *)
LEMMA PartsSum ==
  ASSUME NEW n \in Nat, n < 268435456
  PROVE  /\ LengthBytes(n) = 1 => Parts(n)[1] = n
         /\ LengthBytes(n) = 2 => Parts(n)[1] + Parts(n)[2] = n
         /\ LengthBytes(n) = 3 => Parts(n)[1] + Parts(n)[2] + Parts(n)[3] = n
         /\ LengthBytes(n) = 4 => Parts(n)[1] + Parts(n)[2] + Parts(n)[3] + Parts(n)[4] = n
         /\ \A i \in 1..4 : Parts(n)[i] \in Nat
<1>1. /\ LengthBytes(n) = 1 => n < 128
      /\ LengthBytes(n) = 2 => n < 16384
      /\ LengthBytes(n) = 3 => n < 2097152
  BY SMT DEF LengthBytes
<1>2. Parts(n)[1] \in Nat /\ Parts(n)[2] \in Nat /\ Parts(n)[3] \in Nat /\ Parts(n)[4] \in Nat
  BY PartsAre, SMT
<1>3. \A i \in 1..4 : i = 1 \/ i = 2 \/ i = 3 \/ i = 4
  BY SMT
<1>4. \A i \in 1..4 : Parts(n)[i] \in Nat
  BY <1>2, <1>3, SMT
<1>5. LengthBytes(n) = 1 => Parts(n)[1] = n
  BY <1>1, Digits, PartsAre, SMT
<1>6. LengthBytes(n) = 2 => Parts(n)[1] + Parts(n)[2] = n
  BY <1>1, Digits, PartsAre, SMT
<1>7. LengthBytes(n) = 3 => Parts(n)[1] + Parts(n)[2] + Parts(n)[3] = n
  BY <1>1, Digits, PartsAre, SMT
<1>8. LengthBytes(n) = 4 => Parts(n)[1] + Parts(n)[2] + Parts(n)[3] + Parts(n)[4] = n
  BY Digits, PartsAre, SMT
<1> QED BY <1>4, <1>5, <1>6, <1>7, <1>8, SMT

(* MQTTPacket_decode returns the length that MQTTPacket_encode has written and *)
(* the bytes it takes, whatever follows them, for every length below 128^4.    *)
THEOREM RoundTrip ==
  ASSUME NEW n \in Remaining, NEW rest \in Seq(Nat)
  PROVE  MQTTPacket_decode(MQTTPacket_encode(n) \o rest) = [value |-> n, len |-> LengthBytes(n)]
<1> DEFINE k == LengthBytes(n)
           e == MQTTPacket_encode(n)
           b == e \o rest
           p == Parts(n)
<1>1. k \in 1..4 /\ e \in Seq(Nat) /\ Len(e) = k
  BY Encoded DEF Strings
<1>2. /\ \A i \in 1..k : (e[i] % 128) * Power128[i] = p[i]
      /\ \A i \in 1..k : (e[i] < 128) <=> (i = k)
  <2>1. \A i \in 1..k : e[i] % 128 = (n \div Power128[i]) % 128 /\ ((e[i] < 128) <=> (i = k))
    BY Encoded
  <2>2. \A i \in 1..k : p[i] = ((n \div Power128[i]) % 128) * Power128[i]
    BY <1>1 DEF Parts
  <2> HIDE DEF k, e, p
  <2> QED BY <2>1, <2>2, Zenon
<1>3. /\ p \in [1..4 -> Nat]
      /\ k = 1 => p[1] = n
      /\ k = 2 => p[1] + p[2] = n
      /\ k = 3 => p[1] + p[2] + p[3] = n
      /\ k = 4 => p[1] + p[2] + p[3] + p[4] = n
  <2>1. n \in Nat /\ n < 268435456
    BY SMT DEF Remaining
  <2>2. p = [i \in 1..4 |-> p[i]]
    BY DEF Parts
  <2> QED BY <2>1, <2>2, PartsSum, SMT
<1> HIDE DEF k, e, p
<1>4. b \in Seq(Nat) /\ Len(b) >= k /\ \A i \in 1..k : b[i] = e[i]
  BY <1>1
<1> HIDE DEF b
<1>5. /\ \A i \in 1..k : (b[i] % 128) * Power128[i] = p[i]
      /\ \A i \in 1..k : (b[i] < 128) <=> (i = k)
  BY <1>2, <1>4
<1> DEFINE value == (b[1] % 128) * Power128[1]
                      + (IF 2 <= k THEN (b[2] % 128) * Power128[2] ELSE 0)
                      + (IF 3 <= k THEN (b[3] % 128) * Power128[3] ELSE 0)
                      + (IF 4 <= k THEN (b[4] % 128) * Power128[4] ELSE 0)
<1>6. MQTTPacket_decode(b) = [value |-> value, len |-> k]
  BY <1>1, <1>4, <1>5, Decoded, SMTT(30)
<1>7. value = p[1] + (IF 2 <= k THEN p[2] ELSE 0) + (IF 3 <= k THEN p[3] ELSE 0)
                   + (IF 4 <= k THEN p[4] ELSE 0)
  <2>1. /\ 1 \in 1..k /\ (2 <= k => 2 \in 1..k) /\ (3 <= k => 3 \in 1..k) /\ (4 <= k => 4 \in 1..k)
    BY <1>1
  <2>2. (b[1] % 128) * Power128[1] = p[1]
    BY <1>5, <2>1
  <2>3. 2 <= k => (b[2] % 128) * Power128[2] = p[2]
    BY <1>5, <2>1
  <2>4. 3 <= k => (b[3] % 128) * Power128[3] = p[3]
    BY <1>5, <2>1
  <2>5. 4 <= k => (b[4] % 128) * Power128[4] = p[4]
    BY <1>5, <2>1
  <2> QED BY <2>2, <2>3, <2>4, <2>5
<1>8. value = n
  <2>1. p[1] \in Nat /\ p[2] \in Nat /\ p[3] \in Nat /\ p[4] \in Nat
    BY <1>3
  <2> HIDE DEF value
  <2>2. k = 1 \/ k = 2 \/ k = 3 \/ k = 4
    BY <1>1
  <2> QED BY <1>3, <1>7, <2>1, <2>2
<1> HIDE DEF value
<1> QED BY <1>6, <1>8 DEF b, e, k

-----------------------------------------------------------------------------
(* Packets and their length.                                                   *)

Size(n) == n + 1 + LengthBytes(n)

(* MQTTPacket_len is what a packet takes, or one byte more at the three        *)
(* boundaries of the length.                                                   *)
LEMMA Estimate ==
  ASSUME NEW n \in Nat
  PROVE  /\ MQTTPacket_len(n) \in Nat /\ Size(n) \in Nat /\ LengthBytes(n) \in Nat
         /\ Size(n) <= MQTTPacket_len(n) /\ MQTTPacket_len(n) <= Size(n) + 1
         /\ MQTTPacket_len(n) = Size(n) + 1 => Size(n) \in Overestimated
         /\ n < 268435456 <=> MQTTPacket_len(n) <= Unlimited
BY SMT DEF MQTTPacket_len, Size, LengthBytes, Overestimated, Unlimited

(* A packet is as long as its length says, and its length is found in it.      *)
LEMMA WrittenPacket ==
  ASSUME NEW n \in Remaining, NEW header \in Nat, NEW fields \in Strings, Len(fields) = n
  PROVE  /\ Written(header, n, fields) \in Strings
         /\ Len(Written(header, n, fields)) = Size(n)
         /\ Written(header, n, fields)[1] = header
         /\ Tail(Written(header, n, fields)) = MQTTPacket_encode(n) \o fields
         /\ MQTTPacket_decode(Tail(Written(header, n, fields))) = [value |-> n, len |-> LengthBytes(n)]
<1> DEFINE e == MQTTPacket_encode(n)
<1>1. e \in Seq(Nat) /\ Len(e) = LengthBytes(n) /\ LengthBytes(n) \in Nat /\ fields \in Seq(Nat) /\ n \in Nat
  BY Encoded DEF Strings, Remaining
<1> HIDE DEF e
<1>2. /\ Written(header, n, fields) = <<header>> \o (e \o fields)
      /\ Written(header, n, fields) \in Seq(Nat)
  <2>1. Written(header, n, fields) = (<<header>> \o e) \o fields
    BY DEF Written, e
  <2> QED BY <1>1, <2>1
<1>3. Tail(<<header>> \o (e \o fields)) = e \o fields /\ (<<header>> \o (e \o fields))[1] = header
  BY <1>1, SMTT(30)
<1>4. Len(<<header>> \o (e \o fields)) = 1 + (LengthBytes(n) + n)
  BY <1>1, SMTT(30)
<1>5. MQTTPacket_decode(e \o fields) = [value |-> n, len |-> LengthBytes(n)]
  BY <1>1, RoundTrip DEF e
<1>6. 1 + (LengthBytes(n) + n) = Size(n)
  BY <1>1 DEF Size
<1> QED BY <1>2, <1>3, <1>4, <1>5, <1>6 DEF e, Strings

(* A request is what InBuffer makes of a header, a length and that many bytes. *)
Framed(r) == \E n \in Nat, header \in Nat, fields \in Strings :
               /\ Len(fields) = n
               /\ \A buflen \in Nat : Serialized(r, buflen) = InBuffer(buflen, n, Written(header, n, fields))

Fits(result, needed, buflen) ==
  LET b == result.bytes  d == MQTTPacket_decode(Tail(b))
  IN IF result.rc > 0
     THEN result.rc = Len(b) /\ Len(b) <= buflen /\ d.value = Len(b) - 1 - d.len
     ELSE needed > buflen \/ (needed = buflen /\ buflen \in Overestimated)

(* A writer that announces what it writes meets RequestFits, for any buffer.   *)
LEMMA FramedFits ==
  ASSUME NEW r, Framed(r), NEW buflen \in Nat, Serialized(r, Unlimited).rc > 0
  PROVE  Fits(Serialized(r, buflen), Serialized(r, Unlimited).rc, buflen)
<1>1. PICK n \in Nat, header \in Nat, fields \in Strings :
        /\ Len(fields) = n
        /\ \A bl \in Nat : Serialized(r, bl) = InBuffer(bl, n, Written(header, n, fields))
  BY DEF Framed
<1> DEFINE p == Written(header, n, fields)
<1>2. Unlimited \in Nat
  BY SMT DEF Unlimited
<1>3. n < 268435456 /\ Serialized(r, Unlimited) = [rc |-> Len(p), bytes |-> p]
  <2>1. Serialized(r, Unlimited) = InBuffer(Unlimited, n, p)
    BY <1>1, <1>2
  <2>2. MQTTPacket_len(n) \in Nat /\ (n < 268435456 <=> MQTTPacket_len(n) <= Unlimited)
    BY Estimate
  <2> HIDE DEF p
  <2>3. ~(MQTTPacket_len(n) > Unlimited)
    BY <2>1, SMT DEF InBuffer, BUFFER_TOO_SHORT
  <2>4. MQTTPacket_len(n) <= Unlimited
    BY <1>2, <2>2, <2>3, SMT
  <2>5. InBuffer(Unlimited, n, p) = [rc |-> Len(p), bytes |-> p]
    BY <2>3, SMT DEF InBuffer
  <2> QED BY <2>1, <2>2, <2>4, <2>5
<1>4. n \in Remaining
  BY <1>3, SMT DEF Remaining
<1>5. /\ Len(p) = Size(n) /\ p \in Strings
      /\ MQTTPacket_decode(Tail(p)) = [value |-> n, len |-> LengthBytes(n)]
  BY <1>1, <1>4, WrittenPacket
<1>6. Serialized(r, buflen) = InBuffer(buflen, n, p)
  BY <1>1
<1> HIDE DEF p
<1>7. /\ MQTTPacket_len(n) \in Nat /\ Size(n) \in Nat /\ LengthBytes(n) \in Nat /\ Size(n) = n + 1 + LengthBytes(n)
      /\ Size(n) <= MQTTPacket_len(n) /\ MQTTPacket_len(n) <= Size(n) + 1
      /\ MQTTPacket_len(n) = Size(n) + 1 => Size(n) \in Overestimated
  BY Estimate DEF Size
<1>8. CASE MQTTPacket_len(n) > buflen
  <2>1. Serialized(r, buflen).rc = -2
    BY <1>6, <1>8 DEF InBuffer, BUFFER_TOO_SHORT
  <2>2. Size(n) > buflen \/ (Size(n) = buflen /\ buflen \in Overestimated)
    <3>1. CASE Size(n) > buflen
      BY <3>1
    <3>2. CASE ~(Size(n) > buflen)
      <4>1. Size(n) = buflen /\ MQTTPacket_len(n) = Size(n) + 1
        BY <1>7, <1>8, <3>2
      <4> QED BY <1>7, <4>1
    <3> QED BY <3>1, <3>2
  <2> QED BY <1>3, <1>5, <2>1, <2>2 DEF Fits
<1>9. CASE ~(MQTTPacket_len(n) > buflen)
  <2>1. Serialized(r, buflen) = [rc |-> Size(n), bytes |-> p]
    BY <1>5, <1>6, <1>9 DEF InBuffer
  <2>2. Len(p) <= buflen /\ n = Len(p) - 1 - LengthBytes(n) /\ Size(n) > 0
    BY <1>5, <1>7, <1>9
  <2> DEFINE result == Serialized(r, buflen)
  <2>3. result.rc = Len(p) /\ result.bytes = p /\ result.rc > 0
    BY <1>5, <2>1, <2>2
  <2>4. MQTTPacket_decode(Tail(p)).value = n /\ MQTTPacket_decode(Tail(p)).len = LengthBytes(n)
    BY <1>5
  <2> HIDE DEF result
  <2>5. Fits(result, Serialized(r, Unlimited).rc, buflen)
    BY <2>2, <2>3, <2>4, Zenon DEF Fits
  <2> QED BY <2>5 DEF result
<1> QED BY <1>8, <1>9

-----------------------------------------------------------------------------
(* Fields.                                                                     *)

Text(s, n) == n \in Nat /\ s \in Strings /\ Len(s) = n

(* Concatenated strings: their lengths add up.                                 *)
LEMMA TextConcat ==
  ASSUME NEW a, NEW b, NEW m, NEW n, Text(a, m), Text(b, n)
  PROVE  Text(a \o b, m + n)
BY SMTT(30) DEF Text, Strings

(* A byte is a string of length 1.                                             *)
LEMMA TextByte == ASSUME NEW x \in Nat PROVE Text(<<x>>, 1)
BY DEF Text, Strings

(* Nothing is a string of length 0.                                            *)
LEMMA TextEmpty == Text(<<>>, 0)
BY DEF Text, Strings

(* writeInt writes two bytes.                                                  *)
LEMMA TextInt == ASSUME NEW n \in Nat PROVE Text(writeInt(n), 2)
<1>1. (n \div 256) % 256 \in Nat /\ n % 256 \in Nat
  OBVIOUS
<1> QED BY <1>1 DEF writeInt, Text, Strings

(* writeMQTTString writes two bytes more than the string.                      *)
LEMMA TextString ==
  ASSUME NEW s \in Strings
  PROVE  Text(writeMQTTString(s), 2 + Len(s)) /\ Len(s) \in Nat
<1>1. Len(s) \in Nat
  BY DEF Strings
<1>2. Text(s, Len(s))
  BY <1>1 DEF Text
<1>3. Text(writeInt(Len(s)), 2)
  BY <1>1, TextInt
<1> QED BY <1>1, <1>2, <1>3, TextConcat DEF writeMQTTString

(* The header is a number.                                                     *)
LEMMA Header ==
  ASSUME NEW type \in DOMAIN msgTypes, NEW dup \in 0..1, NEW qos \in 0..2, NEW retain \in 0..1
  PROVE  MQTTHeader(type, dup, qos, retain) \in Nat
<1>1. msgTypes[type] \in Nat
  BY DEF msgTypes
<1> QED BY <1>1 DEF MQTTHeader

(* writeAll writes what lengthAll has added up.                                *)
LEMMA TextAll ==
  ASSUME NEW strings \in Seq(Strings)
  PROVE  Text(writeAll(strings), lengthAll(strings)) /\ lengthAll(strings) \in Nat
<1> DEFINE parts == [i \in DOMAIN strings |-> writeMQTTString(strings[i])]
<1>1. DOMAIN strings = 1..Len(strings) /\ Len(strings) \in Nat /\ \A i \in 1..Len(strings) : strings[i] \in Strings
  OBVIOUS
<1>2. ASSUME NEW i \in 1..Len(strings) PROVE parts[i] \in Strings /\ Len(parts[i]) = Len(strings[i]) + 2 + 0
  <2>1. strings[i] \in Strings /\ parts[i] = writeMQTTString(strings[i])
    BY <1>1
  <2>2. Text(parts[i], 2 + Len(strings[i])) /\ Len(strings[i]) \in Nat
    BY <2>1, TextString
  <2> HIDE DEF parts
  <2> QED BY <2>2 DEF Text
<1>3. parts \in Seq(Strings) /\ Len(parts) = Len(strings)
  BY <1>1, <1>2
<1>4. writeAll(strings) = FlattenSeq(parts)
  BY Zenon DEF writeAll
<1> HIDE DEF parts
<1>5. /\ FlattenSeq(parts) \in Strings /\ lengthAll(strings) \in Nat
      /\ Len(FlattenSeq(parts)) = lengthAll(strings) + (IF 0 = 1 THEN Len(strings) ELSE 0)
  <2>1. 0 \in {0, 1}
    OBVIOUS
  <2> QED BY <1>2, <1>3, <2>1, FlattenedLength
<1> QED BY <1>4, <1>5 DEF Text

(* MQTTSerialize_subscribe writes one byte more for each filter.               *)
LEMMA TextFilters ==
  ASSUME NEW filters \in Seq(Strings), NEW qos \in Seq(0..2), Len(qos) = Len(filters)
  PROVE  Text(FlattenSeq([i \in DOMAIN filters |-> writeMQTTString(filters[i]) \o <<qos[i]>>]),
              lengthAll(filters) + Len(filters))
<1> DEFINE parts == [i \in DOMAIN filters |-> writeMQTTString(filters[i]) \o <<qos[i]>>]
<1>1. DOMAIN filters = 1..Len(filters) /\ Len(filters) \in Nat /\ \A i \in 1..Len(filters) : filters[i] \in Strings /\ qos[i] \in Nat
  OBVIOUS
<1>2. ASSUME NEW i \in 1..Len(filters) PROVE parts[i] \in Strings /\ Len(parts[i]) = Len(filters[i]) + 2 + 1
  <2>1. filters[i] \in Strings /\ parts[i] = writeMQTTString(filters[i]) \o <<qos[i]>>
    BY <1>1
  <2>2. Text(writeMQTTString(filters[i]), 2 + Len(filters[i])) /\ Len(filters[i]) \in Nat
    BY <2>1, TextString
  <2>3. Text(<<qos[i]>>, 1)
    BY <1>1, TextByte
  <2>4. Text(parts[i], (2 + Len(filters[i])) + 1)
    BY <2>1, <2>2, <2>3, TextConcat
  <2> HIDE DEF parts
  <2> QED BY <2>2, <2>4 DEF Text
<1>3. parts \in Seq(Strings) /\ Len(parts) = Len(filters)
  BY <1>1, <1>2
<1> HIDE DEF parts
<1>4. /\ FlattenSeq(parts) \in Strings /\ lengthAll(filters) \in Nat
      /\ Len(FlattenSeq(parts)) = lengthAll(filters) + (IF 1 = 1 THEN Len(filters) ELSE 0)
  <2>1. 1 \in {0, 1}
    OBVIOUS
  <2> QED BY <1>2, <1>3, <2>1, FlattenedLength
<1> QED BY <1>1, <1>4 DEF parts, Text

(* MQTTSerialize_publishLength is the length of what MQTTSerialize_publish     *)
(* writes.                                                                     *)
LEMMA PublishFields ==
  ASSUME NEW m, m.topicName \in Strings, m.payload \in Strings, m.qos \in 0..2, m.id \in Shorts
  PROVE  Text(writeMQTTString(m.topicName) \o (IF m.qos > 0 THEN writeInt(m.id) ELSE <<>>) \o m.payload,
              MQTTSerialize_publishLength(m))
<1> DEFINE id == IF m.qos > 0 THEN writeInt(m.id) ELSE <<>>
           two == IF m.qos > 0 THEN 2 ELSE 0
           t == writeMQTTString(m.topicName)
           lt == Len(m.topicName)
           lp == Len(m.payload)
<1>1. Text(t, 2 + lt) /\ lt \in Nat
  BY TextString
<1>2. Text(id, two)
  <2>1. m.id \in Nat
    BY DEF Shorts
  <2> QED BY <2>1, TextInt, TextEmpty
<1>3. Text(m.payload, lp) /\ lp \in Nat
  BY DEF Text, Strings
<1>4. MQTTSerialize_publishLength(m) = 2 + lt + lp + two
  BY DEF MQTTSerialize_publishLength
<1>5. two \in Nat
  OBVIOUS
<1> HIDE DEF id, t, two, lt, lp
<1>6. Text(t \o id, (2 + lt) + two)
  BY <1>1, <1>2, TextConcat
<1>7. Text((t \o id) \o m.payload, ((2 + lt) + two) + lp)
  BY <1>3, <1>6, TextConcat
<1>8. ((2 + lt) + two) + lp = 2 + lt + lp + two
  BY <1>1, <1>3, <1>5
<1> QED BY <1>4, <1>7, <1>8 DEF id, t

(* MQTTSerialize_connectLength is the length of what MQTTSerialize_connect     *)
(* writes, with a will or without, a user or not, in version 3 and 4.          *)
LEMMA ConnectFields ==
  ASSUME NEW o \in ConnectRequests
  PROVE  Text(Protocol(o.version) \o <<MQTTConnectFlags(o)>> \o writeInt(o.keepAliveInterval)
                \o writeAll(<<o.clientID>> \o WillStrings(o) \o o.username \o o.password),
              MQTTSerialize_connectLength(o))
<1>1. /\ o.version \in {3, 4} /\ o.clientID \in Strings /\ o.will \in Optional(Wills)
      /\ o.username \in Optional(Strings) /\ o.password \in Optional(Strings)
      /\ o.cleansession \in 0..1 /\ o.keepAliveInterval \in Nat
  BY DEF ConnectRequests, Shorts
<1>2. WillStrings(o) \in Seq(Strings)
  <2>1. CASE o.will = <<>>
    BY <2>1 DEF WillStrings
  <2>2. CASE o.will # <<>>
    <3>1. o.will[1] \in Wills
      BY <1>1, <2>2 DEF Optional
    <3>2. o.will[1].topicName \in Strings /\ o.will[1].message \in Strings
      BY <3>1 DEF Wills
    <3> QED BY <2>2, <3>2 DEF WillStrings
  <2> QED BY <2>1, <2>2
<1>3. MQTTConnectFlags(o) \in Nat
  <2> DEFINE w == IF o.will = <<>> THEN 0 ELSE 32 * o.will[1].retained + 8 * o.will[1].qos + 4
             u == Len(o.username)
             p == Len(o.password)
             c == o.cleansession
  <2>1. u \in Nat /\ p \in Nat /\ c \in Nat
    BY <1>1 DEF Optional
  <2>2. w \in Nat
    <3>1. CASE o.will = <<>>
      BY <3>1
    <3>2. CASE o.will # <<>>
      <4>1. o.will[1] \in Wills
        BY <1>1, <3>2 DEF Optional
      <4> DEFINE r == o.will[1].retained
                 q == o.will[1].qos
      <4>2. r \in Nat /\ q \in Nat
        BY <4>1 DEF Wills
      <4>3. w = 32 * r + 8 * q + 4
        BY <3>2
      <4> HIDE DEF r, q, w
      <4> QED BY <4>2, <4>3
    <3> QED BY <3>1, <3>2
  <2>3. MQTTConnectFlags(o) = 128 * u + 64 * p + 2 * c + w
    BY DEF MQTTConnectFlags
  <2> HIDE DEF w, u, p, c
  <2> QED BY <2>1, <2>2, <2>3
<1> DEFINE p == Protocol(o.version)
           f == <<MQTTConnectFlags(o)>>
           k == writeInt(o.keepAliveInterval)
           c == <<o.clientID>>
           w == WillStrings(o)
           u == o.username
           x == o.password
           a == writeAll(c \o w \o u \o x)
           lc == Len(o.clientID)
           fixed == IF o.version = 3 THEN 12 ELSE 10
<1>4. Text(p, fixed - 3) /\ fixed \in Nat
  <2>1. <<77, 81, 84, 84>> \in Strings /\ Len(<<77, 81, 84, 84>>) = 4
    BY DEF Strings
  <2>2. <<77, 81, 73, 115, 100, 112>> \in Strings /\ Len(<<77, 81, 73, 115, 100, 112>>) = 6
    BY DEF Strings
  <2>3. Text(writeMQTTString(<<77, 81, 84, 84>>), 2 + 4) /\ Text(writeMQTTString(<<77, 81, 73, 115, 100, 112>>), 2 + 6)
    <3>1. /\ Text(writeMQTTString(<<77, 81, 84, 84>>), 2 + Len(<<77, 81, 84, 84>>))
          /\ Text(writeMQTTString(<<77, 81, 73, 115, 100, 112>>), 2 + Len(<<77, 81, 73, 115, 100, 112>>))
      BY <2>1, <2>2, TextString, Zenon
    <3> QED BY <2>1, <2>2, <3>1, Zenon
  <2>4. Text(<<3>>, 1) /\ Text(<<4>>, 1)
    BY TextByte
  <2>5. CASE o.version = 3
    <3>1. p = writeMQTTString(<<77, 81, 73, 115, 100, 112>>) \o <<3>> /\ fixed = 12
      BY <2>5 DEF Protocol
    <3>2. Text(p, (2 + 6) + 1)
      BY <2>3, <2>4, <3>1, TextConcat, Zenon
    <3> QED BY <3>1, <3>2
  <2>6. CASE o.version = 4
    <3>1. p = writeMQTTString(<<77, 81, 84, 84>>) \o <<4>> /\ fixed = 10
      BY <2>6 DEF Protocol
    <3>2. Text(p, (2 + 4) + 1)
      BY <2>3, <2>4, <3>1, TextConcat, Zenon
    <3> QED BY <3>1, <3>2
  <2> QED BY <1>1, <2>5, <2>6
<1>5. Text(f, 1) /\ Text(k, 2)
  BY <1>1, <1>3, TextByte, TextInt
<1>6. /\ lengthAll(c) = lc + 2 /\ c \in Seq(Strings) /\ lc \in Nat
      /\ u \in Seq(Strings) /\ x \in Seq(Strings)
  BY <1>1, LengthOfOne DEF Optional, Strings
<1>7. MQTTSerialize_connectLength(o) = fixed + lc + 2 + lengthAll(w) + lengthAll(u) + lengthAll(x)
  BY DEF MQTTSerialize_connectLength
<1>8. w \in Seq(Strings)
  BY <1>2
<1> HIDE DEF p, f, k, c, w, u, x, lc, fixed
<1> DEFINE lw == lengthAll(w)
           lu == lengthAll(u)
           lx == lengthAll(x)
<1>9. lw \in Nat /\ lu \in Nat /\ lx \in Nat
  BY <1>6, <1>8, TextAll
<1>10. Text(a, (((lc + 2) + lw) + lu) + lx)
  <2>1. c \o w \in Seq(Strings) /\ lengthAll(c \o w) = (lc + 2) + lw
    BY <1>6, <1>8, LengthsAdd
  <2> DEFINE cw == c \o w
  <2> HIDE DEF cw
  <2>2. cw \in Seq(Strings) /\ lengthAll(cw) = (lc + 2) + lw
    BY <2>1 DEF cw
  <2>3. cw \o u \in Seq(Strings) /\ lengthAll(cw \o u) = lengthAll(cw) + lu
    BY <1>6, <2>2, LengthsAdd
  <2> DEFINE cwu == cw \o u
  <2> HIDE DEF cwu
  <2>4. cwu \in Seq(Strings) /\ lengthAll(cwu) = ((lc + 2) + lw) + lu
    BY <2>2, <2>3 DEF cwu
  <2>5. cwu \o x \in Seq(Strings) /\ lengthAll(cwu \o x) = lengthAll(cwu) + lx
    BY <1>6, <2>4, LengthsAdd
  <2> DEFINE all == cwu \o x
  <2> HIDE DEF all
  <2>6. all \in Seq(Strings) /\ lengthAll(all) = (((lc + 2) + lw) + lu) + lx
    BY <2>4, <2>5 DEF all
  <2>7. Text(writeAll(all), lengthAll(all))
    BY <2>6, TextAll
  <2> QED BY <2>6, <2>7 DEF all, cwu, cw
<1> HIDE DEF a, lw, lu, lx
<1>11. Text(p \o f, (fixed - 3) + 1)
  BY <1>4, <1>5, TextConcat
<1>12. Text((p \o f) \o k, ((fixed - 3) + 1) + 2)
  BY <1>5, <1>11, TextConcat
<1>13. Text(((p \o f) \o k) \o a, (((fixed - 3) + 1) + 2) + ((((lc + 2) + lw) + lu) + lx))
  BY <1>10, <1>12, TextConcat
<1>14. (((fixed - 3) + 1) + 2) + ((((lc + 2) + lw) + lu) + lx) = fixed + lc + 2 + lw + lu + lx
  BY <1>4, <1>6, <1>9
<1> QED BY <1>7, <1>13, <1>14 DEF p, f, k, a, c, w, u, x, lw, lu, lx

-----------------------------------------------------------------------------
(* The requests of the client.                                                 *)

(* Each of the six writers announces what it writes.                           *)
LEMMA RequestsFramed ==
  ASSUME NEW r \in RequestTypes, r.op = "SUBSCRIBE" => Len(r.qos) = Len(r.filters)
  PROVE  Framed(r)
<1>1. CASE r \in ConnectRequests
  <2> DEFINE n == MQTTSerialize_connectLength(r)
             h == MQTTHeader("CONNECT", 0, 0, 0)
             fields == Protocol(r.version) \o <<MQTTConnectFlags(r)>> \o writeInt(r.keepAliveInterval)
                         \o writeAll(<<r.clientID>> \o WillStrings(r) \o r.username \o r.password)
  <2>1. r.op = "CONNECT"
    BY <1>1 DEF ConnectRequests
  <2>2. n \in Nat /\ fields \in Strings /\ Len(fields) = n
    BY <1>1, ConnectFields DEF Text
  <2>3. h \in Nat
    BY Header DEF msgTypes
  <2>4. \A b \in Nat : Serialized(r, b) = InBuffer(b, n, Written(h, n, fields))
    BY <2>1, Zenon DEF Serialized, MQTTSerialize_connect
  <2> HIDE DEF n, h, fields
  <2> QED BY <2>2, <2>3, <2>4 DEF Framed
<1>2. CASE r \in SubscribeRequests
  <2> DEFINE n == MQTTSerialize_subscribeLength(r.filters)
             h == MQTTHeader("SUBSCRIBE", 0, 1, 0)
             written == FlattenSeq([i \in DOMAIN r.filters |-> writeMQTTString(r.filters[i]) \o <<r.qos[i]>>])
             fields == writeInt(r.id) \o written
  <2>1. r.op = "SUBSCRIBE" /\ r.id \in Nat /\ r.filters \in Seq(Strings) /\ r.qos \in Seq(0..2)
    BY <1>2 DEF SubscribeRequests, Shorts
  <2>2. n \in Nat /\ fields \in Strings /\ Len(fields) = n
    <3>1. Text(writeInt(r.id), 2)
      BY <2>1, TextInt
    <3>2. Text(written, lengthAll(r.filters) + Len(r.filters))
      BY <2>1, TextFilters
    <3>3. Text(fields, 2 + (lengthAll(r.filters) + Len(r.filters)))
      BY <3>1, <3>2, TextConcat
    <3>4. lengthAll(r.filters) \in Nat /\ Len(r.filters) \in Nat
      BY <2>1, TextAll
    <3>5. n = 2 + lengthAll(r.filters) + Len(r.filters)
      BY DEF MQTTSerialize_subscribeLength
    <3> HIDE DEF n, fields
    <3>6. n = 2 + (lengthAll(r.filters) + Len(r.filters))
      BY <3>4, <3>5
    <3> QED BY <3>3, <3>6 DEF Text
  <2>3. h \in Nat
    BY Header DEF msgTypes
  <2>4. \A b \in Nat : Serialized(r, b) = InBuffer(b, n, Written(h, n, fields))
    <3>1. Serialized(r, 0) = Serialized(r, 0)
      OBVIOUS
    <3>2. ASSUME NEW b \in Nat PROVE Serialized(r, b) = MQTTSerialize_subscribe(b, 0, r.id, r.filters, r.qos)
      BY <2>1 DEF Serialized
    <3> QED BY <3>2, Zenon DEF MQTTSerialize_subscribe
  <2> HIDE DEF n, h, fields
  <2> QED BY <2>2, <2>3, <2>4 DEF Framed
<1>3. CASE r \in UnsubscribeRequests
  <2> DEFINE n == MQTTSerialize_unsubscribeLength(r.filters)
             h == MQTTHeader("UNSUBSCRIBE", 0, 1, 0)
             fields == writeInt(r.id) \o writeAll(r.filters)
  <2>1. r.op = "UNSUBSCRIBE" /\ r.id \in Nat /\ r.filters \in Seq(Strings)
    BY <1>3 DEF UnsubscribeRequests, Shorts
  <2>2. n \in Nat /\ fields \in Strings /\ Len(fields) = n
    <3>1. Text(fields, 2 + lengthAll(r.filters))
      BY <2>1, TextInt, TextAll, TextConcat
    <3> QED BY <3>1 DEF Text, MQTTSerialize_unsubscribeLength
  <2>3. h \in Nat
    BY Header DEF msgTypes
  <2>4. \A b \in Nat : Serialized(r, b) = InBuffer(b, n, Written(h, n, fields))
    <3>1. ASSUME NEW b \in Nat PROVE Serialized(r, b) = MQTTSerialize_unsubscribe(b, 0, r.id, r.filters)
      BY <2>1 DEF Serialized
    <3> QED BY <3>1, Zenon DEF MQTTSerialize_unsubscribe
  <2> HIDE DEF n, h, fields
  <2> QED BY <2>2, <2>3, <2>4 DEF Framed
<1>4. CASE r \in PublishRequests
  <2> DEFINE n == MQTTSerialize_publishLength(r)
             h == MQTTHeader("PUBLISH", r.dup, r.qos, r.retained)
             fields == writeMQTTString(r.topicName) \o (IF r.qos > 0 THEN writeInt(r.id) ELSE <<>>) \o r.payload
  <2>1. /\ r.op = "PUBLISH" /\ r.id \in Shorts /\ r.topicName \in Strings /\ r.payload \in Strings
        /\ r.qos \in 0..2 /\ r.dup \in 0..1 /\ r.retained \in 0..1
    BY <1>4 DEF PublishRequests
  <2>2. n \in Nat /\ fields \in Strings /\ Len(fields) = n
    BY <2>1, PublishFields DEF Text
  <2>3. h \in Nat
    <3>1. "PUBLISH" \in DOMAIN msgTypes
      BY DEF msgTypes
    <3> QED BY <2>1, <3>1, Header
  <2>4. \A b \in Nat : Serialized(r, b) = InBuffer(b, n, Written(h, n, fields))
    <3>1. ASSUME NEW b \in Nat PROVE Serialized(r, b) = MQTTSerialize_publish(b, r)
      BY <2>1 DEF Serialized
    <3> QED BY <3>1, Zenon DEF MQTTSerialize_publish
  <2> HIDE DEF n, h, fields
  <2> QED BY <2>2, <2>3, <2>4 DEF Framed
<1>5. CASE r \in AckRequests
  <2> DEFINE h == MQTTHeader(r.op, 0, IF r.op = "PUBREL" THEN 1 ELSE 0, 0)
             fields == writeInt(r.id)
             packet == Written(h, 2, fields)
  <2>1. r.op \in {"PUBACK", "PUBREC", "PUBREL", "PUBCOMP"} /\ r.id \in Nat
    BY <1>5 DEF AckRequests, Shorts
  <2>2. fields \in Strings /\ Len(fields) = 2
    BY <2>1, TextInt DEF Text
  <2>3. h \in Nat
    <3>1. r.op \in DOMAIN msgTypes
      BY <2>1 DEF msgTypes
    <3> QED BY <3>1, Header
  <2>4. Len(packet) = 4
    <3> HIDE DEF h, fields
    <3>1. 2 \in Remaining /\ Size(2) = 4
      BY SMT DEF Remaining, Size, LengthBytes
    <3> QED BY <2>2, <2>3, <3>1, WrittenPacket
  <2>5. ASSUME NEW b \in Nat PROVE Serialized(r, b) = InBuffer(b, 2, packet)
    <3>1. Serialized(r, b) = MQTTSerialize_ack(b, r.op, 0, r.id)
      BY <2>1 DEF Serialized
    <3>2. MQTTSerialize_ack(b, r.op, 0, r.id) =
            IF b < 4 THEN [rc |-> BUFFER_TOO_SHORT, bytes |-> <<>>] ELSE [rc |-> 4, bytes |-> packet]
      BY Zenon DEF MQTTSerialize_ack
    <3> HIDE DEF packet
    <3>3. MQTTPacket_len(2) = 4
      BY SMT DEF MQTTPacket_len
    <3>4. InBuffer(b, 2, packet) =
            IF b < 4 THEN [rc |-> BUFFER_TOO_SHORT, bytes |-> <<>>] ELSE [rc |-> 4, bytes |-> packet]
      BY <2>4, <3>3 DEF InBuffer
    <3> QED BY <3>1, <3>2, <3>4
  <2> HIDE DEF h, fields
  <2> QED BY <2>2, <2>3, <2>5 DEF Framed
<1>6. CASE r \in ZeroRequests
  <2> DEFINE h == MQTTHeader(r.op, 0, 0, 0)
             packet == Written(h, 0, <<>>)
  <2>1. r.op \in {"PINGREQ", "DISCONNECT"}
    BY <1>6 DEF ZeroRequests
  <2>2. <<>> \in Strings /\ Len(<<>>) = 0
    BY TextEmpty DEF Text
  <2>3. h \in Nat
    <3>1. r.op \in DOMAIN msgTypes
      BY <2>1 DEF msgTypes
    <3> QED BY <3>1, Header
  <2>4. Len(packet) = 2
    <3> HIDE DEF h
    <3>1. 0 \in Remaining /\ Size(0) = 2
      BY SMT DEF Remaining, Size, LengthBytes
    <3> QED BY <2>2, <2>3, <3>1, WrittenPacket
  <2>5. ASSUME NEW b \in Nat PROVE Serialized(r, b) = InBuffer(b, 0, packet)
    <3>1. Serialized(r, b) = MQTTSerialize_zero(b, r.op)
      BY <2>1 DEF Serialized
    <3>2. MQTTSerialize_zero(b, r.op) =
            IF b < 2 THEN [rc |-> BUFFER_TOO_SHORT, bytes |-> <<>>] ELSE [rc |-> 2, bytes |-> packet]
      BY Zenon DEF MQTTSerialize_zero
    <3> HIDE DEF packet
    <3>3. MQTTPacket_len(0) = 2
      BY SMT DEF MQTTPacket_len
    <3>4. InBuffer(b, 0, packet) =
            IF b < 2 THEN [rc |-> BUFFER_TOO_SHORT, bytes |-> <<>>] ELSE [rc |-> 2, bytes |-> packet]
      BY <2>4, <3>3 DEF InBuffer
    <3> QED BY <3>1, <3>2, <3>4
  <2> HIDE DEF h
  <2> QED BY <2>2, <2>3, <2>5 DEF Framed
<1> QED BY <1>1, <1>2, <1>3, <1>4, <1>5, <1>6 DEF RequestTypes

(* The request whose outcome is remembered is one the client made, and the     *)
(* outcome is that of serializing it.                                          *)
Remembered == out.request.op # "none" =>
                out.request \in AppRequests /\ out.result = Serialized(out.request, BufLen)

(* The last request and its bytes are remembered: initially there are none,    *)
LEMMA RememberedInit == StreamInit => Remembered
BY DEF StreamInit, Remembered

(* a step that serializes a request keeps what it has returned,                *)
LEMMA RememberedNext == Remembered /\ [StreamNext]_streamVars => Remembered'
<1> SUFFICES ASSUME Remembered, [StreamNext]_streamVars PROVE Remembered'
  OBVIOUS
<1>1. ASSUME NEW r \in AppRequests, Ask(r) PROVE Remembered'
  <2>1. out' = [request |-> r, result |-> Serialized(r, BufLen)]
    BY <1>1, Zenon DEF Ask
  <2> QED BY <2>1 DEF Remembered
<1>2. out' = [request |-> [op |-> "none"]] => Remembered'
  BY DEF Remembered
<1>3. ASSUME NEW m \in Messages, Publish(m) PROVE Remembered'
  BY <1>2, <1>3 DEF Publish
<1>4. CASE Arrive
  BY <1>2, <1>4 DEF Arrive, Deliver
<1>5. CASE Read
  <2>1. UNCHANGED out
    BY <1>5, Zenon DEF Read, ReadHeader, TooManyBytes, ReadLength, NoLengthByte, ReadSome, ReadRest, RestMissing
  <2> QED BY <2>1 DEF Remembered
<1>6. CASE UNCHANGED streamVars
  BY <1>6 DEF streamVars, Remembered
<1> QED BY <1>1, <1>3, <1>4, <1>5, <1>6 DEF StreamNext

(* and what it has returned fits.                                              *)
LEMMA RememberedFits == Remembered => RequestFits
<1> SUFFICES ASSUME Remembered, out.request.op # "none"
             PROVE  Fits(out.result, Serialized(out.request, Unlimited).rc, BufLen)
  BY Zenon DEF RequestFits, Fits
<1> DEFINE r == out.request
<1>1. r \in AppRequests /\ out.result = Serialized(r, BufLen)
  BY DEF Remembered
<1>2. r \in RequestTypes /\ (r.op = "SUBSCRIBE" => Len(r.qos) = Len(r.filters)) /\ Serialized(r, Unlimited).rc > 0
  BY <1>1, RequestsAreSane
<1> HIDE DEF r
<1>3. Framed(r)
  BY <1>2, RequestsFramed
<1>4. BufLen \in Nat
  BY StreamAssumption
<1>5. Fits(Serialized(r, BufLen), Serialized(r, Unlimited).rc, BufLen)
  BY <1>2, <1>3, <1>4, FramedFits
<1> QED BY <1>1, <1>5 DEF r

(* Whatever the client asks and however large its buffer is, a request it sends*)
(* announces the bytes that follow and fits, and one it refuses would not have *)
(* fitted but for the overestimate of MQTTPacket_len at the boundaries of the  *)
(* length (MQTTSerialize*.c).                                                  *)
THEOREM RequestsFit == StreamSpec => []RequestFits
BY RememberedInit, RememberedNext, RememberedFits, PTL DEF StreamSpec

-----------------------------------------------------------------------------
(* Pieces of strings.                                                          *)

Drop(s, k) == SubSeq(s, k + 1, Len(s))

(* The bytes k + 1 to m of a string.                                           *)
LEMMA SubSeqIs ==
  ASSUME NEW s \in Strings, NEW k \in Nat, NEW m \in Nat, k <= m, m <= Len(s)
  PROVE  /\ SubSeq(s, k + 1, m) \in Strings
         /\ Len(SubSeq(s, k + 1, m)) = m - k
         /\ \A i \in 1..(m - k) : SubSeq(s, k + 1, m)[i] = s[k + i]
<1>1. s \in Seq(Nat) /\ Len(s) \in Nat /\ \A i \in 1..Len(s) : s[i] \in Nat
  BY DEF Strings
<1>2. \A i \in (k + 1)..m : s[i] \in Nat
  BY <1>1
<1> DEFINE t == SubSeq(s, k + 1, m)
<1>3. /\ t \in Seq(Nat) /\ Len(t) = (IF k + 1 <= m THEN m - (k + 1) + 1 ELSE 0)
      /\ \A i \in 1..(m - (k + 1) + 1) : t[i] = s[(k + 1) + i - 1]
  BY <1>2, SubSeqProperties
<1> HIDE DEF t
<1>4. Len(t) = m - k
  BY <1>3
<1>5. m - (k + 1) + 1 = m - k /\ \A i \in 1..(m - k) : (k + 1) + i - 1 = k + i
  OBVIOUS
<1>6. \A i \in 1..(m - k) : t[i] = s[k + i]
  BY <1>3, <1>5
<1> QED BY <1>3, <1>4, <1>6 DEF t, Strings

(* A string without its first k bytes.                                         *)
LEMMA DropIs ==
  ASSUME NEW s \in Strings, NEW k \in Nat, k <= Len(s)
  PROVE  /\ Drop(s, k) \in Strings /\ Len(Drop(s, k)) = Len(s) - k
         /\ \A i \in 1..(Len(s) - k) : Drop(s, k)[i] = s[k + i]
<1>1. Len(s) \in Nat
  BY DEF Strings
<1> QED BY <1>1, SubSeqIs DEF Drop

(* Strings are equal when their bytes are.                                     *)
LEMMA SameString ==
  ASSUME NEW s \in Strings, NEW t \in Strings, Len(s) = Len(t), \A i \in 1..Len(s) : s[i] = t[i]
  PROVE  s = t
BY SeqEqual DEF Strings

(* The bytes of two strings in a row.                                          *)
LEMMA ConcatIs ==
  ASSUME NEW s \in Strings, NEW t \in Strings
  PROVE  /\ s \o t \in Strings /\ Len(s \o t) = Len(s) + Len(t) /\ Len(s) \in Nat /\ Len(t) \in Nat
         /\ \A i \in 1..Len(s) : (s \o t)[i] = s[i]
         /\ \A i \in 1..Len(t) : (s \o t)[Len(s) + i] = t[i]
BY DEF Strings

(* The first m bytes of a string.                                              *)
LEMMA Prefix ==
  ASSUME NEW s \in Strings, NEW m \in Nat, m <= Len(s)
  PROVE  /\ SubSeq(s, 1, m) \in Strings /\ Len(SubSeq(s, 1, m)) = m
         /\ \A i \in 1..m : SubSeq(s, 1, m)[i] = s[i]
<1> DEFINE t == SubSeq(s, 1, m)
<1>1. t \in Strings /\ Len(t) = m - 0 /\ \A i \in 1..(m - 0) : t[i] = s[0 + i]
  <2>1. 0 + 1 = 1 /\ 0 <= m
    OBVIOUS
  <2>2. /\ SubSeq(s, 0 + 1, m) \in Strings /\ Len(SubSeq(s, 0 + 1, m)) = m - 0
        /\ \A i \in 1..(m - 0) : SubSeq(s, 0 + 1, m)[i] = s[0 + i]
    BY <2>1, SubSeqIs
  <2> QED BY <2>1, <2>2
<1> HIDE DEF t
<1>2. m - 0 = m /\ \A i \in 1..m : 0 + i = i
  OBVIOUS
<1> QED BY <1>1, <1>2 DEF t

(* The first m bytes behind the first k.                                       *)
LEMMA TakeOfDrop ==
  ASSUME NEW s \in Strings, NEW k \in Nat, NEW m \in Nat, k + m <= Len(s)
  PROVE  SubSeq(Drop(s, k), 1, m) = SubSeq(s, k + 1, k + m)
<1> DEFINE d == Drop(s, k)
           n == Len(s)
<1>1. n \in Nat /\ k <= n /\ m <= n - k /\ k <= k + m /\ k + m \in Nat
  BY DEF Strings
<1>2. /\ d \in Strings /\ Len(d) = n - k
      /\ \A i \in 1..(n - k) : d[i] = s[k + i]
  BY <1>1, DropIs
<1> DEFINE a == SubSeq(d, 1, m)
           b == SubSeq(s, k + 1, k + m)
<1> HIDE DEF d, n
<1>3. a \in Strings /\ Len(a) = m /\ \A i \in 1..m : a[i] = d[i]
  BY <1>1, <1>2, Prefix
<1>4. b \in Strings /\ Len(b) = (k + m) - k /\ \A i \in 1..((k + m) - k) : b[i] = s[k + i]
  BY <1>1, SubSeqIs DEF n
<1>5. (k + m) - k = m
  OBVIOUS
<1> HIDE DEF a, b
<1>6. \A i \in 1..m : a[i] = b[i]
  BY <1>1, <1>2, <1>3, <1>4, <1>5
<1>7. a = b
  BY <1>3, <1>4, <1>5, <1>6, SameString
<1> QED BY <1>7 DEF a, b, d

(* To drop k bytes and then m is to drop k + m.                                *)
LEMMA DropOfDrop ==
  ASSUME NEW s \in Strings, NEW k \in Nat, NEW m \in Nat, k + m <= Len(s)
  PROVE  Drop(Drop(s, k), m) = Drop(s, k + m)
<1> DEFINE d == Drop(s, k)
           n == Len(s)
           a == Drop(d, m)
           b == Drop(s, k + m)
<1>1. n \in Nat /\ k <= n /\ m <= n - k /\ k + m \in Nat
  BY DEF Strings
<1>2. /\ d \in Strings /\ Len(d) = n - k
      /\ \A i \in 1..(n - k) : d[i] = s[k + i]
  BY <1>1, DropIs
<1> HIDE DEF d
<1>3. a \in Strings /\ Len(a) = (n - k) - m /\ \A i \in 1..((n - k) - m) : a[i] = d[m + i]
  BY <1>1, <1>2, DropIs, SMTT(30)
<1>4. b \in Strings /\ Len(b) = n - (k + m) /\ \A i \in 1..(n - (k + m)) : b[i] = s[(k + m) + i]
  BY <1>1, DropIs
<1> HIDE DEF a, b, n
<1>5. (n - k) - m = n - (k + m)
  BY <1>1
<1>6. ASSUME NEW i \in 1..Len(a) PROVE a[i] = b[i]
  <2>1. i \in 1..((n - k) - m) /\ i \in 1..(n - (k + m)) /\ m + i \in 1..(n - k) /\ k + (m + i) = (k + m) + i
    BY <1>1, <1>3, <1>5
  <2>2. a[i] = d[m + i] /\ b[i] = s[(k + m) + i] /\ d[m + i] = s[k + (m + i)]
    BY <1>2, <1>3, <1>4, <2>1
  <2> QED BY <2>1, <2>2
<1>7. a = b
  BY <1>3, <1>4, <1>5, <1>6, SameString
<1> QED BY <1>7 DEF a, b, d

(* What comes behind does not change what is dropped in front.                 *)
LEMMA DropConcat ==
  ASSUME NEW s \in Strings, NEW t \in Strings, NEW k \in Nat, k <= Len(s)
  PROVE  Drop(s \o t, k) = Drop(s, k) \o t
<1> DEFINE n == Len(s)
           l == Len(t)
           c == s \o t
           d == Drop(s, k)
           a == Drop(c, k)
           b == d \o t
<1>1. /\ n \in Nat /\ l \in Nat /\ c \in Strings /\ Len(c) = n + l
      /\ \A i \in 1..n : c[i] = s[i]
      /\ \A i \in 1..l : c[n + i] = t[i]
  BY ConcatIs
<1>2. d \in Strings /\ Len(d) = n - k /\ \A i \in 1..(n - k) : d[i] = s[k + i]
  BY DropIs
<1> HIDE DEF c, d
<1>3. a \in Strings /\ Len(a) = (n + l) - k /\ \A i \in 1..((n + l) - k) : a[i] = c[k + i]
  <2>1. k <= Len(c)
    BY <1>1
  <2> QED BY <1>1, <2>1, DropIs, SMTT(30)
<1>4. /\ b \in Strings /\ Len(b) = (n - k) + l
      /\ \A i \in 1..(n - k) : b[i] = d[i]
      /\ \A i \in 1..l : b[(n - k) + i] = t[i]
  <2>1. /\ b \in Strings /\ Len(b) = Len(d) + l
        /\ \A i \in 1..Len(d) : b[i] = d[i]
        /\ \A i \in 1..l : b[Len(d) + i] = t[i]
    BY <1>2, ConcatIs
  <2> HIDE DEF b, n, l
  <2> QED BY <1>2, <2>1
<1> HIDE DEF a, b, n, l
<1>5. (n + l) - k = (n - k) + l
  BY <1>1
<1>6. ASSUME NEW i \in 1..Len(a) PROVE a[i] = b[i]
  <2>1. i \in 1..((n + l) - k) /\ a[i] = c[k + i]
    BY <1>3
  <2>2. CASE i <= n - k
    <3>1. i \in 1..(n - k) /\ k + i \in 1..n
      BY <1>1, <2>1, <2>2
    <3> QED BY <1>1, <1>2, <1>4, <2>1, <3>1
  <2>3. CASE i > n - k
    <3> DEFINE j == i - (n - k)
    <3>1. j \in 1..l /\ i = (n - k) + j /\ k + i = n + j
      BY <1>1, <2>1, <2>3
    <3> HIDE DEF j
    <3> QED BY <1>1, <1>4, <2>1, <3>1
  <2>4. k <= n
    BY DEF n
  <2> QED BY <1>1, <2>1, <2>2, <2>3, <2>4
<1>7. a = b
  BY <1>3, <1>4, <1>5, <1>6, SameString
<1> QED BY <1>7 DEF a, b, c, d

(* To drop all and to drop nothing.                                            *)
LEMMA DropAll ==
  ASSUME NEW s \in Strings, NEW t \in Strings
  PROVE  Drop(s \o t, Len(s)) = t /\ Drop(s, 0) = s /\ Drop(s, Len(s)) = <<>> /\ <<>> \o t = t
<1>1. s \in Seq(Nat) /\ t \in Seq(Nat) /\ Len(s) \in Nat
  BY DEF Strings
<1>2. Drop(s, Len(s)) = <<>>
  BY <1>1, SubSeqEmpty DEF Drop
<1>3. Drop(s, 0) = s
  BY <1>1, SubSeqFull DEF Drop
<1>4. Drop(s \o t, Len(s)) = Drop(s, Len(s)) \o t
  <2>1. Len(s) <= Len(s)
    BY <1>1
  <2> QED BY <1>1, <2>1, DropConcat
<1>5. <<>> \o t = t
  BY <1>1, ConcatEmptySeq
<1> QED BY <1>2, <1>3, <1>4, <1>5

(* Two pieces of a string in a row are a piece of it.                          *)
LEMMA Adjacent ==
  ASSUME NEW s \in Strings, NEW k \in Nat, NEW m \in Nat, k <= m, m <= Len(s)
  PROVE  SubSeq(s, 1, k) \o SubSeq(s, k + 1, m) = SubSeq(s, 1, m)
<1>1. s \in Seq(Nat) /\ Len(s) \in Nat
  BY DEF Strings
<1>2. 1 \in 1..(Len(s) + 1) /\ k \in (1 - 1)..Len(s) /\ m \in k..Len(s)
  BY <1>1
<1> QED BY <1>1, <1>2, ConcatAdjacentSubSeq

-----------------------------------------------------------------------------
(* The packets of the broker.                                                  *)

(* What the broker may send.                                                   *)
Connacks == [type : {"CONNACK"}, connackRc : {0, 5}]
Subacks  == [type : {"SUBACK"}, id : Shorts, grantedQoSs : {<<0>>, <<128>>}]
Acks     == [type : {"UNSUBACK", "PUBACK"}, id : Shorts]
Pingresps == [type : {"PINGRESP"}]
BrokerPackets == Connacks \cup Subacks \cup Acks \cup Pingresps \cup Messages

(* A packet with its header, its length and its fields.                        *)
Shape(b, header, fields) ==
  /\ header \in Nat /\ fields \in Strings /\ Len(fields) \in Remaining
  /\ b = Written(header, Len(fields), fields) /\ Size(Len(fields)) <= BufLen

(* A length below 128 takes one byte.                                          *)
LEMMA EncodeSmall ==
  ASSUME NEW n \in 0..127
  PROVE  MQTTPacket_encode(n) = <<n>> /\ n \in Remaining /\ LengthBytes(n) = 1 /\ Size(n) = n + 2
<1>1. n \in Remaining /\ LengthBytes(n) = 1 /\ Size(n) = n + 2
  BY SMT DEF Remaining, LengthBytes, Size
<1> DEFINE e == MQTTPacket_encode(n)
<1>2. e \in Strings /\ Len(e) = 1
  BY <1>1, Encoded
<1>3. e[1] = n
  <2>1. e[1] = SevenBits(n, 1)
    <3>1. e[1] = SevenBits(n, 1) + (IF 1 < LengthBytes(n) THEN 128 ELSE 0)
      BY <1>1 DEF MQTTPacket_encode
    <3>2. SevenBits(n, 1) \in Int
      BY Powers DEF SevenBits
    <3> HIDE DEF e
    <3> QED BY <1>1, <3>1, <3>2
  <2>2. SevenBits(n, 1) = (n \div 1) % 128
    BY Powers DEF SevenBits
  <2>3. (n \div 1) % 128 = n
    BY SMT
  <2> QED BY <2>1, <2>2, <2>3
<1> HIDE DEF e
<1>4. e = <<n>>
  BY <1>2, <1>3 DEF Strings
<1> QED BY <1>1, <1>4 DEF e

(* A packet of at most three bytes of fields.                                  *)
LEMMA SmallShape ==
  ASSUME NEW header \in Nat, NEW fields, NEW n \in 0..3, Text(fields, n)
  PROVE  Shape(<<header, n>> \o fields, header, fields)
<1>1. n \in 0..127
  OBVIOUS
<1>2. MQTTPacket_encode(n) = <<n>> /\ n \in Remaining /\ Size(n) = n + 2
  BY <1>1, EncodeSmall
<1>3. Written(header, n, fields) = <<header, n>> \o fields
  <2>1. Written(header, n, fields) = <<header>> \o <<n>> \o fields
    BY <1>2 DEF Written
  <2>2. <<header>> \o <<n>> = <<header, n>>
    <3> DEFINE a == <<header>>
               b == <<n>>
               c == <<header, n>>
    <3>1. a \in Strings /\ Len(a) = 1 /\ a[1] = header /\ b \in Strings /\ Len(b) = 1 /\ b[1] = n
      BY DEF Strings
    <3>2. c \in Strings /\ Len(c) = 2 /\ c[1] = header /\ c[2] = n
      BY DEF Strings
    <3> HIDE DEF a, b, c
    <3>3. /\ a \o b \in Strings /\ Len(a \o b) = 2 /\ (a \o b)[1] = header /\ (a \o b)[2] = n
      <4>1. /\ a \o b \in Strings /\ Len(a \o b) = Len(a) + Len(b)
            /\ \A i \in 1..Len(a) : (a \o b)[i] = a[i]
            /\ \A i \in 1..Len(b) : (a \o b)[Len(a) + i] = b[i]
        BY <3>1, ConcatIs
      <4>2. (a \o b)[1] = a[1] /\ (a \o b)[Len(a) + 1] = b[1]
        BY <3>1, <4>1
      <4> QED BY <3>1, <4>1, <4>2
    <3>4. \A i \in 1..2 : i = 1 \/ i = 2
      OBVIOUS
    <3>5. \A i \in 1..2 : (a \o b)[i] = c[i]
      BY <3>2, <3>3, <3>4
    <3>6. a \o b = c
      BY <3>2, <3>3, <3>5, SameString
    <3> QED BY <3>6 DEF a, b, c
  <2> QED BY <2>1, <2>2
<1>4. Size(n) <= BufLen
  <2>1. BufLen \in Nat /\ 5 <= BufLen
    BY StreamAssumption
  <2> QED BY <1>2, <2>1
<1> QED BY <1>2, <1>3, <1>4 DEF Shape, Text

(* BrokerBytes lays each packet of the broker out as header, length and fields:*)
(* a CONNACK,                                                                  *)
LEMMA ConnackShape ==
  ASSUME NEW p \in Connacks
  PROVE  Shape(BrokerBytes(p), 32, <<0, p.connackRc>>)
<1>1. p.type = "CONNACK" /\ p.connackRc \in Nat
  BY DEF Connacks
<1>2. BrokerBytes(p) = <<32, 2, 0, p.connackRc>>
  BY <1>1 DEF BrokerBytes
<1> DEFINE f == <<0, p.connackRc>>
<1>3. Text(f, 2)
  BY <1>1 DEF Text, Strings
<1>4. <<32, 2, 0, p.connackRc>> = <<32, 2>> \o f
  OBVIOUS
<1> HIDE DEF f
<1>5. Shape(<<32, 2>> \o f, 32, f)
  <2>1. 32 \in Nat /\ 2 \in 0..3
    OBVIOUS
  <2> QED BY <1>3, <2>1, SmallShape, Zenon
<1> QED BY <1>2, <1>4, <1>5 DEF f

(* an UNSUBACK or a PUBACK,                                                    *)
LEMMA AckShape ==
  ASSUME NEW p \in Acks
  PROVE  Shape(BrokerBytes(p), 16 * msgTypes[p.type], writeInt(p.id))
<1>1. p.type \in {"UNSUBACK", "PUBACK"} /\ p.id \in Nat
  BY DEF Acks, Shorts
<1> DEFINE h == 16 * msgTypes[p.type]
           f == writeInt(p.id)
<1>2. BrokerBytes(p) = <<h, 2>> \o f
  BY <1>1 DEF BrokerBytes
<1>3. h \in Nat
  BY <1>1 DEF msgTypes
<1>4. Text(f, 2)
  BY <1>1, TextInt
<1> HIDE DEF h, f
<1>5. Shape(<<h, 2>> \o f, h, f)
  <2>1. 2 \in 0..3
    OBVIOUS
  <2> QED BY <1>3, <1>4, <2>1, SmallShape, Zenon
<1> QED BY <1>2, <1>5 DEF h, f

(* a SUBACK,                                                                   *)
LEMMA SubackShape ==
  ASSUME NEW p \in Subacks
  PROVE  Shape(BrokerBytes(p), 144, writeInt(p.id) \o p.grantedQoSs)
<1>1. p.type = "SUBACK" /\ p.id \in Nat /\ p.grantedQoSs \in {<<0>>, <<128>>}
  BY DEF Subacks, Shorts
<1> DEFINE g == p.grantedQoSs
           w == writeInt(p.id)
           f == w \o g
<1>2. Text(g, 1) /\ Text(w, 2)
  BY <1>1, TextByte, TextInt
<1>3. BrokerBytes(p) = <<144, 2 + Len(g)>> \o w \o g
  BY <1>1 DEF BrokerBytes
<1> HIDE DEF g, w
<1>4. Text(f, 3)
  <2>1. Text(f, 2 + 1)
    BY <1>2, TextConcat
  <2> QED BY <2>1
<1>5. (<<144, 3>> \o w) \o g = <<144, 3>> \o f
  BY <1>2, ConcatAssociative DEF Text, Strings
<1>6. BrokerBytes(p) = <<144, 3>> \o f
  BY <1>2, <1>3, <1>5 DEF Text
<1> HIDE DEF f
<1>7. Shape(<<144, 3>> \o f, 144, f)
  <2>1. 144 \in Nat /\ 3 \in 0..3
    OBVIOUS
  <2> QED BY <1>4, <2>1, SmallShape, Zenon
<1> QED BY <1>6, <1>7 DEF f, g, w

(* a PINGRESP,                                                                 *)
LEMMA PingrespShape ==
  ASSUME NEW p \in Pingresps
  PROVE  Shape(BrokerBytes(p), 208, <<>>)
<1>1. BrokerBytes(p) = <<208, 0>>
  BY DEF BrokerBytes, Pingresps
<1>2. <<208, 0>> \o <<>> = <<208, 0>>
  OBVIOUS
<1>3. Text(<<>>, 0)
  BY TextEmpty
<1>4. Shape(<<208, 0>> \o <<>>, 208, <<>>)
  <2>1. 208 \in Nat /\ 0 \in 0..3
    OBVIOUS
  <2> QED BY <1>3, <2>1, SmallShape, Zenon
<1> QED BY <1>1, <1>2, <1>4

MessageFields(m) == writeMQTTString(m.topicName) \o (IF m.qos > 0 THEN writeInt(m.id) ELSE <<>>) \o m.payload

(* The types of a publication.                                                 *)
LEMMA MessageTypes ==
  ASSUME NEW m \in Messages
  PROVE  /\ m.type = "PUBLISH" /\ m.qos \in 0..2 /\ m.dup \in 0..1 /\ m.retained \in 0..1 /\ m.id \in Shorts
         /\ m.topicName \in Strings /\ m.payload \in Strings /\ Len(m.topicName) <= 65535
         /\ m = [type |-> "PUBLISH", qos |-> m.qos, dup |-> m.dup, retained |-> m.retained,
                 id |-> m.id, topicName |-> m.topicName, payload |-> m.payload]
         /\ m.qos = 0 => m.id = 0
<1>1. /\ m \in [type : {"PUBLISH"}, qos : 0..2, dup : 0..1, retained : 0..1, id : Shorts,
                topicName : Strings, payload : Strings]
      /\ Len(m.topicName) <= 65535 /\ (m.qos = 0 => m.id = 0)
  BY MessagesFit, SMT
<1>2. m.type = "PUBLISH" /\ m.qos \in 0..2 /\ m.dup \in 0..1 /\ m.retained \in 0..1 /\ m.id \in Shorts
  BY <1>1
<1>3. m.topicName \in Strings /\ m.payload \in Strings
  BY <1>1
<1> QED BY <1>1, <1>2, <1>3

(* and a publication, which MessagesFit says fits the buffer.                  *)
LEMMA MessageShape ==
  ASSUME NEW m \in Messages
  PROVE  Shape(BrokerBytes(m), MQTTHeader("PUBLISH", m.dup, m.qos, m.retained), MessageFields(m))
<1> DEFINE h == MQTTHeader("PUBLISH", m.dup, m.qos, m.retained)
           f == MessageFields(m)
           n == MQTTSerialize_publishLength(m)
<1>1. f \in Strings /\ Len(f) = n /\ n \in Nat
  <2>1. m.topicName \in Strings /\ m.payload \in Strings /\ m.qos \in 0..2 /\ m.id \in Shorts
    BY MessageTypes
  <2>2. Text(f, n)
    BY <2>1, PublishFields, Zenon DEF MessageFields
  <2> HIDE DEF f, n
  <2> QED BY <2>2 DEF Text
<1>2. h \in Nat
  <2>1. "PUBLISH" \in DOMAIN msgTypes
    BY DEF msgTypes
  <2>2. m.qos \in 0..2 /\ m.dup \in 0..1 /\ m.retained \in 0..1
    BY MessageTypes
  <2> QED BY <2>1, <2>2, Header
<1>3. MQTTSerialize_publish(BufLen, m) = InBuffer(BufLen, n, Written(h, n, f))
  BY Zenon DEF MQTTSerialize_publish, MessageFields
<1>4. BrokerBytes(m) = MQTTSerialize_publish(BufLen, m).bytes
  BY MessageTypes DEF BrokerBytes
<1> HIDE DEF h, f, n
<1>5. MQTTSerialize_publish(BufLen, m).rc > 0
  BY MessagesFit
<1>6. BrokerBytes(m) = Written(h, n, f) /\ ~(MQTTPacket_len(n) > BufLen)
  BY <1>3, <1>4, <1>5 DEF InBuffer, BUFFER_TOO_SHORT
<1>7. /\ MQTTPacket_len(n) \in Nat /\ Size(n) \in Nat /\ Size(n) <= MQTTPacket_len(n)
      /\ n < 268435456 <=> MQTTPacket_len(n) <= Unlimited
  BY <1>1, Estimate
<1>8. BufLen \in Nat /\ BufLen <= Unlimited /\ Unlimited \in Nat
  BY StreamAssumption, SMT DEF Unlimited
<1>9. n \in Remaining /\ Size(n) <= BufLen
  <2>1. MQTTPacket_len(n) <= BufLen
    BY <1>6, <1>7, <1>8
  <2>2. MQTTPacket_len(n) <= Unlimited /\ Size(n) <= BufLen
    BY <2>1, <1>7, <1>8
  <2> QED BY <1>1, <1>7, <2>2, SMT DEF Remaining
<1> QED BY <1>1, <1>2, <1>6, <1>9 DEF Shape, h, f

(* All of them.                                                                *)
LEMMA PacketShape ==
  ASSUME NEW p \in BrokerPackets
  PROVE  \E header, fields : Shape(BrokerBytes(p), header, fields)
<1>1. CASE p \in Connacks
  BY <1>1, ConnackShape
<1>2. CASE p \in Subacks
  BY <1>2, SubackShape
<1>3. CASE p \in Acks
  BY <1>3, AckShape
<1>4. CASE p \in Pingresps
  BY <1>4, PingrespShape
<1>5. CASE p \in Messages
  BY <1>5, MessageShape
<1> QED BY <1>1, <1>2, <1>3, <1>4, <1>5 DEF BrokerPackets

Value(p) == MQTTPacket_decode(Tail(BrokerBytes(p))).value
Fixed(p) == 1 + LengthBytes(Value(p))

(* What the readers find in a packet of a given shape.                         *)
Laid(b, header, fields, n, k, front) ==
  /\ b \in Strings /\ n \in Nat /\ n \in Remaining /\ k \in 1..4 /\ Len(b) = 1 + k + n /\ Len(b) <= BufLen
  /\ b[1] = header /\ header \in Nat /\ fields \in Strings
  /\ front = <<header>> \o MQTTPacket_encode(n) /\ b = front \o fields /\ front \in Strings /\ Len(front) = 1 + k
  /\ \A i \in 1..k : b[1 + i] = MQTTPacket_encode(n)[i]
  /\ \A i \in 1..n : b[1 + k + i] = fields[i]
  /\ MQTTPacket_decode(Tail(b)) = [value |-> n, len |-> k]

(* Where the parts of such a packet are.                                       *)
LEMMA ShapeIs ==
  ASSUME NEW b, NEW header, NEW fields, Shape(b, header, fields)
  PROVE  \E n, k, front : n = Len(fields) /\ k = LengthBytes(n) /\ Laid(b, header, fields, n, k, front)
<1> DEFINE n == Len(fields)
           k == LengthBytes(n)
           e == MQTTPacket_encode(n)
           h == <<header>>
<1>1. /\ header \in Nat /\ fields \in Strings /\ n \in Remaining
      /\ b = Written(header, n, fields) /\ Size(n) <= BufLen
  BY DEF Shape
<1>2. n \in Nat /\ k \in 1..4 /\ e \in Strings /\ Len(e) = k
  BY <1>1, Encoded DEF Strings
<1>3. h \in Strings /\ Len(h) = 1
  BY <1>1 DEF Strings
<1>4. /\ b \in Strings /\ Len(b) = Size(n) /\ b[1] = header
      /\ MQTTPacket_decode(Tail(b)) = [value |-> n, len |-> k]
  BY <1>1, WrittenPacket
<1>5. b = (h \o e) \o fields
  BY <1>1 DEF Written
<1> HIDE DEF h, e, k, n
<1>6. /\ h \o e \in Strings /\ Len(h \o e) = 1 + k
      /\ \A i \in 1..k : (h \o e)[1 + i] = e[i]
  <2>1. h \o e \in Strings /\ Len(h \o e) = Len(h) + Len(e) /\ \A i \in 1..Len(e) : (h \o e)[Len(h) + i] = e[i]
    BY <1>2, <1>3, ConcatIs
  <2> QED BY <1>2, <1>3, <2>1
<1>7. /\ \A i \in 1..(1 + k) : b[i] = (h \o e)[i]
      /\ \A i \in 1..n : b[(1 + k) + i] = fields[i]
  <2> DEFINE he == h \o e
  <2>1. he \in Strings /\ Len(he) = 1 + k
    BY <1>6
  <2> HIDE DEF he
  <2>2. /\ \A i \in 1..Len(he) : (he \o fields)[i] = he[i]
        /\ \A i \in 1..Len(fields) : (he \o fields)[Len(he) + i] = fields[i]
    BY <1>1, <2>1, ConcatIs
  <2> QED BY <1>5, <2>1, <2>2 DEF he, n
<1>8. \A i \in 1..k : b[1 + i] = e[i]
  <2>1. \A i \in 1..k : 1 + i \in 1..(1 + k)
    BY <1>2
  <2> QED BY <1>6, <1>7, <2>1
<1>9. Size(n) = 1 + k + n
  BY <1>2 DEF Size, k
<1> DEFINE front == h \o e
<1>10. n = Len(fields) /\ k = LengthBytes(n) /\ e = MQTTPacket_encode(n) /\ h = <<header>>
  BY DEF n, k, e, h
<1> HIDE DEF front
<1>11. Laid(b, header, fields, n, k, front)
  BY <1>1, <1>2, <1>4, <1>5, <1>6, <1>7, <1>8, <1>9, <1>10 DEF Laid, front
<1> QED BY <1>10, <1>11

(* Where the parts of a packet of the broker are.                              *)
LEMMA PacketIs ==
  ASSUME NEW p \in BrokerPackets
  PROVE  LET b == BrokerBytes(p)  n == Value(p)  k == LengthBytes(n)
         IN /\ b \in Strings /\ n \in Nat /\ n \in Remaining /\ k \in 1..4 /\ Len(b) = 1 + k + n /\ Len(b) <= BufLen
            /\ b[1] \in Nat /\ \A i \in 1..k : b[1 + i] = MQTTPacket_encode(n)[i]
            /\ SubSeq(b, 1, 1 + k) = <<b[1]>> \o MQTTPacket_encode(n)
            /\ MQTTPacket_decode(Tail(b)).len = k
<1> DEFINE b == BrokerBytes(p)
<1>1. PICK header, fields : Shape(b, header, fields)
  BY PacketShape
<1> HIDE DEF b
<1>2. PICK n, k, f : n = Len(fields) /\ k = LengthBytes(n) /\ Laid(b, header, fields, n, k, f)
  BY <1>1, ShapeIs
<1>3. Value(p) = n
  BY <1>2 DEF Value, b, Laid
<1>4. SubSeq(b, 1, 1 + k) = f
  <2>1. 1 + k \in Nat /\ 1 + k <= Len(b)
    BY <1>2 DEF Laid
  <2> DEFINE t == SubSeq(b, 1, 1 + k)
  <2>2. t \in Strings /\ Len(t) = 1 + k /\ \A i \in 1..(1 + k) : t[i] = b[i]
    BY <1>2, <2>1, Prefix DEF Laid
  <2>3. \A i \in 1..(1 + k) : b[i] = f[i]
    <3>1. f \in Strings /\ fields \in Strings /\ b = f \o fields /\ Len(f) = 1 + k
      BY <1>2 DEF Laid
    <3>2. \A i \in 1..Len(f) : (f \o fields)[i] = f[i]
      BY <3>1, ConcatIs
    <3> QED BY <3>1, <3>2
  <2> HIDE DEF t
  <2>4. t = f
    <3>1. f \in Strings /\ Len(f) = 1 + k
      BY <1>2 DEF Laid
    <3> QED BY <2>2, <2>3, <3>1, SameString
  <2> QED BY <2>4 DEF t
<1>5. f = <<b[1]>> \o MQTTPacket_encode(n)
  BY <1>2 DEF Laid
<1> QED BY <1>2, <1>3, <1>4, <1>5, SMTT(30) DEF b, Laid

-----------------------------------------------------------------------------
(* What is read out of a packet.                                               *)

(* Frame finds where the fields of a packet start and end.                     *)
LEMMA FrameIs ==
  ASSUME NEW b, NEW header, NEW fields, NEW n, NEW k, NEW front, Laid(b, header, fields, n, k, front)
  PROVE  /\ Frame(b) = [rc |-> k, start |-> 2 + k, end |-> 2 + k + n] /\ b # <<>>
         /\ n \in Nat /\ k \in 1..4 /\ b[1] = header
         /\ Frame(b).end - Frame(b).start = n /\ Frame(b).start = 2 + k /\ Frame(b).end = 2 + k + n
         /\ \A i \in 1..n : b[Frame(b).start + i - 1] = fields[i]
<1>1. MQTTPacket_decode(Tail(b)) = [value |-> n, len |-> k] /\ n \in Nat /\ k \in 1..4 /\ Len(b) = 1 + k + n
  BY DEF Laid
<1>2. Frame(b) = [rc |-> k, start |-> 2 + k, end |-> 2 + k + n]
  BY <1>1 DEF Frame
<1>3. b # <<>>
  BY <1>1
<1>4. Frame(b).end - Frame(b).start = n /\ Frame(b).start = 2 + k /\ Frame(b).end = 2 + k + n
  BY <1>1, <1>2
<1>5. \A i \in 1..n : b[Frame(b).start + i - 1] = fields[i]
  <2>1. \A i \in 1..n : b[1 + k + i] = fields[i]
    BY DEF Laid
  <2>2. \A i \in 1..n : Frame(b).start + i - 1 = 1 + k + i
    BY <1>1, <1>4
  <2> QED BY <2>1, <2>2
<1>6. b[1] = header
  BY DEF Laid
<1> QED BY <1>1, <1>2, <1>3, <1>4, <1>5, <1>6

(* The types of packets as numbers.                                            *)
LEMMA Types ==
  /\ msgTypes["CONNACK"] = 2 /\ msgTypes["PUBLISH"] = 3 /\ msgTypes["PUBACK"] = 4 /\ msgTypes["SUBACK"] = 9
  /\ msgTypes["UNSUBACK"] = 11 /\ msgTypes["PINGRESP"] = 13
BY DEF msgTypes

(* A 16-bit number is its two bytes.                                           *)
LEMMA IntSplit == ASSUME NEW n \in Nat, n < 65536 PROVE 256 * ((n \div 256) % 256) + (n % 256) = n
BY SMT

(* readInt reads what writeInt has written.                                    *)
LEMMA IntRoundTrip ==
  ASSUME NEW n \in Shorts, NEW b, NEW i \in Nat, b[i] = writeInt(n)[1], b[i + 1] = writeInt(n)[2]
  PROVE  readInt(b, i) = n
<1>1. n \in Nat /\ n < 65536
  BY DEF Shorts
<1>2. b[i] = (n \div 256) % 256 /\ b[i + 1] = n % 256
  BY DEF writeInt
<1>3. 256 * ((n \div 256) % 256) + (n % 256) = n
  BY <1>1, IntSplit, SMT
<1>4. readInt(b, i) = 256 * b[i] + b[i + 1]
  BY Zenon DEF readInt
<1> QED BY <1>2, <1>3, <1>4, SMT

(* What is read out of a packet is what was put in: a CONNACK,                 *)
LEMMA UnderstoodConnack ==
  ASSUME NEW p \in Connacks
  PROVE  Understood(BrokerBytes(p)) = p
<1> DEFINE b == BrokerBytes(p)
           f == <<0, p.connackRc>>
<1>1. Shape(b, 32, f)
  BY ConnackShape
<1>2. p = [type |-> "CONNACK", connackRc |-> p.connackRc] /\ Len(f) = 2
  BY DEF Connacks
<1>3. f[2] = p.connackRc
  OBVIOUS
<1> HIDE DEF b, f
<1>4. PICK n, k, front : n = Len(f) /\ k = LengthBytes(n) /\ Laid(b, 32, f, n, k, front)
  BY <1>1, ShapeIs
<1>5. /\ b # <<>> /\ b[1] = 32 /\ Frame(b).end - Frame(b).start = 2 /\ k \in 1..4 /\ Frame(b).start = 2 + k
      /\ b[Frame(b).start + 1] = p.connackRc
  <2>1. /\ b # <<>> /\ b[1] = 32 /\ Frame(b).end - Frame(b).start = n /\ k \in 1..4 /\ Frame(b).start = 2 + k
        /\ \A i \in 1..n : b[Frame(b).start + i - 1] = f[i]
    BY <1>4, FrameIs
  <2>2. b[Frame(b).start + 2 - 1] = f[2]
    BY <1>2, <1>4, <2>1
  <2>3. Frame(b).start + 2 - 1 = Frame(b).start + 1
    BY <2>1
  <2> QED BY <1>2, <1>3, <1>4, <2>1, <2>2, <2>3
<1>6. HeaderFields(b[1]).type = 2
  BY <1>5, SMT DEF HeaderFields
<1>7. MQTTDeserialize_connack(b).connackRc = p.connackRc
  BY <1>5, <1>6, Types DEF MQTTDeserialize_connack
<1>8. Understood(b) = [type |-> "CONNACK", connackRc |-> MQTTDeserialize_connack(b).connackRc]
  BY <1>5, <1>6, Types DEF Understood, ConnackIn
<1> QED BY <1>2, <1>7, <1>8 DEF b

(* a PINGRESP,                                                                 *)
LEMMA UnderstoodPingresp ==
  ASSUME NEW p \in Pingresps
  PROVE  Understood(BrokerBytes(p)) = p
<1> DEFINE b == BrokerBytes(p)
           f == <<>>
<1>1. Shape(b, 208, f)
  BY PingrespShape
<1>2. p = [type |-> "PINGRESP"]
  BY DEF Pingresps
<1> HIDE DEF b, f
<1>4. PICK n, k, front : n = Len(f) /\ k = LengthBytes(n) /\ Laid(b, 208, f, n, k, front)
  BY <1>1, ShapeIs
<1>5. b # <<>> /\ b[1] = 208
  BY <1>4, FrameIs
<1>6. HeaderFields(b[1]).type = 13
  BY <1>5, SMT DEF HeaderFields
<1>8. Understood(b) = [type |-> "PINGRESP"]
  BY <1>5, <1>6, Types DEF Understood
<1> QED BY <1>2, <1>8 DEF b

(* an UNSUBACK or a PUBACK,                                                    *)
LEMMA UnderstoodAck ==
  ASSUME NEW p \in Acks
  PROVE  Understood(BrokerBytes(p)) = p
<1> DEFINE b == BrokerBytes(p)
           f == writeInt(p.id)
           h == 16 * msgTypes[p.type]
<1>1. Shape(b, h, f)
  BY AckShape
<1>2. p = [type |-> p.type, id |-> p.id] /\ p.type \in {"UNSUBACK", "PUBACK"} /\ p.id \in Shorts
  BY DEF Acks
<1>3. Len(f) = 2
  BY <1>2, TextInt DEF Text, Shorts
<1> HIDE DEF b, f, h
<1>4. PICK n, k, front : n = Len(f) /\ k = LengthBytes(n) /\ Laid(b, h, f, n, k, front)
  BY <1>1, ShapeIs
<1>5. /\ b # <<>> /\ b[1] = h /\ Frame(b).end - Frame(b).start = 2 /\ Frame(b).start \in Nat
      /\ readInt(b, Frame(b).start) = p.id
  <2>1. /\ b # <<>> /\ b[1] = h /\ Frame(b).end - Frame(b).start = n /\ k \in 1..4 /\ Frame(b).start = 2 + k
        /\ \A i \in 1..n : b[Frame(b).start + i - 1] = f[i]
    BY <1>4, FrameIs
  <2> DEFINE s == Frame(b).start
  <2>2. b[s + 1 - 1] = f[1] /\ b[s + 2 - 1] = f[2]
    BY <1>3, <1>4, <2>1
  <2>3. s \in Nat /\ s + 2 - 1 = s + 1 /\ s + 1 - 1 = s
    BY <2>1
  <2>4. b[s] = writeInt(p.id)[1] /\ b[s + 1] = writeInt(p.id)[2]
    BY <2>2, <2>3 DEF f
  <2> HIDE DEF s
  <2>5. readInt(b, s) = p.id
    BY <1>2, <2>3, <2>4, IntRoundTrip
  <2> QED BY <1>3, <1>4, <2>1, <2>3, <2>5 DEF s
<1>6. CASE p.type = "UNSUBACK"
  <2>1. HeaderFields(b[1]).type = 11
    BY <1>5, <1>6, Types, SMT DEF HeaderFields, h
  <2>2. MQTTDeserialize_unsuback(b).id = p.id
    BY <1>5, <2>1, Types DEF MQTTDeserialize_unsuback, MQTTDeserialize_ack
  <2>3. Understood(b) = [type |-> "UNSUBACK", id |-> MQTTDeserialize_unsuback(b).id]
    BY <1>5, <2>1, Types DEF Understood, UnsubackIn
  <2> QED BY <1>2, <1>6, <2>2, <2>3 DEF b
<1>7. CASE p.type = "PUBACK"
  <2>1. HeaderFields(b[1]).type = 4
    BY <1>5, <1>7, Types, SMT DEF HeaderFields, h
  <2>2. MQTTDeserialize_ack(b).id = p.id
    BY <1>5 DEF MQTTDeserialize_ack
  <2>3. Understood(b) = [type |-> "PUBACK", id |-> MQTTDeserialize_ack(b).id]
    BY <1>5, <2>1, Types DEF Understood, PubackIn
  <2> QED BY <1>2, <1>7, <2>2, <2>3 DEF b
<1> QED BY <1>2, <1>6, <1>7

(* a SUBACK,                                                                   *)
LEMMA UnderstoodSuback ==
  ASSUME NEW p \in Subacks
  PROVE  Understood(BrokerBytes(p)) = p
<1> DEFINE b == BrokerBytes(p)
           w == writeInt(p.id)
           g == p.grantedQoSs
           f == w \o g
<1>1. Shape(b, 144, f)
  BY SubackShape
<1>2. /\ p = [type |-> "SUBACK", id |-> p.id, grantedQoSs |-> g] /\ p.id \in Shorts
      /\ g \in Strings /\ Len(g) = 1
  <2>1. p.type = "SUBACK" /\ p.id \in Shorts /\ g \in {<<0>>, <<128>>}
    BY DEF Subacks
  <2>2. p = [type |-> "SUBACK", id |-> p.id, grantedQoSs |-> g]
    BY DEF Subacks
  <2>3. Text(g, 1)
    BY <2>1, TextByte
  <2> QED BY <2>1, <2>2, <2>3 DEF Text
<1>3. w \in Strings /\ Len(w) = 2
  BY <1>2, TextInt DEF Text, Shorts
<1> HIDE DEF b, w, g
<1>4. f \in Strings /\ Len(f) = 3 /\ f[1] = w[1] /\ f[2] = w[2] /\ f[3] = g[1]
  <2>1. /\ Len(f) = Len(w) + Len(g) /\ \A i \in 1..Len(w) : f[i] = w[i]
        /\ \A i \in 1..Len(g) : f[Len(w) + i] = g[i] /\ f \in Strings
    BY <1>2, <1>3, ConcatIs
  <2>2. f[Len(w) + 1] = g[1]
    BY <1>2, <2>1
  <2> QED BY <1>2, <1>3, <2>1, <2>2
<1> HIDE DEF f
<1>5. PICK n, k, front : n = Len(f) /\ k = LengthBytes(n) /\ Laid(b, 144, f, n, k, front)
  BY <1>1, ShapeIs
<1> DEFINE s == Frame(b).start
<1>6. /\ b # <<>> /\ b[1] = 144 /\ Frame(b).end - s = 3 /\ s \in Nat /\ Frame(b).end = s + 3
      /\ b[s] = w[1] /\ b[s + 1] = w[2] /\ b[s + 2] = g[1] /\ Len(b) = s + 2 /\ b \in Strings
  <2>1. /\ b # <<>> /\ b[1] = 144 /\ Frame(b).end - s = n /\ k \in 1..4 /\ s = 2 + k /\ Frame(b).end = 2 + k + n
        /\ \A i \in 1..n : b[s + i - 1] = f[i]
    BY <1>5, FrameIs
  <2>2. b[s + 1 - 1] = f[1] /\ b[s + 2 - 1] = f[2] /\ b[s + 3 - 1] = f[3]
    <3>1. 1 \in 1..n /\ 2 \in 1..n /\ 3 \in 1..n
      BY <1>4, <1>5
    <3> HIDE DEF s
    <3> QED BY <2>1, <3>1
  <2>3. s \in Nat /\ s + 3 - 1 = s + 2 /\ s + 2 - 1 = s + 1 /\ s + 1 - 1 = s
    BY <2>1
  <2>4. Len(b) = 1 + k + n /\ b \in Strings
    BY <1>5 DEF Laid
  <2> QED BY <1>4, <1>5, <2>1, <2>2, <2>3, <2>4
<1>7. readInt(b, s) = p.id
  <2> HIDE DEF s
  <2> QED BY <1>2, <1>6, IntRoundTrip DEF w
<1>8. SubSeq(b, s + 2, Frame(b).end - 1) = g
  <2> DEFINE m == s + 1
             t == SubSeq(b, m + 1, m + 1)
  <2> HIDE DEF s
  <2>1. m \in Nat /\ m + 1 \in Nat /\ m <= m + 1 /\ m + 1 <= Len(b) /\ (m + 1) - m = 1 /\ m + 1 = s + 2
    BY <1>6
  <2> HIDE DEF m
  <2>2. t \in Strings /\ Len(t) = 1 /\ \A i \in 1..1 : t[i] = b[m + i]
    BY <1>6, <2>1, SubSeqIs
  <2> HIDE DEF t
  <2>3. t[1] = g[1]
    <3>1. t[1] = b[m + 1] /\ b[m + 1] = b[s + 2] /\ b[s + 2] = g[1]
      BY <1>6, <2>1, <2>2
    <3> QED BY <3>1
  <2>4. \A i \in 1..Len(t) : t[i] = g[i]
    BY <2>2, <2>3
  <2>5. t = g
    BY <1>2, <2>2, <2>4, SameString
  <2>6. Frame(b).end - 1 = m + 1
    BY <1>6, <2>1
  <2> QED BY <2>1, <2>5, <2>6 DEF t
<1>9. HeaderFields(b[1]).type = 9
  BY <1>6, SMT DEF HeaderFields
<1>10. MQTTDeserialize_suback(b, 1) = [rc |-> 1, id |-> p.id, grantedQoSs |-> g]
  <2> HIDE DEF s
  <2>1. ~(Frame(b).end - Frame(b).start < 2) /\ ~(Frame(b).end - Frame(b).start - 2 > 1 + 1)
    <3>1. Frame(b).end - Frame(b).start = 3
      BY <1>6 DEF s
    <3> QED BY <3>1
  <2>2. MQTTDeserialize_suback(b, 1) =
          [rc |-> 1, id |-> readInt(b, Frame(b).start),
           grantedQoSs |-> SubSeq(b, Frame(b).start + 2, Frame(b).end - 1)]
    BY <1>9, <2>1, Types DEF MQTTDeserialize_suback
  <2> QED BY <1>7, <1>8, <2>2 DEF s
<1>11. Understood(b) = [type |-> "SUBACK", id |-> MQTTDeserialize_suback(b, 1).id,
                        grantedQoSs |-> MQTTDeserialize_suback(b, 1).grantedQoSs]
  <2>1. b # <<>> /\ Frame(b).end - Frame(b).start = 3
    BY <1>6
  <2>2. ~(Frame(b).end - Frame(b).start < 2)
    BY <2>1
  <2> QED BY <1>9, <2>1, <2>2, Types DEF Understood, SubackIn
<1> QED BY <1>2, <1>10, <1>11 DEF b

(* the header of a publication,                                                *)
LEMMA HeaderRoundTrip ==
  ASSUME NEW dup \in 0..1, NEW qos \in 0..2, NEW retain \in 0..1
  PROVE  HeaderFields(MQTTHeader("PUBLISH", dup, qos, retain)) =
           [type |-> 3, dup |-> dup, qos |-> qos, retain |-> retain]
<1>1. MQTTHeader("PUBLISH", dup, qos, retain) = 48 + 8 * dup + 2 * qos + retain
  BY Types DEF MQTTHeader
<1>2. /\ (48 + 8 * dup + 2 * qos + retain) \div 16 = 3
      /\ ((48 + 8 * dup + 2 * qos + retain) \div 8) % 2 = dup
      /\ ((48 + 8 * dup + 2 * qos + retain) \div 2) % 4 = qos
      /\ (48 + 8 * dup + 2 * qos + retain) % 2 = retain
  BY SMT
<1> QED BY <1>1, <1>2 DEF HeaderFields

(* and a publication.                                                          *)
LEMMA UnderstoodMessage ==
  ASSUME NEW m \in Messages
  PROVE  Understood(BrokerBytes(m)) = m
<1> DEFINE b == BrokerBytes(m)
           h == MQTTHeader("PUBLISH", m.dup, m.qos, m.retained)
           name == m.topicName
           payload == m.payload
           l == Len(name)
           w == writeInt(l)
           id == IF m.qos > 0 THEN writeInt(m.id) ELSE <<>>
           two == IF m.qos > 0 THEN 2 ELSE 0
           f == MessageFields(m)
<1>1. /\ m.type = "PUBLISH" /\ m.qos \in 0..2 /\ m.dup \in 0..1 /\ m.retained \in 0..1 /\ m.id \in Shorts
      /\ name \in Strings /\ payload \in Strings /\ l \in Shorts /\ l \in Nat
      /\ m = [type |-> "PUBLISH", qos |-> m.qos, dup |-> m.dup, retained |-> m.retained,
              id |-> m.id, topicName |-> name, payload |-> payload]
      /\ (m.qos = 0 => m.id = 0)
  <2>1. m.topicName \in Strings /\ Len(m.topicName) <= 65535
    BY MessageTypes
  <2>2. l \in Nat
    BY <2>1 DEF Strings
  <2>3. l \in Shorts
    BY <2>1, <2>2, SMT DEF Shorts
  <2> QED BY <2>2, <2>3, MessageTypes
<1>2. HeaderFields(h) = [type |-> 3, dup |-> m.dup, qos |-> m.qos, retain |-> m.retained]
  BY <1>1, HeaderRoundTrip
<1>3. Shape(b, h, f)
  BY MessageShape
<1>4. Text(name, l) /\ Text(w, 2) /\ Text(id, two) /\ Text(payload, Len(payload)) /\ two \in Nat
  <2>1. Text(name, l) /\ Text(payload, Len(payload))
    BY <1>1 DEF Text, Strings
  <2>2. m.id \in Nat
    BY <1>1 DEF Shorts
  <2> QED BY <1>1, <2>1, <2>2, TextInt, TextEmpty
<1>5. f = ((w \o name) \o id) \o payload
  BY Zenon DEF MessageFields, writeMQTTString
<1>6. (m.qos > 0 => id = writeInt(m.id) /\ two = 2) /\ (~(m.qos > 0) => id = <<>> /\ two = 0 /\ m.qos = 0)
  BY <1>1
<1> HIDE DEF b, h, name, payload, l, w, id, f, two
<1> DEFINE wt == w \o name
           wti == wt \o id
           lp == Len(payload)
<1>7. /\ Text(f, ((2 + l) + two) + lp)
      /\ \A i \in 1..2 : f[i] = w[i]
      /\ \A i \in 1..l : f[2 + i] = name[i]
      /\ \A i \in 1..two : f[(2 + l) + i] = id[i]
      /\ \A i \in 1..lp : f[((2 + l) + two) + i] = payload[i]
  <2>1. lp \in Nat /\ w \in Strings /\ name \in Strings /\ id \in Strings /\ payload \in Strings
        /\ Len(w) = 2 /\ Len(name) = l /\ Len(id) = two
    BY <1>4 DEF Text
  <2>2. /\ wt \in Strings /\ Len(wt) = 2 + l /\ \A i \in 1..2 : wt[i] = w[i]
        /\ \A i \in 1..l : wt[2 + i] = name[i]
    <3>1. /\ wt \in Strings /\ Len(wt) = Len(w) + Len(name) /\ \A i \in 1..Len(w) : wt[i] = w[i]
          /\ \A i \in 1..Len(name) : wt[Len(w) + i] = name[i]
      BY <2>1, ConcatIs
    <3> HIDE DEF wt
    <3> QED BY <2>1, <3>1
  <2> HIDE DEF wt
  <2>3. /\ wti \in Strings /\ Len(wti) = (2 + l) + two /\ \A i \in 1..(2 + l) : wti[i] = wt[i]
        /\ \A i \in 1..two : wti[(2 + l) + i] = id[i]
    <3>1. /\ wti \in Strings /\ Len(wti) = Len(wt) + Len(id) /\ \A i \in 1..Len(wt) : wti[i] = wt[i]
          /\ \A i \in 1..Len(id) : wti[Len(wt) + i] = id[i]
      BY <2>1, <2>2, ConcatIs, ZenonT(60)
    <3> HIDE DEF wti
    <3> QED BY <2>1, <2>2, <3>1
  <2>4. f = wti \o payload
    BY <1>5 DEF wt
  <2> HIDE DEF wti
  <2> DEFINE n == (2 + l) + two
  <2>5. /\ f \in Strings /\ Len(f) = n + lp /\ \A i \in 1..n : f[i] = wti[i]
        /\ \A i \in 1..lp : f[n + i] = payload[i]
    <3>1. /\ f \in Strings /\ Len(f) = Len(wti) + Len(payload) /\ \A i \in 1..Len(wti) : f[i] = wti[i]
          /\ \A i \in 1..Len(payload) : f[Len(wti) + i] = payload[i]
      <4>1. wti \in Strings /\ payload \in Strings
        BY <2>1, <2>3
      <4> HIDE DEF lp
      <4> QED BY <2>4, <4>1, ConcatIs
    <3>2. Len(wti) = n /\ Len(payload) = lp
      BY <2>3
    <3> HIDE DEF n, lp
    <3> QED BY <3>1, <3>2
  <2>6. l \in Nat /\ two \in Nat
    BY <1>1, <1>4
  <2>7. /\ \A i \in 1..2 : i \in 1..(2 + l) /\ i \in 1..n
        /\ \A i \in 1..l : 2 + i \in 1..(2 + l) /\ 2 + i \in 1..n
        /\ \A i \in 1..two : (2 + l) + i \in 1..n
    BY <2>6
  <2>8. n \in Nat
    BY <2>6
  <2>9. Text(f, n + lp)
    BY <2>1, <2>5, <2>8 DEF Text
  <2> HIDE DEF n, lp
  <2>10. \A i \in 1..2 : f[i] = w[i]
    BY <2>2, <2>3, <2>5, <2>7
  <2>11. \A i \in 1..l : f[2 + i] = name[i]
    BY <2>2, <2>3, <2>5, <2>7
  <2>12. \A i \in 1..two : f[(2 + l) + i] = id[i]
    BY <2>3, <2>5, <2>7
  <2> QED BY <2>5, <2>9, <2>10, <2>11, <2>12 DEF n
<1> HIDE DEF lp, wt, wti
<1> DEFINE n == ((2 + l) + two) + lp
<1>8. l \in Nat /\ two \in Nat /\ lp \in Nat /\ Len(f) = n /\ n \in Nat
  <2>1. lp \in Nat
    BY <1>4 DEF lp, Text
  <2> QED BY <1>1, <1>4, <1>7, <2>1 DEF Text
<1>9. PICK k, front : k = LengthBytes(n) /\ Laid(b, h, f, n, k, front)
  <2> HIDE DEF n
  <2> QED BY <1>3, <1>8, ShapeIs
<1> HIDE DEF n
<1> DEFINE s == Frame(b).start
           e == Frame(b).end
<1>10. /\ b # <<>> /\ b[1] = h /\ e - s = n /\ s \in Nat /\ e = s + n /\ Len(b) = s + n - 1 /\ b \in Strings
       /\ \A i \in 1..n : b[s + i - 1] = f[i]
       /\ Frame(b) = [rc |-> k, start |-> s, end |-> e]
  <2>1. /\ b # <<>> /\ b[1] = h /\ e - s = n /\ k \in 1..4 /\ s = 2 + k /\ e = 2 + k + n
        /\ \A i \in 1..n : b[s + i - 1] = f[i]
        /\ Frame(b) = [rc |-> k, start |-> 2 + k, end |-> 2 + k + n]
    BY <1>9, FrameIs
  <2>2. Len(b) = 1 + k + n /\ b \in Strings
    BY <1>9 DEF Laid
  <2> HIDE DEF s, e
  <2> QED BY <1>8, <2>1, <2>2
<1> HIDE DEF s, e
<1>11. readInt(b, s) = l
  <2>1. 1 \in 1..n /\ 2 \in 1..n
    BY <1>8 DEF n
  <2>2. b[s + 1 - 1] = f[1] /\ b[s + 2 - 1] = f[2]
    BY <1>10, <2>1
  <2>3. s + 1 - 1 = s /\ s + 2 - 1 = s + 1
    BY <1>10
  <2>4. f[1] = w[1] /\ f[2] = w[2]
    BY <1>7
  <2>5. b[s] = writeInt(l)[1] /\ b[s + 1] = writeInt(l)[2]
    BY <2>2, <2>3, <2>4 DEF w
  <2> QED BY <1>1, <1>10, <2>5, IntRoundTrip
<1> DEFINE next == s + 2 + l
<1>12. SubSeq(b, s + 2, s + 1 + l) = name
  <2> DEFINE c == s + 1
             t == SubSeq(b, c + 1, c + l)
  <2>1. c \in Nat /\ c + l \in Nat /\ c <= c + l /\ c + l <= Len(b) /\ (c + l) - c = l
        /\ c + 1 = s + 2 /\ c + l = s + 1 + l
    BY <1>8, <1>10 DEF n
  <2> HIDE DEF c
  <2>2. t \in Strings /\ Len(t) = l /\ \A i \in 1..l : t[i] = b[c + i]
    BY <1>10, <2>1, SubSeqIs
  <2> HIDE DEF t
  <2>3. ASSUME NEW i \in 1..l PROVE t[i] = name[i]
    <3>1. 2 + i \in 1..n /\ s + (2 + i) - 1 = c + i
      BY <1>8, <1>10 DEF n, c
    <3>2. b[s + (2 + i) - 1] = f[2 + i]
      BY <1>10, <3>1
    <3> QED BY <1>7, <2>2, <3>1, <3>2
  <2>4. t = name
    BY <1>4, <2>2, <2>3, SameString DEF Text
  <2> QED BY <2>1, <2>4 DEF t
<1>13. SubSeq(b, next + two, e - 1) = payload
  <2> DEFINE c == s + 1 + l + two
             t == SubSeq(b, c + 1, c + lp)
  <2>1. c \in Nat /\ c + lp \in Nat /\ c <= c + lp /\ c + lp <= Len(b) /\ (c + lp) - c = lp
        /\ c + 1 = next + two /\ c + lp = e - 1
    BY <1>8, <1>10 DEF n
  <2> HIDE DEF c
  <2>2. t \in Strings /\ Len(t) = lp /\ \A i \in 1..lp : t[i] = b[c + i]
    BY <1>8, <1>10, <2>1, SubSeqIs
  <2> HIDE DEF t
  <2>3. ASSUME NEW i \in 1..lp PROVE t[i] = payload[i]
    <3> DEFINE j == ((2 + l) + two) + i
    <3>1. j \in 1..n /\ s + j - 1 = c + i
      BY <1>8, <1>10 DEF n, c
    <3>2. f[j] = payload[i]
      BY <1>7
    <3> HIDE DEF j
    <3>3. b[s + j - 1] = f[j]
      BY <1>10, <3>1
    <3> QED BY <2>2, <3>1, <3>2, <3>3
  <2>4. payload \in Strings /\ Len(payload) = lp
    BY <1>4 DEF Text, lp
  <2>5. t = payload
    BY <2>2, <2>3, <2>4, SameString
  <2> HIDE DEF next
  <2> QED BY <2>1, <2>5 DEF t
<1>14. m.qos > 0 => readInt(b, next) = m.id
  <2> SUFFICES ASSUME m.qos > 0 PROVE readInt(b, next) = m.id
    OBVIOUS
  <2>1. two = 2 /\ id = writeInt(m.id)
    BY <1>6
  <2> DEFINE j == (2 + l) + 1
             j2 == (2 + l) + 2
  <2>2. /\ j \in 1..n /\ j2 \in 1..n /\ s + j - 1 = next /\ s + j2 - 1 = next + 1 /\ next \in Nat
    BY <1>8, <1>10, <2>1 DEF n
  <2>3. f[j] = id[1] /\ f[j2] = id[2]
    BY <1>7, <2>1
  <2> HIDE DEF j, j2, next
  <2>4. b[s + j - 1] = f[j] /\ b[s + j2 - 1] = f[j2]
    BY <1>10, <2>2
  <2>5. b[next] = writeInt(m.id)[1] /\ b[next + 1] = writeInt(m.id)[2]
    BY <2>1, <2>2, <2>3, <2>4
  <2> QED BY <1>1, <2>2, <2>5, IntRoundTrip
<1>15. readMQTTLenString(b, s, e) = [ok |-> TRUE, string |-> name, next |-> next]
  <2>1. e - s > 1 /\ s + 2 + l <= e
    BY <1>8, <1>10 DEF n
  <2>2. readMQTTLenString(b, s, e) =
          [ok |-> TRUE, string |-> SubSeq(b, s + 2, s + 1 + readInt(b, s)), next |-> s + 2 + readInt(b, s)]
    BY <1>11, <2>1 DEF readMQTTLenString
  <2> QED BY <1>11, <1>12, <2>2
<1> HIDE DEF next
<1>16. MQTTDeserialize_publish(b) =
         [rc |-> 1, qos |-> m.qos, dup |-> m.dup, retained |-> m.retained, id |-> m.id,
          topicName |-> name, payload |-> payload]
  <2>1. /\ Frame(b).start = s /\ Frame(b).end = e
        /\ HeaderFields(b[1]) = [type |-> 3, dup |-> m.dup, qos |-> m.qos, retain |-> m.retained]
    BY <1>2, <1>10
  <2>2. MQTTDeserialize_publish(b) =
         [rc |-> 1, qos |-> m.qos, dup |-> m.dup, retained |-> m.retained,
          id |-> IF m.qos > 0 THEN readInt(b, next) ELSE 0,
          topicName |-> name, payload |-> SubSeq(b, next + (IF m.qos > 0 THEN 2 ELSE 0), e - 1)]
    <3> DEFINE t == readMQTTLenString(b, s, e)
    <3>1. t.ok /\ t.next = next /\ t.string = name
      BY <1>15
    <3> HIDE DEF t
    <3>2. MQTTDeserialize_publish(b) =
         [rc |-> 1, qos |-> m.qos, dup |-> m.dup, retained |-> m.retained,
          id |-> IF m.qos > 0 THEN readInt(b, t.next) ELSE 0,
          topicName |-> t.string, payload |-> SubSeq(b, t.next + (IF m.qos > 0 THEN 2 ELSE 0), e - 1)]
      <4> DEFINE g == [type |-> 3, dup |-> m.dup, qos |-> m.qos, retain |-> m.retained]
      <4>1. g.type = 3 /\ g.dup = m.dup /\ g.qos = m.qos /\ g.retain = m.retained /\ HeaderFields(b[1]) = g
        BY <2>1
      <4> HIDE DEF g
      <4>2. g.type = msgTypes["PUBLISH"]
        BY <4>1, Types
      <4>3. MQTTDeserialize_publish(b) =
         [rc |-> 1, qos |-> g.qos, dup |-> g.dup, retained |-> g.retain,
          id |-> IF g.qos > 0 THEN readInt(b, t.next) ELSE 0,
          topicName |-> t.string, payload |-> SubSeq(b, t.next + (IF g.qos > 0 THEN 2 ELSE 0), e - 1)]
        BY <2>1, <3>1, <4>1, <4>2, Zenon DEF MQTTDeserialize_publish, t
      <4> QED BY <4>1, <4>3
    <3> QED BY <3>1, <3>2
  <2>3. (IF m.qos > 0 THEN readInt(b, next) ELSE 0) = m.id /\ (IF m.qos > 0 THEN 2 ELSE 0) = two
    BY <1>1, <1>6, <1>14
  <2> QED BY <1>13, <2>2, <2>3
<1>17. Understood(b) = [type |-> "PUBLISH", qos |-> m.qos, dup |-> m.dup, retained |-> m.retained,
                        id |-> m.id, topicName |-> name, payload |-> payload]
  <2>1. /\ Frame(b).start = s /\ Frame(b).end = e /\ HeaderFields(b[1]).type = 3 /\ b # <<>>
    BY <1>2, <1>10
  <2>2. ~(Frame(b).end - Frame(b).start < 2) /\ readMQTTLenString(b, Frame(b).start, Frame(b).end).ok
    <3>1. e - s = n /\ ~(n < 2)
      BY <1>8, <1>10 DEF n
    <3> QED BY <1>15, <2>1, <3>1
  <2> DEFINE d == MQTTDeserialize_publish(b)
  <2>3. Understood(b) = [type |-> "PUBLISH", qos |-> d.qos, dup |-> d.dup, retained |-> d.retained,
                         id |-> d.id, topicName |-> d.topicName, payload |-> d.payload]
    BY <2>1, <2>2, Types DEF Understood, MessageIn
  <2> QED BY <1>16, <2>3
<1> QED BY <1>1, <1>17 DEF b, name, payload

(* Whatever the broker sends, MQTTDeserialize_... takes out of its bytes what  *)
(* was put in, with lengths of one to four bytes and topics and payloads of any*)
(* length that fits.                                                           *)
THEOREM UnderstandsAll ==
  ASSUME NEW p \in BrokerPackets
  PROVE  Understood(BrokerBytes(p)) = p
BY UnderstoodConnack, UnderstoodSuback, UnderstoodAck, UnderstoodPingresp, UnderstoodMessage DEF BrokerPackets

-----------------------------------------------------------------------------
(* What is on its way.                                                         *)

(* Packets are on their way whole but for the first, of which "taken" bytes    *)
(* have arrived: where the network may cut, these are none, or the length too. *)
OnTheWay(w, p, where) ==
  LET b == BrokerBytes(p)
  IN /\ w.left = Drop(b, w.taken) /\ w.left \in Strings /\ w.taken \in Nat /\ w.taken < Len(b)
     /\ w.fixed = Fixed(p)
     /\ where = "none" => w.taken = 0
     /\ where = "body" => w.taken = 0 \/ w.taken >= Fixed(p)
Delivered == Len(sent) - Len(wire)
NetworkInv ==
  /\ <<reader, cuts>> \in Setups
  /\ sent \in Seq(BrokerPackets) /\ Len(sent) <= MaxPackets
  /\ wire \in Seq([left : Strings, taken : Nat, fixed : Nat]) /\ Len(wire) <= Len(sent)
  /\ \A i \in 1..Len(wire) : OnTheWay(wire[i], sent[Delivered + i], cuts)
  /\ \A i \in 2..Len(wire) : wire[i].taken = 0

(* The broker answers requests with packets of its own.                        *)
LEMMA AnswersAre ==
  ASSUME NEW r \in AppRequests, NEW p \in AnswersTo(r)
  PROVE  p \in BrokerPackets
<1>1. r \in RequestTypes
  BY RequestsAreSane
<1>2. CASE r \in ConnectRequests
  BY <1>2 DEF AnswersTo, ConnectRequests, BrokerPackets, Connacks
<1>3. CASE r \in SubscribeRequests
  <2>1. r.op = "SUBSCRIBE" /\ r.id \in Shorts
    BY <1>3 DEF SubscribeRequests
  <2>2. PICK g \in {0, 128} : p = [type |-> "SUBACK", id |-> r.id, grantedQoSs |-> <<g>>]
    BY <2>1 DEF AnswersTo
  <2> QED BY <2>1, <2>2 DEF BrokerPackets, Subacks
<1>4. CASE r \in UnsubscribeRequests
  BY <1>4 DEF AnswersTo, UnsubscribeRequests, BrokerPackets, Acks
<1>5. CASE r \in PublishRequests
  BY <1>5 DEF AnswersTo, PublishRequests, BrokerPackets, Acks
<1>6. CASE r \in AckRequests
  BY <1>6 DEF AnswersTo, AckRequests
<1>7. CASE r \in ZeroRequests
  BY <1>7 DEF AnswersTo, ZeroRequests, BrokerPackets, Pingresps
<1> QED BY <1>1, <1>2, <1>3, <1>4, <1>5, <1>6, <1>7 DEF RequestTypes

(* A packet that has been sent is on its way whole.                            *)
LEMMA Posted ==
  ASSUME NEW p \in BrokerPackets,
         NEW w, w = [left |-> BrokerBytes(p), taken |-> 0,
                     fixed |-> 1 + MQTTPacket_decode(Tail(BrokerBytes(p))).len]
  PROVE  (\A where : OnTheWay(w, p, where)) /\ w \in [left : Strings, taken : Nat, fixed : Nat] /\ w.taken = 0
<1> DEFINE b == BrokerBytes(p)
           f == 1 + MQTTPacket_decode(Tail(b)).len
<1>1. b \in Strings /\ Len(b) \in Nat /\ Len(b) > 0 /\ f = Fixed(p) /\ f \in Nat
  <2> DEFINE n == Value(p)
             k == LengthBytes(n)
  <2>1. b \in Strings /\ n \in Nat /\ k \in 1..4 /\ Len(b) = 1 + k + n /\ f = 1 + k
    BY PacketIs
  <2>2. Fixed(p) = 1 + k
    BY DEF Fixed
  <2> HIDE DEF b, f, k, n
  <2> QED BY <2>1, <2>2
<1>2. Drop(b, 0) = b
  BY <1>1, DropAll
<1> HIDE DEF b, f
<1>3. w = [left |-> b, taken |-> 0, fixed |-> f]
  BY DEF b, f
<1> QED BY <1>1, <1>2, <1>3 DEF OnTheWay, b

(* Initially nothing is on its way,                                            *)
LEMMA NetworkInit == StreamInit => NetworkInv
<1> SUFFICES ASSUME StreamInit PROVE NetworkInv
  OBVIOUS
<1>1. <<reader, cuts>> \in Setups
  <2>1. PICK s \in Setups : reader = s[1] /\ cuts = s[2]
    BY DEF StreamInit
  <2>2. s \in {"readnb", "read", "readPacket"} \X {"none", "body", "anywhere"}
    BY StreamAssumption
  <2>3. s = <<s[1], s[2]>>
    BY <2>2
  <2> QED BY <2>1, <2>3
<1>2. sent = <<>> /\ wire = <<>>
  BY DEF StreamInit
<1> QED BY <1>1, <1>2, StreamAssumption DEF NetworkInv

(* a packet is put behind those on their way,                                  *)
LEMMA NetworkPost ==
  ASSUME NetworkInv, NEW p \in BrokerPackets, Post(p), UNCHANGED <<reader, cuts>>
  PROVE  /\ NetworkInv' /\ Delivered' = Delivered
         /\ \A i \in 1..Len(sent) : sent'[i] = sent[i]
         /\ \A i \in 1..Len(wire) : wire'[i] = wire[i]
         /\ Len(sent') = Len(sent) + 1 /\ Len(wire') = Len(wire) + 1
         /\ wire'[Len(wire) + 1].taken = 0
<1> DEFINE w == [left |-> BrokerBytes(p), taken |-> 0,
                 fixed |-> 1 + MQTTPacket_decode(Tail(BrokerBytes(p))).len]
           W == [left : Strings, taken : Nat, fixed : Nat]
           m == Len(sent)
           n == Len(wire)
<1>1. OnTheWay(w, p, cuts) /\ w \in W /\ w.taken = 0
  BY Posted
<1>2. sent' = Append(sent, p) /\ wire' = Append(wire, w) /\ m < MaxPackets
  BY Zenon DEF Post
<1> HIDE DEF w, W
<1>3. sent \in Seq(BrokerPackets) /\ wire \in Seq(W) /\ m \in Nat /\ n \in Nat /\ n <= m
  BY DEF NetworkInv, W
<1>4. /\ sent' \in Seq(BrokerPackets) /\ Len(sent') = m + 1 /\ sent'[m + 1] = p
      /\ \A i \in 1..m : sent'[i] = sent[i]
  BY <1>2, <1>3
<1>5. /\ wire' \in Seq(W) /\ Len(wire') = n + 1 /\ wire'[n + 1] = w
      /\ \A i \in 1..n : wire'[i] = wire[i]
  BY <1>1, <1>2, <1>3
<1>6. Delivered \in Nat /\ Delivered = m - n /\ Delivered' = m - n
  BY <1>3, <1>4, <1>5 DEF Delivered
<1> HIDE DEF m, n
<1>7. ASSUME NEW i \in 1..(n + 1) PROVE OnTheWay(wire'[i], sent'[Delivered' + i], cuts)
  <2>1. CASE i = n + 1
    <3>1. Delivered' + i = m + 1
      BY <1>3, <1>6, <2>1
    <3> QED BY <1>1, <1>4, <1>5, <2>1, <3>1
  <2>2. CASE i \in 1..n
    <3>1. OnTheWay(wire[i], sent[Delivered + i], cuts)
      BY <2>2 DEF NetworkInv, n
    <3>2. Delivered' = Delivered /\ Delivered + i \in 1..m
      BY <1>3, <1>6, <2>2
    <3> QED BY <1>4, <1>5, <2>2, <3>1, <3>2
  <2> QED BY <1>3, <2>1, <2>2
<1>8. \A i \in 2..(n + 1) : wire'[i].taken = 0
  <2>1. \A i \in 2..n : wire[i].taken = 0
    BY DEF NetworkInv, n
  <2> QED BY <1>1, <1>3, <1>5, <2>1
<1>9. m + 1 <= MaxPackets /\ n + 1 <= m + 1
  BY <1>2, <1>3, StreamAssumption
<1>10. <<reader, cuts>>' \in Setups /\ cuts' = cuts
  BY DEF NetworkInv
<1>11. NetworkInv'
  <2>1. \A i \in 1..Len(wire') : OnTheWay(wire'[i], sent'[Delivered' + i], cuts')
    BY <1>5, <1>7, <1>10
  <2>2. \A i \in 2..Len(wire') : wire'[i].taken = 0
    BY <1>5, <1>8
  <2> HIDE DEF OnTheWay
  <2> QED BY <1>4, <1>5, <1>9, <1>10, <2>1, <2>2, Zenon DEF NetworkInv, W
<1> QED BY <1>1, <1>4, <1>5, <1>6, <1>11 DEF m, n

(* What has arrived of the packet that is next on the wire.                    *)
Part == IF wire = <<>> THEN <<>> ELSE SubSeq(BrokerBytes(sent[Delivered + 1]), 1, wire[1].taken)

(* An element put in front of a sequence.                                      *)
LEMMA PushedFront ==
  ASSUME NEW S, NEW e \in S, NEW s \in Seq(S)
  PROVE  /\ <<e>> \o s \in Seq(S) /\ Len(<<e>> \o s) = 1 + Len(s) /\ (<<e>> \o s)[1] = e
         /\ \A i \in 1..Len(s) : (<<e>> \o s)[1 + i] = s[i]
OBVIOUS

(* What has arrived of a packet, the piece that arrives, and the rest.         *)
LEMMA PieceIs ==
  ASSUME NEW b \in Strings, NEW t \in Nat, t < Len(b), NEW k \in 1..Len(Drop(b, t))
  PROVE  /\ SubSeq(Drop(b, t), 1, k) \in Strings
         /\ t + k \in Nat /\ t + k <= Len(b) /\ Len(Drop(b, t)) = Len(b) - t
         /\ SubSeq(b, 1, t) \o SubSeq(Drop(b, t), 1, k) = SubSeq(b, 1, t + k)
         /\ SubSeq(Drop(b, t), k + 1, Len(Drop(b, t))) = Drop(b, t + k)
         /\ Drop(b, t + k) \in Strings
<1> DEFINE d == Drop(b, t)
           n == Len(b)
<1>1. n \in Nat /\ d \in Strings /\ Len(d) = n - t
  BY DropIs DEF Strings
<1> HIDE DEF d
<1>2. k \in Nat /\ k <= Len(d) /\ t + k \in Nat /\ t + k <= n /\ t <= t + k
  BY <1>1 DEF d
<1>3. SubSeq(d, 1, k) \in Strings
  BY <1>1, <1>2, Prefix
<1>4. SubSeq(d, 1, k) = SubSeq(b, t + 1, t + k)
  BY <1>2, TakeOfDrop DEF d
<1>5. SubSeq(b, 1, t) \o SubSeq(b, t + 1, t + k) = SubSeq(b, 1, t + k)
  BY <1>2, Adjacent
<1>6. Drop(d, k) = Drop(b, t + k)
  BY <1>2, DropOfDrop DEF d
<1>7. SubSeq(d, k + 1, Len(d)) = Drop(b, t + k)
  BY <1>6 DEF Drop
<1>8. Drop(b, t + k) \in Strings
  BY <1>2, DropIs
<1> QED BY <1>1, <1>2, <1>3, <1>4, <1>5, <1>7, <1>8 DEF d, n

(* and what arrives goes from one side of the cut to the other.                *)
LEMMA NetworkDeliver ==
  ASSUME NetworkInv, wire # <<>>, NEW k \in Nat, k \in 1..Len(Head(wire).left), Cut(k), Deliver(k)
  PROVE  /\ NetworkInv'
         /\ SubSeq(Head(wire).left, 1, k) \in Strings
         /\ Delivered + 1 \in 1..Len(sent)
         /\ \/ Delivered' = Delivered /\ Part' = Part \o SubSeq(Head(wire).left, 1, k)
            \/ /\ Delivered' = Delivered + 1 /\ Part' = <<>>
               /\ Part \o SubSeq(Head(wire).left, 1, k) = BrokerBytes(sent[Delivered + 1])
<1> DEFINE W == [left : Strings, taken : Nat, fixed : Nat]
           n == Len(wire)
           m == Len(sent)
           h == wire[1]
           d == Delivered
           p == sent[d + 1]
           b == BrokerBytes(p)
           t == h.taken
           piece == SubSeq(h.left, 1, k)
           T == Tail(wire)
<1>1. /\ wire \in Seq(W) /\ n \in Nat /\ n > 0 /\ Head(wire) = h /\ h \in W
      /\ m \in Nat /\ n <= m /\ d = m - n /\ d \in Nat /\ d + 1 \in 1..m /\ sent \in Seq(BrokerPackets)
  <2>1. wire \in Seq(W) /\ sent \in Seq(BrokerPackets) /\ n <= m
    BY DEF NetworkInv
  <2>2. n \in Nat /\ m \in Nat /\ n # 0
    BY <2>1
  <2>3. Head(wire) = h /\ h \in W
    <3> HIDE DEF W
    <3>1. 1 \in 1..n
      BY <2>2
    <3> QED BY <2>1, <3>1 DEF n
  <2>4. d = m - n
    BY DEF Delivered
  <2> HIDE DEF n, m, d, h
  <2> QED BY <2>1, <2>2, <2>3, <2>4
<1>2. T \in Seq(W) /\ Len(T) = n - 1 /\ \A i \in 1..(n - 1) : T[i] = wire[i + 1]
  BY <1>1, HeadTailProperties
<1>3. OnTheWay(h, p, cuts)
  <2>1. 1 \in 1..Len(wire)
    BY <1>1
  <2> QED BY <2>1 DEF NetworkInv
<1>4. p \in BrokerPackets
  BY <1>1
<1>5. b \in Strings
  BY <1>4, PacketIs
<1>6. h.left = Drop(b, t) /\ t \in Nat /\ t < Len(b) /\ h.fixed = Fixed(p)
  BY <1>3 DEF OnTheWay
<1>7. k \in 1..Len(Drop(b, t)) /\ Len(b) \in Nat
  BY <1>1, <1>5, <1>6, SMTT(30) DEF Strings
<1> HIDE DEF b, t
<1>8. /\ SubSeq(Drop(b, t), 1, k) \in Strings
      /\ t + k \in Nat /\ t + k <= Len(b) /\ Len(Drop(b, t)) = Len(b) - t
      /\ SubSeq(b, 1, t) \o SubSeq(Drop(b, t), 1, k) = SubSeq(b, 1, t + k)
      /\ SubSeq(Drop(b, t), k + 1, Len(Drop(b, t))) = Drop(b, t + k)
      /\ Drop(b, t + k) \in Strings
  BY <1>5, <1>6, <1>7, PieceIs
<1>9. Part = SubSeq(b, 1, t) /\ piece \in Strings /\ Part \o piece = SubSeq(b, 1, t + k)
  BY <1>6, <1>8 DEF Part, b, t
<1>10. \A i \in 2..n : OnTheWay(wire[i], sent[d + i], cuts) /\ wire[i].taken = 0
  <2>1. \A i \in 1..n : OnTheWay(wire[i], sent[d + i], cuts)
    BY Zenon DEF NetworkInv
  <2>2. \A i \in 2..n : wire[i].taken = 0
    BY DEF NetworkInv
  <2>3. \A i \in 2..n : i \in 1..n
    BY <1>1
  <2> QED BY <2>1, <2>2, <2>3
<1>11. sent' = sent /\ cuts' = cuts /\ reader' = reader
  BY DEF Deliver
<1>12. CASE k = Len(h.left)
  <2>1. wire' = T
    BY <1>1, <1>12 DEF Deliver
  <2>2. Len(wire') = n - 1 /\ Delivered' = d + 1
    BY <1>1, <1>2, <1>11, <2>1 DEF Delivered
  <2>3. t + k = Len(b)
    BY <1>6, <1>7, <1>8, <1>12
  <2>4. Part \o piece = b
    <3>1. SubSeq(b, 1, Len(b)) = b
      BY <1>5, SubSeqFull DEF Strings
    <3> QED BY <1>9, <2>3, <3>1
  <2> HIDE DEF n, m, h, d, p, T, W
  <2>5. ASSUME NEW i \in 1..(n - 1) PROVE OnTheWay(wire'[i], sent'[Delivered' + i], cuts') /\ wire'[i].taken = 0
    <3>1. i + 1 \in 2..n /\ (d + 1) + i = d + (i + 1)
      BY <1>1
    <3>2. wire'[i] = wire[i + 1] /\ sent'[Delivered' + i] = sent[d + (i + 1)]
      BY <1>2, <1>11, <2>1, <2>2, <3>1
    <3> QED BY <1>10, <1>11, <3>1, <3>2
  <2>6. NetworkInv'
    <3>1. \A i \in 1..Len(wire') : OnTheWay(wire'[i], sent'[Delivered' + i], cuts')
      BY <2>2, <2>5
    <3>2. \A i \in 2..Len(wire') : wire'[i].taken = 0
      BY <1>1, <2>2, <2>5
    <3>3. wire' \in Seq(W) /\ Len(wire') <= Len(sent')
      BY <1>1, <1>2, <1>11, <2>1 DEF m, n
    <3>4. sent' \in Seq(BrokerPackets) /\ Len(sent') <= MaxPackets /\ <<reader', cuts'>> \in Setups
      BY <1>11 DEF NetworkInv
    <3> HIDE DEF OnTheWay
    <3> QED BY <3>1, <3>2, <3>3, <3>4, Zenon DEF NetworkInv, W
  <2>7. Part' = <<>>
    <3>1. CASE n = 1
      <4>1. wire' = <<>>
        BY <1>2, <2>1, <2>2, <3>1
      <4> QED BY <4>1 DEF Part
    <3>2. CASE n # 1
      <4>1. 1 \in 1..(n - 1) /\ wire' # <<>>
        BY <1>1, <1>2, <2>1, <2>2, <3>2
      <4>2. wire'[1].taken = 0
        BY <2>5, <4>1
      <4> DEFINE b2 == BrokerBytes(sent'[Delivered' + 1])
      <4>3. SubSeq(b2, 1, 0) = <<>>
        <5>1. sent'[Delivered' + 1] \in BrokerPackets
          <6>1. Delivered' + 1 \in 1..Len(sent) 
            BY <1>1, <2>2, <4>1 DEF m, n
          <6> QED BY <1>1, <1>11, <6>1
        <5>2. b2 \in Strings
          BY <5>1, PacketIs
        <5> HIDE DEF b2
        <5>3. Len(SubSeq(b2, 1, 0)) = 0 /\ SubSeq(b2, 1, 0) \in Strings
          <6>1. 0 <= Len(b2)
            BY <5>2 DEF Strings
          <6> QED BY <5>2, <6>1, Prefix
        <5> QED BY <5>3 DEF Strings
      <4> QED BY <4>1, <4>2, <4>3 DEF Part
    <3> QED BY <3>1, <3>2
  <2> QED BY <1>1, <1>9, <2>2, <2>4, <2>6, <2>7 DEF b, p, d, m, h
<1>13. CASE k # Len(h.left)
  <2> DEFINE h2 == [h EXCEPT !.left = SubSeq(@, k + 1, Len(@)), !.taken = @ + k]
  <2>1. wire' = <<h2>> \o T
    BY <1>1, <1>13 DEF Deliver
  <2>2. h2.left = Drop(b, t + k) /\ h2.taken = t + k /\ h2.fixed = Fixed(p) /\ h2 \in W
    <3> DEFINE u == SubSeq(h.left, k + 1, Len(h.left))
               v == h.taken + k
    <3>0. u \in Strings /\ v \in Nat
      BY <1>6, <1>8 DEF t
    <3> HIDE DEF u, v
    <3>1. h2.left = u /\ h2.taken = v /\ h2.fixed = h.fixed
      BY <1>1 DEF u, v
    <3>2. [h EXCEPT !.left = u, !.taken = v] \in W
      BY <1>1, <3>0
    <3>5. h2 = [h EXCEPT !.left = u, !.taken = v]
      BY DEF u, v
    <3>3. h2.left = Drop(b, t + k) /\ h2.taken = t + k /\ h2.fixed = Fixed(p)
      BY <1>6, <1>8, <3>1 DEF t, u, v
    <3> QED BY <3>2, <3>3, <3>5
  <2> HIDE DEF h2
  <2>3. Len(wire') = n /\ wire' \in Seq(W) /\ wire'[1] = h2 /\ \A i \in 2..n : wire'[i] = wire[i]
    <3> DEFINE a == <<h2>>
    <3> HIDE DEF T, W, n
    <3>1. a \o T \in Seq(W) /\ Len(a \o T) = 1 + Len(T) /\ (a \o T)[1] = h2
          /\ \A i \in 1..Len(T) : (a \o T)[1 + i] = T[i]
      BY <1>2, <2>2, PushedFront
    <3> HIDE DEF a
    <3>2. /\ a \o T \in Seq(W) /\ Len(a \o T) = n /\ (a \o T)[1] = h2
          /\ \A i \in 1..(n - 1) : (a \o T)[1 + i] = T[i]
      BY <1>1, <1>2, <3>1, SMTT(30)
    <3>3. \A i \in 2..n : (a \o T)[i] = wire[i]
      <4> TAKE i \in 2..n
      <4>1. i - 1 \in 1..(n - 1) /\ 1 + (i - 1) = i /\ (i - 1) + 1 = i
        BY <1>1
      <4>2. (a \o T)[1 + (i - 1)] = T[i - 1] /\ T[i - 1] = wire[(i - 1) + 1]
        BY <1>2, <3>2, <4>1
      <4> QED BY <4>1, <4>2
    <3> QED BY <2>1, <3>2, <3>3 DEF a
  <2>4. Delivered' = d
    BY <1>1, <1>11, <2>3 DEF Delivered
  <2>5. t + k < Len(b) /\ (cuts = "none" => FALSE) /\ (cuts = "body" => t + k >= Fixed(p))
    <3>1. t + k < Len(b)
      <4>1. k # Len(Drop(b, t))
        BY <1>6, <1>13
      <4>2. Len(Drop(b, t)) = Len(b) - t /\ t + k <= Len(b) /\ t \in Nat /\ Len(b) \in Nat
        BY <1>6, <1>7, <1>8
      <4> QED BY <4>1, <4>2
    <3>2. \/ cuts = "anywhere"
          \/ cuts = "body" /\ t + k >= Fixed(p)
      BY <1>1, <1>6, <1>13 DEF Cut, t
    <3> QED BY <3>1, <3>2
  <2>6. OnTheWay(h2, p, cuts)
    BY <1>8, <2>2, <2>5 DEF OnTheWay, b
  <2>7. Part' = Part \o piece
    <3>1. wire' # <<>> /\ sent'[Delivered' + 1] = p
      BY <1>1, <1>11, <2>3, <2>4
    <3> QED BY <1>9, <2>2, <2>3, <3>1 DEF Part, b
  <2> HIDE DEF n, m, h, d, p, T, W
  <2>8. ASSUME NEW i \in 1..n PROVE OnTheWay(wire'[i], sent'[Delivered' + i], cuts')
    <3>1. CASE i = 1
      BY <1>11, <2>3, <2>4, <2>6, <3>1 DEF p
    <3>2. CASE i \in 2..n
      BY <1>10, <1>11, <2>3, <2>4, <3>2
    <3> QED BY <1>1, <3>1, <3>2
  <2>9. NetworkInv'
    <3>1. \A i \in 1..Len(wire') : OnTheWay(wire'[i], sent'[Delivered' + i], cuts')
      BY <2>3, <2>8
    <3>2. \A i \in 2..Len(wire') : wire'[i].taken = 0
      BY <1>10, <2>3
    <3>3. wire' \in Seq(W) /\ Len(wire') <= Len(sent')
      BY <1>1, <1>11, <2>3 DEF m
    <3>4. sent' \in Seq(BrokerPackets) /\ Len(sent') <= MaxPackets /\ <<reader', cuts'>> \in Setups
      BY <1>11 DEF NetworkInv
    <3> HIDE DEF OnTheWay
    <3> QED BY <3>1, <3>2, <3>3, <3>4, Zenon DEF NetworkInv, W
  <2> QED BY <1>1, <1>9, <2>4, <2>7, <2>9 DEF d, m, h
<1> QED BY <1>12, <1>13

-----------------------------------------------------------------------------
(* The reader and its buffer.                                                  *)

(* The reader's fields in every setup: the bytes it has, and how it counts.    *)
Multiplier(j) == IF j = 0 THEN 1 ELSE IF j = 1 THEN 128 ELSE IF j = 2 THEN 16384
                 ELSE IF j = 3 THEN 2097152 ELSE 268435456
InHeader == /\ state = 0 /\ buf = <<>> /\ len = 0 /\ remLen = 0 /\ multiplier = 1
InLength == /\ state = 1 /\ Len(buf) = 1 /\ len \in 0..4 /\ remLen < multiplier
            /\ \E j \in 0..len : multiplier = Multiplier(j)
InBody   == /\ state = 2 /\ len = Len(buf) /\ len + remLen <= BufLen
            /\ \E j \in 0..4 : multiplier = Multiplier(j)
ReaderInv == /\ arrived \in Strings /\ buf \in Strings /\ got \in Seq(Strings) /\ remLen \in Nat
             /\ InHeader \/ InLength \/ InBody

(* Initially the reader waits for a header,                                    *)
LEMMA ReaderInit == StreamInit => ReaderInv
BY DEF StreamInit, ReaderInv, InHeader, Strings

(* it does so again when it has returned a packet or given it up,              *)
LEMMA HandedOver ==
  ASSUME NEW packet \in Strings, HandOver(packet), got \in Seq(Strings), arrived' \in Strings
  PROVE  ReaderInv' /\ InHeader'
<1>1. InHeader' /\ got' \in Seq(Strings)
  BY DEF HandOver, InHeader
<1>2. buf' \in Strings /\ remLen' \in Nat
  BY <1>1 DEF InHeader, Strings
<1> QED BY <1>1, <1>2 DEF ReaderInv

(* and the body fits the buffer once the length is known.                      *)
LEMMA LengthIsKnown ==
  ASSUME ReaderInv, InLength, NEW n \in Remaining, LengthKnown(n), arrived' \in Strings
  PROVE  ReaderInv'
<1> DEFINE k == LengthBytes(n)
           e == MQTTPacket_encode(n)
<1>1. k \in 1..4 /\ e \in Strings /\ Len(e) = k /\ n \in Nat
  BY Encoded DEF Remaining
<1>2. buf \in Strings /\ got \in Seq(Strings) /\ Len(buf) = 1
  BY DEF ReaderInv, InLength
<1>3. CASE n + 1 + k > BufLen
  <2>1. HandOver(Failed) /\ Failed \in Strings
    BY <1>3 DEF LengthKnown, Failed, Strings
  <2> QED BY <1>2, <2>1, HandedOver
<1>4. CASE ~(n + 1 + k > BufLen)
  <2>1. /\ buf' = buf \o e /\ state' = 2 /\ remLen' = n /\ len' = 1 + k
        /\ multiplier' = multiplier /\ got' = got
    BY <1>4 DEF LengthKnown
  <2> HIDE DEF k, e
  <2>2. buf' \in Strings /\ Len(buf') = 1 + k
    <3>1. buf \o e \in Strings /\ Len(buf \o e) = Len(buf) + Len(e)
      BY <1>1, <1>2, ConcatIs
    <3> QED BY <1>1, <1>2, <2>1, <3>1
  <2>3. \E j \in 0..4 : multiplier' = Multiplier(j)
    <3>1. PICK j \in 0..len : multiplier = Multiplier(j)
      BY DEF InLength
    <3>2. j \in 0..4
      BY DEF InLength
    <3> QED BY <2>1, <3>1, <3>2
  <2>4. len' + remLen' <= BufLen
    BY <1>1, <1>4, <2>1, StreamAssumption
  <2> QED BY <1>1, <1>2, <2>1, <2>2, <2>3, <2>4 DEF ReaderInv, InBody
<1> QED BY <1>3, <1>4

(* Four rounds of a length stay below 128^4.                                   *)
LEMMA MultiplierIs ==
  ASSUME NEW j \in 0..4, NEW r \in Nat, r < Multiplier(j)
  PROVE  /\ Multiplier(j) \in Nat /\ r \in Remaining
         /\ j < 4 => Multiplier(j + 1) = Multiplier(j) * 128
         /\ j < 4 => \A a \in Nat : /\ r + (a % 128) * Multiplier(j) \in Nat
                                    /\ r + (a % 128) * Multiplier(j) < Multiplier(j) * 128
<1>1. CASE j = 0
  BY <1>1, SMT DEF Multiplier, Remaining
<1>2. CASE j = 1
  BY <1>2, SMT DEF Multiplier, Remaining
<1>3. CASE j = 2
  BY <1>3, SMT DEF Multiplier, Remaining
<1>4. CASE j = 3
  BY <1>4, SMT DEF Multiplier, Remaining
<1>5. CASE j = 4
  BY <1>5, SMT DEF Multiplier, Remaining
<1> QED BY <1>1, <1>2, <1>3, <1>4, <1>5

(* The bytes that a reader takes.                                              *)
LEMMA BytesOff ==
  ASSUME NEW k \in Nat, arrived \in Strings, k <= Len(arrived), TakeBytes(k)
  PROVE  /\ arrived' = Drop(arrived, k) /\ arrived' \in Strings
         /\ SubSeq(arrived, 1, k) \in Strings /\ Len(SubSeq(arrived, 1, k)) = k
<1>1. arrived' = Drop(arrived, k)
  BY DEF TakeBytes, Drop
<1> QED BY <1>1, DropIs, Prefix

(* However the network cuts, the reader does not write behind its buffer.      *)
LEMMA ReaderNext ==
  ASSUME ReaderInv, NetworkInv, [StreamNext]_streamVars
  PROVE  ReaderInv'
<1> USE DEF ReaderInv
<1>1. ASSUME NEW r \in AppRequests, Ask(r) PROVE ReaderInv'
  <2>1. UNCHANGED <<arrived, state, buf, len, remLen, multiplier, got>>
    BY <1>1, Zenon DEF Ask
  <2> QED BY <2>1 DEF InHeader, InLength, InBody
<1>2. ASSUME NEW m \in Messages, Publish(m) PROVE ReaderInv'
  <2>1. UNCHANGED <<arrived, state, buf, len, remLen, multiplier, got>>
    BY <1>2, Zenon DEF Publish
  <2> QED BY <2>1 DEF InHeader, InLength, InBody
<1>3. ASSUME Arrive PROVE ReaderInv'
  <2>1. PICK k \in 1..MaxCut \cup {Len(Head(wire).left)} :
           k <= Len(Head(wire).left) /\ Cut(k) /\ Deliver(k)
    BY <1>3, Zenon DEF Arrive
  <2> DEFINE piece == SubSeq(Head(wire).left, 1, k)
  <2>2. piece \in Strings
    <3>1. wire # <<>> /\ wire \in Seq([left : Strings, taken : Nat, fixed : Nat])
      BY <1>3 DEF Arrive, NetworkInv
    <3>2. Head(wire) \in [left : Strings, taken : Nat, fixed : Nat]
      BY <3>1, HeadTailProperties
    <3>3. Head(wire).left \in Strings
      BY <3>2
    <3>4. k \in Nat
      BY <3>3, StreamAssumption DEF Strings
    <3> QED BY <2>1, <3>3, <3>4, Prefix
  <2>3. arrived' = arrived \o piece /\ UNCHANGED <<state, buf, len, remLen, multiplier, got>>
    BY <2>1, Zenon DEF Deliver
  <2> HIDE DEF piece
  <2>4. arrived' \in Strings
    BY <2>2, <2>3, ConcatIs
  <2> QED BY <2>3, <2>4 DEF InHeader, InLength, InBody
<1>4. ASSUME ReadHeader PROVE ReaderInv'
  <2>1. /\ TakeBytes(1) /\ buf' = <<arrived[1]>> /\ len' = 0 /\ state' = 1 /\ state = 0
        /\ arrived # <<>> /\ remLen' = remLen /\ multiplier' = multiplier /\ got' = got
    BY <1>4, Zenon DEF ReadHeader
  <2>2. 1 <= Len(arrived) /\ arrived[1] \in Nat
    BY <2>1 DEF Strings
  <2>3. arrived' \in Strings
    BY <2>1, <2>2, BytesOff
  <2>4. remLen = 0 /\ multiplier = 1 /\ multiplier = Multiplier(0)
    BY <2>1 DEF InHeader, InLength, InBody, Multiplier
  <2>5. buf' \in Strings /\ Len(buf') = 1
    BY <2>1, <2>2 DEF Strings
  <2>6. InLength'
    BY <2>1, <2>4, <2>5 DEF InLength
  <2> QED BY <2>1, <2>3, <2>4, <2>5, <2>6
<1>5. ASSUME TooManyBytes PROVE ReaderInv'
  <2>1. state = 1 /\ arrived' = arrived /\ (HandOver(Failed) \/ LengthKnown(remLen))
    BY <1>5, Zenon DEF TooManyBytes
  <2>2. InLength
    BY <2>1 DEF InHeader, InBody
  <2>3. remLen \in Remaining
    <3>1. PICK j \in 0..len : multiplier = Multiplier(j)
      BY <2>2 DEF InLength
    <3>2. j \in 0..4 /\ remLen < Multiplier(j)
      BY <2>2, <3>1 DEF InLength
    <3> QED BY <3>2, MultiplierIs
  <2>4. Failed \in Strings
    BY DEF Failed, Strings
  <2> QED BY <2>1, <2>2, <2>3, <2>4, HandedOver, LengthIsKnown
<1>6. ASSUME ReadLength PROVE ReaderInv'
  <2> DEFINE n == remLen + (arrived[1] % 128) * multiplier
  <2>1. /\ state = 1 /\ len < 4 /\ arrived # <<>> /\ TakeBytes(1)
        /\ IF arrived[1] >= 128
           THEN /\ remLen' = n /\ multiplier' = multiplier * 128 /\ len' = len + 1
                /\ UNCHANGED <<state, buf, got>>
           ELSE LengthKnown(n)
    BY <1>6, Zenon DEF ReadLength, MAX_NO_OF_REMAINING_LENGTH_BYTES
  <2>2. InLength
    BY <2>1 DEF InHeader, InBody
  <2>3. PICK j \in 0..len : multiplier = Multiplier(j)
    BY <2>2 DEF InLength
  <2>4. j \in 0..4 /\ j < 4 /\ remLen < Multiplier(j) /\ len \in 0..3 /\ Len(buf) = 1 /\ j + 1 \in 0..(len + 1)
    BY <2>1, <2>2, <2>3 DEF InLength
  <2>5. 1 <= Len(arrived) /\ arrived[1] \in Nat
    BY <2>1 DEF Strings
  <2>6. arrived' \in Strings
    BY <2>1, <2>5, BytesOff
  <2>7. n \in Nat /\ n < multiplier * 128 /\ multiplier * 128 = Multiplier(j + 1)
    BY <2>3, <2>4, <2>5, MultiplierIs
  <2>8. n \in Remaining
    <3>1. j + 1 \in 0..4
      BY <2>4
    <3> HIDE DEF n
    <3> QED BY <2>7, <3>1, MultiplierIs
  <2> HIDE DEF n
  <2>9. CASE arrived[1] >= 128
    <3>1. /\ remLen' = n /\ multiplier' = Multiplier(j + 1) /\ len' = len + 1
          /\ state' = 1 /\ buf' = buf /\ got' = got
      BY <2>1, <2>7, <2>9
    <3>2. InLength'
      <4>1. remLen' < multiplier' /\ len' \in 0..4
        BY <2>4, <2>7, <3>1
      <4> QED BY <2>4, <3>1, <4>1 DEF InLength
    <3> QED BY <2>6, <2>7, <3>1, <3>2
  <2>10. CASE ~(arrived[1] >= 128)
    BY <2>1, <2>2, <2>6, <2>8, <2>10, LengthIsKnown
  <2> QED BY <2>9, <2>10
<1>7. ASSUME NoLengthByte PROVE ReaderInv'
  <2>1. /\ state = 1 /\ len < 4 /\ arrived' = arrived
        /\ \/ len' = len + 1 /\ UNCHANGED <<state, buf, remLen, multiplier, got>>
           \/ LengthKnown(remLen)
    BY <1>7, Zenon DEF NoLengthByte, MAX_NO_OF_REMAINING_LENGTH_BYTES
  <2>2. InLength
    BY <2>1 DEF InHeader, InBody
  <2>3. PICK j \in 0..len : multiplier = Multiplier(j)
    BY <2>2 DEF InLength
  <2>4. j \in 0..4 /\ remLen < Multiplier(j) /\ len \in 0..3 /\ j \in 0..(len + 1)
    BY <2>1, <2>2, <2>3 DEF InLength
  <2>5. remLen \in Remaining
    BY <2>4, MultiplierIs
  <2>6. CASE len' = len + 1 /\ UNCHANGED <<state, buf, remLen, multiplier, got>>
    <3>1. InLength'
      <4>1. len' \in 0..4 /\ j \in 0..len' /\ multiplier' = Multiplier(j)
        BY <2>3, <2>4, <2>6
      <4>2. state' = 1 /\ Len(buf') = 1 /\ remLen' < multiplier'
        BY <2>2, <2>6 DEF InLength
      <4> QED BY <4>1, <4>2 DEF InLength
    <3> QED BY <2>1, <2>6, <3>1
  <2>7. CASE LengthKnown(remLen)
    BY <2>1, <2>2, <2>5, <2>7, LengthIsKnown
  <2> QED BY <2>1, <2>6, <2>7
<1>8. ASSUME ReadSome PROVE ReaderInv'
  <2> DEFINE k == IF remLen < Len(arrived) THEN remLen ELSE Len(arrived)
             taken == SubSeq(arrived, 1, k)
  <2>1. /\ state = 2 /\ k > 0 /\ TakeBytes(k)
        /\ IF k = remLen THEN HandOver(buf \o taken)
           ELSE /\ buf' = buf \o taken /\ remLen' = remLen - k /\ len' = len + k
                /\ UNCHANGED <<state, multiplier, got>>
    BY <1>8, Zenon DEF ReadSome
  <2>2. InBody
    BY <2>1 DEF InHeader, InLength
  <2>3. k \in Nat /\ k <= Len(arrived) /\ k <= remLen
    BY DEF Strings
  <2>4. arrived' \in Strings /\ taken \in Strings /\ Len(taken) = k
    BY <2>1, <2>3, BytesOff
  <2> HIDE DEF k, taken
  <2>5. buf \o taken \in Strings /\ Len(buf \o taken) = Len(buf) + k /\ Len(buf) \in Nat
    BY <2>4, ConcatIs
  <2>6. CASE k = remLen
    BY <2>1, <2>4, <2>5, <2>6, HandedOver
  <2>7. CASE k # remLen
    <3>1. /\ buf' = buf \o taken /\ remLen' = remLen - k /\ len' = len + k
          /\ state' = 2 /\ multiplier' = multiplier /\ got' = got
      BY <2>1, <2>7
    <3>2. remLen' \in Nat /\ len' = Len(buf') /\ len' + remLen' <= BufLen
      BY <2>2, <2>3, <2>5, <3>1, StreamAssumption DEF InBody
    <3>3. InBody'
      BY <2>2, <3>1, <3>2 DEF InBody
    <3> QED BY <2>4, <2>5, <3>1, <3>2, <3>3
  <2> QED BY <2>6, <2>7
<1>9. ASSUME ReadRest PROVE ReaderInv'
  <2>1. /\ remLen <= Len(arrived) /\ TakeBytes(remLen)
        /\ HandOver(buf \o SubSeq(arrived, 1, remLen))
    BY <1>9 DEF ReadRest, Strings
  <2>2. arrived' \in Strings /\ SubSeq(arrived, 1, remLen) \in Strings
    BY <2>1, BytesOff
  <2>3. buf \o SubSeq(arrived, 1, remLen) \in Strings
    BY <2>2, ConcatIs
  <2> QED BY <2>1, <2>2, <2>3, HandedOver
<1>10. ASSUME RestMissing PROVE ReaderInv'
  <2>1. arrived' \in Strings /\ HandOver(Failed) /\ Failed \in Strings
    BY <1>10 DEF RestMissing, Failed, Strings
  <2> QED BY <2>1, HandedOver
<1>11. CASE UNCHANGED streamVars
  BY <1>11 DEF streamVars, InHeader, InLength, InBody
<1> QED BY <1>1, <1>2, <1>3, <1>4, <1>5, <1>6, <1>7, <1>8, <1>9, <1>10, <1>11 DEF StreamNext, Read

-----------------------------------------------------------------------------
(* Where the reader is in what has been delivered.                             *)

(* x[i] is what has been delivered behind the i-th packet.                     *)
StreamOf(x) ==
  /\ x \in [0..Delivered -> Strings]
  /\ x[Delivered] = Part
  /\ \A i \in 1..Delivered : x[i - 1] = BrokerBytes(sent[i]) \o x[i]

(* Where the reader is in s, which starts with packet p.                       *)
Consumed == IF state = 0 THEN 0 ELSE IF state = 1 THEN 1 + len ELSE len
LengthSoFar(p) == /\ buf = <<BrokerBytes(p)[1]>> /\ len < LengthBytes(Value(p))
                  /\ multiplier = Multiplier(len) /\ remLen = Value(p) % multiplier
BodySoFar(p) == /\ buf = SubSeq(BrokerBytes(p), 1, len)
                /\ Fixed(p) <= len /\ len + remLen = Len(BrokerBytes(p))
At(s, p) == /\ Consumed <= Len(s) /\ arrived = Drop(s, Consumed)
            /\ state = 1 => LengthSoFar(p)
            /\ state = 2 => BodySoFar(p)
Reads(x) == /\ Len(got) \in 0..Delivered
            /\ \A i \in 1..Len(got) : got[i] = BrokerBytes(sent[i])
            /\ At(x[Len(got)], sent[Len(got) + 1])
Tracked == cuts \in Tolerates[reader] => \E x : StreamOf(x) /\ Reads(x)

(* What is known of bytes s that start with packet p.                          *)
Ahead(s, p) ==
  LET b == BrokerBytes(p)
  IN /\ \A i \in 1..Len(s) : i <= Len(b) => s[i] = b[i]
     /\ Len(s) < Len(b) => cuts # "none" /\ (cuts = "body" => Fixed(p) <= Len(s))

(* What has been delivered behind the n-th packet starts with the next one: all*)
(* of it, or as much as the network has let through.                           *)
LEMMA ComesNext ==
  ASSUME NetworkInv, NEW x, StreamOf(x), NEW n \in 0..Delivered, x[n] # <<>>
  PROVE  /\ n + 1 \in 1..Len(sent) /\ sent[n + 1] \in BrokerPackets
         /\ x[n] \in Strings /\ Ahead(x[n], sent[n + 1])
         /\ Len(BrokerBytes(sent[n + 1])) <= Len(x[n])
              => n + 1 <= Delivered /\ x[n + 1] \in Strings /\ x[n] = BrokerBytes(sent[n + 1]) \o x[n + 1]
<1> DEFINE p == sent[n + 1]
           b == BrokerBytes(p)
           d == Delivered
           s == x[n]
<1>1. d \in Nat /\ Len(sent) \in Nat /\ Len(wire) \in Nat /\ d = Len(sent) - Len(wire) /\ sent \in Seq(BrokerPackets)
  BY DEF NetworkInv, Delivered
<1>2. \A i \in 0..d : x[i] \in Strings
  BY DEF StreamOf
<1>3. CASE n < d
  <2>1. n + 1 \in 1..d /\ n + 1 \in 0..d /\ (n + 1) - 1 = n /\ n + 1 \in 1..Len(sent)
    BY <1>1, <1>3
  <2>2. s = b \o x[n + 1]
    BY <2>1 DEF StreamOf
  <2>3. p \in BrokerPackets
    BY <1>1, <2>1
  <2>4. b \in Strings /\ x[n + 1] \in Strings /\ s \in Strings
    BY <1>2, <2>1, <2>3, PacketIs
  <2> HIDE DEF b, s, p
  <2>5. Len(s) = Len(b) + Len(x[n + 1]) /\ Len(b) \in Nat /\ Len(x[n + 1]) \in Nat /\ \A i \in 1..Len(b) : s[i] = b[i]
    BY <2>2, <2>4, ConcatIs
  <2>6. Ahead(s, p)
    <3>1. ~(Len(s) < Len(b)) /\ \A i \in 1..Len(s) : i <= Len(b) => s[i] = b[i]
      BY <2>5
    <3> QED BY <3>1 DEF Ahead, b
  <2>7. n + 1 <= d
    BY <2>1
  <2> QED BY <2>1, <2>2, <2>3, <2>4, <2>6, <2>7 DEF b, s, p
<1>4. CASE ~(n < d)
  <2>1. n = d /\ s = Part
    BY <1>1, <1>4 DEF StreamOf
  <2>2. wire # <<>> /\ s = SubSeq(b, 1, wire[1].taken)
    BY <2>1 DEF Part
  <2>3. Len(wire) > 0 /\ n + 1 \in 1..Len(sent) /\ 1 \in 1..Len(wire)
    <3>1. Len(wire) # 0
      BY <2>2 DEF NetworkInv
    <3> QED BY <1>1, <2>1, <3>1
  <2>4. p \in BrokerPackets
    BY <1>1, <2>3
  <2>5. b \in Strings /\ Len(b) \in Nat
    <3>1. b \in Strings
      BY <2>4, PacketIs
    <3> HIDE DEF b
    <3> QED BY <3>1 DEF Strings
  <2>6. OnTheWay(wire[1], p, cuts)
    BY <2>1, <2>3 DEF NetworkInv
  <2> DEFINE t == wire[1].taken
  <2>7. t \in Nat /\ t < Len(b) /\ (cuts = "none" => t = 0) /\ (cuts = "body" => t = 0 \/ t >= Fixed(p))
    BY <2>6 DEF OnTheWay
  <2> HIDE DEF b, s, p, t
  <2>8. s \in Strings /\ Len(s) = t /\ \A i \in 1..t : s[i] = b[i]
    <3>1. t <= Len(b)
      BY <2>5, <2>7
    <3> QED BY <2>2, <2>5, <2>7, <3>1, Prefix DEF t
  <2>9. t # 0
    <3>1. s # <<>>
      BY DEF s
    <3> QED BY <2>8, <3>1 DEF Strings
  <2>10. Ahead(s, p)
    <3>1. cuts # "none" /\ (cuts = "body" => Fixed(p) <= Len(s))
      <4>1. cuts = "body" => t >= Fixed(p)
        BY <2>7, <2>9
      <4>2. Fixed(p) \in Nat
        BY DEF Fixed, LengthBytes
      <4> QED BY <2>7, <2>8, <2>9, <4>1, <4>2
    <3> QED BY <2>8, <3>1 DEF Ahead, b
  <2>11. ~(Len(b) <= Len(s))
    BY <2>5, <2>7, <2>8
  <2> QED BY <2>3, <2>4, <2>8, <2>10, <2>11 DEF b, s, p
<1> QED BY <1>3, <1>4

(* A piece of the body is put behind what the buffer holds.                    *)
LEMMA BytesTaken ==
  ASSUME NEW s \in Strings, NEW b \in Strings, NEW l \in Nat, NEW k \in Nat,
         l + k <= Len(s), l + k <= Len(b), \A i \in 1..Len(s) : i <= Len(b) => s[i] = b[i]
  PROVE  /\ Drop(Drop(s, l), k) = Drop(s, l + k)
         /\ SubSeq(b, 1, l) \o SubSeq(Drop(s, l), 1, k) = SubSeq(b, 1, l + k)
<1> DEFINE m == l + k
           u == SubSeq(s, l + 1, m)
           v == SubSeq(b, l + 1, m)
<1>1. m \in Nat /\ l <= m /\ m <= Len(s) /\ m <= Len(b) /\ m - l = k /\ Len(s) \in Nat /\ Len(b) \in Nat
  BY DEF Strings
<1>2. Drop(Drop(s, l), k) = Drop(s, m) /\ SubSeq(Drop(s, l), 1, k) = u
  BY DropOfDrop, TakeOfDrop
<1>3. SubSeq(b, 1, l) \o v = SubSeq(b, 1, m)
  BY <1>1, Adjacent
<1> HIDE DEF m
<1>4. u \in Strings /\ Len(u) = m - l /\ \A i \in 1..(m - l) : u[i] = s[l + i]
  BY <1>1, SubSeqIs
<1>5. v \in Strings /\ Len(v) = m - l /\ \A i \in 1..(m - l) : v[i] = b[l + i]
  BY <1>1, SubSeqIs
<1> HIDE DEF u, v
<1>6. \A i \in 1..(m - l) : l + i \in 1..Len(s) /\ l + i <= Len(b)
  BY <1>1
<1>7. u = v
  <2>1. \A i \in 1..Len(u) : u[i] = v[i]
    BY <1>4, <1>5, <1>6
  <2> QED BY <1>4, <1>5, <2>1, SameString
<1> QED BY <1>2, <1>3, <1>7 DEF m

(* A header is that of the next packet,                                        *)
LEMMA HeaderTaken ==
  ASSUME ReaderInv, NEW s \in Strings, NEW p \in BrokerPackets, At(s, p), Ahead(s, p), ReadHeader
  PROVE  At(s, p)' /\ got' = got
<1> DEFINE b == BrokerBytes(p)
           n == Value(p)
           k == LengthBytes(n)
<1>1. b \in Strings /\ k \in 1..4 /\ Len(b) = 1 + k + n /\ n \in Nat
  BY PacketIs
<1>2. /\ state = 0 /\ arrived # <<>> /\ TakeBytes(1) /\ buf' = <<arrived[1]>> /\ len' = 0 /\ state' = 1
      /\ remLen' = remLen /\ multiplier' = multiplier /\ got' = got
  BY Zenon DEF ReadHeader
<1>3. arrived = s
  <2>1. arrived = Drop(s, 0)
    BY <1>2 DEF At, Consumed
  <2> QED BY <2>1, DropAll
<1>4. Len(s) \in Nat /\ 1 <= Len(s)
  BY <1>2, <1>3 DEF Strings
<1>5. arrived' = Drop(s, 1)
  BY <1>2, <1>3 DEF TakeBytes, Drop
<1>6. s[1] = b[1]
  <2>1. 1 \in 1..Len(s) /\ 1 <= Len(b)
    BY <1>1, <1>4
  <2> QED BY <2>1 DEF Ahead
<1>7. remLen = 0 /\ multiplier = 1
  BY <1>2 DEF ReaderInv, InHeader, InLength, InBody
<1>8. LengthSoFar(p)'
  <2>1. len' < k
    BY <1>1, <1>2
  <2>2. multiplier' = Multiplier(len') /\ remLen' = n % multiplier'
    <3>1. n % 1 = 0
      BY <1>1
    <3> QED BY <1>2, <1>7, <3>1 DEF Multiplier
  <2> QED BY <1>2, <1>3, <1>6, <2>1, <2>2 DEF LengthSoFar
<1>9. Consumed' = 1
  BY <1>2 DEF Consumed
<1> QED BY <1>2, <1>4, <1>5, <1>8, <1>9 DEF At

(* A number modulo a power of 128 and its next digit.                          *)
LEMMA NextDigit ==
  ASSUME NEW n \in Nat
  PROVE  /\ (n % 1) + ((n \div 1) % 128) * 1 = n % 128
         /\ (n % 128) + ((n \div 128) % 128) * 128 = n % 16384
         /\ (n % 16384) + ((n \div 16384) % 128) * 16384 = n % 2097152
         /\ (n % 2097152) + ((n \div 2097152) % 128) * 2097152 = n % 268435456
         /\ n < 128 => n % 128 = n
         /\ n < 16384 => n % 16384 = n
         /\ n < 2097152 => n % 2097152 = n
         /\ n < 268435456 => n % 268435456 = n
<1>1. (n % 1) + ((n \div 1) % 128) * 1 = n % 128
  BY SMT
<1>2. (n % 128) + ((n \div 128) % 128) * 128 = n % 16384
  BY SMT
<1>3. (n % 16384) + ((n \div 16384) % 128) * 16384 = n % 2097152
  BY SMT
<1>4. (n % 2097152) + ((n \div 2097152) % 128) * 2097152 = n % 268435456
  BY SMT
<1>5. /\ n < 128 => n % 128 = n
      /\ n < 16384 => n % 16384 = n
      /\ n < 2097152 => n % 2097152 = n
      /\ n < 268435456 => n % 268435456 = n
  BY SMT
<1> QED BY <1>1, <1>2, <1>3, <1>4, <1>5

(* The multipliers of the reading loop are those of the writer.                *)
LEMMA Multipliers ==
  /\ Multiplier(0) = 1 /\ Multiplier(1) = 128 /\ Multiplier(2) = 16384 /\ Multiplier(3) = 2097152
  /\ Multiplier(4) = 268435456
  /\ Power128[1] = Multiplier(0) /\ Power128[2] = Multiplier(1) /\ Power128[3] = Multiplier(2)
  /\ Power128[4] = Multiplier(3)
BY SMT DEF Multiplier, Power128

(* A round of the reading loop adds the next digit of the length.              *)
LEMMA DigitRead ==
  ASSUME NEW n \in Remaining, NEW j \in 0..3, j < LengthBytes(n), NEW r, r = n % Multiplier(j),
         NEW e, e % 128 = (n \div Power128[j + 1]) % 128
  PROVE  /\ r + (e % 128) * Multiplier(j) = n % Multiplier(j + 1)
         /\ LengthBytes(n) = j + 1 => n % Multiplier(j + 1) = n
<1>0. n \in Nat
  BY DEF Remaining
<1>1. LengthBytes(n) = 1 => n < 128
  BY <1>0, SMT DEF LengthBytes
<1>2. LengthBytes(n) = 2 => n < 16384
  BY <1>0, SMT DEF LengthBytes
<1>3. LengthBytes(n) = 3 => n < 2097152
  BY <1>0, SMT DEF LengthBytes
<1>4. n < 268435456
  BY DEF Remaining
<1>5. CASE j = 0
  <2>1. j + 1 = 1
    BY <1>5
  <2>2. r = n % 1 /\ e % 128 = (n \div 1) % 128 /\ Multiplier(j) = 1 /\ Multiplier(j + 1) = 128
    BY <1>5, <2>1, Multipliers
  <2> QED BY <1>0, <1>1, <2>1, <2>2, NextDigit
<1>6. CASE j = 1
  <2>1. j + 1 = 2
    BY <1>6
  <2>2. r = n % 128 /\ e % 128 = (n \div 128) % 128 /\ Multiplier(j) = 128 /\ Multiplier(j + 1) = 16384
    BY <1>6, <2>1, Multipliers
  <2> QED BY <1>0, <1>2, <2>1, <2>2, NextDigit
<1>7. CASE j = 2
  <2>1. j + 1 = 3
    BY <1>7
  <2>2. r = n % 16384 /\ e % 128 = (n \div 16384) % 128 /\ Multiplier(j) = 16384 /\ Multiplier(j + 1) = 2097152
    BY <1>7, <2>1, Multipliers
  <2> QED BY <1>0, <1>3, <2>1, <2>2, NextDigit
<1>8. CASE j = 3
  <2>1. j + 1 = 4
    BY <1>8
  <2>2. r = n % 2097152 /\ e % 128 = (n \div 2097152) % 128 /\ Multiplier(j) = 2097152 /\ Multiplier(j + 1) = 268435456
    BY <1>8, <2>1, Multipliers
  <2> QED BY <1>0, <1>4, <2>1, <2>2, NextDigit
<1> QED BY <1>5, <1>6, <1>7, <1>8

(* its length bytes are those of that packet,                                  *)
LEMMA LengthTaken ==
  ASSUME ReaderInv, NEW s \in Strings, NEW p \in BrokerPackets, At(s, p), Ahead(s, p), ReadLength
  PROVE  At(s, p)' /\ got' = got
<1> DEFINE b == BrokerBytes(p)
           n == Value(p)
           k == LengthBytes(n)
           e == MQTTPacket_encode(n)
           c == arrived[1]
           r == remLen + (c % 128) * multiplier
<1>1. /\ b \in Strings /\ k \in 1..4 /\ Len(b) = 1 + k + n /\ n \in Nat /\ n \in Remaining
      /\ Len(b) <= BufLen
      /\ \A i \in 1..k : b[1 + i] = e[i]
      /\ SubSeq(b, 1, 1 + k) = <<b[1]>> \o e
  BY PacketIs
<1>2. /\ state = 1 /\ len < 4 /\ arrived # <<>> /\ TakeBytes(1)
      /\ IF c >= 128
         THEN /\ remLen' = r /\ multiplier' = multiplier * 128 /\ len' = len + 1
              /\ UNCHANGED <<state, buf, got>>
         ELSE LengthKnown(r)
  BY Zenon DEF ReadLength, MAX_NO_OF_REMAINING_LENGTH_BYTES
<1>3. /\ LengthSoFar(p) /\ 1 + len <= Len(s) /\ arrived = Drop(s, 1 + len)
  BY <1>2 DEF At, Consumed
<1>4. buf = <<b[1]>> /\ len < k /\ multiplier = Multiplier(len) /\ remLen = n % Multiplier(len)
  BY <1>3 DEF LengthSoFar
<1>5. len \in 0..3
  BY <1>2 DEF ReaderInv, InHeader, InLength, InBody
<1>6. \A i \in 1..k : e[i] % 128 = (n \div Power128[i]) % 128 /\ ((e[i] < 128) <=> (i = k)) /\ e[i] \in 0..255
  BY <1>1, Encoded
<1> HIDE DEF b, n, k, e
<1>7. Len(s) \in Nat /\ 1 + len + 1 <= Len(s) /\ c = s[1 + len + 1]
  <2>1. 1 + len \in Nat
    BY <1>5
  <2>2. arrived \in Strings /\ Len(arrived) = Len(s) - (1 + len) /\ \A i \in 1..(Len(s) - (1 + len)) : arrived[i] = s[1 + len + i]
    BY <1>3, <2>1, DropIs
  <2>3. Len(arrived) # 0 /\ Len(s) \in Nat
    BY <1>2, <2>2 DEF Strings
  <2>4. 1 \in 1..(Len(s) - (1 + len)) /\ 1 + len + 1 <= Len(s)
    BY <1>3, <2>1, <2>2, <2>3
  <2> QED BY <2>2, <2>3, <2>4
<1> HIDE DEF c
<1>8. c = e[len + 1]
  <2>1. 1 + len + 1 \in 1..Len(s) /\ 1 + len + 1 <= Len(b) /\ len + 1 \in 1..k /\ 1 + (len + 1) = 1 + len + 1
    BY <1>1, <1>4, <1>5, <1>7
  <2>2. s[1 + len + 1] = b[1 + len + 1]
    BY <2>1 DEF Ahead, b
  <2>3. b[1 + (len + 1)] = e[len + 1]
    BY <1>1, <2>1
  <2> QED BY <1>7, <2>1, <2>2, <2>3
<1>9. /\ c % 128 = (n \div Power128[len + 1]) % 128 /\ c \in 0..255
      /\ (c < 128) <=> (len + 1 = k)
  <2>1. len + 1 \in 1..k
    BY <1>1, <1>4, <1>5
  <2> QED BY <1>6, <1>8, <2>1
<1>10. r = n % Multiplier(len + 1) /\ (k = len + 1 => r = n)
  <2>1. /\ remLen + (c % 128) * Multiplier(len) = n % Multiplier(len + 1)
        /\ LengthBytes(n) = len + 1 => n % Multiplier(len + 1) = n
    BY <1>1, <1>4, <1>5, <1>9, DigitRead, SMTT(30) DEF k
  <2> QED BY <1>4, <2>1 DEF k
<1> HIDE DEF r
<1>11. arrived' = Drop(s, 1 + len + 1)
  <2>1. arrived' = Drop(arrived, 1)
    BY <1>2 DEF TakeBytes, Drop
  <2>2. 1 + len \in Nat
    BY <1>5
  <2> QED BY <1>3, <1>7, <2>1, <2>2, DropOfDrop
<1>12. CASE c >= 128
  <2>1. /\ remLen' = r /\ multiplier' = multiplier * 128 /\ len' = len + 1
        /\ state' = 1 /\ buf' = buf /\ got' = got
    BY <1>2, <1>12
  <2>2. len' < k
    BY <1>1, <1>4, <1>5, <1>9, <1>12, <2>1
  <2>3. multiplier' = Multiplier(len')
    <3>1. Multiplier(len) * 128 = Multiplier(len + 1)
      <4>1. len = 0 \/ len = 1 \/ len = 2 \/ len = 3
        BY <1>5
      <4>2. 0 + 1 = 1 /\ 1 + 1 = 2 /\ 2 + 1 = 3 /\ 3 + 1 = 4
        OBVIOUS
      <4>3. 1 * 128 = 128 /\ 128 * 128 = 16384 /\ 16384 * 128 = 2097152 /\ 2097152 * 128 = 268435456
        BY SMT
      <4> QED BY <4>1, <4>2, <4>3, Multipliers
    <3> QED BY <1>4, <2>1, <3>1
  <2>4. LengthSoFar(p)'
    BY <1>4, <1>10, <2>1, <2>2, <2>3 DEF LengthSoFar, b, n, k
  <2>5. Consumed' = 1 + len + 1
    BY <1>5, <2>1 DEF Consumed
  <2> QED BY <1>7, <1>11, <2>1, <2>4, <2>5 DEF At
<1>13. CASE ~(c >= 128)
  <2>1. k = len + 1 /\ r = n
    BY <1>9, <1>10, <1>13
  <2>2. LengthKnown(n)
    BY <1>2, <1>13, <2>1
  <2>3. ~(n + 1 + LengthBytes(n) > BufLen)
    <3>1. n + 1 + k = 1 + k + n
      BY <1>1
    <3> QED BY <1>1, <3>1, StreamAssumption DEF k
  <2>4. /\ buf' = buf \o e /\ state' = 2 /\ remLen' = n /\ len' = 1 + k /\ got' = got
    BY <2>2, <2>3 DEF LengthKnown, k, e
  <2>5. BodySoFar(p)'
    <3>1. buf' = SubSeq(b, 1, len')
      BY <1>1, <1>4, <2>4
    <3>2. Fixed(p) = 1 + k
      BY DEF Fixed, k, n
    <3>3. Fixed(p) <= len' /\ len' + remLen' = Len(b)
      BY <1>1, <2>4, <3>2
    <3> QED BY <3>1, <3>3 DEF BodySoFar, b
  <2>6. Consumed' = 1 + len + 1
    BY <1>5, <2>1, <2>4 DEF Consumed
  <2> QED BY <1>7, <1>11, <2>4, <2>5, <2>6 DEF At
<1> QED BY <1>9, <1>12, <1>13

(* In what a reader tolerates, a length byte is there when it asks for one and *)
(* is one of at most four, and all of a packet is there for readPacket.        *)
LEMMA NothingMissing ==
  ASSUME ReaderInv, NEW s \in Strings, NEW p \in BrokerPackets, At(s, p), Ahead(s, p),
         cuts \in Tolerates[reader]
  PROVE  ~TooManyBytes /\ ~NoLengthByte /\ ~RestMissing
<1> DEFINE b == BrokerBytes(p)
           n == Value(p)
           k == LengthBytes(n)
<1>1. b \in Strings /\ k \in 1..4 /\ Len(b) = 1 + k + n /\ n \in Nat
  BY PacketIs
<1>2. Fixed(p) = 1 + k
  BY DEF Fixed
<1> HIDE DEF b, n, k
<1>3. Len(s) \in Nat
  BY DEF Strings
<1>4. Len(s) < Len(b) => cuts # "none" /\ (cuts = "body" => 1 + k <= Len(s))
  BY <1>2 DEF Ahead, b
<1>5. /\ reader = "readnb" => cuts \in {"none", "body"}
      /\ reader = "readPacket" => cuts = "none"
  BY DEF Tolerates
<1>6. ASSUME state = 1 PROVE len \in 0..3 /\ len < k /\ 1 + len <= Len(s) /\ arrived = Drop(s, 1 + len)
  <2>1. LengthSoFar(p) /\ 1 + len <= Len(s) /\ arrived = Drop(s, 1 + len)
    BY <1>6 DEF At, Consumed
  <2>2. len \in 0..4
    BY <1>6 DEF ReaderInv, InHeader, InLength, InBody
  <2> QED BY <1>1, <2>1, <2>2 DEF LengthSoFar, k, n
<1>7. ~TooManyBytes
  BY <1>6 DEF TooManyBytes, MAX_NO_OF_REMAINING_LENGTH_BYTES
<1>8. ~NoLengthByte
  <2> SUFFICES ASSUME NoLengthByte PROVE FALSE
    OBVIOUS
  <2>1. state = 1 /\ arrived = <<>> /\ (reader = "readnb" \/ reader = "readPacket")
    BY Zenon DEF NoLengthByte
  <2>2. len \in 0..3 /\ len < k /\ 1 + len <= Len(s) /\ arrived = Drop(s, 1 + len)
    BY <1>6, <2>1
  <2>3. Len(arrived) = Len(s) - (1 + len)
    BY <2>2, DropIs
  <2>4. Len(s) = 1 + len
    BY <1>3, <2>1, <2>2, <2>3
  <2>5. Len(s) < Len(b) /\ ~(1 + k <= Len(s))
    BY <1>1, <2>2, <2>4
  <2> QED BY <1>4, <1>5, <2>1, <2>5
<1>9. ~RestMissing
  <2> SUFFICES ASSUME RestMissing PROVE FALSE
    OBVIOUS
  <2>1. state = 2 /\ reader = "readPacket" /\ Len(arrived) < remLen
    BY DEF RestMissing
  <2>2. BodySoFar(p) /\ len <= Len(s) /\ arrived = Drop(s, len)
    BY <2>1 DEF At, Consumed
  <2>3. len \in Nat /\ remLen \in Nat
    BY <2>1 DEF ReaderInv, InHeader, InLength, InBody, Strings
  <2>4. Len(arrived) = Len(s) - len
    BY <2>2, <2>3, DropIs
  <2>5. Len(s) < Len(b)
    BY <1>1, <1>3, <2>1, <2>2, <2>3, <2>4 DEF BodySoFar, b
  <2> QED BY <1>4, <1>5, <2>1, <2>5
<1> QED BY <1>7, <1>8, <1>9

Complete(s, p) == /\ Len(BrokerBytes(p)) <= Len(s)
                  /\ got' = Append(got, BrokerBytes(p)) /\ state' = 0
                  /\ arrived' = Drop(s, Len(BrokerBytes(p)))

(* and so are the bytes of its body, until it is returned.                     *)
LEMMA BodyTaken ==
  ASSUME ReaderInv, NEW s \in Strings, NEW p \in BrokerPackets, At(s, p), Ahead(s, p),
         ReadSome \/ ReadRest
  PROVE  (At(s, p)' /\ got' = got) \/ Complete(s, p)
<1> DEFINE b == BrokerBytes(p)
           k == IF reader # "readnb" THEN remLen
                ELSE IF remLen < Len(arrived) THEN remLen ELSE Len(arrived)
           taken == SubSeq(arrived, 1, k)
<1>1. b \in Strings
  BY PacketIs
<1>2. /\ state = 2 /\ TakeBytes(k)
      /\ IF k = remLen THEN HandOver(buf \o taken)
         ELSE /\ buf' = buf \o taken /\ remLen' = remLen - k /\ len' = len + k
              /\ UNCHANGED <<state, multiplier, got>>
  <2>1. CASE ReadSome
    <3> DEFINE j == IF remLen < Len(arrived) THEN remLen ELSE Len(arrived)
    <3>1. /\ reader = "readnb" /\ state = 2 /\ TakeBytes(j)
          /\ IF j = remLen THEN HandOver(buf \o SubSeq(arrived, 1, j))
             ELSE /\ buf' = buf \o SubSeq(arrived, 1, j) /\ remLen' = remLen - j /\ len' = len + j
                  /\ UNCHANGED <<state, multiplier, got>>
      BY <2>1, Zenon DEF ReadSome
    <3>2. k = j
      BY <3>1
    <3> QED BY <3>1, <3>2
  <2>2. CASE ReadRest
    <3>1. reader # "readnb" /\ state = 2 /\ TakeBytes(remLen) /\ HandOver(buf \o SubSeq(arrived, 1, remLen))
      BY <2>2 DEF ReadRest
    <3>2. k = remLen
      BY <3>1
    <3> QED BY <3>1, <3>2
  <2> QED BY <2>1, <2>2
<1>3. BodySoFar(p) /\ len <= Len(s) /\ arrived = Drop(s, len)
  BY <1>2 DEF At, Consumed
<1>4. /\ buf = SubSeq(b, 1, len) /\ Fixed(p) <= len /\ len + remLen = Len(b)
  BY <1>3 DEF BodySoFar
<1>5. len \in Nat /\ remLen \in Nat /\ Len(s) \in Nat /\ Len(b) \in Nat
  BY <1>1, <1>2 DEF ReaderInv, InHeader, InLength, InBody, Strings
<1>6. Len(arrived) = Len(s) - len
  BY <1>3, <1>5, DropIs
<1>7. k \in Nat /\ k <= remLen /\ k <= Len(arrived)
  <2>1. CASE ReadSome
    <3>1. reader = "readnb"
      BY <2>1 DEF ReadSome
    <3>2. k = IF remLen < Len(arrived) THEN remLen ELSE Len(arrived)
      BY <3>1
    <3>3. Len(arrived) \in Nat
      BY <1>3, <1>5, <1>6
    <3> HIDE DEF k
    <3> QED BY <1>5, <3>2, <3>3
  <2>2. CASE ReadRest
    <3>1. reader # "readnb" /\ remLen <= Len(arrived)
      BY <1>3, <1>5, <1>6, <2>2 DEF ReadRest
    <3>2. k = remLen
      BY <3>1
    <3> QED BY <1>5, <3>1, <3>2
  <2> QED BY <2>1, <2>2
<1> HIDE DEF k
<1>8. len + k <= Len(s) /\ len + k <= Len(b) /\ len + k \in Nat /\ (k = remLen <=> len + k = Len(b))
  BY <1>3, <1>4, <1>5, <1>6, <1>7
<1> HIDE DEF b
<1>9. \A i \in 1..Len(s) : i <= Len(b) => s[i] = b[i]
  BY DEF Ahead, b
<1>10. /\ Drop(Drop(s, len), k) = Drop(s, len + k)
       /\ SubSeq(b, 1, len) \o SubSeq(Drop(s, len), 1, k) = SubSeq(b, 1, len + k)
  BY <1>1, <1>5, <1>7, <1>8, <1>9, BytesTaken, ZenonT(60)
<1>11. arrived' = Drop(s, len + k) /\ buf \o taken = SubSeq(b, 1, len + k)
  <2>1. arrived' = Drop(arrived, k)
    BY <1>2 DEF TakeBytes, Drop
  <2> QED BY <1>3, <1>4, <1>10, <2>1
<1> HIDE DEF taken
<1>12. CASE k = remLen
  <2>1. SubSeq(b, 1, len + k) = b
    <3>1. SubSeq(b, 1, Len(b)) = b
      BY <1>1, SubSeqFull DEF Strings
    <3> QED BY <1>8, <1>12, <3>1
  <2>2. got' = Append(got, b) /\ state' = 0
    BY <1>2, <1>11, <1>12, <2>1 DEF HandOver
  <2> QED BY <1>8, <1>11, <1>12, <2>2 DEF Complete, b
<1>13. CASE k # remLen
  <2>1. /\ buf' = buf \o taken /\ remLen' = remLen - k /\ len' = len + k
        /\ state' = state /\ got' = got
    BY <1>2, <1>13
  <2>2. BodySoFar(p)'
    <3>1. buf' = SubSeq(b, 1, len')
      BY <1>11, <2>1
    <3>2. Fixed(p) \in Nat
      BY DEF Fixed, LengthBytes
    <3>3. Fixed(p) <= len' /\ len' + remLen' = Len(b)
      <4> DEFINE f == Fixed(p)
      <4>1. f \in Nat /\ f <= len
        BY <1>4, <3>2
      <4> HIDE DEF f
      <4>2. f <= len' /\ len' + remLen' = Len(b)
        <5>1. len' = len + k /\ remLen' = remLen - k /\ len + remLen = Len(b) /\ f <= len
          BY <1>4, <2>1, <4>1
        <5>2. len \in Nat /\ remLen \in Nat /\ k \in Nat /\ f \in Nat
          BY <1>5, <1>7, <4>1
        <5> QED BY <5>1, <5>2
      <4> QED BY <4>2 DEF f
    <3> QED BY <3>1, <3>3 DEF BodySoFar, b
  <2>3. Consumed' = len + k /\ state' = 2
    BY <1>2, <2>1 DEF Consumed
  <2> QED BY <1>8, <1>11, <2>1, <2>2, <2>3 DEF At
<1> QED BY <1>12, <1>13

(* A reader starts with the packet it finds behind the last one.               *)
LEMMA StartsOver ==
  ASSUME NEW s \in Strings, NEW p, state' = 0, arrived' = s
  PROVE  At(s, p)'
<1>1. Consumed' = 0 /\ Drop(s, 0) = s /\ 0 <= Len(s)
  BY DropAll DEF Consumed, Strings
<1> QED BY <1>1 DEF At

(* What a step must show for the reader to stay on the track.                  *)
LEMMA ReadsNext ==
  ASSUME NEW x, NEW s, NEW q, s = x[Len(got')], q = sent'[Len(got') + 1], At(s, q)',
         Len(got') \in 0..Delivered', \A i \in 1..Len(got') : got'[i] = BrokerBytes(sent'[i])
  PROVE  Reads(x)'
BY DEF Reads, At, LengthSoFar, BodySoFar

(* Initially nothing has been read.                                            *)
LEMMA TrackedInit == StreamInit => Tracked
<1> SUFFICES ASSUME StreamInit PROVE Tracked
  OBVIOUS
<1>1. sent = <<>> /\ wire = <<>> /\ arrived = <<>> /\ got = <<>> /\ state = 0
  BY DEF StreamInit
<1>2. Delivered = 0 /\ Part = <<>> /\ Len(got) = 0
  BY <1>1 DEF Delivered, Part
<1> DEFINE x == [i \in 0..0 |-> <<>>]
<1>3. StreamOf(x)
  BY <1>2 DEF StreamOf, Strings
<1>4. At(<<>>, sent[1])
  <2>1. <<>> \in Strings /\ Drop(<<>>, 0) = <<>> /\ Len(<<>>) = 0
    <3>1. <<>> \in Strings
      BY DEF Strings
    <3> QED BY <3>1, DropAll
  <2> QED BY <1>1, <2>1 DEF At, Consumed
<1>5. Reads(x)
  <2>1. x[0] = <<>> /\ 0 + 1 = 1
    OBVIOUS
  <2> HIDE DEF x
  <2> QED BY <1>1, <1>2, <1>4, <2>1 DEF Reads
<1> QED BY <1>3, <1>5 DEF Tracked

(* Nothing the reader has done changes with what the broker sends...           *)
LEMMA TrackedPost ==
  ASSUME NetworkInv, ReaderInv, NEW x, StreamOf(x), Reads(x), NEW p \in BrokerPackets, Post(p),
         UNCHANGED <<reader, cuts, arrived, state, buf, len, remLen, multiplier, got>>
  PROVE  StreamOf(x)' /\ Reads(x)'
<1> DEFINE d == Delivered
           n == Len(got)
<1>1. /\ d \in Nat /\ Len(sent) \in Nat /\ Len(wire) \in Nat /\ d = Len(sent) - Len(wire)
      /\ sent \in Seq(BrokerPackets) /\ n \in 0..d
  BY DEF NetworkInv, Delivered, Reads
<1>2. /\ Delivered' = Delivered
      /\ \A i \in 1..Len(sent) : sent'[i] = sent[i]
      /\ \A i \in 1..Len(wire) : wire'[i] = wire[i]
      /\ Len(wire') = Len(wire) + 1
      /\ wire'[Len(wire) + 1].taken = 0
      /\ Len(sent') = Len(sent) + 1 /\ NetworkInv'
  BY NetworkPost
<1>3. Part' = Part
  <2>1. wire' # <<>>
    BY <1>1, <1>2
  <2>2. CASE wire = <<>>
    <3>1. wire'[1].taken = 0 /\ Part = <<>>
      BY <1>2, <2>2 DEF Part
    <3> DEFINE c == BrokerBytes(sent'[Delivered' + 1])
    <3>2. c \in Strings
      <4>1. Delivered' + 1 \in 1..Len(sent') /\ sent' \in Seq(BrokerPackets)
        BY <1>1, <1>2, <2>2 DEF NetworkInv
      <4>2. sent'[Delivered' + 1] \in BrokerPackets
        BY <4>1
      <4> QED BY <4>2, PacketIs
    <3> HIDE DEF c
    <3>3. SubSeq(c, 1, 0) = <<>>
      <4>1. 0 <= Len(c)
        BY <3>2 DEF Strings
      <4>2. SubSeq(c, 1, 0) \in Strings /\ Len(SubSeq(c, 1, 0)) = 0
        BY <3>2, <4>1, Prefix
      <4> QED BY <4>2 DEF Strings
    <3> QED BY <2>1, <3>1, <3>3 DEF Part, c
  <2>3. CASE wire # <<>>
    <3>1. 1 \in 1..Len(wire) /\ Delivered + 1 \in 1..Len(sent)
      <4>1. Len(wire) # 0
        BY <2>3 DEF NetworkInv
      <4> QED BY <1>1, <4>1
    <3> QED BY <1>2, <2>1, <2>3, <3>1 DEF Part
  <2> QED BY <2>2, <2>3
<1>4. \A i \in 1..d : sent'[i] = sent[i]
  BY <1>1, <1>2
<1>5. StreamOf(x)'
  BY <1>2, <1>3, <1>4 DEF StreamOf
<1>6. At(x[n], sent[n + 1])
  BY DEF Reads
<1>7. \A i \in 1..n : got'[i] = BrokerBytes(sent'[i])
  BY <1>1, <1>4 DEF Reads
<1>8. PICK s, q : s = x[n] /\ q = sent'[n + 1]
  OBVIOUS
<1>9. At(s, q)'
  <2>1. state # 0 => q = sent[n + 1]
    <3> SUFFICES ASSUME state # 0 PROVE q = sent[n + 1]
      OBVIOUS
    <3>1. x[n] \in Strings
      BY <1>1 DEF StreamOf
    <3>2. Consumed # 0 => x[n] # <<>>
      <4>1. Consumed <= Len(x[n]) /\ Consumed \in Nat
        BY <1>6 DEF At, Consumed, ReaderInv, InHeader, InLength, InBody, Strings
      <4> QED BY <3>1, <4>1 DEF Strings
    <3>3. Consumed # 0
      BY <1>6 DEF At, Consumed, ReaderInv, InHeader, InLength, InBody, BodySoFar, Fixed, LengthBytes
    <3>4. n + 1 \in 1..Len(sent)
      BY <1>1, <3>2, <3>3, ComesNext
    <3> QED BY <1>2, <1>8, <3>4
  <2>2. (state = 1 => LengthSoFar(q)) /\ (state = 2 => BodySoFar(q))
    BY <1>6, <2>1 DEF At
  <2>3. LengthSoFar(q)' = LengthSoFar(q) /\ BodySoFar(q)' = BodySoFar(q) /\ Consumed' = Consumed
    BY DEF LengthSoFar, BodySoFar, Consumed
  <2> QED BY <1>6, <1>8, <2>2, <2>3 DEF At
<1>10. Len(got') = n /\ n \in 0..Delivered'
  BY <1>1, <1>2
<1>11. Reads(x)'
  BY <1>7, <1>8, <1>9, <1>10, ReadsNext
<1> QED BY <1>5, <1>11

(* ... but what is delivered comes behind what it has not read yet.            *)
LEMMA TrackedDeliver ==
  ASSUME NetworkInv, ReaderInv, NEW x, StreamOf(x), Reads(x), wire # <<>>,
         NEW k \in Nat, k \in 1..Len(Head(wire).left), Cut(k), Deliver(k)
  PROVE  \E y : StreamOf(y)' /\ Reads(y)'
<1> DEFINE d == Delivered
           n == Len(got)
           t == SubSeq(Head(wire).left, 1, k)
           Y == [i \in 0..Delivered' |-> IF i <= d THEN x[i] \o t ELSE <<>>]
<1>0. PICK y : y = Y
  OBVIOUS
<1>1. /\ NetworkInv' /\ t \in Strings /\ d + 1 \in 1..Len(sent)
      /\ \/ Delivered' = d /\ Part' = Part \o t
         \/ /\ Delivered' = d + 1 /\ Part' = <<>>
            /\ Part \o t = BrokerBytes(sent[d + 1])
  BY NetworkDeliver
<1>2. /\ sent' = sent /\ arrived' = arrived \o t
      /\ UNCHANGED <<reader, cuts, state, buf, len, remLen, multiplier, got>>
  BY Zenon DEF Deliver
<1>3. d \in Nat /\ n \in 0..d /\ sent \in Seq(BrokerPackets) /\ Len(sent) \in Nat
  <2>1. Len(sent) \in Nat /\ Len(wire) \in Nat /\ Len(wire) <= Len(sent) /\ sent \in Seq(BrokerPackets)
    BY DEF NetworkInv
  <2> QED BY <2>1 DEF Delivered, Reads
<1>4. /\ \A i \in 0..d : x[i] \in Strings
      /\ x[d] = Part /\ \A i \in 1..d : x[i - 1] = BrokerBytes(sent[i]) \o x[i]
  BY DEF StreamOf
<1> HIDE DEF t
<1>5. Delivered' \in Nat /\ d <= Delivered' /\ <<>> \in Strings
  <2>1. Delivered' = d \/ Delivered' = d + 1
    BY <1>1
  <2> QED BY <1>3, <2>1 DEF Strings
<1>6. \A i \in 0..d : y[i] = x[i] \o t /\ i \in 0..Delivered'
  <2> TAKE i \in 0..d
  <2>1. i \in 0..Delivered' /\ i <= d
    BY <1>3, <1>5
  <2> QED BY <1>0, <2>1
<1>7. y \in [0..Delivered' -> Strings]
  <2>1. \A i \in 0..d : x[i] \o t \in Strings
    BY <1>1, <1>4, ConcatIs
  <2> QED BY <1>0, <1>3, <1>5, <2>1
<1>8. Delivered' = d + 1 => y[d + 1] = <<>>
  BY <1>0, <1>3, <1>5
<1> HIDE DEF Y
<1>9. \A i \in 1..d : y[i - 1] = BrokerBytes(sent[i]) \o y[i]
  <2> TAKE i \in 1..d
  <2>1. i - 1 \in 0..d /\ i \in 0..d /\ i \in 1..Len(sent)
    BY <1>1, <1>3
  <2>2. BrokerBytes(sent[i]) \in Strings
    <3>1. sent[i] \in BrokerPackets
      BY <1>3, <2>1
    <3> QED BY <3>1, PacketIs
  <2> DEFINE b == BrokerBytes(sent[i])
             u == x[i]
  <2>3. y[i - 1] = (b \o u) \o t /\ y[i] = u \o t /\ u \in Strings
    BY <1>4, <1>6, <2>1
  <2> HIDE DEF b, u
  <2>4. (b \o u) \o t = b \o (u \o t)
    <3>1. b \in Seq(Nat) /\ u \in Seq(Nat) /\ t \in Seq(Nat)
      BY <1>1, <2>2, <2>3 DEF Strings, b
    <3> QED BY <3>1, ConcatAssociative, SMTT(30)
  <2> QED BY <2>3, <2>4 DEF b
<1>10. y[d] = Part \o t
  <2>1. d \in 0..d
    BY <1>3
  <2> QED BY <1>4, <1>6, <2>1
<1>11. StreamOf(y)'
  <2>1. CASE Delivered' = d /\ Part' = Part \o t
    BY <1>2, <1>7, <1>9, <1>10, <2>1 DEF StreamOf
  <2>2. CASE Delivered' = d + 1 /\ Part' = <<>> /\ Part \o t = BrokerBytes(sent[d + 1])
    <3> DEFINE b == BrokerBytes(sent[d + 1])
    <3>1. b \in Strings
      <4>1. sent[d + 1] \in BrokerPackets
        BY <1>1, <1>3
      <4> QED BY <4>1, PacketIs
    <3>2. y[d] = b \o <<>>
      <4> HIDE DEF b
      <4>1. b \o <<>> = b
        BY <3>1, ConcatEmptySeq DEF Strings
      <4> QED BY <1>10, <2>2, <4>1 DEF b
    <3>3. \A i \in 1..(d + 1) : y[i - 1] = BrokerBytes(sent[i]) \o y[i]
      <4> TAKE i \in 1..(d + 1)
      <4>1. CASE i \in 1..d
        BY <1>9, <4>1
      <4>2. CASE i = d + 1
        <5>1. i - 1 = d
          BY <1>3, <4>2
        <5>2. y[d + 1] = <<>> /\ y[i - 1] = BrokerBytes(sent[d + 1]) \o <<>>
          BY <1>8, <2>2, <3>2, <5>1
        <5>3. y[i] = <<>> /\ sent[i] = sent[d + 1]
          BY <4>2, <5>2
        <5> HIDE DEF d
        <5> QED BY <5>2, <5>3
      <4>3. i \in 1..d \/ i = d + 1
        BY <1>3
      <4> QED BY <4>1, <4>2, <4>3
    <3> HIDE DEF d
    <3> QED BY <1>2, <1>7, <1>8, <2>2, <3>3 DEF StreamOf
  <2> QED BY <1>1, <2>1, <2>2
<1>12. At(x[n], sent[n + 1])
  BY DEF Reads
<1>13. PICK s, q : s = y[n] /\ q = sent'[n + 1]
  OBVIOUS
<1>14. At(s, q)'
  <2> DEFINE c == Consumed
             u == x[n]
  <2>1. c \in Nat
    BY DEF Consumed, ReaderInv, InHeader, InLength, InBody, Strings
  <2>2. c <= Len(u) /\ arrived = Drop(u, c) /\ u \in Strings
    BY <1>3, <1>4, <1>12 DEF At
  <2>3. s = u \o t
    BY <1>6, <1>3, <1>13
  <2> HIDE DEF c, u
  <2>4. Len(s) = Len(u) + Len(t) /\ Len(u) \in Nat /\ Len(t) \in Nat
    BY <1>1, <2>2, <2>3, ConcatIs
  <2>5. arrived' = Drop(s, c) /\ c <= Len(s)
    <3>1. Drop(u \o t, c) = Drop(u, c) \o t
      BY <1>1, <2>1, <2>2, DropConcat
    <3> QED BY <1>2, <2>1, <2>2, <2>3, <2>4, <3>1
  <2>6. q = sent[n + 1]
    BY <1>2, <1>13
  <2>7. (state = 1 => LengthSoFar(q)) /\ (state = 2 => BodySoFar(q))
    BY <1>12, <2>6 DEF At
  <2>8. LengthSoFar(q)' = LengthSoFar(q) /\ BodySoFar(q)' = BodySoFar(q) /\ Consumed' = c
    BY <1>2 DEF LengthSoFar, BodySoFar, Consumed, c
  <2> QED BY <1>2, <2>5, <2>7, <2>8 DEF At
<1>15. Len(got') = n /\ n \in 0..Delivered'
  BY <1>2, <1>3, <1>5
<1>16. \A i \in 1..n : got'[i] = BrokerBytes(sent'[i])
  BY <1>2 DEF Reads
<1>17. Reads(y)'
  BY <1>13, <1>14, <1>15, <1>16, ReadsNext
<1> QED BY <1>11, <1>17

(* The reader stays on the track.                                              *)
LEMMA TrackedRead ==
  ASSUME NetworkInv, ReaderInv, NEW x, StreamOf(x), Reads(x), cuts \in Tolerates[reader], Read
  PROVE  StreamOf(x)' /\ Reads(x)'
<1> DEFINE d == Delivered
           n == Len(got)
           p == sent[n + 1]
           s == x[n]
           b == BrokerBytes(p)
<1>1. reader' = reader /\ cuts' = cuts /\ sent' = sent /\ wire' = wire
  BY DEF Read, ReadHeader, TooManyBytes, ReadLength, NoLengthByte, ReadSome, ReadRest, RestMissing, stream
<1>2. Delivered' = d /\ Part' = Part
  BY <1>1 DEF Delivered, Part
<1>3. StreamOf(x)'
  BY <1>1, <1>2 DEF StreamOf
<1>4. d \in Nat /\ n \in 0..d /\ s \in Strings /\ At(s, p) /\ got \in Seq(Strings)
  <2>1. Len(sent) \in Nat /\ Len(wire) \in Nat /\ Len(wire) <= Len(sent)
    BY DEF NetworkInv
  <2>2. n \in 0..d /\ At(s, p)
    BY DEF Reads
  <2> QED BY <2>1, <2>2 DEF Delivered, StreamOf, ReaderInv
<1>5. s # <<>>
  <2>1. Consumed <= Len(s) /\ arrived = Drop(s, Consumed)
    BY <1>4 DEF At
  <2>2. CASE state = 0
    <3>1. arrived # <<>>
      BY <2>2 DEF Read, ReadHeader, TooManyBytes, ReadLength, NoLengthByte, ReadSome, ReadRest, RestMissing
    <3>2. Consumed = 0 /\ Drop(s, 0) = s
      BY <1>4, <2>2, DropAll DEF Consumed
    <3> QED BY <2>1, <3>1, <3>2
  <2>3. CASE state # 0
    <3>1. Consumed \in Nat /\ Consumed # 0
      <4>1. CASE state = 1
        BY <4>1 DEF Consumed, ReaderInv, InHeader, InLength, InBody
      <4>2. CASE state # 1
        <5>1. state = 2 /\ InBody /\ BodySoFar(p)
          BY <1>4, <2>3, <4>2 DEF ReaderInv, InHeader, InLength, InBody, At
        <5>2. len \in Nat /\ Fixed(p) \in Nat /\ Fixed(p) > 0 /\ Fixed(p) <= len
          <6>1. LengthBytes(Value(p)) \in 1..4
            BY DEF LengthBytes
          <6>2. Fixed(p) = 1 + LengthBytes(Value(p))
            BY DEF Fixed
          <6>3. len = Len(buf) /\ buf \in Strings
            BY <5>1 DEF InBody, ReaderInv
          <6>4. len \in Nat
            BY <6>3 DEF Strings
          <6>5. Fixed(p) <= len
            BY <5>1 DEF BodySoFar
          <6> QED BY <6>1, <6>2, <6>4, <6>5
        <5>3. Consumed = len
          BY <5>1 DEF Consumed
        <5> HIDE DEF p
        <5> QED BY <5>2, <5>3
      <4> QED BY <4>1, <4>2
    <3>2. Len(s) # 0
      <4>1. Len(s) \in Nat
        BY <1>4 DEF Strings
      <4> HIDE DEF s
      <4> QED BY <2>1, <3>1, <4>1
    <3> QED BY <3>2
  <2> QED BY <2>2, <2>3
<1>6. /\ n + 1 \in 1..Len(sent) /\ p \in BrokerPackets /\ Ahead(s, p)
      /\ Len(b) <= Len(s) => n + 1 <= d /\ x[n + 1] \in Strings /\ s = b \o x[n + 1]
  BY <1>4, <1>5, ComesNext
<1>7. PICK s0, p0 : s0 = s /\ p0 = p
  OBVIOUS
<1>8. s0 \in Strings /\ p0 \in BrokerPackets /\ At(s0, p0) /\ Ahead(s0, p0)
  BY <1>4, <1>6, <1>7
<1>9. (At(s0, p0)' /\ got' = got) \/ Complete(s0, p0)
  <2>1. ~TooManyBytes /\ ~NoLengthByte /\ ~RestMissing
    BY <1>8, NothingMissing
  <2>2. CASE ReadHeader
    BY <1>8, <2>2, HeaderTaken
  <2>3. CASE ReadLength
    BY <1>8, <2>3, LengthTaken
  <2>4. CASE ReadSome \/ ReadRest
    BY <1>8, <2>4, BodyTaken
  <2> QED BY <2>1, <2>2, <2>3, <2>4 DEF Read
<1> HIDE DEF d, s, b, p
<1>10. CASE At(s0, p0)' /\ got' = got
  <2>1. s0 = x[Len(got')] /\ p0 = sent'[Len(got') + 1] /\ Len(got') \in 0..Delivered'
    BY <1>1, <1>2, <1>4, <1>7, <1>10 DEF s, p, d
  <2>2. \A i \in 1..Len(got') : got'[i] = BrokerBytes(sent'[i])
    BY <1>1, <1>10 DEF Reads
  <2>3. Reads(x)'
    BY <1>10, <2>1, <2>2, ReadsNext
  <2> QED BY <1>3, <2>3
<1>11. CASE Complete(s0, p0)
  <2>1. Len(b) <= Len(s) /\ got' = Append(got, b) /\ state' = 0 /\ arrived' = Drop(s, Len(b))
    BY <1>7, <1>11 DEF Complete, b
  <2>2. n + 1 <= d /\ x[n + 1] \in Strings /\ s = b \o x[n + 1] /\ b \in Strings
    BY <1>6, <2>1, PacketIs DEF b
  <2>3. arrived' = x[n + 1]
    BY <2>1, <2>2, DropAll
  <2>4. Len(got') = n + 1 /\ got'[n + 1] = b /\ \A i \in 1..n : got'[i] = got[i]
    BY <1>4, <2>1, <2>2
  <2>5. n + 1 \in 0..Delivered'
    BY <1>2, <1>4, <2>2
  <2>6. \A i \in 1..(n + 1) : got'[i] = BrokerBytes(sent'[i])
    <3> TAKE i \in 1..(n + 1)
    <3>1. CASE i = n + 1
      BY <1>1, <2>4, <3>1 DEF b, p
    <3>2. CASE i \in 1..n
      BY <1>1, <2>4, <3>2 DEF Reads
    <3> QED BY <1>4, <3>1, <3>2
  <2>7. PICK s1, q : s1 = x[n + 1] /\ q = sent'[n + 1 + 1]
    OBVIOUS
  <2>8. At(s1, q)'
    BY <2>1, <2>2, <2>3, <2>7, StartsOver
  <2>9. Reads(x)'
    <3>1. s1 = x[Len(got')] /\ q = sent'[Len(got') + 1] /\ Len(got') \in 0..Delivered'
          /\ \A i \in 1..Len(got') : got'[i] = BrokerBytes(sent'[i])
      BY <2>4, <2>5, <2>6, <2>7
    <3> QED BY <2>8, <3>1, ReadsNext
  <2> QED BY <1>3, <2>9
<1> QED BY <1>9, <1>10, <1>11

-----------------------------------------------------------------------------
(* All together.                                                               *)

StreamInv == NetworkInv /\ ReaderInv /\ Tracked

(* What Arrive delivers is a piece of the first packet on its way.             *)
LEMMA Delivers ==
  ASSUME NetworkInv, Arrive
  PROVE  \E k \in Nat : wire # <<>> /\ k \in 1..Len(Head(wire).left) /\ Cut(k) /\ Deliver(k)
<1>1. PICK k \in 1..MaxCut \cup {Len(Head(wire).left)} :
         wire # <<>> /\ k <= Len(Head(wire).left) /\ Cut(k) /\ Deliver(k)
  BY Zenon DEF Arrive
<1> DEFINE w == Head(wire)
<1>2. wire \in Seq([left : Strings, taken : Nat, fixed : Nat]) /\ Len(wire) # 0
  BY <1>1 DEF NetworkInv
<1>3. 1 \in 1..Len(wire) /\ w = wire[1] /\ w \in [left : Strings, taken : Nat, fixed : Nat]
  <2> DEFINE W == [left : Strings, taken : Nat, fixed : Nat]
  <2>1. wire \in Seq(W) /\ Len(wire) # 0
    BY <1>2
  <2> HIDE DEF W
  <2>2. 1 \in 1..Len(wire) /\ Head(wire) = wire[1] /\ wire[1] \in W
    BY <2>1
  <2> QED BY <2>2 DEF W
<1>4. OnTheWay(w, sent[Delivered + 1], cuts) /\ Delivered + 1 \in 1..Len(sent) /\ sent \in Seq(BrokerPackets)
  <2>1. Len(wire) \in Nat /\ Len(sent) \in Nat /\ Len(wire) <= Len(sent)
    BY DEF NetworkInv
  <2> QED BY <1>2, <1>3, <2>1 DEF NetworkInv, Delivered
<1> DEFINE b == BrokerBytes(sent[Delivered + 1])
<1>5. b \in Strings
  <2>1. sent[Delivered + 1] \in BrokerPackets
    BY <1>4
  <2> QED BY <2>1, PacketIs
<1> HIDE DEF b, w
<1>6. w.left = Drop(b, w.taken) /\ w.taken \in Nat /\ w.taken < Len(b)
  BY <1>4 DEF OnTheWay, b
<1>7. Len(w.left) \in Nat /\ Len(w.left) >= 1
  <2>1. Len(b) \in Nat
    BY <1>5 DEF Strings
  <2>2. Len(w.left) = Len(b) - w.taken
    <3> DEFINE t == w.taken
    <3>1. t \in Nat /\ t <= Len(b) /\ w.left = Drop(b, t)
      BY <1>6, <2>1
    <3> HIDE DEF t
    <3>2. Len(Drop(b, t)) = Len(b) - t
      BY <1>5, <3>1, DropIs
    <3> QED BY <3>1, <3>2 DEF t
  <2> QED BY <1>6, <2>1, <2>2
<1>8. k \in Nat /\ k \in 1..Len(w.left)
  BY <1>1, <1>7, StreamAssumption DEF w
<1> QED BY <1>1, <1>8 DEF w

(* Where nothing of the stream changes the track does not either.              *)
LEMMA Untouched ==
  ASSUME NEW x, StreamOf(x), Reads(x), UNCHANGED <<sent, wire>>,
         UNCHANGED <<reader, cuts, arrived, state, buf, len, remLen, multiplier, got>>
  PROVE  \E y : StreamOf(y)' /\ Reads(y)'
<1>1. StreamOf(x)'
  BY DEF StreamOf, Delivered, Part
<1>2. Reads(x)'
  BY DEF Reads, At, Consumed, LengthSoFar, BodySoFar, Delivered
<1> QED BY <1>1, <1>2

(* The network loses and makes up nothing.                                     *)
LEMMA NetworkNext ==
  ASSUME NetworkInv, [StreamNext]_streamVars
  PROVE  NetworkInv'
<1>1. ASSUME NEW r \in AppRequests, Ask(r) PROVE NetworkInv'
  <2>1. UNCHANGED <<reader, cuts>>
    BY <1>1, Zenon DEF Ask
  <2>2. CASE \E p \in AnswersTo(r) : Post(p)
    <3>1. PICK p \in AnswersTo(r) : Post(p)
      BY <2>2
    <3>2. p \in BrokerPackets
      BY AnswersAre
    <3> QED BY <2>1, <3>1, <3>2, NetworkPost
  <2>3. CASE UNCHANGED <<sent, wire>>
    BY <2>1, <2>3 DEF NetworkInv, Delivered
  <2> QED BY <1>1, <2>2, <2>3, Zenon DEF Ask
<1>2. ASSUME NEW m \in Messages, Publish(m) PROVE NetworkInv'
  <2>1. UNCHANGED <<reader, cuts>> /\ Post(m) /\ m \in BrokerPackets
    BY <1>2 DEF Publish, BrokerPackets
  <2> QED BY <2>1, NetworkPost
<1>3. ASSUME Arrive PROVE NetworkInv'
  <2>1. PICK k \in Nat : wire # <<>> /\ k \in 1..Len(Head(wire).left) /\ Cut(k) /\ Deliver(k)
    BY <1>3, Delivers
  <2> QED BY <2>1, NetworkDeliver
<1>4. ASSUME Read PROVE NetworkInv'
  <2>1. UNCHANGED stream
    BY <1>4 DEF Read, ReadHeader, TooManyBytes, ReadLength, NoLengthByte, ReadSome, ReadRest, RestMissing
  <2> QED BY <2>1 DEF stream, NetworkInv, Delivered
<1>5. CASE UNCHANGED streamVars
  BY <1>5 DEF streamVars, NetworkInv, Delivered
<1> QED BY <1>1, <1>2, <1>3, <1>4, <1>5 DEF StreamNext

(* No step leaves the track.                                                   *)
LEMMA TrackedNext ==
  ASSUME NetworkInv, ReaderInv, Tracked, [StreamNext]_streamVars
  PROVE  Tracked'
<1> SUFFICES ASSUME (cuts \in Tolerates[reader])' PROVE (\E x : StreamOf(x) /\ Reads(x))'
  BY DEF Tracked
<1>1. cuts' = cuts /\ reader' = reader
  BY DEF StreamNext, Ask, Publish, Arrive, Deliver, Read, ReadHeader, TooManyBytes, ReadLength, NoLengthByte,
         ReadSome, ReadRest, RestMissing, stream, streamVars
<1>2. cuts \in Tolerates[reader]
  BY <1>1
<1>3. PICK x : StreamOf(x) /\ Reads(x)
  BY <1>2 DEF Tracked
<1>4. ASSUME NEW r \in AppRequests, Ask(r) PROVE \E y : StreamOf(y)' /\ Reads(y)'
  <2>1. UNCHANGED <<reader, cuts, arrived, state, buf, len, remLen, multiplier, got>>
    BY <1>4, Zenon DEF Ask
  <2>2. CASE \E p \in AnswersTo(r) : Post(p)
    <3>1. PICK p \in AnswersTo(r) : Post(p)
      BY <2>2
    <3>2. p \in BrokerPackets
      BY AnswersAre
    <3>3. StreamOf(x)' /\ Reads(x)'
      BY <1>3, <2>1, <3>1, <3>2, TrackedPost
    <3> QED BY <3>3
  <2>3. CASE UNCHANGED <<sent, wire>>
    BY <1>3, <2>1, <2>3, Untouched
  <2> QED BY <1>4, <2>2, <2>3, Zenon DEF Ask
<1>5. ASSUME NEW m \in Messages, Publish(m) PROVE \E y : StreamOf(y)' /\ Reads(y)'
  <2>1. UNCHANGED <<reader, cuts, arrived, state, buf, len, remLen, multiplier, got>> /\ Post(m)
    BY <1>5, Zenon DEF Publish
  <2>2. m \in BrokerPackets
    BY DEF BrokerPackets
  <2>3. StreamOf(x)' /\ Reads(x)'
    BY <1>3, <2>1, <2>2, TrackedPost
  <2> QED BY <2>3
<1>6. ASSUME Arrive PROVE \E y : StreamOf(y)' /\ Reads(y)'
  <2>1. PICK k \in Nat : wire # <<>> /\ k \in 1..Len(Head(wire).left) /\ Cut(k) /\ Deliver(k)
    BY <1>6, Delivers
  <2> QED BY <1>3, <2>1, TrackedDeliver
<1>7. ASSUME Read PROVE \E y : StreamOf(y)' /\ Reads(y)'
  <2>1. StreamOf(x)' /\ Reads(x)'
    BY <1>2, <1>3, <1>7, TrackedRead
  <2> QED BY <2>1
<1>8. CASE UNCHANGED streamVars
  <2>1. UNCHANGED <<reader, cuts, arrived, state, buf, len, remLen, multiplier, got>> /\ UNCHANGED <<sent, wire>>
    BY <1>8 DEF streamVars
  <2> QED BY <1>3, <2>1, Untouched
<1>9. \E y : StreamOf(y)' /\ Reads(y)'
  BY <1>4, <1>5, <1>6, <1>7, <1>8 DEF StreamNext
<1> QED BY <1>9

(* The packets a reader has put together are those that were sent.            *)
LEMMA TrackedInStep ==
  ASSUME NetworkInv, ReaderInv, Tracked
  PROVE  InStep
<1>1. StreamTypeOK
  <2>1. /\ <<reader, cuts>> \in Setups
        /\ Len(sent) <= MaxPackets /\ Len(wire) <= Len(sent)
    BY DEF NetworkInv
  <2>2. /\ state \in 0..2 /\ len \in 0..BufLen /\ remLen \in Nat
        /\ multiplier \in {1, 128, 16384, 2097152, 268435456}
        /\ Len(buf) + (IF state = 2 THEN remLen ELSE 0) <= BufLen
    <3>1. buf \in Strings /\ Len(buf) \in Nat /\ remLen \in Nat
      BY DEF ReaderInv, Strings
    <3>2. CASE InHeader
      <4>1. Len(buf) = 0
        BY <3>2 DEF InHeader
      <4> QED BY <3>1, <3>2, <4>1, StreamAssumption DEF InHeader
    <3>3. CASE InLength
      <4>1. PICK j \in 0..len : multiplier = Multiplier(j)
        BY <3>3 DEF InLength
      <4>2. multiplier \in {1, 128, 16384, 2097152, 268435456}
        BY <4>1 DEF Multiplier
      <4> QED BY <3>1, <3>3, <4>2, StreamAssumption DEF InLength
    <3>4. CASE InBody
      <4>1. PICK j \in 0..4 : multiplier = Multiplier(j)
        BY <3>4 DEF InBody
      <4>2. multiplier \in {1, 128, 16384, 2097152, 268435456}
        BY <4>1 DEF Multiplier
      <4> QED BY <3>1, <3>4, <4>2, StreamAssumption DEF InBody
    <3> QED BY <3>2, <3>3, <3>4 DEF ReaderInv
  <2> QED BY <2>1, <2>2 DEF StreamTypeOK
<1>2. ASSUME cuts \in Tolerates[reader] PROVE IsPrefix(Received, sent)
  <2> DEFINE n == Len(got)
             R == Received
  <2>1. PICK x : StreamOf(x) /\ Reads(x)
    BY <1>2 DEF Tracked
  <2>2. sent \in Seq(BrokerPackets) /\ Len(sent) \in Nat /\ n <= Len(sent) /\ n \in Nat /\ got \in Seq(Strings)
    <3>1. Len(sent) \in Nat /\ Len(wire) \in Nat /\ Len(wire) <= Len(sent) /\ sent \in Seq(BrokerPackets)
      BY DEF NetworkInv
    <3>2. n \in 0..Delivered /\ got \in Seq(Strings)
      BY <2>1 DEF Reads, ReaderInv
    <3> QED BY <3>1, <3>2 DEF Delivered
  <2>3. ASSUME NEW i \in 1..n PROVE Understood(got[i]) = sent[i] /\ sent[i] \in BrokerPackets
    <3>1. got[i] = BrokerBytes(sent[i])
      BY <2>1 DEF Reads
    <3>2. sent[i] \in BrokerPackets
      BY <2>2
    <3> QED BY <3>1, <3>2, UnderstandsAll
  <2>4. R \in Seq(BrokerPackets) /\ Len(R) = n /\ \A i \in 1..n : R[i] = sent[i]
    <3>1. R = [i \in 1..n |-> Understood(got[i])]
      BY <2>2 DEF Received
    <3> HIDE DEF n, R
    <3> QED BY <2>2, <2>3, <3>1
  <2> HIDE DEF n, R
  <2>5. R = SubSeq(sent, 1, n)
    <3> DEFINE u == SubSeq(sent, 1, n)
    <3>1. u \in Seq(BrokerPackets) /\ Len(u) = n /\ \A i \in 1..n : u[i] = sent[i]
      BY <2>2
    <3> HIDE DEF u
    <3>2. \A i \in 1..Len(R) : R[i] = u[i]
      BY <2>4, <3>1
    <3> QED BY <2>4, <3>1, <3>2, SeqEqual DEF u
  <2>6. SubSeq(R, 1, Len(R)) = R
    BY <2>4, SubSeqFull
  <2>7. IsPrefix(R, sent)
    BY <2>2, <2>4, <2>5, <2>6 DEF IsPrefix
  <2> QED BY <2>7 DEF R
<1> QED BY <1>1, <1>2 DEF InStep

(* The invariant holds initially                                               *)
LEMMA StreamInvInit == StreamInit => StreamInv
BY NetworkInit, ReaderInit, TrackedInit DEF StreamInv

(* and after every step.                                                       *)
LEMMA StreamInvNext == StreamInv /\ [StreamNext]_streamVars => StreamInv'
BY NetworkNext, ReaderNext, TrackedNext DEF StreamInv

(* For any buffer, publications, requests and number of packets: in whatever   *)
(* pieces a reader copes with they arrive, MQTTPacket_readnb, MQTTPacket_read  *)
(* and readPacket return the packets the broker sent, in order, with no byte of*)
(* one taken for another; and no reader writes behind its buffer, whatever the *)
(* cuts.                                                                       *)
THEOREM StaysInStep == StreamSpec => []InStep
<1>1. StreamInv => InStep
  BY TrackedInStep DEF StreamInv
<1> QED BY <1>1, StreamInvInit, StreamInvNext, PTL DEF StreamSpec
=============================================================================
