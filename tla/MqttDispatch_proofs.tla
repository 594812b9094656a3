------------------------ MODULE MqttDispatch_proofs -------------------------
(***************************************************************************)
(* Where messages go and in which order, for any registrations, table and  *)
(* queue sizes, and any number of messages, outages and restarts.          *)
(***************************************************************************)
EXTENDS MqttDispatch, SequenceTheorems, TLAPS

(* The prefix comparison of mqtt_test.c:63-65 and the look at the          *)
(* terminator decide equality: with any set of registered topics a message *)
(* goes to the entry of its own topic and to no other.                     *)
THEOREM MatchIsEquality ==
  ASSUME NEW event \in Seq(Chars), NEW topic \in Seq(Chars)
  PROVE  TopicMatches(event, topic) <=> event = topic
<1> DEFINE string == CString(topic)
<1>1. /\ Len(string) = Len(topic) + 1
      /\ \A i \in 1 .. Len(topic) : string[i] = topic[i] /\ string[i] # NUL
      /\ string[Len(topic) + 1] = NUL
    BY NulAssumption DEF CString
<1>2. ASSUME event = topic
      PROVE  TopicMatches(event, topic)
    BY <1>1, <1>2 DEF TopicMatches, SamePrefix
<1>3. ASSUME TopicMatches(event, topic)
      PROVE  event = topic
  <2>1. \A i \in 1 .. Len(event) : i <= Len(string) /\ event[i] = string[i]
      BY <1>3 DEF TopicMatches, SamePrefix
  <2>2. Len(event) <= Len(topic)
    <3> SUFFICES ASSUME Len(event) > Len(topic)
                 PROVE  FALSE
        OBVIOUS
    <3>1. event[Len(topic) + 1] = NUL
        BY <1>1, <2>1
    <3> QED BY <3>1, NulAssumption
  <2>3. ~(Len(event) < Len(topic))
    <3> SUFFICES ASSUME Len(event) < Len(topic)
                 PROVE  FALSE
        OBVIOUS
    <3>1. string[Len(event) + 1] = NUL
        BY <1>3 DEF TopicMatches
    <3> QED BY <3>1, <1>1
  <2>4. Len(event) = Len(topic)
      BY <2>2, <2>3
  <2>5. \A i \in 1 .. Len(event) : event[i] = topic[i]
      BY <1>1, <2>1, <2>4
  <2> QED BY <2>4, <2>5
<1> QED
    BY <1>2, <1>3

(* The table is what has been registered so far, and fits the array.       *)
TableInv ==
  /\ table \in Seq([topic : Seq(Chars), queue : Queues])
  /\ \A k \in 1 .. Len(table) : k \in 1 .. Len(Registrations) /\ table[k] = Registrations[k]
  /\ Len(table) = (IF boot = "done" THEN call ELSE call - 1)
  /\ boot = "done" => call = Len(Registrations)
  /\ Len(table) <= ArrSz - 1

(* A topic the broker can know: stored in the table, or about to be.       *)
Known(t) == \E k \in 1 .. Len(Registrations) :
  Registrations[k].topic = t /\ (k <= Len(table) \/ (boot = "store" /\ k = call))
KnownInv ==
  /\ \A t \in subs : Known(t)
  /\ \A t \in Topics \ fresh : Known(t)
  /\ \A i \in 1 .. Len(wire) : Known(wire[i].topic)
  /\ \A q \in Queues : \A i \in 1 .. Len(queue[q]) : Known(queue[q][i].topic)

(* Messages of one topic are ordered where they are, and those on the wire *)
(* are younger than those queued.                                          *)
Increasing(s) == \A i, j \in 1 .. Len(s) :
  i < j /\ s[i].topic = s[j].topic => s[i].id < s[j].id
Younger(m, s) == \A i \in 1 .. Len(s) : s[i].topic = m.topic => s[i].id < m.id
OrderInv ==
  /\ Increasing(wire) /\ \A q \in Queues : Increasing(queue[q])
  /\ \A j \in 1 .. Len(wire), q \in Queues : Younger(wire[j], queue[q])

(* None is younger than the last one published, which the broker retains.  *)
Bounded(m) == m.id <= ids /\ (m.topic \in Retained => m.id <= retained[m.topic])
IdInv ==
  /\ ids \in 0 .. MaxIds
  /\ \A t \in Topics : /\ retained[t] <= ids /\ (t \notin Retained => retained[t] = 0)
                       /\ handled[t] <= ids /\ (t \in Retained => handled[t] <= retained[t])
  /\ \A i \in 1 .. Len(wire) : Bounded(wire[i])
  /\ \A q \in Queues : \A i \in 1 .. Len(queue[q]) : Bounded(queue[q][i])

(* Nor older than what has been handled, in this boot or before.           *)
Late(m) == \/ m.id > handled[m.topic]
           \/ m.id = handled[m.topic] /\ m.topic \in Retained \cap fresh
LateInv ==
  /\ \A i \in 1 .. Len(wire) : Late(wire[i])
  /\ \A q \in Queues : \A i \in 1 .. Len(queue[q]) : Late(queue[q][i])

RouteInv == \A q \in Queues : \A i \in 1 .. Len(queue[q]) :
  \E k \in 1 .. Len(Registrations) :
    Registrations[k] = [topic |-> queue[q][i].topic, queue |-> q]

IInv == TypeOK /\ TableInv /\ KnownInv /\ OrderInv /\ IdInv /\ LateInv /\ RouteInv

-----------------------------------------------------------------------------
(* Registrations, and what is found for a topic.                           *)
LEMMA Registered ==
  /\ Registrations \in Seq([topic : Seq(Chars), queue : Queues])
  /\ Len(Registrations) \in Nat \ {0} /\ DOMAIN Registrations = 1 .. Len(Registrations)
  /\ \A k \in 1 .. Len(Registrations) :
       /\ Registrations[k] \in [topic : Seq(Chars), queue : Queues]
       /\ Registrations[k].topic \in Topics
  /\ \A j, k \in 1 .. Len(Registrations) :
       Registrations[j].topic = Registrations[k].topic => j = k
<1>1. Registrations \in Seq([topic : Seq(Chars), queue : Queues]) /\ Registrations # <<>>
  BY DispatchAssumption
<1>2. Len(Registrations) \in Nat \ {0} /\ DOMAIN Registrations = 1 .. Len(Registrations)
  BY <1>1, EmptySeq, LenProperties
<1>3. \A k \in 1 .. Len(Registrations) :
        /\ Registrations[k] \in [topic : Seq(Chars), queue : Queues]
        /\ Registrations[k].topic \in Topics
  BY <1>1, <1>2, ElementOfSeq DEF Topics
<1>4. \A j, k \in 1 .. Len(Registrations) :
        Registrations[j].topic = Registrations[k].topic => j = k
  BY <1>2, DispatchAssumption
<1> QED
  BY <1>1, <1>2, <1>3, <1>4

LEMMA TopicsAre == \A t \in Topics :
  t \in Seq(Chars) /\ \E k \in 1 .. Len(Registrations) : Registrations[k].topic = t
<1>1. \A t \in Topics : \E k \in 1 .. Len(Registrations) : Registrations[k].topic = t
  BY Registered DEF Topics
<1> QED
  BY <1>1, Registered

LEMMA Tables ==
  ASSUME TypeOK, TableInv
  PROVE  /\ table \in Seq([topic : Seq(Chars), queue : Queues]) /\ Len(table) \in Nat
         /\ DOMAIN table = 1 .. Len(table) /\ Len(table) <= Len(Registrations)
         /\ call \in 1 .. Len(Registrations)
<1>1. table \in Seq([topic : Seq(Chars), queue : Queues])
  BY DEF TableInv
<1>2. Len(table) \in Nat /\ DOMAIN table = 1 .. Len(table)
  BY <1>1, LenProperties
<1>3. call \in 1 .. Len(Registrations)
  BY Registered DEF TypeOK
<1>4. Len(table) <= Len(Registrations)
  <2>1. PICK l \in Nat, m \in Nat : l = Len(table) /\ m = Len(Registrations)
    BY <1>2, Registered
  <2>2. call \in Int /\ call <= m /\ (l = call \/ l = call - 1)
    BY <1>3, <2>1 DEF TableInv
  <2>3. l <= m
    BY <2>2
  <2> QED
    BY <2>1, <2>3
<1> QED
  BY <1>1, <1>2, <1>3, <1>4

(* The entry of a topic is found, and no other, because the comparison of  *)
(* topics decides equality.                                                *)
LEMMA EntriesAre ==
  ASSUME TypeOK, TableInv, NEW t \in Topics
  PROVE  /\ \A k \in Entries(t) : k \in 1 .. Len(table) /\ Registrations[k].topic = t
         /\ \A k \in 1 .. Len(table) : Registrations[k].topic = t =>
              Entries(t) = {k} /\ Found(t) = Registrations[k].queue
<1>1. ASSUME NEW k \in 1 .. Len(table)
      PROVE  /\ k \in 1 .. Len(Registrations) /\ table[k] = Registrations[k]
             /\ TopicMatches(t, table[k].topic) <=> t = Registrations[k].topic
  <2>1. k \in 1 .. Len(Registrations) /\ table[k] = Registrations[k]
    BY DEF TableInv
  <2>2. t \in Seq(Chars) /\ table[k].topic \in Seq(Chars)
    BY <2>1, Registered, TopicsAre
  <2> QED
    BY <2>1, <2>2, MatchIsEquality
<1>2. \A k \in Entries(t) : k \in 1 .. Len(table) /\ Registrations[k].topic = t
  BY <1>1, Tables DEF Entries
<1>3. ASSUME NEW k \in 1 .. Len(table), Registrations[k].topic = t
      PROVE  Entries(t) = {k} /\ Found(t) = Registrations[k].queue
  <2>1. Entries(t) = {k}
    BY <1>1, <1>2, <1>3, Registered, Tables DEF Entries
  <2>2. (CHOOSE j \in Entries(t) : \A i \in Entries(t) : j <= i) = k
    BY <2>1, Tables
  <2> QED
    BY <1>1, <2>1, <2>2 DEF Found
<1> QED
  BY <1>2, <1>3

-----------------------------------------------------------------------------
(* Sequences of messages.                                                  *)
LEMMA Increase ==
  ASSUME NEW s \in Seq(Message), NEW m \in Message
  PROVE  /\ Increasing(<<>>) /\ Younger(m, <<>>)
         /\ Increasing(s) /\ Younger(m, s) => Increasing(Append(s, m))
         /\ Increasing(s) /\ s # <<>> => Increasing(Tail(s))
<1>1. Increasing(<<>>) /\ Younger(m, <<>>)
  BY DEF Increasing, Younger
<1>2. ASSUME Increasing(s), Younger(m, s)
      PROVE  Increasing(Append(s, m))
  <2>1. /\ Len(s) \in Nat /\ Len(Append(s, m)) = Len(s) + 1
        /\ Append(s, m)[Len(s) + 1] = m
        /\ \A i \in 1 .. Len(s) : Append(s, m)[i] = s[i]
    BY AppendProperties, LenProperties
  <2> QED
    BY <1>2, <2>1 DEF Increasing, Younger
<1>3. ASSUME Increasing(s), s # <<>>
      PROVE  Increasing(Tail(s))
  <2>1. /\ Len(s) \in Nat /\ Len(Tail(s)) = Len(s) - 1
        /\ \A i \in 1 .. Len(Tail(s)) : Tail(s)[i] = s[i + 1]
    BY <1>3, HeadTailProperties, LenProperties
  <2>2. \A i \in 1 .. Len(Tail(s)) : i + 1 \in 1 .. Len(s)
    BY <2>1
  <2> QED
    BY <1>3, <2>1, <2>2 DEF Increasing
<1> QED
  BY <1>1, <1>2, <1>3

LEMMA Ends ==
  ASSUME NEW s \in Seq(Message), NEW m \in Message
  PROVE  /\ \A i \in 1 .. Len(Append(s, m)) :
              Append(s, m)[i] = m \/ \E j \in 1 .. Len(s) : Append(s, m)[i] = s[j]
         /\ s # <<>> => /\ Head(s) \in Message /\ 1 \in 1 .. Len(s) /\ Head(s) = s[1]
                        /\ \A i \in 1 .. Len(Tail(s)) :
                             \E j \in 1 .. Len(s) : Tail(s)[i] = s[j] /\ j > 1
<1>1. \A i \in 1 .. Len(Append(s, m)) :
        Append(s, m)[i] = m \/ \E j \in 1 .. Len(s) : Append(s, m)[i] = s[j]
  <2>1. /\ Len(s) \in Nat /\ Len(Append(s, m)) = Len(s) + 1
        /\ Append(s, m)[Len(s) + 1] = m
        /\ \A i \in 1 .. Len(s) : Append(s, m)[i] = s[i]
    BY AppendProperties, LenProperties
  <2> QED
    BY <2>1
<1>2. ASSUME s # <<>>
      PROVE  /\ Head(s) \in Message /\ 1 \in 1 .. Len(s) /\ Head(s) = s[1]
             /\ \A i \in 1 .. Len(Tail(s)) : \E j \in 1 .. Len(s) : Tail(s)[i] = s[j] /\ j > 1
  <2>1. /\ Len(s) \in Nat \ {0} /\ Len(Tail(s)) = Len(s) - 1 /\ Head(s) \in Message
        /\ \A i \in 1 .. Len(Tail(s)) : Tail(s)[i] = s[i + 1]
    BY <1>2, HeadTailProperties, EmptySeq
  <2>2. \A i \in 1 .. Len(Tail(s)) : i + 1 \in 1 .. Len(s) /\ i + 1 > 1
    BY <2>1
  <2>3. \A i \in 1 .. Len(Tail(s)) : \E j \in 1 .. Len(s) : Tail(s)[i] = s[j] /\ j > 1
    BY <2>1, <2>2
  <2> QED
    BY <2>1, <2>3
<1> QED
  BY <1>1, <1>2

-----------------------------------------------------------------------------
(* The types and the table.                                                *)
LEMMA Numbers == /\ QueueLen \in Nat \ {0} /\ MaxIds \in Nat \ {0}
                 /\ \A n \in Sizes : n \in Nat \ {0}
BY DispatchAssumption

LEMMA Sequences ==
  ASSUME TypeOK
  PROVE  /\ wire \in Seq(Message) /\ <<>> \in Seq(Message)
         /\ \A q \in Queues : queue[q] \in Seq(Message)
<1>1. wire \in Seq(Message) /\ \A q \in Queues : queue[q] \in Seq(Message)
  BY DEF TypeOK
<1>2. <<>> \in Seq(Message)
  BY EmptySeq
<1> QED
  BY <1>1, <1>2

(* A message at the head of a queue.                                       *)
LEMMA HeadIs ==
  ASSUME TypeOK, NEW q \in Queues, queue[q] # <<>>
  PROVE  /\ Head(queue[q]) \in Message /\ Head(queue[q]).topic \in Topics
         /\ 1 \in 1 .. Len(queue[q]) /\ Head(queue[q]) = queue[q][1]
         /\ Tail(queue[q]) \in Seq(Message)
         /\ \A i \in 1 .. Len(Tail(queue[q])) :
              \E j \in 1 .. Len(queue[q]) : Tail(queue[q])[i] = queue[q][j] /\ j > 1
<1>1. queue[q] \in Seq(Message)
  BY Sequences
<1>2. Head(queue[q]) \in Message /\ Tail(queue[q]) \in Seq(Message)
  BY <1>1, HeadTailProperties
<1> QED
  BY <1>1, <1>2, Ends DEF Message

LEMMA FoundIsQueue ==
  ASSUME TypeOK, TableInv, NEW t \in Topics, Entries(t) # {}
  PROVE  /\ Found(t) \in Queues
         /\ \E k \in 1 .. Len(Registrations) : Registrations[k] = [topic |-> t, queue |-> Found(t)]
<1>1. PICK k \in Entries(t) : TRUE
  OBVIOUS
<1>2. k \in 1 .. Len(table) /\ Registrations[k].topic = t
  BY EntriesAre
<1>3. Found(t) = Registrations[k].queue
  BY <1>2, EntriesAre
<1>4. k \in 1 .. Len(Registrations)
  BY <1>2 DEF TableInv
<1>5. Registrations[k] \in [topic : Seq(Chars), queue : Queues]
  BY <1>4, Registered
<1>6. Registrations[k] = [topic |-> Registrations[k].topic, queue |-> Registrations[k].queue]
  BY <1>5
<1> QED
  BY <1>2, <1>3, <1>4, <1>5, <1>6

LEMMA TypeStep ==
  ASSUME TypeOK, TableInv, IdInv, [Next]_vars
  PROVE  TypeOK' /\ ids' \in 0 .. MaxIds
<1>0. /\ wire \in Seq(Message) /\ <<>> \in Seq(Message) /\ ids \in 0 .. MaxIds
      /\ \A q \in Queues : queue[q] \in Seq(Message)
  BY Sequences DEF IdInv
<1>1. CASE UNCHANGED vars
  BY <1>0, <1>1 DEF TypeOK, vars, brokerVars, bootVars, taken
<1>2. CASE Connect \/ Notice
  BY <1>0, <1>2 DEF Connect, Notice, TypeOK, brokerVars, bootVars, taken
<1>3. CASE Drop
  BY <1>0, <1>3 DEF Drop, LoseSession, TypeOK, bootVars, taken
<1>4. ASSUME NEW t \in Topics, Publish(t)
      PROVE  TypeOK' /\ ids' \in 0 .. MaxIds
  <2>1. ids' \in 1 .. MaxIds
    BY <1>0, <1>4, Numbers DEF Publish
  <2>2. [topic |-> t, id |-> ids'] \in Message
    BY <2>1 DEF Message
  <2>3. wire' \in Seq(Message)
    BY <1>0, <1>4, <2>2, AppendProperties DEF Publish
  <2>4. retained' \in [Topics -> 0 .. MaxIds]
    BY <1>4, <2>1 DEF Publish, TypeOK
  <2>5. ids' \in 0 .. MaxIds
    BY <2>1
  <2> QED
    BY <1>4, <2>3, <2>4, <2>5 DEF Publish, TypeOK, bootVars, taken
<1>5. CASE WaitForConnection
  BY <1>0, <1>5 DEF WaitForConnection, TypeOK, brokerVars, taken
<1>6. CASE Subscribe
  <2>1. Registrations[call].topic \in Topics
    BY Registered, Tables
  <2>2. retained[Registrations[call].topic] # 0 =>
          [topic |-> Registrations[call].topic, id |-> retained[Registrations[call].topic]] \in Message
    BY <2>1, Numbers DEF TypeOK, Message
  <2>3. wire' \in Seq(Message)
    BY <1>0, <1>6, <2>2, AppendProperties DEF Subscribe
  <2>4. subs' \subseteq Topics
    BY <1>6, <2>1 DEF Subscribe, TypeOK
  <2> QED
    BY <1>0, <1>6, <2>3, <2>4 DEF Subscribe, TypeOK, taken
<1>7. ASSUME Reboot, UNCHANGED <<retained, unrouted, dropped, ids>>,
             handled' \in [Topics -> 0 .. MaxIds]
      PROVE  TypeOK' /\ ids' \in 0 .. MaxIds
  <2>1. queue' = [q \in Queues |-> <<>>] /\ fresh' = Topics
    BY <1>7 DEF Reboot
  <2>2. queue' \in [Queues -> Seq(Message)] /\ \A q \in Queues : Len(queue'[q]) <= QueueLen
    BY <1>0, <2>1, Numbers
  <2>3. 1 \in DOMAIN Registrations
    BY Registered
  <2> QED
    BY <1>0, <1>7, <2>1, <2>2, <2>3 DEF Reboot, LoseSession, TypeOK
<1>8. CASE Store
  <2>1. call' \in DOMAIN Registrations
    BY <1>8, Registered, Tables DEF Store
  <2>2. boot' \in {"done", "wait", "subscribe"}
    BY <1>8 DEF Store
  <2> QED
    BY <1>0, <1>8, <2>1, <2>2 DEF Store, TypeOK, brokerVars, taken
<1>9. CASE Dispatch \/ DispatchTimeout \/ DispatchUnrouted
  <2>1. wire # <<>>
    BY <1>9 DEF Dispatch, DispatchTimeout, DispatchUnrouted
  <2>2. Head(wire) \in Message /\ Tail(wire) \in Seq(Message) /\ Head(wire).topic \in Topics
    <3>1. Head(wire) \in Message /\ Tail(wire) \in Seq(Message)
      BY <1>0, <2>1, HeadTailProperties
    <3> QED
      BY <3>1 DEF Message
  <2>3. CASE Dispatch
    <3> DEFINE r == Found(Head(wire).topic)
    <3>1. r \in Queues
      BY <2>2, <2>3, FoundIsQueue DEF Dispatch
    <3> HIDE DEF r
    <3>2. queue' = [queue EXCEPT ![r] = Append(@, Head(wire))] /\ ~Full(r)
      BY <2>3 DEF Dispatch, xQueueSendToBack, r
    <3>3. /\ Append(queue[r], Head(wire)) \in Seq(Message)
          /\ Len(Append(queue[r], Head(wire))) = Len(queue[r]) + 1 /\ Len(queue[r]) \in Nat
      BY <1>0, <2>2, <3>1, AppendProperties, LenProperties
    <3>4. Len(queue[r]) + 1 <= QueueLen
      BY <3>2, <3>3, Numbers DEF Full
    <3>5. queue' \in [Queues -> Seq(Message)] /\ \A q \in Queues : Len(queue'[q]) <= QueueLen
      BY <3>1, <3>2, <3>3, <3>4 DEF TypeOK
    <3> QED
      BY <1>0, <2>2, <2>3, <3>5 DEF Dispatch, TypeOK, bootVars, taken
  <2>4. CASE DispatchTimeout \/ DispatchUnrouted
    BY <1>0, <2>2, <2>4 DEF DispatchTimeout, DispatchUnrouted, TypeOK, bootVars, taken
  <2> QED
    BY <1>9, <2>3, <2>4
<1>10. ASSUME NEW q \in Queues, Take(q)
       PROVE  TypeOK' /\ ids' \in 0 .. MaxIds
  <2>1. /\ Head(queue[q]) \in Message /\ Tail(queue[q]) \in Seq(Message)
        /\ Len(Tail(queue[q])) = Len(queue[q]) - 1 /\ Len(queue[q]) \in Nat
    BY <1>0, <1>10, HeadTailProperties, LenProperties DEF Take
  <2>2. Head(queue[q]).topic \in Topics /\ Head(queue[q]).id \in 0 .. MaxIds
    BY <2>1, Numbers DEF Message
  <2>3. /\ queue' = [queue EXCEPT ![q] = Tail(@)]
        /\ handled' = [handled EXCEPT ![Head(queue[q]).topic] = Head(queue[q]).id]
        /\ fresh' \subseteq fresh
    BY <1>10 DEF Take, Handle
  <2>4. /\ queue' \in [Queues -> Seq(Message)] /\ fresh' \subseteq Topics
        /\ handled' \in [Topics -> 0 .. MaxIds]
    BY <2>1, <2>2, <2>3 DEF TypeOK
  <2>5. \A u \in Queues : Len(queue'[u]) <= QueueLen
    <3> SUFFICES ASSUME NEW u \in Queues
                 PROVE  Len(queue'[u]) <= QueueLen
      OBVIOUS
    <3>1. Len(queue[u]) <= QueueLen /\ Len(queue[q]) <= QueueLen
      BY DEF TypeOK
    <3>2. queue'[u] = IF u = q THEN Tail(queue[q]) ELSE queue[u]
      BY <2>3 DEF TypeOK
    <3> QED
      BY <2>1, <3>1, <3>2, Numbers
  <2> QED
    BY <1>0, <1>10, <2>4, <2>5 DEF Take, TypeOK, brokerVars, bootVars
<1>11. CASE StoreAborts
  <2>1. handled' \in [Topics -> 0 .. MaxIds]
    BY <1>11 DEF StoreAborts, TypeOK
  <2> QED
    BY <1>7, <1>11, <2>1 DEF StoreAborts
<1>12. CASE Restart
  <2>1. queue[RestartQueue] # <<>> /\ RestartQueue \in Queues
    BY <1>12, DispatchAssumption DEF Restart
  <2>2. Head(queue[RestartQueue]) \in Message
    BY <2>1, HeadIs
  <2>3. handled' \in [Topics -> 0 .. MaxIds]
    BY <1>12, <2>2, Numbers DEF Restart, Handle, TypeOK, Message
  <2> QED
    BY <1>7, <1>12, <2>3 DEF Restart
<1> QED
  BY <1>1, <1>2, <1>3, <1>4, <1>5, <1>6, <1>8, <1>9, <1>10, <1>11, <1>12
     DEF Next, Client, Boot, Outside

LEMMA TableStep ==
  ASSUME TypeOK, TableInv, [Next]_vars
  PROVE  TableInv'
<1>0. /\ ArrSz \in Nat \ {0} /\ Len(table) \in Nat /\ call \in 1 .. Len(Registrations)
      /\ Len(Registrations) \in Nat \ {0}
      /\ table \in Seq([topic : Seq(Chars), queue : Queues])
  BY Numbers, Tables, Registered DEF TypeOK
<1>1. CASE UNCHANGED bootVars
  BY <1>1 DEF bootVars, TableInv
<1>2. CASE WaitForConnection
  BY <1>2 DEF WaitForConnection, TableInv
<1>3. CASE Subscribe
  BY <1>3 DEF Subscribe, TableInv
<1>4. CASE Reboot
  <2>1. table' = <<>> /\ call' = 1 /\ ArrSz' = ArrSz /\ boot' = "wait"
    BY <1>4 DEF Reboot
  <2>2. Len(table') = 0 /\ table' \in Seq([topic : Seq(Chars), queue : Queues])
    BY <2>1, EmptySeq
  <2> QED
    BY <1>0, <2>1, <2>2 DEF TableInv
<1>5. CASE Store
  <2>1. /\ boot = "store" /\ table' = Append(table, Registrations[call]) /\ ArrSz' = ArrSz
        /\ \/ call = Len(Registrations) /\ boot' = "done"
           \/ call' = call + 1 /\ boot' \in {"wait", "subscribe"}
        /\ boot' = "done" => call' = call /\ call = Len(Registrations)
    BY <1>5 DEF Store
  <2>2. Len(table) = call - 1 /\ Len(table) < ArrSz - 1
    BY <1>0, <1>5, <2>1 DEF TableInv, Store, TableFull
  <2>3. Registrations[call] \in [topic : Seq(Chars), queue : Queues]
    BY <1>0, Registered
  <2>4. /\ table' \in Seq([topic : Seq(Chars), queue : Queues])
        /\ Len(table') = call /\ table'[call] = Registrations[call]
        /\ \A k \in 1 .. Len(table) : table'[k] = table[k]
    BY <1>0, <2>1, <2>2, <2>3, AppendProperties
  <2>5. \A k \in 1 .. Len(table') : k \in 1 .. Len(Registrations) /\ table'[k] = Registrations[k]
    <3> SUFFICES ASSUME NEW k \in 1 .. Len(table')
                 PROVE  k \in 1 .. Len(Registrations) /\ table'[k] = Registrations[k]
      OBVIOUS
    <3>1. k \in 1 .. Len(table) \/ k = call
      BY <1>0, <2>2, <2>4
    <3> QED
      BY <1>0, <2>4, <3>1 DEF TableInv
  <2> QED
    BY <1>0, <2>1, <2>2, <2>4, <2>5 DEF TableInv
<1>6. \/ UNCHANGED bootVars \/ WaitForConnection \/ Subscribe \/ Reboot \/ Store
  BY DEF Next, Client, Boot, Outside, StoreAborts, Restart, Connect, Notice, Drop, Publish,
     Dispatch, DispatchTimeout, DispatchUnrouted, Take, vars
<1> QED
  BY <1>1, <1>2, <1>3, <1>4, <1>5, <1>6

-----------------------------------------------------------------------------
(* What becomes of messages in one step.                                   *)
Keep == UNCHANGED taken /\ \A q \in Queues : queue'[q] = queue[q]
Get(r, m) == /\ UNCHANGED taken /\ queue'[r] = Append(queue[r], m)
             /\ \A q \in Queues \ {r} : queue'[q] = queue[q]
New(m) == /\ m \in Message /\ Bounded(m)' /\ Known(m.topic)' /\ Younger(m, wire)
          /\ Late(m) /\ \A q \in Queues : Younger(m, queue[q])

Stay    == Keep /\ wire' \in {wire, <<>>}
Discard == Keep /\ wire # <<>> /\ wire' = Tail(wire)
Arrive  == Keep /\ \E m \in Message : New(m) /\ wire' = Append(wire, m)
Deliver == /\ wire # <<>> /\ wire' = Tail(wire)
           /\ \E r \in Queues : /\ Get(r, Head(wire))
                                /\ \E k \in 1 .. Len(Registrations) : Registrations[k] =
                                     [topic |-> Head(wire).topic, queue |-> r]
TakeFrom(r) ==
  /\ wire' = wire /\ queue[r] # <<>> /\ queue'[r] = Tail(queue[r])
  /\ \A q \in Queues \ {r} : queue'[q] = queue[q]
  /\ Handle(Head(queue[r])) /\ fresh' = fresh \ {Head(queue[r]).topic}
Forget == wire' = <<>> /\ fresh' = Topics /\ \A q \in Queues : queue'[q] = <<>>

LEMMA KeepIf == UNCHANGED <<queue, taken>> => Keep
BY DEF Keep

(* Between two reboots the broker knows more and more.                     *)
LEMMA KnownGrows ==
  ASSUME TypeOK, TableInv, [Next]_vars, ~Reboot, NEW t, Known(t)
  PROVE  Known(t)'
<1>0. Len(table) \in Nat /\ call \in 1 .. Len(Registrations) /\ Len(Registrations) \in Nat
  BY Tables, Registered
<1>1. PICK k \in 1 .. Len(Registrations) :
        Registrations[k].topic = t /\ (k <= Len(table) \/ (boot = "store" /\ k = call))
  BY DEF Known
<1>2. CASE UNCHANGED bootVars
  BY <1>2 DEF bootVars, Known
<1>3. CASE WaitForConnection \/ Subscribe
  BY <1>1, <1>3 DEF WaitForConnection, Subscribe, Known
<1>4. CASE Store
  <2>1. Len(table) = call - 1 /\ table' = Append(table, Registrations[call])
    BY <1>4 DEF Store, TableInv
  <2>2. Len(table') = call
    <3>1. Registrations[call] \in [topic : Seq(Chars), queue : Queues]
          /\ table \in Seq([topic : Seq(Chars), queue : Queues])
      BY <1>0, Registered, Tables
    <3> QED
      BY <1>0, <2>1, <3>1, AppendProperties
  <2>3. k <= Len(table')
    BY <1>0, <1>1, <2>1, <2>2
  <2> QED
    BY <1>1, <2>3 DEF Known
<1>5. UNCHANGED bootVars \/ WaitForConnection \/ Subscribe \/ Store
  BY DEF Next, Client, Boot, Outside, StoreAborts, Restart, Connect, Notice, Drop, Publish,
     Dispatch, DispatchTimeout, DispatchUnrouted, Take, vars
<1> QED
  BY <1>2, <1>3, <1>4, <1>5

LEMMA SubscribeArrives ==
  ASSUME IInv, Subscribe
  PROVE  Stay \/ Arrive
<1>0. /\ call \in 1 .. Len(Registrations) /\ Len(table) = call - 1 /\ boot = "subscribe"
      /\ boot' = "store" /\ call' = call
  BY Tables DEF Subscribe, IInv, TableInv
<1>1. PICK t \in Topics : t = Registrations[call].topic
  BY <1>0, Registered
<1>2. Keep
  BY KeepIf DEF Subscribe
<1>3. ~Known(t)
  <2> SUFFICES ASSUME NEW k \in 1 .. Len(Registrations), Registrations[k].topic = t,
                      k <= Len(table)
               PROVE  FALSE
    BY <1>0 DEF Known
  <2>1. k = call
    BY <1>0, <1>1, Registered
  <2> QED
    BY <1>0, <2>1, Registered
<1>4. CASE wire' = wire
  BY <1>2, <1>4 DEF Stay
<1>5. CASE wire' # wire
  <2>1. /\ wire' = Append(wire, [topic |-> t, id |-> retained[t]]) /\ retained[t] # 0
        /\ ids' = ids /\ retained' = retained
    BY <1>1, <1>5 DEF Subscribe
  <2>2. /\ retained[t] \in 1 .. MaxIds /\ retained[t] <= ids /\ t \in Retained
        /\ handled[t] \in Nat /\ handled[t] <= retained[t] /\ t \in fresh
    BY <1>1, <1>3, <2>1, Numbers DEF IInv, IdInv, KnownInv, TypeOK
  <2>3. PICK m \in Message : m = [topic |-> t, id |-> retained[t]]
    BY <2>2 DEF Message
  <2>4. Younger(m, wire) /\ \A q \in Queues : Younger(m, queue[q])
    BY <1>3, <2>3 DEF Younger, IInv, KnownInv
  <2>5. Known(t)'
    BY <1>0, <1>1 DEF Known
  <2>6. m.topic = t /\ m.id = retained[t] /\ Late(m) /\ Bounded(m)'
    BY <2>1, <2>2, <2>3 DEF Late, Bounded
  <2>7. Known(m.topic)'
    BY <2>5, <2>6
  <2> QED
    BY <1>2, <2>1, <2>3, <2>4, <2>6, <2>7 DEF Arrive, New
<1> QED
  BY <1>4, <1>5

LEMMA PublishArrives ==
  ASSUME IInv, NEW t \in Topics, Publish(t), [Next]_vars
  PROVE  Stay \/ Arrive
<1>1. Keep
  BY KeepIf DEF Publish
<1>2. CASE wire' = wire
  BY <1>1, <1>2 DEF Stay
<1>3. CASE wire' # wire
  <2>1. /\ wire' = Append(wire, [topic |-> t, id |-> ids']) /\ t \in subs
        /\ ids' = ids + 1 /\ ids' \in 1 .. MaxIds /\ ids \in 0 .. MaxIds
        /\ t \in Retained => retained'[t] = ids'
    BY <1>3, Numbers DEF Publish, IInv, IdInv, TypeOK
  <2>2. PICK m \in Message : m = [topic |-> t, id |-> ids']
    BY <2>1 DEF Message
  <2>3. Younger(m, wire)
    <3>1. \A i \in 1 .. Len(wire) : wire[i] \in Message
      BY Sequences, ElementOfSeq DEF IInv
    <3>2. \A i \in 1 .. Len(wire) : wire[i].id <= ids /\ wire[i].id \in Int
      BY <3>1 DEF IInv, IdInv, Bounded, Message
    <3> QED
      BY <2>1, <2>2, <3>2 DEF Younger
  <2>4. ASSUME NEW q \in Queues
        PROVE  Younger(m, queue[q])
    <3>1. \A i \in 1 .. Len(queue[q]) : queue[q][i] \in Message
      BY Sequences, ElementOfSeq DEF IInv
    <3>2. \A i \in 1 .. Len(queue[q]) : queue[q][i].id <= ids /\ queue[q][i].id \in Int
      BY <3>1 DEF IInv, IdInv, Bounded, Message
    <3> QED
      BY <2>1, <2>2, <3>2 DEF Younger
  <2>5. Known(t)'
    <3>1. UNCHANGED bootVars /\ Known(t)
      BY <2>1 DEF Publish, IInv, KnownInv
    <3> QED
      BY <3>1 DEF bootVars, Known
  <2>6. m.topic = t /\ m.id = ids' /\ Late(m) /\ Bounded(m)'
    <3>1. handled[t] \in Nat /\ handled[t] <= ids
      BY Numbers DEF IInv, IdInv, TypeOK
    <3> QED
      BY <2>1, <2>2, <3>1 DEF Late, Bounded
  <2>7. Known(m.topic)'
    BY <2>5, <2>6
  <2> QED
    BY <1>1, <2>1, <2>2, <2>3, <2>4, <2>6, <2>7 DEF Arrive, New
<1> QED
  BY <1>2, <1>3

LEMMA DispatchDelivers ==
  ASSUME IInv, Dispatch
  PROVE  Deliver
<1>1. /\ wire # <<>> /\ wire' = Tail(wire) /\ taken' = taken
      /\ queue' = [queue EXCEPT ![Found(Head(wire).topic)] = Append(@, Head(wire))]
      /\ Entries(Head(wire).topic) # {}
  BY DEF Dispatch, xQueueSendToBack
<1>2. Head(wire) \in Message
  BY <1>1, Sequences, HeadTailProperties DEF IInv
<1>3. PICK r \in Queues :
        /\ r = Found(Head(wire).topic)
        /\ \E k \in 1 .. Len(Registrations) : Registrations[k] = [topic |-> Head(wire).topic, queue |-> r]
  <2>1. Head(wire).topic \in Topics
    BY <1>2 DEF Message
  <2> QED
    BY <1>1, <2>1, FoundIsQueue DEF IInv
<1>4. PICK m \in Message : m = Head(wire)
  BY <1>2
<1>5. /\ queue'[r] = Append(queue[r], m)
      /\ \A q \in Queues \ {r} : queue'[q] = queue[q]
  BY <1>1, <1>3, <1>4 DEF IInv, TypeOK
<1>6. Get(r, Head(wire))
  BY <1>1, <1>4, <1>5 DEF Get
<1> QED
  BY <1>1, <1>3, <1>6 DEF Deliver

LEMMA Moves ==
  ASSUME IInv, [Next]_vars
  PROVE  \/ Stay \/ Discard \/ Arrive \/ Deliver \/ (Forget /\ Reboot)
         \/ \E r \in Queues : TakeFrom(r)
<1>1. CASE UNCHANGED vars \/ Connect \/ Notice \/ WaitForConnection \/ Store \/ Drop
  <2>1. UNCHANGED <<queue, taken>> /\ wire' \in {wire, <<>>}
    BY <1>1 DEF vars, Connect, Notice, WaitForConnection, Store, Drop, LoseSession, brokerVars
  <2> QED
    BY <2>1, KeepIf DEF Stay
<1>2. CASE \E t \in Topics : Publish(t)
  BY <1>2, PublishArrives
<1>3. CASE Subscribe
  BY <1>3, SubscribeArrives
<1>4. CASE Reboot
  BY <1>4 DEF Reboot, LoseSession, Forget
<1>5. CASE Dispatch
  BY <1>5, DispatchDelivers
<1>6. CASE DispatchTimeout \/ DispatchUnrouted
  BY <1>6, KeepIf DEF DispatchTimeout, DispatchUnrouted, Discard
<1>7. ASSUME NEW q \in Queues, Take(q)
      PROVE  TakeFrom(q)
  BY <1>7 DEF Take, TakeFrom, IInv, TypeOK, brokerVars
<1> QED
  BY <1>1, <1>2, <1>3, <1>4, <1>5, <1>6, <1>7
     DEF Next, Client, Boot, Outside, StoreAborts, Restart

-----------------------------------------------------------------------------
(* The invariant.                                                          *)
LEMMA IdsGrow == IInv /\ [Next]_vars => ids' \in Nat /\ ids \in Nat /\ ids <= ids'
<1>1. IInv => ids \in Nat
  BY DEF IInv, IdInv
<1>2. [Next]_vars => ids' = ids \/ ids' = ids + 1
  BY DEF Next, Client, Boot, Outside, StoreAborts, Restart, Connect, Notice, Drop, Publish,
     Dispatch, DispatchTimeout, DispatchUnrouted, Take, WaitForConnection, Subscribe, Store, vars
<1> QED
  BY <1>1, <1>2

(* Where the messages of the next state come from.                         *)
LEMMA Sources ==
  ASSUME IInv, [Next]_vars
  PROVE  /\ \A i \in 1 .. Len(wire)' :
              \/ \E j \in 1 .. Len(wire) : wire'[i] = wire[j]
              \/ \E m \in Message : New(m) /\ wire'[i] = m
         /\ \A q \in Queues : \A i \in 1 .. Len(queue'[q]) :
              \/ \E j \in 1 .. Len(queue[q]) : queue'[q][i] = queue[q][j]
              \/ /\ Deliver /\ UNCHANGED taken /\ 1 \in 1 .. Len(wire) /\ queue'[q][i] = wire[1]
                 /\ \E k \in 1 .. Len(Registrations) : Registrations[k] =
                      [topic |-> wire[1].topic, queue |-> q]
<1>0. wire \in Seq(Message) /\ \A q \in Queues : queue[q] \in Seq(Message)
  BY Sequences DEF IInv
<1>a. Len(<<>>) = 0
  BY EmptySeq
<1>b. wire # <<>> => /\ Head(wire) \in Message /\ 1 \in 1 .. Len(wire) /\ Head(wire) = wire[1]
                     /\ \A i \in 1 .. Len(Tail(wire)) : \E j \in 1 .. Len(wire) : Tail(wire)[i] = wire[j]
  <2>1. ASSUME NEW m \in Message, wire # <<>>
        PROVE  /\ Head(wire) \in Message /\ 1 \in 1 .. Len(wire) /\ Head(wire) = wire[1]
               /\ \A i \in 1 .. Len(Tail(wire)) : \E j \in 1 .. Len(wire) : Tail(wire)[i] = wire[j]
    BY <1>0, <2>1, Ends
  <2>2. wire # <<>> => \E m : m \in Message
    BY <1>0, HeadTailProperties
  <2> QED
    BY <2>1, <2>2
<1>1. CASE Stay \/ Discard
  BY <1>1, <1>a, <1>b DEF Stay, Discard, Keep
<1>2. CASE Arrive
  <2>1. PICK m \in Message : New(m) /\ wire' = Append(wire, m)
    BY <1>2 DEF Arrive
  <2>2. \A i \in 1 .. Len(Append(wire, m)) :
          Append(wire, m)[i] = m \/ \E j \in 1 .. Len(wire) : Append(wire, m)[i] = wire[j]
    BY <1>0, Ends
  <2>3. \A i \in 1 .. Len(wire)' :
          (\E j \in 1 .. Len(wire) : wire'[i] = wire[j]) \/ wire'[i] = m
    BY <2>1, <2>2
  <2> QED
    BY <1>2, <2>1, <2>3 DEF Arrive, Keep
<1>3. CASE Deliver
  <2>1. PICK r \in Queues :
          /\ Get(r, Head(wire))
          /\ \E k \in 1 .. Len(Registrations) : Registrations[k] = [topic |-> Head(wire).topic, queue |-> r]
    BY <1>3 DEF Deliver
  <2>2. /\ \A i \in 1 .. Len(wire)' : \E j \in 1 .. Len(wire) : wire'[i] = wire[j]
        /\ Head(wire) \in Message /\ 1 \in 1 .. Len(wire) /\ Head(wire) = wire[1]
    BY <1>3, <1>b DEF Deliver
  <2>3. \A i \in 1 .. Len(Append(queue[r], Head(wire))) :
          \/ Append(queue[r], Head(wire))[i] = Head(wire)
          \/ \E j \in 1 .. Len(queue[r]) : Append(queue[r], Head(wire))[i] = queue[r][j]
    BY <1>0, <2>2, Ends
  <2>4. \A i \in 1 .. Len(queue'[r]) :
          \/ \E j \in 1 .. Len(queue[r]) : queue'[r][i] = queue[r][j]
          \/ queue'[r][i] = wire[1]
    BY <2>1, <2>2, <2>3 DEF Get
  <2>5. \A q \in Queues \ {r} : queue'[q] = queue[q]
    BY <2>1 DEF Get
  <2>6. ASSUME NEW q \in Queues, NEW i \in 1 .. Len(queue'[q])
        PROVE  \/ \E j \in 1 .. Len(queue[q]) : queue'[q][i] = queue[q][j]
               \/ /\ 1 \in 1 .. Len(wire) /\ queue'[q][i] = wire[1]
                  /\ \E k \in 1 .. Len(Registrations) : Registrations[k] =
                       [topic |-> wire[1].topic, queue |-> q]
    <3>1. CASE q = r
      BY <2>1, <2>2, <2>4, <2>6, <3>1
    <3>2. CASE q # r
      BY <2>5, <2>6, <3>2
    <3> QED
      BY <3>1, <3>2
  <2>7. UNCHANGED taken
    BY <2>1 DEF Get
  <2> QED
    BY <1>3, <2>2, <2>6, <2>7
<1>4. CASE Forget
  BY <1>4, <1>a DEF Forget
<1>5. ASSUME NEW r \in Queues, TakeFrom(r)
      PROVE  /\ wire' = wire
             /\ \A q \in Queues : \A i \in 1 .. Len(queue'[q]) :
                  \E j \in 1 .. Len(queue[q]) : queue'[q][i] = queue[q][j]
  <2>1. wire' = wire /\ queue'[r] = Tail(queue[r]) /\ queue[r] # <<>>
        /\ \A q \in Queues \ {r} : queue'[q] = queue[q]
    BY <1>5 DEF TakeFrom
  <2>2. \A i \in 1 .. Len(Tail(queue[r])) :
          \E j \in 1 .. Len(queue[r]) : Tail(queue[r])[i] = queue[r][j]
    BY <2>1, HeadIs DEF IInv
  <2>3. ASSUME NEW q \in Queues, NEW i \in 1 .. Len(queue'[q])
        PROVE  \E j \in 1 .. Len(queue[q]) : queue'[q][i] = queue[q][j]
    <3>1. CASE q = r
      BY <2>1, <2>2, <2>3, <3>1
    <3>2. CASE q # r
      BY <2>1, <2>3, <3>2
    <3> QED
      BY <3>1, <3>2
  <2> QED
    BY <2>1, <2>3
<1> QED
  BY <1>1, <1>2, <1>3, <1>4, <1>5, Moves

LEMMA KnownStep ==
  ASSUME IInv, [Next]_vars
  PROVE  KnownInv'
<1>1. CASE Reboot
  <2>1. subs' = {} /\ wire' = <<>> /\ fresh' = Topics /\ \A q \in Queues : queue'[q] = <<>>
    BY <1>1 DEF Reboot, LoseSession
  <2>2. Len(<<>>) = 0
    BY EmptySeq
  <2> QED
    BY <2>1, <2>2 DEF KnownInv
<1>2. CASE ~Reboot
  <2>1. \A t : Known(t) => Known(t)'
    BY <1>2, KnownGrows DEF IInv
  <2>2. \A t \in subs' : Known(t)'
    <3> SUFFICES ASSUME NEW t \in subs'
                 PROVE  Known(t)'
      OBVIOUS
    <3>1. t \in subs \/ (Subscribe /\ t = Registrations[call].topic)
      BY <1>2 DEF Next, Client, Boot, Outside, StoreAborts, Restart, Connect, Notice, Drop,
         LoseSession, Publish, Dispatch, DispatchTimeout, DispatchUnrouted, Take,
         WaitForConnection, Subscribe, Store, vars, brokerVars
    <3>2. CASE t \in subs
      BY <2>1, <3>2 DEF IInv, KnownInv
    <3>3. CASE Subscribe /\ t = Registrations[call].topic
      <4>1. call \in 1 .. Len(Registrations) /\ call' = call /\ boot' = "store"
        BY <3>3, Tables DEF IInv, Subscribe
      <4> QED
        BY <3>3, <4>1 DEF Known
    <3> QED
      BY <3>1, <3>2, <3>3
  <2>3. ASSUME NEW i \in 1 .. Len(wire)'
        PROVE  Known(wire[i].topic)'
    <3>1. (\E j \in 1 .. Len(wire) : wire'[i] = wire[j])
          \/ \E m \in Message : New(m) /\ wire'[i] = m
      BY <2>3, Sources
    <3>2. PICK t : t = wire'[i].topic
      OBVIOUS
    <3>3. CASE \E j \in 1 .. Len(wire) : wire'[i] = wire[j]
      <4>1. Known(t)
        BY <3>2, <3>3 DEF IInv, KnownInv
      <4>2. Known(t)'
        BY <2>1, <4>1
      <4> QED
        BY <3>2, <4>2 DEF Known
    <3>4. CASE \E m \in Message : New(m) /\ wire'[i] = m
      BY <3>2, <3>4 DEF New, Known
    <3> QED
      BY <3>1, <3>3, <3>4
  <2>4. ASSUME NEW q \in Queues, NEW i \in 1 .. Len(queue'[q])
        PROVE  Known(queue[q][i].topic)'
    <3>1. PICK t : t = queue'[q][i].topic
      OBVIOUS
    <3>2. Known(t)
      <4>1. \/ \E j \in 1 .. Len(queue[q]) : queue'[q][i] = queue[q][j]
            \/ 1 \in 1 .. Len(wire) /\ queue'[q][i] = wire[1]
        BY <2>4, Sources
      <4>2. \A j \in 1 .. Len(queue[q]) : Known(queue[q][j].topic)
        BY DEF IInv, KnownInv
      <4> QED
        BY <3>1, <4>1, <4>2 DEF IInv, KnownInv
    <3>3. Known(t)'
      BY <2>1, <3>2
    <3> QED
      BY <3>1, <3>3
  <2>5. ASSUME NEW t \in Topics, t \notin fresh'
        PROVE  Known(t)'
    <3>1. t \notin fresh \/ \E r \in Queues : TakeFrom(r) /\ t = Head(queue[r]).topic
      <4>1. fresh' = fresh \/ (\E r \in Queues : TakeFrom(r)) \/ Forget
        BY Moves DEF Stay, Discard, Arrive, Deliver, Keep, Get, taken
      <4> QED
        BY <2>5, <4>1 DEF TakeFrom, Forget
    <3>2. Known(t)
      BY <3>1, HeadIs DEF IInv, KnownInv, TakeFrom
    <3> QED
      BY <2>1, <3>2
  <2> QED
    BY <2>2, <2>3, <2>4, <2>5 DEF KnownInv
<1> QED
  BY <1>1, <1>2

(* Whatever is handled was queued.                                         *)
LEMMA HandledIs ==
  ASSUME IInv, [Next]_vars
  PROVE  \/ handled' = handled
         \/ \E q \in Queues : queue[q] # <<>> /\ Handle(Head(queue[q]))
<1>1. RestartQueue \in Queues
  BY DispatchAssumption
<1> QED
  BY <1>1 DEF Next, Client, Boot, Outside, StoreAborts, Restart, Connect, Notice, Drop,
     Publish, Dispatch, DispatchTimeout, DispatchUnrouted, Take,
     WaitForConnection, Subscribe, Store, vars, taken

LEMMA IdStep ==
  ASSUME IInv, [Next]_vars
  PROVE  IdInv'
<1>0. ids' \in Nat /\ ids \in Nat /\ ids <= ids' /\ ids' \in 0 .. MaxIds /\ TypeOK'
  BY IdsGrow, TypeStep DEF IInv
<1>1. ASSUME NEW t \in Topics
      PROVE  /\ retained'[t] <= ids' /\ (t \notin Retained => retained'[t] = 0)
             /\ retained[t] \in Nat /\ retained'[t] \in Nat /\ retained[t] <= retained'[t]
  <2>1. retained[t] <= ids /\ retained[t] \in Nat /\ (t \notin Retained => retained[t] = 0)
    BY Numbers DEF IInv, IdInv, TypeOK
  <2>2. retained'[t] = retained[t] \/ (t \in Retained /\ retained'[t] = ids')
    BY DEF IInv, TypeOK, Next, Client, Boot, Outside, StoreAborts, Restart, Connect, Notice, Drop,
       Publish, Dispatch, DispatchTimeout, DispatchUnrouted, Take,
       WaitForConnection, Subscribe, Store, vars, brokerVars
  <2> QED
    BY <1>0, <2>1, <2>2
<1>2. \A m \in Message : Bounded(m) => Bounded(m)'
  <2> SUFFICES ASSUME NEW m \in Message, Bounded(m)
               PROVE  Bounded(m)'
    OBVIOUS
  <2>1. m.topic \in Topics /\ m.id \in Nat
    BY DEF Message
  <2> QED
    BY <1>0, <1>1, <2>1 DEF Bounded
<1>3. ASSUME NEW i \in 1 .. Len(wire)
      PROVE  wire[i] \in Message /\ Bounded(wire[i])
  BY Sequences, ElementOfSeq DEF IInv, IdInv
<1>4. ASSUME NEW q \in Queues, NEW i \in 1 .. Len(queue[q])
      PROVE  queue[q][i] \in Message /\ Bounded(queue[q][i])
  BY Sequences, ElementOfSeq DEF IInv, IdInv
<1>5. ASSUME NEW i \in 1 .. Len(wire')
      PROVE  Bounded(wire[i])'
  <2>1. (\E j \in 1 .. Len(wire) : wire'[i] = wire[j])
          \/ \E m \in Message : New(m) /\ wire'[i] = m
    BY <1>5, Sources
  <2>2. CASE \E j \in 1 .. Len(wire) : wire'[i] = wire[j]
    <3>1. PICK j \in 1 .. Len(wire) : wire'[i] = wire[j]
      BY <2>2
    <3>2. PICK m \in Message : m = wire[j] /\ Bounded(m)
      BY <1>3 DEF IInv, IdInv
    <3>3. Bounded(m)' /\ m = wire'[i]
      BY <1>2, <3>1, <3>2
    <3> QED
      BY <3>3 DEF Bounded
  <2>3. CASE \E m \in Message : New(m) /\ wire'[i] = m
    BY <2>3 DEF New, Bounded
  <2> QED
    BY <2>1, <2>2, <2>3
<1>6. ASSUME NEW q \in Queues, NEW i \in 1 .. Len(queue'[q])
      PROVE  Bounded(queue[q][i])'
  <2>1. \/ \E j \in 1 .. Len(queue[q]) : queue'[q][i] = queue[q][j]
        \/ 1 \in 1 .. Len(wire) /\ queue'[q][i] = wire[1]
    BY <1>6, Sources
  <2>2. PICK m \in Message : Bounded(m) /\ m = queue'[q][i]
    BY <1>3, <1>4, <2>1 DEF IInv, IdInv
  <2>3. Bounded(m)'
    BY <1>2, <2>2
  <2> QED
    BY <2>2, <2>3 DEF Bounded
<1>7. ASSUME NEW t \in Topics
      PROVE  handled'[t] <= ids' /\ (t \in Retained => handled'[t] <= retained'[t])
  <2>1. /\ handled[t] \in Nat /\ handled[t] <= ids /\ (t \in Retained => handled[t] <= retained[t])
        /\ handled \in [Topics -> 0 .. MaxIds]
    BY Numbers DEF IInv, IdInv, TypeOK
  <2>2. CASE handled'[t] = handled[t]
    BY <1>0, <1>1, <2>1, <2>2
  <2>3. CASE handled'[t] # handled[t]
    <3>1. PICK q \in Queues : queue[q] # <<>> /\ Handle(Head(queue[q]))
      BY <2>3, HandledIs
    <3>2. PICK m \in Message : m = Head(queue[q]) /\ Bounded(m) /\ Head(queue[q]).topic \in Topics
      BY <1>4, <3>1, HeadIs DEF IInv
    <3>3. handled'[t] = m.id /\ t = m.topic
      BY <2>1, <2>3, <3>1, <3>2 DEF Handle
    <3>4. Bounded(m)'
      BY <1>2, <3>2
    <3> QED
      BY <3>3, <3>4 DEF Bounded
  <2> QED
    BY <2>2, <2>3
<1> QED
  BY <1>0, <1>1, <1>5, <1>6, <1>7 DEF IdInv

(* A message of a topic of which one is taken is younger than that one.    *)
LEMMA LateStep ==
  ASSUME IInv, [Next]_vars
  PROVE  LateInv'
<1>1. ASSUME NEW m, Late(m), UNCHANGED taken
      PROVE  Late(m)'
  BY <1>1 DEF Late, taken
<1>2. \/ UNCHANGED taken \/ Forget \/ \E r \in Queues : TakeFrom(r)
  BY Moves DEF Stay, Discard, Arrive, Deliver, Keep, Get
<1>3. CASE UNCHANGED taken
  <2>1. ASSUME NEW i \in 1 .. Len(wire')
        PROVE  Late(wire[i])'
    <3>1. PICK m : m = wire'[i] /\ Late(m)
      BY <2>1, Sources DEF IInv, LateInv, New
    <3> QED
      BY <1>1, <1>3, <3>1 DEF Late
  <2>2. ASSUME NEW q \in Queues, NEW i \in 1 .. Len(queue'[q])
        PROVE  Late(queue[q][i])'
    <3>1. PICK m : m = queue'[q][i] /\ Late(m)
      <4>1. \/ \E j \in 1 .. Len(queue[q]) : queue'[q][i] = queue[q][j]
            \/ 1 \in 1 .. Len(wire) /\ queue'[q][i] = wire[1]
        BY <2>2, Sources
      <4>2. \A j \in 1 .. Len(queue[q]) : Late(queue[q][j])
        BY DEF IInv, LateInv
      <4> QED
        BY <4>1, <4>2 DEF IInv, LateInv
    <3> QED
      BY <1>1, <1>3, <3>1 DEF Late
  <2> QED
    BY <2>1, <2>2 DEF LateInv
<1>4. CASE Forget
  <2>1. wire' = <<>> /\ \A q \in Queues : queue'[q] = <<>>
    BY <1>4 DEF Forget
  <2>2. Len(<<>>) = 0
    BY EmptySeq
  <2> QED
    BY <2>1, <2>2 DEF LateInv
<1>5. ASSUME NEW r \in Queues, TakeFrom(r)
      PROVE  LateInv'
  <2> DEFINE h == Head(queue[r])
  <2>1. /\ h \in Message /\ h.topic \in Topics /\ 1 \in 1 .. Len(queue[r]) /\ h = queue[r][1]
        /\ \A i \in 1 .. Len(Tail(queue[r])) :
             \E j \in 1 .. Len(queue[r]) : Tail(queue[r])[i] = queue[r][j] /\ j > 1
    BY <1>5, HeadIs DEF IInv, TakeFrom
  <2>2. /\ handled' = [handled EXCEPT ![h.topic] = h.id] /\ fresh' = fresh \ {h.topic}
        /\ handled \in [Topics -> 0 .. MaxIds]
    BY <1>5 DEF TakeFrom, Handle, IInv, TypeOK
  <2> HIDE DEF h
  <2>3. ASSUME NEW m \in Message, Late(m), m.topic = h.topic => h.id < m.id
        PROVE  Late(m)'
    <3>1. m.topic \in Topics
      BY DEF Message
    <3>2. CASE m.topic = h.topic
      <4>1. handled'[m.topic] = h.id
        BY <2>2, <3>1, <3>2
      <4> QED
        BY <2>1, <2>3, <3>2, <4>1 DEF Late, Message
    <3>3. CASE m.topic # h.topic
      <4>1. handled'[m.topic] = handled[m.topic] /\ (m.topic \in fresh => m.topic \in fresh')
        BY <2>2, <3>1, <3>3
      <4> QED
        BY <2>3, <4>1 DEF Late
    <3> QED
      BY <3>2, <3>3
  <2>4. ASSUME NEW i \in 1 .. Len(wire')
        PROVE  Late(wire[i])'
    <3>1. wire' = wire /\ wire[i] \in Message /\ Late(wire[i])
      BY <1>5, <2>4, Sequences, ElementOfSeq DEF TakeFrom, IInv, LateInv
    <3>2. wire[i].topic = h.topic => h.id < wire[i].id
      BY <2>1, <2>4, <3>1 DEF IInv, OrderInv, Younger
    <3>3. PICK m \in Message : m = wire[i] /\ Late(m) /\ (m.topic = h.topic => h.id < m.id)
      BY <3>1, <3>2
    <3>4. Late(m)'
      BY <2>3, <3>3
    <3> QED
      BY <3>1, <3>3, <3>4 DEF Late
  <2>5. ASSUME NEW q \in Queues, NEW i \in 1 .. Len(queue'[q])
        PROVE  Late(queue[q][i])'
    <3>1. PICK m \in Message : m = queue'[q][i] /\ Late(m) /\ (m.topic = h.topic => h.id < m.id)
      <4>1. CASE q = r
        <5>1. PICK j \in 1 .. Len(queue[r]) : queue'[r][i] = queue[r][j] /\ j > 1
          BY <1>5, <2>1, <2>5, <4>1 DEF TakeFrom
        <5>2. queue[r][j].topic = h.topic => h.id < queue[r][j].id
          BY <2>1, <5>1 DEF IInv, OrderInv, Increasing
        <5>3. queue[r][j] \in Message /\ Late(queue[r][j])
          BY Sequences, ElementOfSeq DEF IInv, LateInv
        <5> QED
          BY <4>1, <5>1, <5>2, <5>3
      <4>2. CASE q # r
        <5>1. queue'[q] = queue[q]
          BY <1>5, <4>2 DEF TakeFrom
        <5>2. queue[q][i] \in Message /\ Late(queue[q][i])
          BY <2>5, <5>1, Sequences, ElementOfSeq DEF IInv, LateInv
        <5>3. queue[q][i].topic # h.topic
          <6>1. PICK j \in 1 .. Len(Registrations) :
                  Registrations[j] = [topic |-> queue[q][i].topic, queue |-> q]
            BY <2>5, <5>1 DEF IInv, RouteInv
          <6>2. PICK k \in 1 .. Len(Registrations) :
                  Registrations[k] = [topic |-> h.topic, queue |-> r]
            BY <2>1 DEF IInv, RouteInv
          <6>3. Registrations[j].topic = Registrations[k].topic => j = k
            BY Registered
          <6> QED
            BY <4>2, <6>1, <6>2, <6>3
        <5> QED
          BY <5>1, <5>2, <5>3
      <4> QED
        BY <4>1, <4>2
    <3>2. Late(m)'
      BY <2>3, <3>1
    <3> QED
      BY <3>1, <3>2 DEF Late
  <2> QED
    BY <2>4, <2>5 DEF LateInv
<1> QED
  BY <1>2, <1>3, <1>4, <1>5

LEMMA RouteStep ==
  ASSUME IInv, [Next]_vars
  PROVE  RouteInv'
<1> SUFFICES ASSUME NEW q \in Queues, NEW i \in 1 .. Len(queue'[q])
             PROVE  \E k \in 1 .. Len(Registrations) :
                      Registrations[k] = [topic |-> queue'[q][i].topic, queue |-> q]
  BY DEF RouteInv
<1>1. \/ \E j \in 1 .. Len(queue[q]) : queue'[q][i] = queue[q][j]
      \/ /\ queue'[q][i] = wire[1]
         /\ \E k \in 1 .. Len(Registrations) : Registrations[k] = [topic |-> wire[1].topic, queue |-> q]
  BY Sources
<1> QED
  BY <1>1 DEF IInv, RouteInv

LEMMA OrderStep ==
  ASSUME IInv, [Next]_vars
  PROVE  OrderInv'
<1>0. /\ wire \in Seq(Message) /\ OrderInv
      /\ \A q \in Queues : queue[q] \in Seq(Message)
  BY Sequences DEF IInv
<1>a. \A q \in Queues : Increasing(queue[q])
  BY <1>0 DEF OrderInv
<1>b. Increasing(<<>>) /\ Len(<<>>) = 0
  BY EmptySeq DEF Increasing
<1>c. wire # <<>> => /\ Increasing(Tail(wire))
                     /\ Head(wire) \in Message /\ 1 \in 1 .. Len(wire) /\ Head(wire) = wire[1]
                     /\ \A i \in 1 .. Len(Tail(wire)) :
                          \E j \in 1 .. Len(wire) : Tail(wire)[i] = wire[j] /\ j > 1
  <2>1. ASSUME NEW m \in Message, wire # <<>>
        PROVE  /\ Increasing(Tail(wire))
               /\ Head(wire) \in Message /\ 1 \in 1 .. Len(wire) /\ Head(wire) = wire[1]
               /\ \A i \in 1 .. Len(Tail(wire)) :
                    \E j \in 1 .. Len(wire) : Tail(wire)[i] = wire[j] /\ j > 1
    BY <1>0, <2>1, Increase, Ends DEF OrderInv
  <2>2. wire # <<>> => \E m : m \in Message
    BY <1>0, HeadTailProperties
  <2> QED
    BY <2>1, <2>2
<1>1. CASE Stay \/ Discard
  <2>1. Keep /\ Increasing(wire')
    BY <1>0, <1>1, <1>b, <1>c DEF Stay, Discard, OrderInv
  <2>2. \A i \in 1 .. Len(wire') : \E j \in 1 .. Len(wire) : wire'[i] = wire[j]
    BY <1>1, <1>b, <1>c DEF Stay, Discard
  <2>3. \A q \in Queues : Increasing(queue'[q])
    BY <1>a, <2>1 DEF Keep
  <2>4. \A j \in 1 .. Len(wire'), q \in Queues : Younger(wire'[j], queue'[q])
    BY <1>0, <2>1, <2>2 DEF Keep, OrderInv
  <2> QED
    BY <2>1, <2>3, <2>4 DEF OrderInv, Increasing, Younger
<1>2. CASE Arrive
  <2>1. PICK m \in Message : New(m) /\ wire' = Append(wire, m) /\ Keep
    BY <1>2 DEF Arrive
  <2>2. Increasing(wire')
    BY <1>0, <2>1, Increase DEF OrderInv, New
  <2>3. \A i \in 1 .. Len(wire') : wire'[i] = m \/ \E j \in 1 .. Len(wire) : wire'[i] = wire[j]
    BY <1>0, <2>1, Ends
  <2>4. \A q \in Queues : Younger(m, queue[q])
    BY <2>1 DEF New
  <2>5. \A q \in Queues : Increasing(queue'[q])
    BY <1>a, <2>1 DEF Keep
  <2>6. \A j \in 1 .. Len(wire'), q \in Queues : Younger(wire'[j], queue'[q])
    BY <1>0, <2>1, <2>3, <2>4 DEF Keep, OrderInv
  <2> QED
    BY <2>2, <2>5, <2>6 DEF OrderInv, Increasing, Younger
<1>3. CASE Deliver
  <2>1. PICK r \in Queues : Get(r, Head(wire)) /\ wire # <<>> /\ wire' = Tail(wire)
    BY <1>3 DEF Deliver
  <2>2. PICK m \in Message : m = Head(wire) /\ m = wire[1]
    BY <1>c, <2>1
  <2>3. Younger(m, queue[r])
    BY <1>0, <1>c, <2>1, <2>2 DEF OrderInv
  <2>4. queue'[r] = Append(queue[r], m) /\ \A q \in Queues \ {r} : queue'[q] = queue[q]
    BY <2>1, <2>2 DEF Get
  <2>5. Increasing(queue'[r])
    BY <1>0, <1>a, <2>3, <2>4, Increase
  <2>6. \A q \in Queues : Increasing(queue'[q])
    BY <1>a, <2>4, <2>5
  <2>7. ASSUME NEW j \in 1 .. Len(wire'), NEW q \in Queues
        PROVE  Younger(wire'[j], queue'[q])
    <3>1. PICK k \in 1 .. Len(wire) : wire'[j] = wire[k] /\ k > 1
      BY <1>c, <2>1, <2>7
    <3>2. Younger(wire'[j], queue[q])
      BY <1>0, <3>1 DEF OrderInv
    <3>3. CASE q # r
      BY <2>4, <3>2, <3>3
    <3>4. CASE q = r
      <4>1. m.topic = wire[k].topic => m.id < wire[k].id
        BY <1>0, <1>c, <2>1, <2>2, <3>1 DEF OrderInv, Increasing
      <4>2. \A i \in 1 .. Len(Append(queue[r], m)) :
              \/ Append(queue[r], m)[i] = m
              \/ \E n \in 1 .. Len(queue[r]) : Append(queue[r], m)[i] = queue[r][n]
        BY <1>0, Ends
      <4>3. queue'[q] = Append(queue[r], m)
        BY <2>4, <3>4
      <4>4. ASSUME NEW i \in 1 .. Len(Append(queue[r], m)),
                   Append(queue[r], m)[i].topic = wire[k].topic
            PROVE  Append(queue[r], m)[i].id < wire[k].id
        <5>1. CASE Append(queue[r], m)[i] = m
          BY <4>1, <4>4, <5>1
        <5>2. CASE \E n \in 1 .. Len(queue[r]) : Append(queue[r], m)[i] = queue[r][n]
          BY <3>1, <3>2, <3>4, <4>4, <5>2 DEF Younger
        <5> QED
          BY <4>2, <5>1, <5>2
      <4> QED
        BY <3>1, <4>3, <4>4 DEF Younger
    <3> QED
      BY <3>3, <3>4
  <2>8. Increasing(wire')
    BY <1>c, <2>1
  <2> QED
    BY <2>6, <2>7, <2>8 DEF OrderInv, Increasing, Younger
<1>4. CASE Forget
  <2>1. wire' = <<>> /\ \A q \in Queues : queue'[q] = <<>>
    BY <1>4 DEF Forget
  <2> QED
    BY <1>b, <2>1 DEF OrderInv, Increasing
<1>5. ASSUME NEW r \in Queues, TakeFrom(r)
      PROVE  OrderInv'
  <2>1. wire' = wire /\ queue'[r] = Tail(queue[r]) /\ queue[r] # <<>>
        /\ \A q \in Queues \ {r} : queue'[q] = queue[q]
    BY <1>5 DEF TakeFrom
  <2>2. \A q \in Queues : Increasing(queue'[q])
    <3>1. Increasing(Tail(queue[r]))
      <4>1. Head(queue[r]) \in Message
        BY <2>1, HeadIs DEF IInv
      <4> QED
        BY <1>0, <1>a, <2>1, <4>1, Increase
    <3> QED
      BY <1>a, <2>1, <3>1
  <2>3. \A i \in 1 .. Len(Tail(queue[r])) :
          \E j \in 1 .. Len(queue[r]) : Tail(queue[r])[i] = queue[r][j]
    BY <2>1, HeadIs DEF IInv
  <2>4. ASSUME NEW j \in 1 .. Len(wire'), NEW q \in Queues
        PROVE  Younger(wire'[j], queue'[q])
    <3>1. wire'[j] = wire[j] /\ Younger(wire[j], queue[q])
      BY <1>0, <2>1, <2>4 DEF OrderInv
    <3>2. CASE q = r
      <4>1. Younger(wire[j], Tail(queue[r]))
        BY <2>3, <3>1, <3>2 DEF Younger
      <4> QED
        BY <2>1, <3>1, <3>2, <4>1
    <3>3. CASE q # r
      BY <2>1, <3>1, <3>3
    <3> QED
      BY <3>2, <3>3
  <2> QED
    BY <1>0, <2>1, <2>2, <2>4 DEF OrderInv, Increasing, Younger
<1> QED
  BY <1>1, <1>2, <1>3, <1>4, <1>5, Moves

LEMMA Starts == Init => IInv
<1> SUFFICES ASSUME Init
             PROVE  IInv
  OBVIOUS
<1>0. /\ <<>> \in Seq(Message) /\ <<>> \in Seq([topic : Seq(Chars), queue : Queues])
      /\ Len(<<>>) = 0
  BY EmptySeq
<1>1. TypeOK
  <2>1. 1 \in DOMAIN Registrations
    BY Registered
  <2>2. \A q \in Queues : queue[q] = <<>>
    BY DEF Init
  <2>3. \A q \in Queues : Len(queue[q]) <= QueueLen
    BY <1>0, <2>2, Numbers
  <2>4. queue \in [Queues -> Seq(Message)]
    BY <1>0 DEF Init
  <2>5. /\ retained \in [Topics -> 0 .. MaxIds] /\ handled \in [Topics -> 0 .. MaxIds]
        /\ fresh \subseteq Topics
    BY Numbers DEF Init
  <2>6. wire \in Seq(Message) /\ call \in DOMAIN Registrations
    BY <1>0, <2>1 DEF Init
  <2> QED
    BY <2>3, <2>4, <2>5, <2>6 DEF Init, TypeOK
<1>2. TableInv
  BY <1>0, Numbers DEF Init, TableInv
<1>3. \A q \in Queues : queue[q] = <<>>
  BY DEF Init
<1>4. KnownInv /\ OrderInv /\ RouteInv /\ LateInv
  BY <1>0, <1>3 DEF Init, KnownInv, OrderInv, RouteInv, Increasing, LateInv
<1>5. IdInv
  BY <1>0, <1>3, Numbers DEF Init, IdInv
<1> QED
  BY <1>1, <1>2, <1>4, <1>5 DEF IInv

LEMMA Stays == IInv /\ [Next]_vars => IInv'
BY TypeStep, TableStep, KnownStep, IdStep, RouteStep, OrderStep, LateStep DEF IInv

LEMMA Always == Spec => []IInv
BY Starts, Stays, PTL DEF Spec

(* A message only reaches the queue its own topic was registered with,     *)
(* although the handler compares prefixes (mqtt_test.c:63-66), for any set *)
(* of topics, whatever is lost, restarted or retained.                     *)
THEOREM OwnQueue == Spec => []RoutedByTopic
<1>1. IInv => RoutedByTopic
  <2> SUFFICES ASSUME IInv, NEW q \in Queues, NEW i \in DOMAIN queue[q]
               PROVE  [topic |-> queue[q][i].topic, queue |-> q] \in ToSet(Registrations)
    BY DEF RoutedByTopic
  <2>1. i \in 1 .. Len(queue[q])
    BY Sequences, LenProperties DEF IInv
  <2>2. PICK k \in 1 .. Len(Registrations) :
          Registrations[k] = [topic |-> queue[q][i].topic, queue |-> q]
    BY <2>1 DEF IInv, RouteInv
  <2> QED
    BY <2>2, Registered DEF ToSet
<1> QED
  BY <1>1, Always, PTL

(* Commands on a topic are handled in the order they were published, over  *)
(* any number of restarts, and none twice; only the retained message of a  *)
(* topic comes again after a restart, as the first of its topic and if     *)
(* none was published since.  A topic is subscribed once per boot, before  *)
(* anything on it can have been handled, and a restart leaves nothing in   *)
(* the queues (iot_sys.c:26).                                              *)
THEOREM TakenInOrder == Spec => []InOrder
<1>1. IInv => InOrder
  <2> SUFFICES ASSUME IInv, NEW q \in Queues, NEW i \in DOMAIN queue[q]
               PROVE  Late(queue[q][i])
    BY DEF InOrder, Late
  <2>1. i \in 1 .. Len(queue[q])
    BY Sequences, LenProperties DEF IInv
  <2> QED
    BY <2>1 DEF IInv, LateInv
<1> QED
  BY <1>1, Always, PTL

(* mqtt_test.c:137: the test keeps the table, an entry for each call that  *)
(* has returned and in their order, below the array; when a command task   *)
(* runs all its topics are in it, and a node whose topics do not fit never *)
(* gets through its boot.                                                  *)
THEOREM TableNeverOverruns == Spec => []TableFits
<1>1. IInv => TableFits
  <2> SUFFICES ASSUME IInv
               PROVE  TableFits
    OBVIOUS
  <2> DEFINE n == IF boot = "done" THEN call ELSE call - 1
             calls == SubSeq(Registrations, 1, n)
  <2>0. /\ Len(Registrations) \in Nat \ {0} /\ call \in 1 .. Len(Registrations)
        /\ ArrSz \in Nat \ {0} /\ DOMAIN table = 1 .. Len(table)
        /\ table \in Seq([topic : Seq(Chars), queue : Queues])
        /\ Registrations \in Seq([topic : Seq(Chars), queue : Queues])
    BY Numbers, Tables, Registered DEF IInv, TypeOK
  <2>1. /\ Len(table) = n /\ n \in 0 .. Len(Registrations)
        /\ \A k \in 1 .. Len(table) : table[k] = Registrations[k]
    BY <2>0 DEF IInv, TableInv
  <2> HIDE DEF n
  <2>2. table = calls
    <3>1. /\ calls \in Seq([topic : Seq(Chars), queue : Queues]) /\ Len(calls) = n
          /\ \A k \in 1 .. n : calls[k] = Registrations[k]
      <4>1. n \in Nat /\ n <= Len(Registrations)
        BY <2>0, <2>1
      <4>2. \A k \in 1 .. n : k \in 1 .. Len(Registrations)
        BY <2>0, <4>1
      <4>3. \A k \in 1 .. n : Registrations[k] \in [topic : Seq(Chars), queue : Queues]
        BY <4>2, Registered
      <4>4. /\ calls \in Seq([topic : Seq(Chars), queue : Queues])
            /\ Len(calls) = IF 1 <= n THEN n - 1 + 1 ELSE 0
            /\ \A k \in 1 .. n - 1 + 1 : calls[k] = Registrations[1 + k - 1]
        BY <4>1, <4>3, SubSeqProperties
      <4> HIDE DEF calls
      <4> QED
        BY <4>1, <4>4
    <3> HIDE DEF calls
    <3> QED
      BY <2>0, <2>1, <3>1, SeqEqual
  <2>3. Len(table) < ArrSz
    BY <2>0, <2>1 DEF IInv, TableInv
  <2>4. ASSUME NEW q \in Queues, Running(q), NEW k \in DOMAIN Registrations,
               Registrations[k].queue = q
        PROVE  k \in DOMAIN table
    <3>1. k <= LastCall[q] /\ LastCall[q] \in 1 .. Len(Registrations) /\ k \in 1 .. Len(Registrations)
      BY <2>4, DispatchAssumption, Registered
    <3>2. k <= Len(table)
      BY <2>0, <2>1, <2>4, <3>1 DEF Running, IInv, TableInv
    <3> QED
      BY <2>0, <3>1, <3>2
  <2>5. boot = "done" => Len(Registrations) < ArrSz
    BY <2>0, <2>1, <2>3 DEF IInv, TableInv, n
  <2> QED
    BY <2>2, <2>3, <2>4, <2>5 DEF IInv, TableFits, n
<1> QED
  BY <1>1, Always, PTL

(* The only messages thrown away for lack of an entry are those that come  *)
(* between a SUBSCRIBE and the table entry the caller makes for it         *)
(* (mqtt_test.c:135-145): the broker knows no other topic.                 *)
THEOREM UnroutedGap == Spec => UnroutedOnlyInGap
<1>1. IInv /\ [Next]_vars =>
        [unrouted' # unrouted =>
           boot = "store" /\ Head(wire).topic = Registrations[call].topic]_vars
  <2> SUFFICES ASSUME IInv, [Next]_vars, unrouted' # unrouted
               PROVE  boot = "store" /\ Head(wire).topic = Registrations[call].topic
    OBVIOUS
  <2>1. DispatchUnrouted
    BY DEF Next, Client, Boot, Outside, StoreAborts, Restart, Connect, Notice, Drop, Publish,
       Dispatch, DispatchTimeout, Take, WaitForConnection, Subscribe, Store, vars
  <2>2. wire # <<>> /\ Entries(Head(wire).topic) = {}
    BY <2>1 DEF DispatchUnrouted
  <2>3. Head(wire) \in Message /\ Head(wire) = wire[1] /\ 1 \in 1 .. Len(wire)
    BY <2>2, Sequences, HeadTailProperties, EmptySeq DEF IInv
  <2>4. Head(wire).topic \in Topics /\ Known(Head(wire).topic)
    BY <2>3 DEF Message, IInv, KnownInv
  <2>5. PICK k \in 1 .. Len(Registrations) :
          /\ Registrations[k].topic = Head(wire).topic
          /\ k <= Len(table) \/ (boot = "store" /\ k = call)
    BY <2>4 DEF Known
  <2>6. ~(k <= Len(table))
    <3> SUFFICES ASSUME k \in 1 .. Len(table)
                 PROVE  FALSE
      BY Tables DEF IInv
    <3>1. Entries(Head(wire).topic) = {k}
      BY <2>4, <2>5, EntriesAre DEF IInv
    <3> QED
      BY <2>2, <3>1
  <2> QED
    BY <2>5, <2>6
<1> QED
  BY <1>1, Always, PTL DEF Spec, UnroutedOnlyInGap
=============================================================================
