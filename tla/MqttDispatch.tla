---------------------------- MODULE MqttDispatch ----------------------------
(***************************************************************************)
(* mqtt_test.c: the boot task subscribes a topic and then stores it in     *)
(* mqtt_queue_arr, the MQTT client's task runs mqtt_event_handler, which   *)
(* looks the topic of a message up in that table and sends the payload to  *)
(* the queue it finds, and one command task per queue takes it from there  *)
(* (light_controller.c, iot_sys.c).  The broker and the client library are *)
(* external: a session is clean, so the broker forgets its subscriptions   *)
(* with the connection, and it sends the retained message of a topic when  *)
(* the topic is subscribed.                                                *)
(***************************************************************************)
EXTENDS TopicMatch, FiniteSets, SequencesExt

CONSTANTS
  Registrations,  \* the vMqttSubscribe calls in boot order: [topic, queue]
  LastCall,       \* LastCall[q]: the call after which q's task is created
  Sizes,          \* values of MQTT_QUEUE_PTR_ARR_SZ to consider
  QueueLen,       \* length given to xQueueCreate (10)
  RestartQueue,   \* the queue of restart_cmd_task
  Retained,       \* topics whose messages openHAB publishes retained
  MaxIds, MaxDrops, MaxRestarts  \* bounds on messages, lost connections, restarts

Topics == {Registrations[k].topic : k \in DOMAIN Registrations}
Queues == {Registrations[k].queue : k \in DOMAIN Registrations}

ASSUME DispatchAssumption ==
  /\ Registrations \in Seq([topic : Seq(Chars), queue : Queues]) /\ Registrations # <<>>
  /\ \A j, k \in DOMAIN Registrations :   \* each topic is registered once
       Registrations[j].topic = Registrations[k].topic => j = k
  /\ \A k \in DOMAIN Registrations :      \* a task comes after its topics
       k <= LastCall[Registrations[k].queue]
  /\ RestartQueue \in Queues /\ Retained \subseteq Topics
  /\ LastCall \in [Queues -> DOMAIN Registrations]
  /\ {QueueLen, MaxIds} \cup Sizes \subseteq Nat \ {0}
  /\ {MaxDrops, MaxRestarts} \subseteq Nat

Message == [topic : Topics, id : 1 .. MaxIds]

VARIABLES
  link,       \* is there a connection to the broker
  bit,        \* BIT0 of mqtt_connected_event_group: the client's view of it
  subs,       \* the broker's subscriptions of this client
  retained,   \* the broker's retained message of each topic, id 0 for none
  wire,       \* messages on their way to the client
  boot,       \* where the boot task is: "wait", "subscribe", "store" or "done"
  call,       \* the vMqttSubscribe call it is in
  ArrSz,      \* MQTT_QUEUE_PTR_ARR_SZ of this node, fixed from the start
  table,      \* mqtt_queue_arr up to mqtt_queue_subscribe_index
  queue,      \* the FreeRTOS queues
  handled,    \* history: the last message of each topic a task took, ever
  fresh,      \* history: topics of which no task took one since the boot
  unrouted,   \* history: messages no table entry was found for
  dropped,    \* history: messages sent to a full queue
  ids, drops, restarts  \* what happened so far, against the bounds

brokerVars == <<subs, retained, wire>>
bootVars == <<boot, call, ArrSz, table>>
taken == <<handled, fresh>>
vars == <<link, bit, brokerVars, bootVars, queue, taken, unrouted, dropped,
          ids, drops, restarts>>

Init ==
  /\ link = FALSE /\ bit = FALSE
  /\ subs = {} /\ wire = <<>> /\ retained = [t \in Topics |-> 0]
  /\ boot = "wait" /\ call = 1 /\ ArrSz \in Sizes /\ table = <<>>
  /\ queue = [q \in Queues |-> <<>>]
  /\ handled = [t \in Topics |-> 0] /\ fresh = Topics
  /\ unrouted = {} /\ dropped = {}
  /\ ids = 0 /\ drops = 0 /\ restarts = 0

-----------------------------------------------------------------------------
(* The connection.  The client finds out later that it has lost it.        *)

(* MQTT_EVENT_CONNECTED *)
Connect ==
  /\ ~link /\ ~bit
  /\ link' = TRUE /\ bit' = TRUE
  /\ UNCHANGED <<brokerVars, bootVars, queue, taken, unrouted, dropped, ids, drops, restarts>>

LoseSession == link' = FALSE /\ subs' = {} /\ wire' = <<>>

Drop ==
  /\ link /\ drops < MaxDrops
  /\ LoseSession
  /\ drops' = drops + 1
  /\ UNCHANGED <<bit, retained, bootVars, queue, taken, unrouted, dropped, ids, restarts>>

(* MQTT_EVENT_DISCONNECTED *)
Notice ==
  /\ ~link /\ bit
  /\ bit' = FALSE
  /\ UNCHANGED <<link, brokerVars, bootVars, queue, taken, unrouted, dropped, ids, drops, restarts>>

Publish(t) ==
  /\ ids < MaxIds
  /\ ids' = ids + 1
  /\ wire' = IF t \in subs THEN Append(wire, [topic |-> t, id |-> ids']) ELSE wire
  /\ retained' = IF t \in Retained THEN [retained EXCEPT ![t] = ids'] ELSE retained
  /\ UNCHANGED <<link, bit, subs, bootVars, queue, taken, unrouted, dropped, drops, restarts>>

-----------------------------------------------------------------------------
(* The boot task: vStartLightController, then vSystemStart.                *)

(* Mutant: the wait clears the bit it waited for. *)
WaitClears ==
  /\ boot = "wait" /\ bit
  /\ boot' = "subscribe" /\ bit' = FALSE
  /\ UNCHANGED <<link, brokerVars, call, ArrSz, table, queue, taken, unrouted, dropped,
                 ids, drops, restarts>>

(* vMqttWaitForConnection, called once before the calls of a component. *)
WaitForConnection ==
  /\ boot = "wait" /\ bit
  /\ boot' = "subscribe"
  /\ UNCHANGED <<link, bit, brokerVars, call, ArrSz, table, queue, taken, unrouted, dropped,
                 ids, drops, restarts>>

(* esp_mqtt_client_subscribe, whose result is not looked at; whether there *)
(* is room for the topic is only tested afterwards.                        *)
Subscribe ==
  /\ boot = "subscribe"
  /\ LET t == Registrations[call].topic
     IN  IF link
         THEN /\ subs' = subs \cup {t}
              /\ wire' = IF retained[t] = 0 THEN wire
                         ELSE Append(wire, [topic |-> t, id |-> retained[t]])
         ELSE UNCHANGED <<subs, wire>>
  /\ boot' = "store"
  /\ UNCHANGED <<link, bit, retained, call, ArrSz, table, queue, taken, unrouted, dropped,
                 ids, drops, restarts>>

TableFullLate == Len(table) >= ArrSz  \* mutant
TableFull == Len(table) >= ArrSz - 1

(* esp_restart: everything but the broker's retained messages starts over. *)
Reboot ==
  /\ LoseSession
  /\ bit' = FALSE /\ boot' = "wait" /\ call' = 1 /\ table' = <<>>
  /\ queue' = [q \in Queues |-> <<>>]
  /\ fresh' = Topics
  /\ UNCHANGED ArrSz

(* ESP_ERROR_CHECK(ESP_ERR_NO_MEM) aborts and the chip restarts. *)
StoreAborts ==
  /\ boot = "store" /\ TableFull
  /\ Reboot
  /\ UNCHANGED <<retained, handled, unrouted, dropped, ids, drops, restarts>>

(* The entry is written before the index that makes it visible. *)
Store ==
  /\ boot = "store" /\ ~TableFull
  /\ table' = Append(table, Registrations[call])
  /\ IF call = Len(Registrations)
     THEN boot' = "done" /\ UNCHANGED call
     ELSE /\ call' = call + 1
          /\ boot' = IF call \in {LastCall[q] : q \in Queues} THEN "wait" ELSE "subscribe"
  /\ UNCHANGED <<link, bit, brokerVars, ArrSz, queue, taken, unrouted, dropped, ids, drops, restarts>>

-----------------------------------------------------------------------------
(* mqtt_event_handler, MQTT_EVENT_DATA                                     *)

EntriesButLast(t) ==  \* mutant
  {k \in DOMAIN table : k < Len(table) /\ TopicMatches(t, table[k].topic)}
Entries(t) == {k \in DOMAIN table : TopicMatches(t, table[k].topic)}
Found(t) == table[CHOOSE k \in Entries(t) : \A j \in Entries(t) : k <= j].queue
Full(q) == Len(queue[q]) >= QueueLen

xQueueSendToFront(q, m) == queue' = [queue EXCEPT ![q] = <<m>> \o @]  \* mutant
xQueueSendToBack(q, m) == queue' = [queue EXCEPT ![q] = Append(@, m)]

Dispatch ==
  /\ wire # <<>>
  /\ LET m == Head(wire)
     IN  /\ Entries(m.topic) # {}
         /\ ~Full(Found(m.topic))
         /\ xQueueSendToBack(Found(m.topic), m)
  /\ wire' = Tail(wire)
  /\ UNCHANGED <<link, bit, subs, retained, bootVars, taken, unrouted, dropped,
                 ids, drops, restarts>>

(* xQueueSendToBack gives up after 10 ticks. *)
DispatchTimeout ==
  /\ wire # <<>>
  /\ LET m == Head(wire)
     IN  /\ Entries(m.topic) # {}
         /\ Full(Found(m.topic))
         /\ dropped' = dropped \cup {m}
  /\ wire' = Tail(wire)
  /\ UNCHANGED <<link, bit, subs, retained, bootVars, queue, taken, unrouted, ids, drops, restarts>>

(* "Did not find Queue topic subscribed to" *)
DispatchUnrouted ==
  /\ wire # <<>>
  /\ Entries(Head(wire).topic) = {}
  /\ unrouted' = unrouted \cup {Head(wire)}
  /\ wire' = Tail(wire)
  /\ UNCHANGED <<link, bit, subs, retained, bootVars, queue, taken, dropped, ids, drops, restarts>>

-----------------------------------------------------------------------------
(* The command tasks.  A task runs once the calls of its component are done. *)

Running(q) == boot = "done" \/ call > LastCall[q]

(* The payload is all a task gets, so that it cannot tell whether it has   *)
(* seen the message before.                                                *)
Handle(m) == handled' = [handled EXCEPT ![m.topic] = m.id]

Take(q) ==
  /\ q # RestartQueue /\ Running(q) /\ queue[q] # <<>>
  /\ Handle(Head(queue[q])) /\ fresh' = fresh \ {Head(queue[q]).topic}
  /\ queue' = [queue EXCEPT ![q] = Tail(@)]
  /\ UNCHANGED <<link, bit, brokerVars, bootVars, unrouted, dropped, ids, drops, restarts>>

(* restart_cmd_task: esp_restart, whatever the message says. *)
Restart ==
  /\ Running(RestartQueue) /\ queue[RestartQueue] # <<>>
  /\ restarts < MaxRestarts
  /\ restarts' = restarts + 1
  /\ Handle(Head(queue[RestartQueue]))
  /\ Reboot
  /\ UNCHANGED <<retained, unrouted, dropped, ids, drops>>

Client == Connect \/ Notice \/ Dispatch \/ DispatchTimeout \/ DispatchUnrouted
Boot == WaitForConnection \/ Subscribe \/ StoreAborts \/ Store
Outside == Drop \/ \E t \in Topics : Publish(t)

Next == Client \/ Boot \/ Outside \/ Restart \/ \E q \in Queues : Take(q)

Fairness ==
  /\ WF_vars(Client) /\ WF_vars(Boot) /\ WF_vars(Restart)
  /\ \A q \in Queues : WF_vars(Take(q))

Spec == Init /\ [][Next]_vars /\ Fairness
-----------------------------------------------------------------------------
(* Properties.                                                             *)

TypeOK ==
  /\ link \in BOOLEAN /\ bit \in BOOLEAN
  /\ subs \subseteq Topics /\ retained \in [Topics -> 0 .. MaxIds]
  /\ wire \in Seq(Message) /\ unrouted \subseteq Message /\ dropped \subseteq Message
  /\ boot \in {"wait", "subscribe", "store", "done"}
  /\ call \in DOMAIN Registrations /\ ArrSz \in Sizes
  /\ queue \in [Queues -> Seq(Message)]
  /\ handled \in [Topics -> 0 .. MaxIds] /\ fresh \subseteq Topics
  /\ \A q \in Queues : Len(queue[q]) <= QueueLen

(* A message only ever reaches the queue its own topic was registered      *)
(* with, whichever registered topics are prefixes of one another           *)
(* (mqtt_test.c:64-66, "TODO: Test this logic").                           *)
RoutedByTopic == \A q \in Queues : \A i \in DOMAIN queue[q] :
  [topic |-> queue[q][i].topic, queue |-> q] \in ToSet(Registrations)

(* Commands on one topic are handled in the order they were published, and *)
(* none twice, restarts included: what waits in a queue is younger than    *)
(* everything of its topic that was ever handled.  Only a retained message *)
(* may be handled again, once by each boot, and then it is still the       *)
(* newest of its topic and the first the boot sees of it.                  *)
InOrder == \A q \in Queues : \A i \in DOMAIN queue[q] :
  LET m == queue[q][i]
  IN  \/ m.id > handled[m.topic]
      \/ m.id = handled[m.topic] /\ m.topic \in Retained \cap fresh

(* The table holds the calls that have returned, in their order, and stays *)
(* below the array, queues stay within their length; a task runs only when *)
(* all its topics are in the table, and a boot whose topics do not fit     *)
(* never gets through (it restarts the node over and over).                *)
TableFits ==
  /\ TypeOK
  /\ table = SubSeq(Registrations, 1, IF boot = "done" THEN call ELSE call - 1)
  /\ Len(table) < ArrSz
  /\ \A q \in Queues : Running(q) =>
       \A k \in DOMAIN Registrations : Registrations[k].queue = q => k \in DOMAIN table
  /\ boot = "done" => Len(Registrations) < ArrSz

(* A message finds no queue only between the SUBSCRIBE of its topic and    *)
(* the table entry for it, and then only that topic's messages.            *)
UnroutedOnlyInGap == [][unrouted' # unrouted =>
  boot = "store" /\ Head(wire).topic = Registrations[call].topic]_vars

(* mqtt_test.h:20-26, a queue registered with vMqttSubscribe is notified   *)
(* of its topic's messages: the broker has to know the subscription.       *)
StillSubscribed == boot = "done" /\ link => subs = Topics

(* The boot gets through its waits and subscriptions, although the         *)
(* connection may be lost between any two of them, if the table has room.  *)
BootCompletes == ArrSz > Len(Registrations) => <>[](boot = "done")
=============================================================================
