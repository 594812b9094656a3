-------------------------- MODULE NodeBoot_proofs --------------------------
(* Theorems about NodeBoot, for any number of restart commands and of lost *)
(* Wi-Fi connections, and about PirSensor, the task app_main starts before *)
(* its animations, for any length of its queue and number of edges.        *)
EXTENDS NodeBoot, PirSensor, TLAPS

AfterSemaphore == {"give", "system", "done"}
AfterClient == {"light", "pir", "anim", "create"} \cup AfterSemaphore
AfterLookup == {"ota", "mqtt", "client"} \cup AfterClient

(* What a component finds depends on how far app_main is: nothing that has *)
(* been set up is taken away again but by a restart.                       *)
BootInv ==
  /\ lookup => host
  /\ boot \in AfterLookup => lookup
  /\ client # "none" <=> boot \in AfterClient
  /\ semaphore # "null" <=> boot \in AfterSemaphore
  /\ anim \in {"set", "give"} \/ anim_reg => semaphore # "null"
  /\ anim_reg \in BOOLEAN

(* A restart takes everything back to where the invariant starts. *)
LEMMA RebootStarts == ASSUME NEW why, Reboot(why) PROVE BootInv'
  BY DEF Reboot, Fresh, BootInv, AfterSemaphore, AfterClient, AfterLookup

(* The boot order carries over any interleaving of the other tasks. *)
LEMMA BootInvInductive == Spec => []BootInv
<1>1. Init => BootInv
  BY DEF Init, Fresh, BootInv, AfterSemaphore, AfterClient, AfterLookup
<1>2. BootInv /\ [Next]_vars => BootInv'
  <2> SUFFICES ASSUME BootInv, [Next]_vars PROVE BootInv'
    OBVIOUS
  <2> USE DEF AfterSemaphore, AfterClient, AfterLookup
  <2>1. CASE Main
    <3>1. CASE StartWifi \/ WifiWait \/ QueryStart \/ QueryAnswered \/ QueryFails \/ QueryCheck
      BY <3>1 DEF StartWifi, WifiWait, QueryStart, QueryAnswered, QueryFails, QueryCheck, At,
                  BootInv, lookupVars, animVars
    <3>2. CASE StartOta \/ MqttWifiWait \/ MqttStart \/ StartLight \/ StartPir \/ StartSystem
      BY <3>2 DEF StartOta, MqttWifiWait, MqttStart, StartLight, StartPir, StartSystem, At,
                  vMqttWaitForConnection, BootInv, lookupVars, animVars
    <3>3. CASE AnimReset \/ AnimCreate \/ AnimGive
      BY <3>3 DEF AnimReset, AnimCreate, AnimGive, At, BootInv, lookupVars, animVars
    <3> QED BY <2>1, <3>1, <3>2, <3>3 DEF Main
  <2>2. CASE EventTask \/ Joins \/ Leaves
    BY <2>2 DEF EventTask, HandleStart, HandleGotIp, HandleDisconnected,
                HandleDisconnectedClear, Joins, Leaves, BootInv, lookupVars, animVars
  <2>3. CASE AnimTask
    <3>1. CASE CommandTake \/ CommandSet \/ CommandGive
      BY <2>3, <3>1 DEF CommandTake, CommandSet, CommandGive, BootInv, lookupVars
    <3>2. CASE CommandPanics
      BY <3>2, RebootStarts DEF CommandPanics
    <3> QED BY <2>3, <3>1, <3>2 DEF AnimTask
  <2>4. CASE OtaTask
    <3>1. CASE OtaWifiWait \/ OtaFetched \/ OtaFails \/ OtaPublish
      BY <3>1 DEF OtaWifiWait, OtaFetched, OtaFails, OtaPublish, BootInv, lookupVars, animVars
    <3>2. CASE OtaPanics \/ OtaRestart
      BY <3>2, RebootStarts DEF OtaPanics, OtaRestart
    <3> QED BY <2>4, <3>1, <3>2 DEF OtaTask
  <2>5. CASE BrokerConnects \/ BrokerLost \/ ServerEnds \/ ServerStarts
    BY <2>5 DEF BrokerConnects, BrokerLost, ServerEnds, ServerStarts, BootInv, lookupVars, animVars
  <2>6. CASE CommandArrives
    BY <2>6 DEF CommandArrives, BootInv, lookupVars
  <2>7. CASE RestartCommand
    BY <2>7, RebootStarts DEF RestartCommand
  <2>8. CASE UNCHANGED vars
    BY <2>8 DEF vars, BootInv, lookupVars, animVars
  <2> QED
    BY <2>1, <2>2, <2>3, <2>4, <2>5, <2>6, <2>7, <2>8 DEF Next, Outside
<1> QED BY <1>1, <1>2, PTL DEF Spec

(* The client of vMqttStart always has an address from a lookup of this    *)
(* boot, although any restart throws the address away and the update task  *)
(* may restart the node at any point.                                      *)
THEOREM AddressBeforeClient == Spec => []HostKnown
<1>1. BootInv => HostKnown
  BY DEF BootInv, HostKnown, AfterLookup
<1> QED BY <1>1, BootInvInductive, PTL

(* vAnimationStart's anim_reg = 0 never hits an armed animation: a command *)
(* that comes before the semaphore does not get as far as arming one.      *)
THEOREM StartErasesNothing == Spec => NothingErased
<1>1. BootInv /\ [Next]_vars => [boot = "anim" /\ boot' = "create" => ~anim_reg]_vars
  BY DEF BootInv, AfterSemaphore
<1> QED BY <1>1, BootInvInductive, PTL DEF Spec, NothingErased

(* Once booted, the two null pointers can no longer be met: only an update *)
(* or a command restarts the node.                                         *)
THEOREM OnlyAskedRestarts == Spec => StaysUpOnceBooted
<1>1. BootInv /\ [Next]_vars
        => [boot = "done" /\ boot' # "done" => cause' \in {"update", "command"}]_vars
  <2> SUFFICES ASSUME BootInv, Next, boot = "done", boot' # "done"
               PROVE  cause' \in {"update", "command"}
    OBVIOUS
  <2>1. client # "none" /\ semaphore # "null"
    BY DEF BootInv, AfterSemaphore, AfterClient
  <2>2. CASE Main
    BY <2>2 DEF Main, At, StartWifi, WifiWait, QueryStart, QueryAnswered, QueryFails, QueryCheck,
                StartOta, MqttWifiWait, MqttStart, StartLight, StartPir, AnimReset, AnimCreate,
                AnimGive, StartSystem
  <2>3. CASE EventTask \/ Joins \/ BrokerConnects \/ ServerEnds
    BY <2>3 DEF EventTask, HandleStart, HandleGotIp, HandleDisconnected,
                HandleDisconnectedClear, Joins, BrokerConnects, ServerEnds
  <2>4. CASE AnimTask
    BY <2>1, <2>4 DEF AnimTask, CommandTake, CommandPanics, CommandSet, CommandGive
  <2>5. CASE OtaTask
    BY <2>1, <2>5 DEF OtaTask, OtaWifiWait, OtaFetched, OtaFails, OtaPublish, OtaPanics,
                      OtaRestart, Reboot
  <2>6. CASE Outside
    BY <2>6 DEF Outside, Leaves, BrokerLost, CommandArrives, ServerStarts, RestartCommand, Reboot
  <2> QED BY <2>2, <2>3, <2>4, <2>5, <2>6 DEF Next
<1> QED BY <1>1, BootInvInductive, PTL DEF Spec, StaysUpOnceBooted

-----------------------------------------------------------------------------
(* All that event_handler can find: what is queued, whether it is half-way *)
(* through the first event, and the station.                               *)
Handled == Len(events) = 0 /\ handling = FALSE /\ station \in {"off", "joining", "joined"}
One(e, busy, st) == Len(events) = 1 /\ events[1] = e /\ handling = busy /\ station = st
Two(e, f, busy, st) ==
  /\ Len(events) = 2 /\ events[1] = e /\ events[2] = f
  /\ handling = busy /\ station = st
Rejoined ==
  /\ Len(events) = 3
  /\ events[1] = "DISCONNECTED" /\ events[2] = "GOT_IP" /\ events[3] = "DISCONNECTED"
  /\ handling = TRUE /\ station = "idle"

Backlogs ==
  \/ Handled
  \/ One("START", FALSE, "idle") \/ One("GOT_IP", FALSE, "joined")
  \/ One("DISCONNECTED", FALSE, "idle") \/ One("DISCONNECTED", TRUE, "joining")
  \/ Two("GOT_IP", "DISCONNECTED", FALSE, "idle")
  \/ Two("DISCONNECTED", "GOT_IP", TRUE, "joined")
  \/ Two("DISCONNECTED", "DISCONNECTED", TRUE, "idle")
  \/ Rejoined

(* The bit agrees with the station once nothing is queued; until the       *)
(* station has been started it has never been set.                         *)
BitInv ==
  /\ Len(events) = 0 => (wifi_bit = TRUE <=> station = "joined")
  /\ Len(events) = 1 /\ events[1] = "START" => wifi_bit = FALSE
  /\ boot = "start" => Len(events) = 0 /\ wifi_bit = FALSE /\ station = "off"

WifiInv == events \in Seq(Events) /\ Backlogs /\ BitInv /\ wifi_bit \in {TRUE, FALSE}

(* The elements of events after Append and after Tail, one by one. *)
LEMMA Appended ==
  ASSUME NEW s \in Seq(Events), NEW e \in Events, Len(s) <= 2
  PROVE  /\ Append(s, e) \in Seq(Events) /\ Len(Append(s, e)) = Len(s) + 1
         /\ Append(s, e)[Len(s) + 1] = e
         /\ Len(s) >= 1 => Append(s, e)[1] = s[1]
         /\ Len(s) = 2 => Append(s, e)[2] = s[2]
  OBVIOUS

LEMMA Removed ==
  ASSUME NEW s \in Seq(Events), s # <<>>
  PROVE  /\ Tail(s) \in Seq(Events) /\ Len(Tail(s)) = Len(s) - 1 /\ Len(s) \in Nat \ {0}
         /\ Head(s) = s[1]
         /\ Len(s) >= 2 => Tail(s)[1] = s[2]
         /\ Len(s) >= 3 => Tail(s)[2] = s[3]
  OBVIOUS

(* Every step leads from one of the backlogs to another. *)
LEMMA WifiStep == WifiInv /\ [Next]_vars => WifiInv'
<1> SUFFICES ASSUME WifiInv, [Next]_vars PROVE WifiInv'
  OBVIOUS
<1>0. /\ events \in Seq(Events) /\ Backlogs /\ BitInv /\ wifi_bit \in {TRUE, FALSE}
      /\ Len(events) \in 0 .. 3
  <2>1. events \in Seq(Events) /\ Backlogs /\ BitInv /\ wifi_bit \in {TRUE, FALSE}
    BY DEF WifiInv
  <2>2. Len(events) \in 0 .. 3
    BY <2>1 DEF Backlogs, Handled, One, Two, Rejoined
  <2> QED BY <2>1, <2>2
<1>1. CASE StartWifi
  <2>1. events' = <<"START">> /\ station' = "idle" /\ boot' = "wifi"
    BY <1>1 DEF StartWifi, At
  <2>2. wifi_bit' = FALSE /\ handling' = FALSE
    BY <1>0, <1>1 DEF StartWifi, At, BitInv, Backlogs, Handled, One, Two, Rejoined
  <2>3. events' \in Seq(Events) /\ One("START", FALSE, "idle")'
    BY <2>1, <2>2 DEF One, Events
  <2>4. BitInv'
    BY <2>1, <2>2 DEF BitInv
  <2> QED BY <2>2, <2>3, <2>4 DEF WifiInv, Backlogs
<1>2. CASE HandleStart
  <2>1. /\ Len(events') = Len(events) - 1 /\ events[1] = "START" /\ Len(events) # 0
        /\ events' \in Seq(Events)
        /\ Len(events) >= 2 => events'[1] = events[2]
        /\ Len(events) >= 3 => events'[2] = events[3]
    BY <1>0, <1>2, Removed DEF HandleStart, FirstEvent
  <2>2. station' = "joining" /\ handling' = handling /\ wifi_bit' = wifi_bit /\ boot' = boot
    BY <1>2 DEF HandleStart
  <2>3. CASE One("START", FALSE, "idle")
    <3>1. Handled'
      BY <2>1, <2>2, <2>3 DEF Handled, One, Two, Rejoined
    <3>2. BitInv'
      BY <1>0, <2>1, <2>2, <2>3 DEF BitInv, Handled, One, Two, Rejoined
    <3> QED BY <1>0, <2>1, <2>2, <3>1, <3>2 DEF WifiInv, Backlogs
  <2> QED BY <1>0, <2>1, <2>3 DEF Backlogs, Handled, One, Two, Rejoined
<1>3. CASE HandleGotIp
  <2>1. /\ Len(events') = Len(events) - 1 /\ events[1] = "GOT_IP" /\ Len(events) # 0
        /\ events' \in Seq(Events)
        /\ Len(events) >= 2 => events'[1] = events[2]
        /\ Len(events) >= 3 => events'[2] = events[3]
    BY <1>0, <1>3, Removed DEF HandleGotIp, FirstEvent
  <2>2. station' = station /\ handling' = handling /\ wifi_bit' = TRUE /\ boot' = boot
    BY <1>3 DEF HandleGotIp
  <2>3. CASE One("GOT_IP", FALSE, "joined")
    <3>1. Handled'
      BY <2>1, <2>2, <2>3 DEF Handled, One, Two, Rejoined
    <3>2. BitInv'
      BY <1>0, <2>1, <2>2, <2>3 DEF BitInv, Handled, One, Two, Rejoined
    <3> QED BY <1>0, <2>1, <2>2, <3>1, <3>2 DEF WifiInv, Backlogs
  <2>4. CASE Two("GOT_IP", "DISCONNECTED", FALSE, "idle")
    <3>1. One("DISCONNECTED", FALSE, "idle")'
      BY <2>1, <2>2, <2>4 DEF Handled, One, Two, Rejoined
    <3>2. BitInv'
      BY <1>0, <2>1, <2>2, <2>4 DEF BitInv, Handled, One, Two, Rejoined
    <3> QED BY <1>0, <2>1, <2>2, <3>1, <3>2 DEF WifiInv, Backlogs
  <2> QED BY <1>0, <2>1, <2>3, <2>4 DEF Backlogs, Handled, One, Two, Rejoined
<1>4. CASE HandleDisconnected
  <2>1. /\ events' = events /\ events[1] = "DISCONNECTED" /\ handling = FALSE /\ Len(events) # 0
        /\ events' \in Seq(Events)
    BY <1>0, <1>4, Removed DEF HandleDisconnected, FirstEvent
  <2>2. station' = "joining" /\ handling' = TRUE /\ wifi_bit' = wifi_bit /\ boot' = boot
    BY <1>4 DEF HandleDisconnected
  <2>3. CASE One("DISCONNECTED", FALSE, "idle")
    <3>1. One("DISCONNECTED", TRUE, "joining")'
      BY <2>1, <2>2, <2>3 DEF Handled, One, Two, Rejoined
    <3>2. BitInv'
      BY <1>0, <2>1, <2>2, <2>3 DEF BitInv, Handled, One, Two, Rejoined
    <3> QED BY <1>0, <2>1, <2>2, <3>1, <3>2 DEF WifiInv, Backlogs
  <2> QED BY <1>0, <2>1, <2>3 DEF Backlogs, Handled, One, Two, Rejoined
<1>5. CASE HandleDisconnectedClear
  <2>1. /\ Len(events') = Len(events) - 1 /\ events[1] = "DISCONNECTED" /\ handling = TRUE
        /\ events' \in Seq(Events)
        /\ Len(events) >= 2 => events'[1] = events[2]
        /\ Len(events) >= 3 => events'[2] = events[3]
    BY <1>0, <1>5, Removed DEF HandleDisconnectedClear, FirstEvent
  <2>2. station' = station /\ handling' = FALSE /\ wifi_bit' = FALSE /\ boot' = boot
    BY <1>5 DEF HandleDisconnectedClear
  <2>3. CASE One("DISCONNECTED", TRUE, "joining")
    <3>1. Handled'
      BY <2>1, <2>2, <2>3 DEF Handled, One, Two, Rejoined
    <3>2. BitInv'
      BY <1>0, <2>1, <2>2, <2>3 DEF BitInv, Handled, One, Two, Rejoined
    <3> QED BY <1>0, <2>1, <2>2, <3>1, <3>2 DEF WifiInv, Backlogs
  <2>4. CASE Two("DISCONNECTED", "GOT_IP", TRUE, "joined")
    <3>1. One("GOT_IP", FALSE, "joined")'
      BY <2>1, <2>2, <2>4 DEF Handled, One, Two, Rejoined
    <3>2. BitInv'
      BY <1>0, <2>1, <2>2, <2>4 DEF BitInv, Handled, One, Two, Rejoined
    <3> QED BY <1>0, <2>1, <2>2, <3>1, <3>2 DEF WifiInv, Backlogs
  <2>5. CASE Two("DISCONNECTED", "DISCONNECTED", TRUE, "idle")
    <3>1. One("DISCONNECTED", FALSE, "idle")'
      BY <2>1, <2>2, <2>5 DEF Handled, One, Two, Rejoined
    <3>2. BitInv'
      BY <1>0, <2>1, <2>2, <2>5 DEF BitInv, Handled, One, Two, Rejoined
    <3> QED BY <1>0, <2>1, <2>2, <3>1, <3>2 DEF WifiInv, Backlogs
  <2>6. CASE Rejoined
    <3>1. Two("GOT_IP", "DISCONNECTED", FALSE, "idle")'
      BY <2>1, <2>2, <2>6 DEF Handled, One, Two, Rejoined
    <3>2. BitInv'
      BY <1>0, <2>1, <2>2, <2>6 DEF BitInv, Handled, One, Two, Rejoined
    <3> QED BY <1>0, <2>1, <2>2, <3>1, <3>2 DEF WifiInv, Backlogs
  <2> QED BY <1>0, <2>1, <2>3, <2>4, <2>5, <2>6 DEF Backlogs, Handled, One, Two, Rejoined
<1>6. CASE Joins
  <2>1. /\ Len(events') = Len(events) + 1 /\ events'[Len(events) + 1] = "GOT_IP"
        /\ events' \in Seq(Events)
        /\ Len(events) >= 1 => events'[1] = events[1]
        /\ Len(events) = 2 => events'[2] = events[2]
    <3>1. Len(events) <= 2 /\ "GOT_IP" \in Events
      BY <1>0, <1>6 DEF Joins, Backlogs, Handled, One, Two, Rejoined, Events
    <3> QED BY <1>0, <1>6, <3>1, Appended DEF Joins
  <2>2. /\ station = "joining" /\ station' = "joined"
        /\ handling' = handling /\ wifi_bit' = wifi_bit /\ boot' = boot
    BY <1>6 DEF Joins
  <2>3. CASE Handled
    <3>1. One("GOT_IP", FALSE, "joined")'
      BY <2>1, <2>2, <2>3 DEF Handled, One, Two, Rejoined
    <3>2. BitInv'
      BY <1>0, <2>1, <2>2, <2>3 DEF BitInv, Handled, One, Two, Rejoined
    <3> QED BY <1>0, <2>1, <2>2, <3>1, <3>2 DEF WifiInv, Backlogs
  <2>4. CASE One("DISCONNECTED", TRUE, "joining")
    <3>1. Two("DISCONNECTED", "GOT_IP", TRUE, "joined")'
      BY <2>1, <2>2, <2>4 DEF Handled, One, Two, Rejoined
    <3>2. BitInv'
      BY <1>0, <2>1, <2>2, <2>4 DEF BitInv, Handled, One, Two, Rejoined
    <3> QED BY <1>0, <2>1, <2>2, <3>1, <3>2 DEF WifiInv, Backlogs
  <2> QED BY <1>0, <2>2, <2>3, <2>4 DEF Backlogs, One, Two, Rejoined
<1>7. CASE Leaves
  <2>1. /\ Len(events') = Len(events) + 1 /\ events'[Len(events) + 1] = "DISCONNECTED"
        /\ events' \in Seq(Events)
        /\ Len(events) >= 1 => events'[1] = events[1]
        /\ Len(events) = 2 => events'[2] = events[2]
    <3>1. Len(events) <= 2 /\ "DISCONNECTED" \in Events
      BY <1>0, <1>7 DEF Leaves, Backlogs, Handled, One, Two, Rejoined, Events
    <3> QED BY <1>0, <1>7, <3>1, Appended DEF Leaves
  <2>2. /\ station \in {"joining", "joined"} /\ station' = "idle"
        /\ handling' = handling /\ wifi_bit' = wifi_bit /\ boot' = boot
    BY <1>7 DEF Leaves
  <2>3. CASE Handled
    <3>1. One("DISCONNECTED", FALSE, "idle")'
      BY <2>1, <2>2, <2>3 DEF Handled, One, Two, Rejoined
    <3>2. BitInv'
      BY <1>0, <2>1, <2>2, <2>3 DEF BitInv, Handled, One, Two, Rejoined
    <3> QED BY <1>0, <2>1, <2>2, <3>1, <3>2 DEF WifiInv, Backlogs
  <2>4. CASE One("GOT_IP", FALSE, "joined")
    <3>1. Two("GOT_IP", "DISCONNECTED", FALSE, "idle")'
      BY <2>1, <2>2, <2>4 DEF Handled, One, Two, Rejoined
    <3>2. BitInv'
      BY <1>0, <2>1, <2>2, <2>4 DEF BitInv, Handled, One, Two, Rejoined
    <3> QED BY <1>0, <2>1, <2>2, <3>1, <3>2 DEF WifiInv, Backlogs
  <2>5. CASE One("DISCONNECTED", TRUE, "joining")
    <3>1. Two("DISCONNECTED", "DISCONNECTED", TRUE, "idle")'
      BY <2>1, <2>2, <2>5 DEF Handled, One, Two, Rejoined
    <3>2. BitInv'
      BY <1>0, <2>1, <2>2, <2>5 DEF BitInv, Handled, One, Two, Rejoined
    <3> QED BY <1>0, <2>1, <2>2, <3>1, <3>2 DEF WifiInv, Backlogs
  <2>6. CASE Two("DISCONNECTED", "GOT_IP", TRUE, "joined")
    <3>1. Rejoined'
      BY <2>1, <2>2, <2>6 DEF Handled, One, Two, Rejoined
    <3>2. BitInv'
      BY <1>0, <2>1, <2>2, <2>6 DEF BitInv, Handled, One, Two, Rejoined
    <3> QED BY <1>0, <2>1, <2>2, <3>1, <3>2 DEF WifiInv, Backlogs
  <2> QED BY <1>0, <2>2, <2>3, <2>4, <2>5, <2>6 DEF Backlogs, One, Two, Rejoined
<1>8. CASE CommandPanics \/ OtaPanics \/ OtaRestart \/ RestartCommand
  <2>1. events' = <<>> /\ station' = "off" /\ handling' = FALSE /\ wifi_bit' = FALSE
    BY <1>8 DEF CommandPanics, OtaPanics, OtaRestart, RestartCommand, Reboot, Fresh
  <2>2. events' \in Seq(Events) /\ Handled' /\ BitInv'
    BY <2>1 DEF Handled, BitInv
  <2> QED BY <2>1, <2>2 DEF WifiInv, Backlogs
<1>9. CASE UNCHANGED wifiVars /\ (boot' = boot \/ boot' # "start")
  <2>1. events' = events /\ wifi_bit' = wifi_bit /\ Backlogs' /\ BitInv'
    BY <1>0, <1>9 DEF wifiVars, Backlogs, Handled, One, Two, Rejoined, BitInv
  <2> QED BY <1>0, <2>1 DEF WifiInv
<1>10. ASSUME Main, ~StartWifi
       PROVE  UNCHANGED wifiVars /\ boot' # "start"
  BY <1>10 DEF Main, At, vWifiWaitForConnection, WifiWait, QueryStart, QueryAnswered, QueryFails,
               QueryCheck, StartOta, MqttWifiWait, MqttStart, StartLight, StartPir, AnimReset,
               AnimCreate, AnimGive, StartSystem, wifiVars
<1>11. ASSUME CommandTake \/ CommandSet \/ CommandGive \/ CommandArrives \/ BrokerConnects
              \/ BrokerLost \/ ServerStarts \/ ServerEnds \/ OtaWifiWait \/ OtaFetched
              \/ OtaFails \/ OtaPublish
       PROVE  UNCHANGED wifiVars /\ boot' = boot
  BY <1>11 DEF CommandTake, CommandSet, CommandGive, CommandArrives, BrokerConnects, BrokerLost,
               ServerStarts, ServerEnds, OtaWifiWait, OtaFetched, OtaFails, OtaPublish,
               vWifiWaitForConnection, wifiVars
<1>12. ASSUME UNCHANGED vars
       PROVE  UNCHANGED wifiVars /\ boot' = boot
  BY <1>12 DEF vars
<1> QED
  BY <1>1, <1>2, <1>3, <1>4, <1>5, <1>6, <1>7, <1>8, <1>9, <1>10, <1>11, <1>12
     DEF Next, Outside, EventTask, AnimTask, OtaTask

(* WIFI_CONNECTED_BIT tells the truth whenever no event is waiting, for    *)
(* any number of lost connections: reconnecting before clearing the bit    *)
(* cannot leave it cleared on a connected station, because the event of    *)
(* the new connection is handled after the one of the old.                 *)
THEOREM BitTellsTheTruth == Spec => []BitFollowsStation
<1>1. Init => WifiInv
  <2>1. Init => events = <<>> /\ station = "off" /\ handling = FALSE /\ wifi_bit = FALSE
    BY DEF Init, Fresh
  <2> SUFFICES ASSUME Init PROVE WifiInv
    OBVIOUS
  <2>2. events \in Seq(Events) /\ Len(events) = 0
    BY <2>1
  <2>3. Handled /\ BitInv
    BY <2>1, <2>2 DEF Handled, BitInv
  <2> QED BY <2>1, <2>2, <2>3 DEF WifiInv, Backlogs
<1>2. WifiInv => BitFollowsStation
  <2> SUFFICES ASSUME WifiInv, events = <<>> PROVE wifi_bit <=> station = "joined"
    BY DEF BitFollowsStation
  <2>1. wifi_bit = TRUE <=> station = "joined"
    BY Len(<<>>) = 0 DEF WifiInv, BitInv
  <2>2. wifi_bit \in {TRUE, FALSE}
    BY DEF WifiInv
  <2>3. CASE wifi_bit = TRUE
    BY <2>1, <2>3
  <2>4. CASE wifi_bit = FALSE
    BY <2>1, <2>4
  <2> QED BY <2>2, <2>3, <2>4, Zenon
<1> QED BY <1>1, <1>2, WifiStep, PTL DEF Spec

-----------------------------------------------------------------------------
(* The motion sensor                                                       *)

(* The types the argument needs. *)
Counts == bit \in BOOLEAN /\ pc \in {"none", "wait", "delay"} /\ handled \in Nat /\ signals \in Nat

(* A bit that has not been published yet is an edge that no signal stands  *)
(* for so far.                                                             *)
Unsignalled == bit = TRUE /\ pc # "delay" => signals < handled
SignalInv == Counts /\ SignalPerEdge /\ Unsignalled

LEMMA SignalStep == SignalInv /\ [PirNext]_sensorVars => SignalInv'
<1> SUFFICES ASSUME SignalInv, [PirNext]_sensorVars
             PROVE  SignalInv'
  OBVIOUS
<1> USE DEF SignalInv, Counts, SignalPerEdge, Unsignalled
<1>1. CASE UNCHANGED sensorVars
  BY <1>1 DEF sensorVars, pirVars
<1>2. CASE GpioTask
  <2>1. pc' = pc /\ signals' = signals
    BY <1>2 DEF GpioTask, pirVars
  <2>2. CASE Head(gpio_evt_queue) = PIR
    <3>1. bit' = TRUE /\ handled' = handled + 1
      BY <1>2, <2>2, Zenon DEF GpioTask
    <3> QED BY <2>1, <3>1
  <2>3. CASE Head(gpio_evt_queue) # PIR
    <3>1. bit' = bit /\ handled' = handled
      BY <1>2, <2>3, Zenon DEF GpioTask
    <3> QED BY <2>1, <3>1
  <2> QED BY <2>2, <2>3
<1>3. CASE Publish
  BY <1>3 DEF Publish
<1>4. CASE ClearBit \/ PirStart
  BY <1>4 DEF ClearBit, PirStart
<1>5. CASE Connect \/ Disconnect \/ \E p \in Pins : Edge(p)
  BY <1>5 DEF Connect, Disconnect, Edge, pirVars
<1> QED
  BY <1>1, <1>2, <1>3, <1>4, <1>5 DEF PirNext, PirTask

(* pir_task never publishes more often than the sensor's pin had edges:    *)
(* the wait after a signal swallows edges and never makes a second signal  *)
(* of one.                                                                 *)
THEOREM NoSpuriousSignal == PirSpec => []SignalPerEdge
<1>1. PirInit => SignalInv
  <2> SUFFICES ASSUME PirInit
               PROVE  SignalInv
    OBVIOUS
  <2>1. bit = FALSE /\ pc = "none" /\ handled = 0 /\ signals = 0
    BY Zenon DEF PirInit
  <2>2. bit \in BOOLEAN /\ Unsignalled
    BY <2>1, Zenon DEF Unsignalled
  <2>3. handled \in Nat /\ signals \in Nat /\ SignalPerEdge
    BY <2>1 DEF SignalPerEdge
  <2> QED BY <2>1, <2>2, <2>3, Zenon DEF SignalInv, Counts
<1>2. SignalInv => SignalPerEdge
  BY DEF SignalInv
<1> QED
  BY <1>1, <1>2, SignalStep, PTL DEF PirSpec
=============================================================================
