------------------------------ MODULE NodeBoot ------------------------------
(***************************************************************************)
(* app_main starts the components one after the other while the Wi-Fi      *)
(* event task, the update task, the MQTT client and, from some point on,   *)
(* anim_cmd_task already run.  What a component needs may not be there     *)
(* yet: openhab_address, mqtt_client, animation_semaphore.  A use of one   *)
(* that is still null ends in a panic, which restarts the node like        *)
(* esp_restart does.                                                       *)
(*                                                                         *)
(* The table of topics, the queues and the messages are MqttDispatch's.    *)
(***************************************************************************)
EXTENDS Naturals, Sequences

CONSTANTS MaxCommands, MaxLosses   \* bounds on restart commands, lost Wi-Fi connections

ASSUME BootAssumption == {MaxCommands, MaxLosses} \subseteq Nat

VARIABLES
  boot,       \* the statement app_main is at
  station,    \* Wi-Fi: "off", "idle", "joining" or "joined"
  events,     \* system events event_handler has not finished
  handling,   \* event_handler has called esp_wifi_connect for the first of them
  wifi_bit,   \* WIFI_CONNECTED_BIT of wifi_event_group
  lookup,     \* BIT0 of openhab_lookup_event_group
  host,       \* openhab_address has been written
  client,     \* mqtt_client: "none", "started" or "connected"
  ota,        \* where ota_update is
  server,     \* server.py: "absent", "up" or "over"
  anim,       \* anim_cmd_task: "idle", "take", "set" or "give"
  semaphore,  \* animation_semaphore: "null", "empty" or "free"
  anim_reg,   \* is an animation armed
  announced,  \* history: the broker has MQTT_RESTART_STATUS of the last update
  cause,      \* history: why the node started last
  published,  \* history: an animation command has been published
  commands, losses  \* what happened so far, against the bounds

wifiVars == <<station, events, handling, wifi_bit>>
lookupVars == <<lookup, host>>
otaVars == <<ota, announced>>
animVars == <<anim, semaphore, anim_reg>>
history == <<cause, published, commands, losses>>
vars == <<boot, wifiVars, lookupVars, client, otaVars, server, animVars, history>>

(* Everything in RAM, as the startup code leaves it. *)
Fresh == [boot |-> "start", station |-> "off", client |-> "none", ota |-> "none",
          anim |-> "idle", semaphore |-> "null"]

Init ==
  /\ boot = Fresh.boot
  /\ station = Fresh.station /\ events = <<>> /\ handling = FALSE /\ wifi_bit = FALSE
  /\ lookup = FALSE /\ host = FALSE
  /\ client = Fresh.client /\ ota = Fresh.ota
  /\ anim = Fresh.anim /\ semaphore = Fresh.semaphore /\ anim_reg = FALSE
  /\ server = "absent" /\ announced = FALSE
  /\ cause = "power" /\ published = FALSE /\ commands = 0 /\ losses = 0

(* esp_restart, or a panic. *)
Reboot(why) ==
  /\ boot' = Fresh.boot
  /\ station' = Fresh.station /\ events' = <<>> /\ handling' = FALSE /\ wifi_bit' = FALSE
  /\ lookup' = FALSE /\ host' = FALSE
  /\ client' = Fresh.client /\ ota' = Fresh.ota
  /\ anim' = Fresh.anim /\ semaphore' = Fresh.semaphore /\ anim_reg' = FALSE
  /\ cause' = why

-----------------------------------------------------------------------------
(* app_main                                                                *)

At(here, next) == boot = here /\ boot' = next

(* xEventGroupWaitBits with clearOnExit false *)
vWifiWaitForConnection == wifi_bit /\ UNCHANGED wifi_bit
vMqttWaitForConnection == client = "connected"

(* vWifiStart up to esp_wifi_start *)
StartWifi ==
  /\ At("start", "wifi")
  /\ station' = "idle" /\ events' = <<"START">>
  /\ UNCHANGED <<handling, wifi_bit, lookupVars, client, otaVars, server, animVars, history>>

WifiWait ==
  /\ At("wifi", "query")
  /\ vWifiWaitForConnection
  /\ UNCHANGED <<station, events, handling, lookupVars, client, otaVars, server, animVars, history>>

(* query_mdns_host clears the bit of the last query. *)
QueryStart ==
  /\ At("query", "reply")
  /\ lookup' = FALSE
  /\ UNCHANGED <<wifiVars, host, client, otaVars, server, animVars, history>>

QueryAnsweredUnsaved ==  \* mutant: openhab_address is not copied
  /\ At("reply", "check") /\ station = "joined"
  /\ lookup' = TRUE
  /\ UNCHANGED <<wifiVars, host, client, otaVars, server, animVars, history>>

QueryAnswered ==
  /\ At("reply", "check") /\ station = "joined"
  /\ host' = TRUE /\ lookup' = TRUE
  /\ UNCHANGED <<wifiVars, client, otaVars, server, animVars, history>>

QueryFails ==
  /\ At("reply", "check")
  /\ UNCHANGED <<wifiVars, lookupVars, client, otaVars, server, animVars, history>>

QueryCheckAgain ==  \* mutant: the wait is repeated, the query is not
  /\ IF lookup THEN At("check", "ota") ELSE At("check", "check")
  /\ UNCHANGED <<wifiVars, lookupVars, client, otaVars, server, animVars, history>>

(* The wait of 500 ticks, and the loop around it. *)
QueryCheck ==
  /\ IF lookup THEN At("check", "ota") ELSE At("check", "query")
  /\ UNCHANGED <<wifiVars, lookupVars, client, otaVars, server, animVars, history>>

(* vOtaStart *)
StartOta ==
  /\ At("ota", "mqtt")
  /\ ota' = "wait"
  /\ UNCHANGED <<wifiVars, lookupVars, client, announced, server, animVars, history>>

(* vMqttStart: two waits, then a client for openhab_address. *)
MqttWifiWait ==
  /\ At("mqtt", "client")
  /\ vWifiWaitForConnection
  /\ UNCHANGED <<station, events, handling, lookupVars, client, otaVars, server, animVars, history>>

MqttStart ==
  /\ At("client", "light") /\ lookup
  /\ client' = "started"
  /\ UNCHANGED <<wifiVars, lookupVars, otaVars, server, animVars, history>>

(* vStartLightController: from here on animation commands arrive. *)
StartLight ==
  /\ At("light", "pir") /\ vMqttWaitForConnection
  /\ UNCHANGED <<wifiVars, lookupVars, client, otaVars, server, animVars, history>>

StartPirThenSystem ==  \* mutant: vAnimationStart is not called
  /\ At("pir", "system") /\ vMqttWaitForConnection
  /\ UNCHANGED <<wifiVars, lookupVars, client, otaVars, server, animVars, history>>

StartPir ==
  /\ At("pir", "anim") /\ vMqttWaitForConnection
  /\ UNCHANGED <<wifiVars, lookupVars, client, otaVars, server, animVars, history>>

(* vAnimationStart: anim_reg = 0, xSemaphoreCreateBinary, xSemaphoreGive *)
AnimReset ==
  /\ At("anim", "create")
  /\ anim_reg' = FALSE
  /\ UNCHANGED <<wifiVars, lookupVars, client, otaVars, server, anim, semaphore, history>>

AnimCreate ==
  /\ At("create", "give")
  /\ semaphore' = "empty"
  /\ UNCHANGED <<wifiVars, lookupVars, client, otaVars, server, anim, anim_reg, history>>

AnimGive ==
  /\ At("give", "system")
  /\ semaphore' = "free"
  /\ UNCHANGED <<wifiVars, lookupVars, client, otaVars, server, anim, anim_reg, history>>

(* vSystemStart; after it app_main only starts the logging and sleeps. *)
StartSystem ==
  /\ At("system", "done") /\ vMqttWaitForConnection
  /\ UNCHANGED <<wifiVars, lookupVars, client, otaVars, server, animVars, history>>

Main ==
  \/ StartWifi \/ WifiWait \/ QueryStart \/ QueryAnswered \/ QueryFails \/ QueryCheck
  \/ StartOta \/ MqttWifiWait \/ MqttStart \/ StartLight \/ StartPir
  \/ AnimReset \/ AnimCreate \/ AnimGive \/ StartSystem

-----------------------------------------------------------------------------
(* event_handler, and the station it gets its events from.                 *)

Joins ==
  /\ station = "joining"
  /\ station' = "joined" /\ events' = Append(events, "GOT_IP")
  /\ UNCHANGED <<boot, handling, wifi_bit, lookupVars, client, otaVars, server, animVars, history>>

Leaves ==
  /\ station \in {"joining", "joined"} /\ losses < MaxLosses
  /\ station' = "idle" /\ events' = Append(events, "DISCONNECTED")
  /\ losses' = losses + 1
  /\ UNCHANGED <<boot, handling, wifi_bit, lookupVars, client, otaVars, server, animVars,
                 cause, published, commands>>

FirstEvent(e) == events # <<>> /\ Head(events) = e

(* esp_wifi_connect *)
HandleStart ==
  /\ FirstEvent("START")
  /\ station' = "joining" /\ events' = Tail(events)
  /\ UNCHANGED <<boot, handling, wifi_bit, lookupVars, client, otaVars, server, animVars, history>>

HandleGotIp ==
  /\ FirstEvent("GOT_IP")
  /\ wifi_bit' = TRUE /\ events' = Tail(events)
  /\ UNCHANGED <<boot, station, handling, lookupVars, client, otaVars, server, animVars, history>>

(* It reconnects first and clears the bit then. *)
HandleDisconnected ==
  /\ FirstEvent("DISCONNECTED") /\ ~handling
  /\ handling' = TRUE /\ station' = "joining"
  /\ UNCHANGED <<boot, events, wifi_bit, lookupVars, client, otaVars, server, animVars, history>>

HandleDisconnectedForgets ==  \* mutant: the bit is not cleared
  /\ FirstEvent("DISCONNECTED") /\ handling
  /\ handling' = FALSE /\ events' = Tail(events)
  /\ UNCHANGED <<boot, station, wifi_bit, lookupVars, client, otaVars, server, animVars, history>>

HandleDisconnectedClear ==
  /\ FirstEvent("DISCONNECTED") /\ handling
  /\ handling' = FALSE /\ wifi_bit' = FALSE /\ events' = Tail(events)
  /\ UNCHANGED <<boot, station, lookupVars, client, otaVars, server, animVars, history>>

EventTask == HandleStart \/ HandleGotIp \/ HandleDisconnected \/ HandleDisconnectedClear

-----------------------------------------------------------------------------
(* The connection to the broker, and animation commands.                   *)

BrokerConnects ==
  /\ client = "started" /\ station = "joined"
  /\ client' = "connected"
  /\ UNCHANGED <<boot, wifiVars, lookupVars, otaVars, server, animVars, history>>

BrokerLost ==
  /\ client = "connected"
  /\ client' = "started"
  /\ UNCHANGED <<boot, wifiVars, lookupVars, otaVars, server, animVars, history>>

(* Published now, or retained from before the last restart. *)
CommandArrives ==
  /\ boot \in {"pir", "anim", "create", "give", "system", "done"}
  /\ client = "connected" /\ anim = "idle"
  /\ anim' = "take" /\ published' = TRUE
  /\ UNCHANGED <<boot, wifiVars, lookupVars, client, otaVars, server, semaphore, anim_reg,
                 cause, commands, losses>>

(* vAnimationSetup or vAnimationStop: the take, which may time out, *)
CommandTake ==
  /\ anim = "take" /\ semaphore # "null"
  /\ anim' = "set" /\ semaphore' = "empty"
  /\ UNCHANGED <<boot, wifiVars, lookupVars, client, otaVars, server, anim_reg, history>>

(* the take of a null semaphore (configASSERT), *)
CommandPanics ==
  /\ anim = "take" /\ semaphore = "null"
  /\ Reboot("semaphore")
  /\ UNCHANGED <<server, announced, published, commands, losses>>

(* anim_reg, *)
CommandSet ==
  /\ anim = "set"
  /\ anim' = "give" /\ anim_reg' \in BOOLEAN
  /\ UNCHANGED <<boot, wifiVars, lookupVars, client, otaVars, server, semaphore, history>>

(* and the give. *)
CommandGive ==
  /\ anim = "give"
  /\ anim' = "idle" /\ semaphore' = "free"
  /\ UNCHANGED <<boot, wifiVars, lookupVars, client, otaVars, server, anim_reg, history>>

AnimTask == CommandTake \/ CommandPanics \/ CommandSet \/ CommandGive

-----------------------------------------------------------------------------
(* ota_update, its server and the restart command.                         *)

(* builddeploy.sh, then the server is started for ten minutes. *)
ServerStarts ==
  /\ server = "absent" /\ server' = "up"
  /\ UNCHANGED <<boot, wifiVars, lookupVars, client, otaVars, animVars, history>>

ServerEnds ==
  /\ server = "up" /\ server' = "over"
  /\ UNCHANGED <<boot, wifiVars, lookupVars, client, otaVars, animVars, history>>

OtaAt(here, next) == ota = here /\ ota' = next

OtaWifiWait ==
  /\ OtaAt("wait", "fetch")
  /\ vWifiWaitForConnection
  /\ UNCHANGED <<boot, station, events, handling, lookupVars, client, announced, server,
                 animVars, history>>

(* esp_https_ota returns ESP_OK. *)
OtaFetched ==
  /\ OtaAt("fetch", "publish") /\ server = "up" /\ station = "joined"
  /\ announced' = FALSE
  /\ UNCHANGED <<boot, wifiVars, lookupVars, client, server, animVars, history>>

OtaFails ==
  /\ OtaAt("fetch", "failed")
  /\ UNCHANGED <<boot, wifiVars, lookupVars, client, announced, server, animVars, history>>

(* vMqttPublish: without a connection the client gives up. *)
OtaPublish ==
  /\ OtaAt("publish", "delay") /\ client # "none"
  /\ announced' = (client = "connected")
  /\ UNCHANGED <<boot, wifiVars, lookupVars, client, server, animVars, history>>

(* vMqttPublish before vMqttStart: mqtt_client is null. *)
OtaPanics ==
  /\ ota = "publish" /\ client = "none"
  /\ Reboot("client")
  /\ UNCHANGED <<server, announced, published, commands, losses>>

(* After 5 s, esp_restart. *)
OtaRestart ==
  /\ ota = "delay"
  /\ Reboot("update")
  /\ UNCHANGED <<server, announced, published, commands, losses>>

OtaTask == OtaWifiWait \/ OtaFetched \/ OtaFails \/ OtaPublish \/ OtaPanics \/ OtaRestart

(* restart_cmd_task *)
RestartCommand ==
  /\ boot = "done" /\ client = "connected" /\ commands < MaxCommands
  /\ commands' = commands + 1
  /\ Reboot("command")
  /\ UNCHANGED <<server, announced, published, losses>>

Outside == Leaves \/ BrokerLost \/ CommandArrives \/ ServerStarts \/ RestartCommand

Next ==
  \/ Main \/ EventTask \/ AnimTask \/ OtaTask
  \/ Joins \/ BrokerConnects \/ ServerEnds \/ Outside

(* A task that waits for a bit is released by the call that sets it, even  *)
(* if the bit is cleared again before the task runs: SF of the waits.      *)
Fairness ==
  /\ SF_vars(Main) /\ SF_vars(QueryAnswered) /\ SF_vars(OtaTask)
  /\ WF_vars(EventTask) /\ WF_vars(AnimTask)
  /\ SF_vars(Joins) /\ SF_vars(BrokerConnects) /\ WF_vars(ServerEnds)

Spec == Init /\ [][Next]_vars /\ Fairness

-----------------------------------------------------------------------------
(* Properties.                                                             *)

Boots == {"start", "wifi", "query", "reply", "check", "ota", "mqtt", "client", "light",
          "pir", "anim", "create", "give", "system", "done"}
Events == {"START", "GOT_IP", "DISCONNECTED"}

TypeOK ==
  /\ boot \in Boots
  /\ station \in {"off", "idle", "joining", "joined"}
  /\ events \in Seq(Events) /\ Len(events) <= 3
  /\ {handling, wifi_bit, lookup, host, anim_reg, announced, published} \subseteq BOOLEAN
  /\ client \in {"none", "started", "connected"}
  /\ ota \in {"none", "wait", "fetch", "publish", "delay", "failed"}
  /\ server \in {"absent", "up", "over"}
  /\ anim \in {"idle", "take", "set", "give"}
  /\ semaphore \in {"null", "empty", "free"}
  /\ cause \in {"power", "update", "command", "client", "semaphore"}
  /\ commands \in 0 .. MaxCommands /\ losses \in 0 .. MaxLosses

(* With every event handled WIFI_CONNECTED_BIT says whether the station is *)
(* connected, although event_handler reconnects before it clears the bit   *)
(* and the new connection may be there before it has.                      *)
BitFollowsStation == events = <<>> => (wifi_bit <=> station = "joined")

(* A client only ever connects to an address that a lookup of this boot    *)
(* has written.                                                            *)
HostKnown == client # "none" => lookup /\ host

(* vAnimationStart erases no animation: none is armed before it, although  *)
(* the commands have been subscribed by then.                              *)
NothingErased == [][boot = "anim" /\ boot' = "create" => ~anim_reg]_vars

(* Once app_main is through nothing but an update or a restart command     *)
(* restarts the node.                                                      *)
StaysUpOnceBooted ==
  [][boot = "done" /\ boot' # "done" => cause' \in {"update", "command"}]_vars

(* The node gets through its boot for good, whatever the update task, the  *)
(* Wi-Fi and the broker do in between, if no animation command is retained *)
(* that may find it in the middle of each boot.                            *)
NodeStaysUp == [](~published) => <>[](boot = "done")

(* ota.c:54-56, "publishes message to MQTT when finished": a node that     *)
(* restarts for an update has told the broker.  No run checks it: it does  *)
(* not hold, see the README.                                               *)
UpdateAnnounced == cause = "update" => announced
=============================================================================
