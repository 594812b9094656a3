# Light-strip nodes: TLA+ models and proofs

The repository drives RGB light strips from ESP32 nodes. A node listens to MQTT for light and animation
commands, publishes its motion sensor, and is orchestrated by openHAB rules. The code is multi-threaded
(FreeRTOS tasks, an interrupt handler, the MQTT client's task) and almost nothing in it is locked: that is
what most of these modules are about. Beside the nodes the repository keeps their predecessor, an Arduino
sketch with two MQTT client libraries; there the subject is a connection that comes and goes. Paths below
are relative to `src/`; `D/` stands for `iot_eclipse_project/main/driver/`.

## 1. Inventory

| Part | State | Operations | What is hard |
|---|---|---|---|
| Animation (`D/animation.c`) | `anim_reg`, `R1..R3`, `origValue`, `curValue`, a binary semaphore, the loop's `flash_on`, `fade_in` | `vAnimationLoop` (a frame per round), `vAnimationSetup`, `vAnimationStop` | takes with a timeout nobody looks at, `vAnimationStop` called inside the loop's own section, state read outside the section |
| Light controller (`D/light_controller.c`) | two command queues | `hsv_cmd_task`: OFF, ON, SET, brightness; `anim_cmd_task`: five animation commands | both tasks and the loop write one light, and read it back with loss |
| PWM driver (`D/pwm.c`) | duty of three channels, `hsv_last_value` | `vPwmSetValueRec`, `iPwmGetValue`, `vPWMTurnOn`, `vPWMTurnOff` | three callers, channel by channel, no lock; fades that go on for 800 ms after the call has returned |
| MQTT routing (`D/mqtt_test.c`) | `mqtt_queue_arr` with its index, connection bit | `vMqttSubscribe`, `mqtt_event_handler`, `vMqttWaitForConnection` | subscription before table entry, retained messages, lost connections, full queues |
| Remote restart (`D/iot_sys.c`) | a queue | `restart_cmd_task` | everything queued is lost, retained messages come again |
| Motion sensor (`D/gpio_interrupts.c`, `D/pir.c`) | queue of edges, an event bit | interrupt handler, gpio task, `pir_task` | bit cleared 10 s after it was read, two pins in one queue, any edge interrupts |
| Boot, Wi-Fi, mDNS (`app_iot_main.c`, `D/wifi.c`) | two event groups, `openhab_address`, what has been created so far | `app_main`, `event_handler`, `query_mdns_host` | components start while others already run |
| OTA (`D/ota.c`) | - | `ota_update` | publishes through a client that may not exist yet |
| openHAB (`openhab_config_etc/`) | `motionTimer`, `fadeTimer`, items | motion, animation and time-of-day rules | timer callbacks beside rules, tests of a shared variable that is used later, retained publication |
| Colour commands (`D/light_controller.c`, `D/HSVToRGB.h`, `D/util.c`) | the colour ON returns to, the duties | `hsv_parse_csv`, `str2int`, `xHSVToRGB`, `xRGBToHSV` | a brightness command starts from what the duties read back as; nothing is rounded the same way twice |
| First prototype (`LightStrip.ino`) | a connection, the light | `setup`, `connect`, `loop`, `messageReceived` | results that are not looked at, commands that arrive while the client waits for something else |
| MQTT library (`libraries/MQTT`) | `isconnected`, `ping_outstanding`, buffers, three timers, `MQTTTransport` | packets in and out, `cycle`, `waitfor`, `connect`, `subscribe`, `publish` | packets in pieces and what is left of them, lengths computed twice, partial writes, late answers |
| PubSubClient (`libraries/PubSubClient`) | `_state`, `pingOutstanding`, two timestamps, `nextMsgId` | `connect`, `loop`, `publish`, `subscribe`, `disconnect` | a keep-alive tested before the answer is read, silence in the middle of a packet, state after each way to fail |
| Blink example, UDP logging, `HSBColor` | | | see section 8 |

How they interact: openHAB publishes a command -> the broker -> the MQTT client's task runs
`mqtt_event_handler` -> a FreeRTOS queue -> a command task -> the light or the animation registers -> the
animation task -> the light. In the other direction: an edge of the sensor's pin -> the interrupt -> a queue
-> the gpio task -> an event bit -> `pir_task` -> `vMqttPublish` -> openHAB. The prototype is one thread:
`loop()` -> `MQTT::Client::yield` -> `cycle` -> `messageReceived` -> the light, and from inside that
callback a report back through the same client.

## 2. Modules

| Module | Models | Notes |
|---|---|---|
| `Animation` | animation task, both command tasks and the light they share | one action per access to shared state or FreeRTOS call |
| `SteadyLight` | abstract specification: what a user may rely on | refined by `Animation` |
| `Colour` | the arithmetic between colours and duties (`D/HSVToRGB.h`, the conversions of `D/pwm.c`) | exact fractions for doubles; no state |
| `PwmDriver` | a write and a read of the strip, channel by channel | takes apart what is one step in `Animation` |
| `TopicMatch` | the comparison of an event's topic with a registered one | no state |
| `MqttDispatch` | boot task, event handler, command tasks, restart; broker and client library external | extends `TopicMatch` |
| `PirSensor` | interrupt, gpio task, `pir_task` | |
| `NodeBoot` | `app_main`, Wi-Fi event handler, mDNS lookup, OTA task and its server, restarts, early animation commands | what is there when; routing is `MqttDispatch`'s |
| `MotionRules` | `rules/pir.rules`, the day rule of `rules/times.rules`, the timers' callbacks | openHAB itself external |
| `HsvCommand` | `hsv_cmd_task` with its parsing, and the fades it starts | extends `Colour` |
| `MqttPacket` | the packets of `libraries/MQTT`: serializing, deserializing, lengths | no state |
| `PacketStream` | requests, and the three readers, over a stream cut anywhere | extends `MqttPacket` |
| `LightStrip` | the prototype over the blocking client of `libraries/MQTT`, access point, broker and TCP | packets whole, cut, or the rest of one |
| `PubSubClient` | connection state and keep-alive of the other library, with time in ticks | |
| `MCAnimation`, `MCPwmDriver`, `MCMqttDispatch`, `MCHsvCommand`, `MCPacketStream`, `MCLightStrip` | values for TLC | `MCAnimation` gives `Animation` the conversions of `Colour` |
| `Animation_proofs`, `PwmDriver_proofs`, `HsvCommand_proofs`, `NodeBoot_proofs`, `MqttDispatch_proofs`, `MotionRules_proofs`, `PubSubClient_proofs`, `LightStrip_proofs` | theorems | `NodeBoot_proofs` also holds `PirSensor`'s, whose task `app_main` starts; `LightStrip_proofs` also those of `MqttPacket` and `PacketStream`, the library the prototype is built with |

Operators marked *mutant* in a module are plausible bugs (a dropped guard, a forgotten give). No definition
uses them; replacing the definition below each by it must make TLC report a property, which shows that the
property depends on the code.

### Animation

`pc[p]` is where a task is: `"loop"` is `vAnimationLoop`, `"hsv"` is `hsv_cmd_task`, `"anim"` is
`anim_cmd_task`. `StopTake`, `StopReg`, `StopPwm`, `StopGive` are the four statements of `vAnimationStop`,
used by the command task and, with a return address in `ret`, by the loop inside its section. `Setup...` are
the statements of `vAnimationSetup`, `Loop...` those of the loop: the check of `anim_reg`, the take, the
switch that reads `anim_reg` again, a frame, the test of `R3` where another task can come between it and the
frame, and the give.

* The result of `xSemaphoreTake` is ignored everywhere (one place logs it), so a `Take` ends in any case and
  leaves the semaphore taken. It ends early only if the semaphore is free, if nobody is in a section (the
  caller waits for itself), or if the task is in `Hurried`: a task whose timeout (10 ms in the loop, 100 ms
  elsewhere) can run out while another one is busy.
* The program computes with values (a hue and saturation, and a level), the hardware keeps a duty per
  channel. `Shown` and `ReadBack` convert between them: constants of the module, which `MCAnimation` defines
  by `Colour`'s `xHSVToRGB` and `xRGBToHSV` and of which `ConversionAssumption` says as much as
  `ReadBackLosesALevel` proves: a light read back and shown again may be one level darker in any channel,
  because both casts of `D/pwm.c` round down. Black reads back as white at level 0. The levels of commands
  are any integers, in range or not (`D/light_controller.c:91-98` bounds nothing).
* `target` is what a write has set the hardware on its way to, `led` where it was then, and a read
  (`iPwmGetValue`) finds each channel anywhere between the two (`Passed`).
* The histories `asked`, `lost`, `found` and `astray` are kept with `Settled` only: the value asked for
  last, the number of read-backs by animations since, the duties an animation found, and whether a frame
  came after a STOP. A STOP with nothing to stop shows and records `origValue` (`D/animation.c:139`), the
  light the last animation found, even if another has been set since: it counts as asking for that.
* PULSE's and FADE's step widths and the maximum are constants; delays are left out, any task may be slow.
  Each step of `anim_cmd_task` that writes only private state is merged with the one after it.
* `offs` counts the dark frames of a FLASH. `flash_on` outlives an animation: a STOP after a dark frame leaves
  it at FALSE, the next FLASH begins with the light frame that is missing, and is dark once less. `offs`
  counts the one that was cut off, so that `ExactFlashes` says `Count` in either case.
* With `Settled` a command arrives only when nothing is going on, but for a STOP, which may come at any step
  of an animation or without one: this is the case in which the node can be expected to be exact, and the
  one `SteadyLight` describes. `SteadyLight`'s `light` is what an animation found while one plays and what
  the strip is set to otherwise; an animation that plays to its end leaves each channel as it found it or
  one level darker, one that is stopped may leave what it likes there, and `LitIsAsked` says more of that.

### PwmDriver

`conf` is what `ledc_set_duty` or `ledc_set_fade_with_time` have configured, `out` what `ledc_update_duty`
or `ledc_fade_start` have started a channel with, `now` the duty it has got to: the two branches of
`vPwmSetValueRec` have the same shape, and what tells them apart is whether `now` is at its end at once or
gets there by `Fade`, in any number of steps, long after the call has returned. A later start takes up from
`now`. `step[t]` counts the driver calls a task has made. `first` (the duties when a read began) and `alone`
(whether any other write has overlapped a call) are history.

### MqttDispatch

The boot task's calls are `Registrations`, in order; `LastCall[q]` is the call after which the task of queue
`q` is created; no topic is registered twice (`DispatchAssumption`), which the order of retained and live
messages depends on. `Subscribe` and `Store` are two steps because the handler runs in another task. `link`
is the connection, `bit` what the client's task knows of it. The broker is external: a clean session (the
default the code leaves in place), so a lost connection forgets the subscriptions, and retained messages
(`services/mqtt.cfg:32`) that arrive with each subscription. `ArrSz` is chosen in the initial state, to have
a table with room and one without in the same run; the SUBSCRIBE is sent before the room is tested
(`D/mqtt_test.c:135`, `137`), and when there is none `ESP_ERROR_CHECK` aborts, which restarts the chip
(`StoreAborts`): until then messages of the refused topic come in. The histories `handled` (the last message
of each topic a task took, in any boot) and `fresh` (the topics of which this boot has handled none) survive
a restart, unlike everything in RAM.

### PirSensor

The bit is cleared after the wait that follows a signal; `handled` and `signals` are history. An edge is one
of either direction: `D/gpio_interrupts.c:62-63` makes both pins interrupt on any edge (the comment at line
50 says rising).

### NodeBoot

`boot` is the statement `app_main` has reached, with the starts of components whose order matters taken
apart: `vWifiStart` into the start of the driver, the wait, the query (bit cleared, answer, test),
`vAnimationStart` into `anim_reg = 0`, the creation of the semaphore and its first give. The other tasks are
`EventTask` (the `event_handler`, whose disconnection case is two steps because it reconnects before it
clears the bit), `OtaTask` and `AnimTask`, the latter reduced to what it does with the semaphore and
`anim_reg`. `Reboot` is the loss of everything in RAM; what survives is outside: the server of the new
binary (ten minutes, `server.py`), retained messages, and history.

* A wait for a bit is one step that does not change the bit (`clearOnExit` is false everywhere).
* A take of a null semaphore ends in FreeRTOS's assertion, a publication through a null client in a panic:
  both restart the node. A publication without a connection is given up.
* Wi-Fi, broker and the station's retries are external.

### MotionRules

A rule has a thread (`pc[t]`, `todo[t]`), a timer its callback. The test of a timer variable and the use of
it are two steps (`TestTimer`; `CreateTimer`, `RescheduleTimer`, `RescheduleFails`), as are the three
statements of a callback (`Send`, `Cancel`, `Clear`). `serial`, chosen in the initial state, says whether
rules and callbacks overlap: the repository relies on an engine it does not contain, and the properties say
what depends on that. Also left open is whether the engine schedules a timer again whose callback has
already started. `Tick` is a minute; rules and callbacks finish within one. `lit` are the lights openHAB has
switched on; the fade timer's PULSE is the history variable `pulsed`.

### HsvCommand

One action per branch of `hsv_cmd_task`; a command runs to its end. `duty` and `goal` are where the last
fade began and where it ends, and the next command finds each channel at its beginning, at its end or under
way (`Moments`; `Progress` says in which steps), from where the next fade begins. A payload is a sequence of
fields, of which `str2int` tells numbers from others; only the upper ends of the three numbers are checked,
and nothing of a brightness. A double is an exact fraction here. What a double adds is one choice: a channel
whose exact level is a whole number may come out one below (`uiPwmConvertPercent`), the same for channels
that hold the same expression, and a hue exactly on a sixth of the circle makes `q` equal to `v` and `t`
equal to `p` as in the program. A duty below zero (a negative brightness; the cast in `D/pwm.c:145` is then
undefined) is any of `UndefinedLevels`. The history `order` is what a colour asks of the channels, read off
the colour circle and not computed by the conversion; of a light on its way to another it keeps the pairs
that the fade cannot show in the wrong order (`StillApart`). `Colour` is a module of its own because
`Animation` uses it as well.

### MqttPacket and PacketStream

`MqttPacket` gives for each `MQTTSerialize_...` the return code and the bytes, for each
`MQTTDeserialize_...` the fields, from the length function, `MQTTPacket_encode` and the writers as they are.
`PacketStream` sends requests through it, lets a broker answer and publish, cuts its bytes, and reads them
with one of three readers: `MQTTPacket_read`, `MQTTPacket_readnb` (state in `MQTTTransport`, called again
for each piece), `MQTT::Client::readPacket` over `Network::read`. `Tolerates` says which cuts a reader copes
with: `MQTTPacket_read` any, its read function waits; `readnb` cuts in the body only, because
`MQTTPacket_decodenb` counts an empty poll as a length byte; `readPacket` none, because `Network::read`
returns at once when nothing is there and a missing length byte is taken for the length so far. `readnb`
never returns a PINGRESP: reading its empty body yields 0, which means "call again".

What the client may ask and the broker publish are any members of `RequestTypes` and any publications
(strings of any length, any number of filters, optional fields) that the length can express
(`RequestsAreSane`); a publication also fits the client's buffer (`MessagesFit`), because after one that
does not the bytes left behind are read as packets. The names `StreamInit` to `StreamSpec` differ from those
of the other modules so that one module of proofs can extend this one and `LightStrip`.

### LightStrip

A step of the thread is one pass of `MQTT::Client::cycle` or what lies between two of them. The client waits
in `"connack"` and `"suback"`; there `Meanwhile` handles whatever else arrives, `messageReceived` included,
which may publish and so clear `isconnected` from inside the callback. `Outcomes` is `sendPacket`: a call
that fails on an open connection has sent nothing, a part of the packet, or, because after a partial write
the next one asks for the full length again, the packet and bytes behind it (`Left`); the broker closes the
connection over the latter, and over the part once more has come.

`PacketReads` is `readPacket` over `Network::read`, which returns 0 at once when nothing is there. A packet
may have come whole; or the read gives up after its first byte, length or part of its body, and then what is
left (`Rest`) is next read as if it began a packet, of any type and of a length that may reach into those
behind it (`Garbled`). Where only the length is missing `decodePacket`'s failure is not noticed and the
packet has no body (`Bodiless`): the deserializers read a CONNACK or SUBACK that refuses out of it, or a
PUBLISH whose payload pointer nobody has set and through which the callback then writes. Of the latter the
model keeps that the chip may start again (`Restart`), and no other corruption of memory. What is read out
of the middle of a packet never has a usable body: it is supposed that no payload or id holds the bytes of a
whole packet. A packet that is too long (`BUFFER_OVERFLOW`) behaves as one cut at its body.

The socket is `"dead"` between the end of the connection and TCP's notice. Timers are choices, except that a
time-out while the answer is still coming is a counted fault. A session is clean, and a new connection
replaces the old one with all that was on its way.

### PubSubClient

`Tick` is a second; ages replace `millis()`. Each call is one action, except where it waits: `connect` for
the CONNACK and `readByte` for the rest of a packet, up to `MQTT_SOCKET_TIMEOUT` each. The broker answers
within `Answer`, or falls silent (`Hang`), perhaps in the middle of a packet (`"CUT"`), or closes the
connection. The sketch calls `loop()` at least every `MaxGap`, and publishes or subscribes at any time
between (`Request`). A packet longer than the buffer is `"LONG"`: read and ignored.

## 3. Runs

| Run | Shows | States |
|---|---|---|
| `anim_overlap` | type invariant; the semaphore is never lost (`NoLockLeak`); commands finish (`CommandsFinish`), a counted animation ends (`AnimationEnds`); at most one frame after a stop (`StopLatency`) | 134 000 |
| `anim_settled` | with commands one by one, but for a STOP at any step of any animation: a FLASH is dark exactly `Count` times (`ExactFlashes`); the light comes back, but for what its read-backs lose, and is what ON shows (`LitIsAsked`); the node refines `SteadyLight` (`LightIsSteady`) | 1 704 000 |
| `pwm_overlap` | no channel stays configured and not started (`NothingPending`); a write that no other overlaps is whole (`LoneWriteShows`); a read that no write overlaps returns duties that the fades passed meanwhile (`LoneReadIsBetween`) | 1 402 000 |
| `mqtt_routing` | a message reaches the queue of its own topic (`RoutedByTopic`), in order and once, restarts included, but for a retained message again in each boot (`InOrder`), is thrown away for lack of an entry only in one gap (`UnroutedOnlyInGap`); the table holds the calls that have returned, stays in its array, and has a task's topics before the task runs (`TableFits`); the boot gets through (`BootCompletes`) | 363 000 |
| `pir` | one signal per edge at most (`SignalPerEdge`), no queued edge without a signal (`EdgeIsSignalled`) | 4 100 |
| `boot` | the connection bit agrees with the station when no event is waiting (`BitFollowsStation`); the client starts with an address (`HostKnown`); a booted node only restarts when asked (`StaysUpOnceBooted`); the node gets through its boot for good (`NodeStaysUp`) | 250 000 |
| `motion` | overlapping or not, no finished timer stays in its variable (`NoStaleTimer`); without overlap lit lights have a deadline and one timer each (`SerialDeadline`), a pulse before they go out (`PulseFirst`), and go out (`GoesDark`) | 113 000 |
| `colour` | a brightness command scales the channels it finds by one factor (`BrightnessScales`); through any commands a channel that was asked to be darker than another is never the brighter (`OrderKept`) | 129 000 |
| `packets` | a request announces the bytes it has, and one that is refused is too long, or as long as the buffer where that is one of `Overestimated` (`RequestFits`); what a broker sends comes out whole and in order from each reader, wherever it copes with the cut (`InStep`), and all of it (`AllReturned`) | 175 000 |
| `prototype` | the SUBACK taken is the answer to the SUBSCRIBE sent (`SubackIsOwn`); a strip that believes to be connected is subscribed to all its topics (`SubscribedInLoop`); commands that come whole are obeyed (`Obeyed`); the strip comes back after any outage (`Recovers`) | 79 000 |
| `pubsub` | `state()` is right between calls (`StateTells`); the broker hears the client in time (`BrokerHears`); no time-out while the broker answers (`NoFalseTimeout`), and one when it is silent (`SilenceNoticed`) | 144 000 |
| `mqtt_resubscribe` | **violated**: `D/mqtt_test.h:20-26`. After a reconnection nothing subscribes again | |

What the same models say of the code beyond these runs:

* `D/animation.c:23` redefines `ANIM_TYPE_FADE` as 0, the idle value of `anim_reg`: the FADE command
  (`D/light_controller.c:112`, "Fading lights to OFF") does nothing.
* The end of an animation records the light it restores (`D/animation.c:139`), which it has read back from
  the duties: with the real 4091 levels about half of all lights lose a level of some channel in the course,
  once or at every animation (the duties 914, 645, 3941 lose one of red each time). `ReadBackLosesALevel`
  says that it is never more than one. Played while the light is off it records the dark, and ON
  (`D/pwm.h:34`, "Turns on the lights") then shows it.
* A STOP when nothing plays writes and records the light that the last animation found
  (`D/animation.c:136-141`), whatever has been set since; one in the middle of an animation may be followed
  by a frame, which then stays on the strip.
* Two overlapping writes of the strip leave channels of different colours (`D/pwm.h:20`, "Sets an HSV value
  to the pwm pins"); a read during a write or a fade returns a colour that was perhaps never asked for, and
  a brightness command or an animation records it.
* `rules/pir.rules:5`, "At any time if motion is detected the motion will be rescheduled": a motion in the
  minute of the deadline may find the timer, whose callback then cancels it and sets the variable to null;
  the rescheduling fails, and the lights stay on with no deadline.
* `D/ota.c:54-57` promises a message on MQTT when an update is finished, but the update restarts the node
  whether or not `vMqttPublish` had a connection, and by a panic if it is faster than the boot.
* An animation message that arrives between the start of `anim_cmd_task` and `vAnimationStart` restarts the
  node, and if it is retained it may do so in each boot: `NodeStaysUp` supposes that none is.
* Two tasks can be in their semaphore sections together even when no take runs out, because the nested
  `vAnimationStop` gives the semaphore away in the middle of the loop's section (`D/animation.c:117` calls
  it a mutex). A frame that falls between the writes of `anim_reg` and `R3` (`D/animation.c:148-151`) counts
  down the repetitions of the animation before.
* A retained message that arrives between `Subscribe` and `Store` is thrown away, and one that was handled
  is handled again by each later boot.
* A brightness above 100 is recorded as it is, so that ON repeats it; a dark strip has lost its hue and a
  brightness command turns it white.
* `MQTTPacket_len` counts the header into the length it compares, so that a packet with 127 bytes to follow
  (or 16383, 2097150, 2097151) is refused by a buffer it would just fit: `Overestimated` lists the sizes of
  these buffers, and `RequestsFit` shows that there are no others. `MQTTDeserialize_...` return the number
  of length bytes, in which 1 also means success, for a packet too short for its fields; "session present"
  is read from the highest bit instead of the lowest.
* A PUBLISH of which only the first byte has come is handed to the sketch's callback with a payload pointer
  that was never set, because `decodePacket` (`MQTTClient.h:348-373`) does not report its failure and
  `MQTTDeserialize_publish` (`MQTTDeserializePublish.c:51-65`) returns the 1 of its length byte.
* "If any read fails in this method, then we should disconnect from the network, as on reconnect the packets
  can be retried" (`libraries/MQTT/src/lib/MQTTClient.h:377`): a packet that comes in two pieces fails to be
  read, but `yield` only passes the failure on and `MQTTClient::loop` (`MQTTClient.cpp:129`) does not look
  at it. The socket stays open, the rest of the packet is read as another one, and the packet is lost:
  `Obeyed` speaks of the packets that come whole.
* After `BUFFER_OVERFLOW` the body of the packet stays on the stream and is read as packets.
* With QoS 1 and 2 left out the case of a PUBLISH in `MQTT::Client::cycle` has no break and runs on into
  that of a PINGRESP: a message ends the wait for an answer to a ping.
* PubSubClient reads one packet per call and tests its keep-alive first: with more packets waiting than
  `PromptEnough` allows it may call a connection timed out whose answer has arrived.

## 4. Bounds, and why they are enough

* `anim_overlap`: one hue, levels 0 and 1, one repetition. Which frame is written does not matter to these
  properties; the order of the steps does, and it is not bounded. FLASH, whose steps are those of PULSE with
  a different frame, is left to `anim_settled`. The safety part is proved without bounds (section 6).
* `anim_settled`: a strip of three duties per channel, white and an orange red that loses some of its yellow
  at each read-back, a level in range and one above 1.0, two repetitions, any number of commands; a STOP and
  RANDOM included. No take runs out here (`Hurried` is empty), so that steps of the command task and of the
  loop interleave as far as the semaphore lets them; the proof does without that. The safety part is proved
  without bounds, `ExactFlashes` for no STOP only.
* `pwm_overlap`: two writers, which write again and again, so that a write also meets what earlier overlaps
  have mixed, and a reader; dark and a colour of red and some blue, so that a mixture is a colour of its
  own, and a duty between the two of red for its fade to pass. The safety part is proved without bounds.
* `mqtt_routing`: the four registrations of the code with the shortest topics of the same shape (the
  animation topic a prefix of the light topic, two topics with one queue); array sizes that just fit (5) and
  just do not (4): the code's 10 has room to spare and behaves like the former. Three messages, queues of 2,
  one lost connection, one restart: enough for a full queue, an outage anywhere in the boot, a retained
  message that returns after a restart. The safety part is proved without bounds.
* `pir`: six edges on two pins, a queue of 2, two outages. The safety part is proved without bounds.
* `boot`: one restart command and two lost Wi-Fi connections, anywhere in any boot; one server run of
  unbounded length, so the same update may restart the node any number of times. The safety part is proved
  without bounds.
* `motion`: two lights, of which one is the kitchen's, three of the times of day (all lights, one, none),
  two threads, two objects per timer (TLC's deadlock check shows that a free one is found). Without overlap
  motions are unbounded, with two waiting at most. With overlap there are at most three motions or changes
  of the time (`MaxOverlaps`): two create or reschedule against each other, a third meets what they have
  left. The safety part is proved without bounds.

* `colour`: a full duty of 200 instead of 4091, so that each percentage is still a different level, and the
  conversion loses as much or more than the real one; three commands (a colour, a dimming, and one that
  starts from what it left), colours of several sixths of the circle and beyond its beginning, numbers in
  range and beyond it; a read at the beginning, in the middle or at the end of a fade, the channels in step
  or not. The safety part is proved without bounds.
* `packets`: payloads, topics and options of lengths around 127, where a second length byte starts, and
  around the buffer's 140; two packets of the broker, the shortest a reader can confuse; a cut after each of
  the first four bytes, which are header, length and the start of the body. The safety part is proved for
  any buffer, packets and cuts.
* `prototype`: one command and two faults (outages, cut packets, writes that fail, refusals, late answers, a
  read that leaves part of what it has misread): a fault, and one that meets the recovery from it. What is
  in flight is not bounded: it stays short by itself. The safety part is proved without bounds.
* `pubsub`: a keep-alive of four ticks, a socket time-out of three, a backlog of two packets, four messages
  or connections: a second connection meets what the first has left, with packets waiting. Message ids wrap
  at 2. The safety part is proved for any values that satisfy `PromptEnough`.

`CHECK_DEADLOCK FALSE` in the MQTT, PIR, colour and packet runs: messages, edges and commands are bounded,
so the system stops.

## 5. Fairness

Weak fairness of each task's steps: the FreeRTOS scheduler runs every ready task (all run at one priority or
wait with delays), and every take ends by its timeout, which is why both tasks are in `Hurried` in
`anim_overlap`; without that a task could wait for ever for a semaphore that is free again and again. The
fade hardware arrives. No fairness for what the outside decides: commands, messages, edges, outages. In
`MqttDispatch` the client reconnects (the library retries) and tasks take what is queued; in `PirSensor`
likewise. `NodeBoot` assumes strong fairness of `app_main` and of the update task: a FreeRTOS task that
waits for an event bit is released by the call that sets it, even if the bit is cleared again before the
task runs, so that a wait that is possible again and again ends. The lookup is answered, the station joins
and the broker accepts if they can again and again. In `MotionRules` rules and callbacks run and minutes
pass. `AnimationEnds` supposes that animation commands stop coming.

In `LightStrip` the one thread runs (`Client`), its waits end by their timers (`YieldEnds`, `Connack`,
`Suback`), the broker takes what it is sent, TCP notices a dead connection, and access point and broker come
back; messages and faults come as they like. In `PubSubClient` time passes, a broker that is not silent
answers, and the sketch keeps calling `loop()`, as the library asks it to. In `PacketStream` the network
delivers and the reader is called again.

## 6. Proofs

All theorems hold for any value of the constants that satisfies the named assumptions (`LightAssumption`,
`ConversionAssumption`, `PwmAssumption`, `LevelsAreDuties`, `FadesGoOn`, `NumbersAreInts`, `NulAssumption`,
`DispatchAssumption`, `BootAssumption`, `MotionAssumption`, `PromptEnough`, `CommandAssumption`,
`StreamAssumption`, `RequestsAreSane`, `MessagesFit`), which TLC evaluates. Three theorems about `Animation`
are stated for commands that come one by one (`OneByOne`): a command arrives only when nothing is going on,
but for a STOP, which may arrive at any time, and takes run out as they like. A command other than STOP in
the middle of an animation captures the animation's light as the user's, so the properties need this.
`ExactFlashes` also needs that no STOP comes and no take of the loop runs out (`Uninterrupted`).

* `TypeCorrect`, `PwmTypeCorrect`: `[]TypeOK`, inductive as it stands. For `Animation` it carries the facts
  that what animations show stays in `0 .. MaxV`, whatever level a command has asked for, because a
  read-back is in range, and that `R3` stays in `-1 .. Count`, whichever frames overlap.
* `SemaphoreNotLost`: `[]NoLockLeak`, by type correctness and two facts: a move inside the sections keeps
  its task there (`MoveKeepsHolder`), and the task whose take set the semaphore is in its section afterwards
  (`TakerHolds`). Every step out of a section gives. That nothing more is needed explains why ignored
  timeouts do no lasting harm.
* `AtMostOneLateFrame`: `[]StopLatency`, which is not inductive: the strengthening says where the loop can
  be when a late frame has been written, namely after that frame and before its next check, where `anim_reg
  = 0` sends it back.
* `DarkExactly`: `[]ExactFlashes`. `TurnInv` says whose turn it is, `FlashInv` that while a FLASH is armed
  `R3` and the dark frames shown add up to `Count`, or to one more while a dark frame waits for its light
  one. That needs `flash_on` to be true whenever a FLASH is armed: the test of `R3` comes after the light
  frame only.
* `LightIsAsked`: `[]LitIsAsked`. `LightInv` follows the light through the conversions: the light, the
  captured one and the recorded one are each dark or near to what was asked for (`Good`), within one level
  per read-back (`ConversionAssumption`); the loop may be anywhere after a STOP, and what it then still
  writes is `astray`.
* `ImplementsSteadyLight`: `Spec => LightIsSteady`, step by step: the receipt of an animation command maps
  to `Play` or `Stop`, the last give to `End` or `Stopped`, a command of `hsv_cmd_task` to `Command`, every
  frame to a stutter. `End` needs that what an animation captured and shows again has lost a level at most.
* `VariableIsLive`: `[]NoStaleTimer`, with rules and callbacks overlapping. `StaleInv`: while a variable
  holds a timer that is over, a callback that is going to clear the variable has not ended.
* `DeadlineIsKept`, `WarningComesFirst`: `SerialDeadline` and `PulseFirst`, with one rule or callback at a
  time. Four invariants (`AloneInv`, `TimerInv`, `DeadlineInv`, `PulseInv`) say who runs, that a scheduled
  timer is the one its variable holds, that lights which are on have a timer, a rule or a command that will
  switch them off, and that a motion timer is due after a fade timer, or after a pulse.
* `NothingLeftPending`: `[]NothingPending`. A call that has configured a channel and not started it stays
  one until it does (`StarterStays`); starting sets the channel to its configuration, so it does not matter
  whose.
* `LoneWriteIsWhole`: `[]LoneWriteShows` from `LoneInv`: while a write is alone, no other write runs and the
  channels it has done so far still hold its colour.
* `LoneReadIsOnTheWay`: `[]LoneReadIsBetween` from `ReadInv`: while a read is alone nothing is started, each
  fade goes on from where it was when the read began, and what has been read lies behind where it is.
* `ColoursSurvive`: `[]OrderKept`. Not inductive, because ON shows a recorded colour: `LastInv` says that
  whatever the recorded colour may be shown as is in the order it was asked in. A new colour is, because the
  six sectors of `xHSVToRGB` are the colour circle (`ShadeIs`) and levels grow with the fractions they come
  from (`DutiesGrow`). A dimmed one is, because a channel comes back from `xRGBToHSV` and `xHSVToRGB` as its
  share of the strongest (`BackAgain`), equal channels out of one expression. That a double may lose a level
  does not matter: of two different fractions the greater one's lowered level is still not below the smaller
  one's. A read midway of a fade keeps the pairs of `StillApart`, of which no moment can be out of order.
* `ScalesAsOne`: `BrightnessScales`, from the same invariant and `BackAgain`: what the conversion writes is
  the nearest level below the share asked for, or one less (`DutyIsNear`).
* `ReadBackLosesALevel`: by `BackAgain` the share of a channel that was read back is its level, exactly, so
  that the cast leaves it or takes one.
* `MatchIsEquality`: prefix comparison plus terminator is equality of topics.
* `OwnQueue`, `TakenInOrder`, `TableNeverOverruns`, `UnroutedGap`: `RoutedByTopic`, `InOrder`, `TableFits`
  and `UnroutedOnlyInGap`, from one invariant over the table, the broker's subscriptions, the wire and the
  queues. Routing is `MatchIsEquality` at every entry of the table, which is always the registrations made
  so far. The broker knows no topic but those stored and the one about to be: hence the gap. Order needs
  that a topic is subscribed once per boot, so that the retained message of a subscription comes before
  everything else of its topic, that a restart empties the queues, and that the retained message is the
  newest ever published, so that what was handled in an earlier boot is not younger.
* `NoSpuriousSignal`: `[]SignalPerEdge` from: a set bit that has not been published is an edge no signal
  stands for yet.
* `AddressBeforeClient`, `StartErasesNothing`, `OnlyAskedRestarts` (`HostKnown`, `NothingErased`: the reset
  in `vAnimationStart` hits no armed animation, `StaysUpOnceBooted`) all follow from `BootInv`, which
  relates what exists to how far `app_main` is: the address from the end of the lookup, the client from
  `vMqttStart`, the semaphore from `vAnimationStart`, and no animation armed without a semaphore. A restart
  re-establishes it (`RebootStarts`).
* `BitTellsTheTruth`: `[]BitFollowsStation`. Not inductive: `Backlogs` lists the nine combinations of queued
  events, half-handled first event and station that can occur. That there are no more shows why reconnecting
  before clearing the bit is harmless: the event of the new connection waits behind.

* `StateIsTrue`: `[]StateTells`, by way of what the state is while `connect` waits and what a cut packet
  means (`StateInv`, `CutInv`).
* `KeepAliveReaches`: `[]BrokerHears`. `HearInv` bounds what the broker has heard last by `outAge`, which
  only a write that reaches an open socket resets, and `outAge` by the keep-alive plus the gap since the
  last `loop()`; a `loop()` that reads out a cut packet is the exception, and there the broker is silent.
* `TimeoutIsTrue`: `NoFalseTimeout`. `PingInv` bounds the age of an unanswered ping by the place of its
  answer: the broker sends it within `Answer`, and each packet before it in the backlog costs one call of
  `loop()`, a `MaxGap`. `ConnackInv` does the same for the CONNACK, `RoomInv` keeps the answer from being
  one too many in the backlog. `PromptEnough` is just what keeps the sum within the keep-alive.
* `AnswersAreOwn`: `[]SubackIsOwn`, from `OwnInv`: while the client waits, at most one subscription is on
  its way, in one direction or the other; where an answer can still be late, the client has given up the
  connection (`isconnected` is false), and the next one starts with nothing on its way.
* `NeverDeaf`: `[]SubscribedInLoop`. `GrantInv` says that a SUBACK on its way which grants its topic has
  left the topic in the broker's session, `SubsInv` that a client that still believes to be connected is
  subscribed to all topics up to the one it is at; the session outlives everything but the connection
  (`SessionLasts`).

The packets of `libraries/MQTT` are about strings of any length, so their proofs need induction, and the
library's theorems of induction take an operator as a parameter, which no installed prover can instantiate.
`SetInduction` says it of a set of numbers instead, from the least member of its complement
(`LessIsWellFounded`), and `Recursion` builds the functions that `FoldLeft` and the local recursive
functions of `MqttPacket` choose. From these follow how long what a loop writes is (`LengthsAdd`,
`FlattenedLength`).

* `RoundTrip`: the digits to the base 128 that `MQTTPacket_encode` writes add up to the length (`PartsSum`),
  only the last has no continuation bit, and so `MQTTPacket_decode` stops where the length ends.
* `RequestsFit`: `[]RequestFits`. `Remembered` says that the outcome kept is that of serializing a request;
  for each type of request `RequestsFramed` compares what its length function adds up with what its writers
  write, option by option (`ConnectFields`) and filter by filter (`TextFilters`), and `FramedFits` puts
  header and length before it. `Estimate` gives the sizes at which `MQTTPacket_len` is one too many.
* `UnderstandsAll`: `Understood(BrokerBytes(p)) = p` for each packet of a broker: fields at the places where
  the header and the length, of one to four bytes, leave them.
* `StaysInStep`: `[]InStep`. Far from inductive: it speaks of whole packets only. `StreamInv` has three
  parts. `NetworkInv`: what is on its way is the rest of the packets not yet delivered, cut where the setup
  allows. `ReaderInv`, for every cut: how many length bytes were counted and how far the multiplier has got,
  and that `len` and `remLen` stay in the buffer. `Tracked`, for the cuts a reader copes with: with `x[i]`
  for what has been delivered behind packet `i`, the reader stands in `x[Len(got)]`, all packets before were
  returned whole, the length read so far is the true one modulo the multiplier (`LengthSoFar`, `DigitRead`),
  and the buffer is the packet up to `len` (`BodySoFar`). That a reader copes with a cut is needed at the
  three steps that mistake nothing for something (`NoLengthByte`, `RestMissing`, the fifth length byte):
  `NothingMissing` excludes them.

## 7. Only model-checked

Liveness (`CommandsFinish`, `AnimationEnds`, `BootCompletes`, `EdgeIsSignalled`, `NodeStaysUp`, `GoesDark`,
`AllReturned`, `Obeyed`, `Recovers`, `SilenceNoticed`) are beyond the prover. Every other property of the
passing runs is stated by a theorem; `SteadyLight` has no fairness, so that the refinement `LightIsSteady`
is proved whole.

## 8. Not modelled

`blink.c` is commented out of `app_main`. UDP logging is output. `R1`, `R2` and delays only time frames.
`pwm_task` is never created. The `http_get` example in `D/wifi.c` is never started; flash partitions and the
transfer of an update are the library's. A signal published without a connection is lost or kept by the
client library, which is not in this repository.

Of the prototype's libraries: `HSBColor` is a pure function nothing else depends on. It constrains its
inputs and interpolates over segments of 120 degrees, so that it does not compute what `HSVToRGB.h` does.
QoS 1 and 2 of `MQTT::Client` (compiled out or unused by the sketch) and its topic filters
(`MAX_MESSAGE_HANDLERS` is 0), the formatter, `FP.h` and `YunMQTTClient.cpp` (another board) are left out,
and so are the bytes of PubSubClient's packets. Of openHAB: how `times.rules` computes the time of day, from
wall-clock times the Astro binding supplies and with strict comparisons that leave the state UNKNOWN at a
boundary itself; `animations.rules`, which sends fixed commands.

## 9. Plan

Done: the light (`Animation`, `PwmDriver`, `HsvCommand`), the routing, the sensor, the boot, the motion
rules, the prototype (`LightStrip`) with its library's packets, and PubSubClient.

Every safety property of the runs is proved.

1. `HomeMotion`, which composes `MotionRules` with `PirSensor`: the node publishes `sPIR/state`, the items
   listen to `sPIR/command`.
2. `TimeOfDay`: the cases of `rules/times.rules` over the events that trigger them.
