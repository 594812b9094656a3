----------------------------- MODULE PirSensor -----------------------------
(***************************************************************************)
(* The motion sensor of a node: gpio_isr_handler puts the pin of an edge   *)
(* into a bounded queue, gpio_task_example sets BIT0 of an event group for *)
(* the PIR pin, and pir_task publishes "1", waits out                      *)
(* PIR_WAIT_BETWEEN_SIGNALS_MS and clears the bit (gpio_interrupts.c,      *)
(* pir.c).  Both pins interrupt on any edge.  PirInit to PirSpec are named *)
(* so that NodeBoot_proofs can extend both modules.                        *)
(***************************************************************************)
EXTENDS Naturals, Sequences

CONSTANTS
  PIR, RNG_FINDER,  \* the two input pins
  Wired,            \* the pins something is connected to
  QueueLen,         \* length of gpio_evt_queue (10)
  MaxEdges,         \* bound on the edges of the pins
  MaxOutages        \* bound on the times the MQTT connection is lost

Pins == {PIR, RNG_FINDER}

ASSUME PirAssumption ==
  /\ PIR # RNG_FINDER /\ Wired \subseteq Pins
  /\ QueueLen \in Nat \ {0} /\ MaxEdges \in Nat /\ MaxOutages \in Nat

VARIABLES
  gpio_evt_queue,  \* the pins of edges not handled yet
  bit,             \* BIT0 of gpio_evt_grp_pir
  pc,              \* pir_task: "none" before vPirStart, "wait", "delay"
  connected,       \* is the MQTT client connected
  edges, outages,  \* what happened so far, against the bounds
  handled,         \* history: PIR edges the gpio task has handled
  signals          \* history: calls of vMqttPublish

pirVars == <<pc, signals>>
sensorVars == <<gpio_evt_queue, bit, connected, edges, outages, handled, pirVars>>

PirInit ==
  /\ gpio_evt_queue = <<>> /\ bit = FALSE
  /\ pc = "none" /\ connected = FALSE
  /\ edges = 0 /\ outages = 0
  /\ handled = 0 /\ signals = 0

Full == Len(gpio_evt_queue) >= QueueLen

(* An edge of either direction and gpio_isr_handler: xQueueSendFromISR does not wait and its   *)
(* result is not looked at.                                                *)
Edge(p) ==
  /\ p \in Wired /\ edges < MaxEdges
  /\ edges' = edges + 1
  /\ gpio_evt_queue' = IF Full THEN gpio_evt_queue ELSE Append(gpio_evt_queue, p)
  /\ UNCHANGED <<bit, connected, outages, handled, pirVars>>

(* One round of gpio_task_example; a range finder edge is ignored. *)
GpioTask ==
  /\ gpio_evt_queue # <<>>
  /\ IF Head(gpio_evt_queue) = PIR
     THEN bit' = TRUE /\ handled' = handled + 1
     ELSE UNCHANGED <<bit, handled>>
  /\ gpio_evt_queue' = Tail(gpio_evt_queue)
  /\ UNCHANGED <<connected, edges, outages, pirVars>>

(* Mutant: the bit is cleared before the first wait. *)
PirStartClears ==
  /\ pc = "none" /\ connected
  /\ pc' = "wait" /\ bit' = FALSE
  /\ UNCHANGED <<gpio_evt_queue, connected, edges, outages, handled, signals>>

(* vPirStart creates pir_task once MQTT is connected. *)
PirStart ==
  /\ pc = "none" /\ connected
  /\ pc' = "wait"
  /\ UNCHANGED <<gpio_evt_queue, bit, connected, edges, outages, handled, signals>>

(* The bit wakes pir_task, which publishes whether or not it is connected. *)
Publish ==
  /\ pc = "wait" /\ bit
  /\ signals' = signals + 1
  /\ pc' = "delay"
  /\ UNCHANGED <<gpio_evt_queue, bit, connected, edges, outages, handled>>

(* Mutant: the bit is left set. *)
KeepBit ==
  /\ pc = "delay"
  /\ pc' = "wait"
  /\ UNCHANGED <<gpio_evt_queue, bit, connected, edges, outages, handled, signals>>

(* The delay is over. *)
ClearBit ==
  /\ pc = "delay"
  /\ bit' = FALSE
  /\ pc' = "wait"
  /\ UNCHANGED <<gpio_evt_queue, connected, edges, outages, handled, signals>>

Connect ==
  /\ ~connected
  /\ connected' = TRUE
  /\ UNCHANGED <<gpio_evt_queue, bit, edges, outages, handled, pirVars>>

Disconnect ==
  /\ connected /\ outages < MaxOutages
  /\ connected' = FALSE /\ outages' = outages + 1
  /\ UNCHANGED <<gpio_evt_queue, bit, edges, handled, pirVars>>

PirTask == Publish \/ ClearBit
PirNext == PirTask \/ PirStart \/ GpioTask \/ Connect \/ Disconnect \/ \E p \in Pins : Edge(p)

PirFairness ==
  /\ WF_sensorVars(PirTask) /\ WF_sensorVars(PirStart)
  /\ WF_sensorVars(GpioTask) /\ WF_sensorVars(Connect)

PirSpec == PirInit /\ [][PirNext]_sensorVars /\ PirFairness

-----------------------------------------------------------------------------
(* Properties.                                                             *)

PirTypeOK ==
  /\ bit \in BOOLEAN /\ connected \in BOOLEAN
  /\ gpio_evt_queue \in Seq(Pins)
  /\ Len(gpio_evt_queue) <= QueueLen
  /\ pc \in {"none", "wait", "delay"}
  /\ {edges, outages, handled, signals} \subseteq Nat

(* Every signal stands for an edge of its own: the edges of one waiting    *)
(* time are reported once, and an edge that comes before the bit is        *)
(* cleared is not reported again after it.                                 *)
SignalPerEdge == signals <= handled

(* Every edge in the queue leads to a signal that is not older: it is      *)
(* published, or falls into the waiting time after a signal.               *)
EdgeIsSignalled ==
  (\E i \in DOMAIN gpio_evt_queue : gpio_evt_queue[i] = PIR) ~> pc = "delay"
=============================================================================
