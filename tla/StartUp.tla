--------------------------------- MODULE StartUp ---------------------------------
(***************************************************************************)
(* From the reset of both cores to tasks that serve: the hand-shake of the *)
(* cores (CM7/Core/Src/main.c, CM4/Core/Src/main.c), the start of          *)
(* FreeRTOS, the first steps of the tasks (freertos.c) and the only        *)
(* attempt to connect (mqtt_init).  How a connection is made is in         *)
(* MqttLink, what tasks do afterwards in the modules of the tasks.         *)
(***************************************************************************)
EXTENDS Naturals, FiniteSets

CONSTANTS
  Tasks,      \* i2c4_task, spi1_task, eth_task
  MaxTopics,  \* MQTT_MAX_SUBBED_TOPICS
  M4Works,    \* does the Cortex-M4 run its program?
  Troubled    \* may the broker start late, and mqtt_client_connect fail?

\* There is room for a topic of each task and two of the default task.
StartAssumption ==
  /\ IsFiniteSet(Tasks) /\ "default" \notin Tasks
  /\ MaxTopics \in Nat /\ Cardinality(Tasks) + 2 <= MaxTopics
  /\ M4Works \in BOOLEAN /\ Troubled \in BOOLEAN

VARIABLES
  m7,        \* main of the Cortex-M7
  m4,        \* main of the Cortex-M4
  clock,     \* is the system clock configured?
  notify,    \* has the M4 asked for the notification of the semaphore?
  event,     \* is an event pending for the M4?
  lwip, log, \* have MX_LWIP_Init and lwl_init run?
  link,      \* is the link up?
  broker,    \* does the broker listen?
  client,    \* mqtt_data.client: "none", "new", "connecting", "connected"
  flag,      \* mqtt_data.connected
  task,      \* place of each task
  topics     \* mqtt_data.num_topics

coreVars == <<m7, m4, clock, notify, event>>
netVars == <<lwip, log, link, broker, client, flag>>
taskVars == <<task, topics>>
vars == <<coreVars, netVars, taskVars>>

AllTasks == Tasks \cup {"default"}
M7Places == {"waitStop", "clock", "release", "waitWake", "tasks"}
M4Places == {"activate", "clear", "enter", "stopped", "main", "dead"}
Places == {"lwip", "log", "pool", "link", "connect", "poll", "announce",
           "subscribe", "serve"}

TypeOK ==
  /\ m7 \in M7Places /\ m4 \in M4Places
  /\ clock \in BOOLEAN /\ notify \in BOOLEAN /\ event \in BOOLEAN
  /\ lwip \in BOOLEAN /\ log \in BOOLEAN /\ link \in BOOLEAN
  /\ broker \in BOOLEAN /\ flag \in BOOLEAN
  /\ client \in {"none", "new", "connecting", "connected"}
  /\ task \in [AllTasks -> Places] /\ topics \in 0 .. MaxTopics

Init ==
  /\ m7 = "waitStop" /\ m4 = IF M4Works THEN "activate" ELSE "dead"
  /\ clock = FALSE /\ notify = FALSE /\ event \in BOOLEAN
  /\ lwip = FALSE /\ log = FALSE /\ link = FALSE /\ broker = ~Troubled
  /\ client = "none" /\ flag = FALSE
  /\ task = [t \in AllTasks |-> IF t = "default" THEN "lwip" ELSE "poll"] /\ topics = 0

-----------------------------------------------------------------------------
(* The cores *)

\* RCC_FLAG_D2CKRDY: the domain of the M4 has its clock.
D2Ready == m4 # "stopped"

\* Fault: the M7 does not wait for the M4.
StoppedNot == TRUE
\* Wait until CPU2 boots and enters stop mode.
Stopped == ~D2Ready

M7WaitStop ==
  /\ m7 = "waitStop" /\ Stopped
  /\ m7' = "clock"
  /\ UNCHANGED <<m4, clock, notify, event, netVars, taskVars>>

\* HAL_Init, SystemClock_Config
M7Clock ==
  /\ m7 = "clock"
  /\ clock' = TRUE /\ m7' = "release"
  /\ UNCHANGED <<m4, notify, event, netVars, taskVars>>

\* HAL_HSEM_FastTake, HAL_HSEM_Release
M7Release ==
  /\ m7 = "release"
  /\ event' = (event \/ notify) /\ m7' = "waitWake"
  /\ UNCHANGED <<m4, clock, notify, netVars, taskVars>>

\* Wait until CPU2 wakes up; then the peripherals and osKernelStart.
M7WaitWake ==
  /\ m7 = "waitWake" /\ D2Ready
  /\ m7' = "tasks"
  /\ UNCHANGED <<m4, clock, notify, event, netVars, taskVars>>

\* HAL_HSEM_ActivateNotification
M4Activate ==
  /\ m4 = "activate"
  /\ notify' = TRUE /\ m4' = "clear"
  /\ UNCHANGED <<m7, clock, event, netVars, taskVars>>

\* Fault: an event from before the reset is left.
ClearedNot == event
Cleared == FALSE

\* HAL_PWREx_ClearPendingEvent
M4Clear ==
  /\ m4 = "clear"
  /\ event' = Cleared /\ m4' = "enter"
  /\ UNCHANGED <<m7, clock, notify, netVars, taskVars>>

\* HAL_PWREx_EnterSTOPMode: WFE, which goes on with a pending event ...
M4Enter ==
  /\ m4 = "enter"
  /\ IF event THEN m4' = "main" /\ event' = FALSE ELSE m4' = "stopped" /\ UNCHANGED event
  /\ UNCHANGED <<m7, clock, notify, netVars, taskVars>>

\* ... or when one comes.
M4Wake ==
  /\ m4 = "stopped" /\ event
  /\ event' = FALSE /\ m4' = "main"
  /\ UNCHANGED <<m7, clock, notify, netVars, taskVars>>

M7 == M7WaitStop \/ M7Clock \/ M7Release \/ M7WaitWake
M4 == M4Activate \/ M4Clear \/ M4Enter \/ M4Wake

-----------------------------------------------------------------------------
(* The tasks *)

Running == m7 = "tasks"
Goes(t, place) == task' = [task EXCEPT ![t] = place]
Topics(t) == IF t = "default" THEN 2 ELSE 1

InitLwip ==
  /\ Running /\ task["default"] = "lwip"
  /\ lwip' = TRUE /\ Goes("default", "log")
  /\ UNCHANGED <<topics, coreVars, log, link, broker, client, flag>>

\* lwl_init, start_ADC_DMA
InitLog ==
  /\ Running /\ task["default"] = "log"
  /\ log' = TRUE /\ Goes("default", "pool")
  /\ UNCHANGED <<topics, coreVars, lwip, link, broker, client, flag>>

\* mqtt_init: the pool, the table, the client
InitClient ==
  /\ Running /\ task["default"] = "pool"
  /\ client' = "new" /\ Goes("default", "link")
  /\ UNCHANGED <<topics, coreVars, lwip, log, link, broker, flag>>

WaitLink ==
  /\ Running /\ task["default"] = "link" /\ link
  /\ Goes("default", "connect")
  /\ UNCHANGED <<topics, coreVars, netVars>>

\* mqtt_client_connect, whose result StartDefaultTask does not look at
TryConnect ==
  /\ Running /\ task["default"] = "connect"
  /\ client' = "connecting" \/ (Troubled /\ client' = "new")
  /\ Goes("default", "poll")
  /\ UNCHANGED <<topics, coreVars, lwip, log, link, broker, flag>>

\* Fault: the flag is not looked at.
ConnectedBlind == TRUE
\* mqtt_get_connection_status
Connected == flag

Poll(t) ==
  /\ Running /\ task[t] = "poll" /\ Connected
  /\ Goes(t, IF t = "default" THEN "announce" ELSE "subscribe")
  /\ UNCHANGED <<topics, coreVars, netVars>>

\* The default task publishes MQTT_CONNECT_PAYLOAD.
Announce ==
  /\ Running /\ task["default"] = "announce"
  /\ Goes("default", "subscribe")
  /\ UNCHANGED <<topics, coreVars, netVars>>

Subscribed == "serve"

\* mqtt_sub_topic; the default task has two topics.
Subscribe(t) ==
  /\ Running /\ task[t] = "subscribe"
  /\ Goes(t, Subscribed) /\ topics' = topics + Topics(t)
  /\ UNCHANGED <<coreVars, netVars>>

Task(t) == Poll(t) \/ Subscribe(t)
Default == InitLwip \/ InitLog \/ InitClient \/ WaitLink \/ TryConnect \/ Announce

-----------------------------------------------------------------------------
(* The network *)

LinkUp ==
  /\ lwip /\ ~link
  /\ link' = TRUE
  /\ UNCHANGED <<coreVars, lwip, log, broker, client, flag, taskVars>>

BrokerStarts ==
  /\ ~broker
  /\ broker' = TRUE
  /\ UNCHANGED <<coreVars, lwip, log, link, client, flag, taskVars>>

Answered == IF broker THEN "connected" ELSE "new"

\* mqtt_connection_cb
Answer ==
  /\ client = "connecting"
  /\ client' = Answered /\ flag' = (Answered = "connected")
  /\ UNCHANGED <<coreVars, lwip, log, link, broker, taskVars>>

Next ==
  \/ M7 \/ M4 \/ Default
  \/ \E t \in AllTasks : Task(t)
  \/ LinkUp \/ BrokerStarts \/ Answer

Spec == Init /\ [][Next]_vars

\* Cores and tasks run, the cable is in, the broker is started some time and answers.
FairSpec ==
  /\ Spec
  /\ WF_vars(M7) /\ WF_vars(M4) /\ WF_vars(Default)
  /\ \A t \in AllTasks : WF_vars(Task(t))
  /\ WF_vars(LinkUp) /\ WF_vars(BrokerStarts) /\ WF_vars(Answer)

-----------------------------------------------------------------------------
(* Properties *)

\* Neither core reaches its program before the clock of the system is configured.
ClockFirst == m4 = "main" \/ m7 = "tasks" => clock

\* No task publishes or subscribes, which takes the lock of lwIP and writes a record,
\* before lwIP, the log and the client exist and the broker has accepted.
SubscribedAfter ==
  \A t \in AllTasks :
    task[t] \in {"announce", "subscribe", "serve"} => lwip /\ log /\ broker /\ client = "connected"

\* What a program may rely on when it starts, and the table of topics has room for all.
StartSafe == TypeOK /\ ClockFirst /\ SubscribedAfter

\* Both cores get to their programs.
BothStart == <>(m4 = "main" /\ m7 = "tasks")

\* The M7 starts, with the M4 or without.
M7Starts == <>(m7 = "tasks")

\* With a broker that listens all tasks serve in the end.
AllServe == <>(\A t \in AllTasks : task[t] = "serve")
=============================================================================
