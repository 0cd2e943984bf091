# A verification of the MQTT firmware (FreeRTOS, lwIP, STM32H745)

The program is the firmware of an STM32H745: on the Cortex-M7 a default task and
three more tasks on FreeRTOS, an MQTT client on the RAW API of lwIP, drivers for
an accelerometer (I2C), a light sensor (SPI), the ADC and Ethernet, three
performance tests and a binary log; the Cortex-M4 only takes part in the start.
This directory holds TLA+ modules that model it, TLC configurations that check
them on small instances, and proofs for TLAPS.

## 1. The system

### Components

| Component | State | Operations | Talks to |
|---|---|---|---|
| MQTT client, `CM7/Core/mqtt_client/mqtt_client.c` | `mqtt_data`: table of topics (name, queue, valid), `num_topics`, `connected`, memory pool; `mqtt_sub_topic_idx` | `mqtt_init`, `mqtt_sub_topic`, `mqtt_unsub_topic`, `mqtt_publish_wrapper`, `mqtt_free_message`; callbacks `mqtt_incoming_publish_cb`, `mqtt_incoming_data_cb`, `mqtt_connection_cb` | calls lwIP under the core lock; called back by the TCP/IP thread; gives blocks to tasks through OS queues |
| Application tasks, `CM7/Core/Src/freertos.c` | own queue, topic ids | wait for the connection, subscribe, loop: get, act, free | MQTT client, drivers, tests, log |
| lwIP's MQTT application, `apps/mqtt/mqtt.c` | connection state, requests in flight, output ring, receive buffer, cyclic timer | connect, publish, subscribe, parse, send, timer | TCP of lwIP, the client's callbacks |
| TCP/IP thread, `api/tcpip.c`, `sys_arch.c` | mailbox, core lock | wait (unlocked), handle a message or a timeout (locked) | all of lwIP |
| CMSIS-RTOS2 on FreeRTOS, `cmsis_os2.c`, `port.c` | queues, mutexes, pools, nesting of critical sections | put, get, acquire, release, alloc, free | everything |
| TCP loopback with two tasks, `tests/tcp_loopback_multitask.c` | two queues of buffers, socket, stop flag | set up, receive, send, destroy | sockets |
| TCP loopback with one task, UDP data hose, `tests/` | socket | loop until told to stop | sockets, the queue of the ETH task |
| Log, `Middlewares/lwl/lwl.c` | ring of bytes, next index | `lwl_enter_record`, dump | every task and some interrupts; MQTT for the dump; the decoder on the host |
| Ethernet driver, `LWIP/Target/ethernetif.c`, `stm32h7xx_hal_eth.c` | descriptors, receive pool, semaphores | input thread, output, link thread, interrupt callbacks | lwIP, HAL |
| LIS3DHTR and PmodALS drivers, `i2c.c`, `spi.c` | handle of the waiting task, event flags | start a transfer, wait for a flag set by an interrupt | HAL, tasks |
| ADC, `adc.c` | two DMA buffers, filter | publish a buffer, compute a temperature | default task, DMA interrupts |
| Dual-core boot, `main.c` of both cores | clock flag, hardware semaphore | M4 sleeps, M7 configures and releases it | the other core |
| Host scripts | - | save and decode a dump, serve the loopback | MQTT, sockets |
| HAL, BSP, generated start-up | - | - | - |

All application tasks and the TCP/IP thread run at `osPriorityNormal`
(`TCPIP_THREAD_PRIO` is 24) and are time sliced: any step of one may follow any
step of another, except where a task has masked the interrupts. Three threads
differ: the input thread of the Ethernet driver (`osPriorityRealtime`), its link
thread (`osPriorityBelowNormal`) and the sending task of the loopback with two
tasks, which is above the task that spawns it.

### What is hard, and what makes each component correct

* **Client.** The topic table is shared by tasks, which change it in a critical
  section (subscribe) or outside any (unsubscribe, init), and by callbacks that
  read it with no protection but the core lock. A message is handled by two
  callbacks that pass an index through a static variable, and its segments may
  arrive far apart: the core lock is free in between. Messages travel as pointers
  to blocks of one pool. `taskENTER_CRITICAL` encloses a call that takes a mutex,
  and mutexes refuse under the mask. Correct means: a message in the hands of a
  task was published on a topic of that task and carries its id; blocks are never
  shared; messages are not changed, duplicated or reordered on the way; a valid
  topic is one the broker was asked for; whoever is in lwIP has its lock and gives
  it back; messages are consumed.
* **Tasks.** Every block that is taken is given back, on every path of a command (it is
  not on those of a malformed one);
  one stuck device must not starve the other tasks of the shared pool.
* **lwIP's MQTT.** Timers, answers, closing and connecting again in any order; a
  list of relative timeouts; a ring in which full and empty look alike; a stream
  that is cut at any byte. Correct means: one timer for a live connection and none
  otherwise, the application told once; only silent servers are cut off, and they
  are, when there is a keep-alive; deadlines are kept; bytes go out as accepted; messages come in whole.
* **Loopbacks.** Two tasks pass buffers in a circle and tell each other the end by
  a mark in a buffer. Correct means: buffers are in one place, the stream comes
  back in order, the end of the connection ends both tasks, and so does a stop command
  while the server goes on sending.
* **Log.** Records of several tasks wrap around a ring while a dump reads it.
  Correct means: records are whole, the decoder finds them.
* **Ethernet.** The receive pool may be empty, and who frees a buffer must then
  wake the input thread; sent packets are released lazily, and TCP will not send a
  segment again while the driver holds it. Correct means: buffers and references
  are conserved, reception resumes, output returns, lost segments go out again.
* **Device drivers.** A command reads a register and writes it back over several
  transfers, each of which may fail; an interrupt sets a flag that a task awaits,
  and logs first.
* **ADC.** The task reads two registers of a buffer that the DMA will write again;
  unsigned and fixed-point arithmetic at its edges.
* **Pool.** A semaphore and a free list changed one after the other.
* **Start.** Each core waits for the other one; the tasks poll for a connection
  that is attempted once.

## 2. The modules

| Module | Models | Checked by |
|---|---|---|
| `MqttClient` | the client, the calls of the tasks, the TCP/IP thread and the callbacks | `client_*` |
| `Mailboxes` | what the client promises a task: a bounded FIFO of message values | `ImplementsMailboxes` |
| `MqttLink` | a connection of lwIP's MQTT: states, cyclic timer, keep-alive, watchdog | `mqtt_app` |
| `MqttRing`, `MqttRequests` | the output ring; the requests in flight over it | `mqtt_app` |
| `MqttParser` | the parser of a stream cut into buffers anywhere | `mqtt_app` |
| `EthRx`, `EthTx` | reception with its pool; transmission with its ring, the link thread over both | `ethernet`, `ethtx_lost` |
| `TcpMulti`, `Loopback` | the loopback with two tasks, and what it promises the server | `eth_tests` |
| `EthTests` | the ETH task with the loopback of one task and the UDP data hose | `eth_tests` |
| `Lis3dhtr`, `AppTasks` | the driver of the accelerometer on its bus; the receive loops over it, the pool and the queues | `devices`, `tasks_isolated` |
| `SpiLog` | the light sensor, its interrupt, and the critical section of the log | `devices`, `spi_lux` |
| `AdcBuffer`, `AdcTemp` | the two buffers of the ADC; the arithmetic of a reading | `devices` |
| `CmsisPool` | the memory pool of CMSIS-RTOS2 | `system` |
| `StartUp` | both cores from the reset, and all tasks up to their loops | `system` |
| `Lwl`, `LogWindow` | the log byte by byte, its dump and its decoder; what a ring log promises | `system` |
| `MqttClientProofs` | theorems about the client | TLAPS |
| `NumberInduction` | induction over the natural numbers, for properties given as sets | TLAPS |
| `MqttAppProofs`, `MqttParserProofs` | theorems about lwIP's MQTT application | TLAPS |
| `EthernetProofs`, `EthTestsProofs`, `DevicesProofs`, `SystemProofs` | theorems about the runs of the same names | TLAPS |
| `MC*` | instances for TLC | |

Which lines a definition stands for is listed, definition by definition, under
`map` in `PROJECT.json`. Each operator whose comment begins with "Fault:" is a
wrong version of the operator after it. It is used by nothing in the model;
replacing the right one by it must break the property the project file names.

### MqttClient

`slotName`, `slotQueue`, `valid`, `numTopics`, `connected` are the fields of
`mqtt_data`, `idx` is `mqtt_sub_topic_idx`. `free`, `msg`, `queue`, `held` are the
pool, the contents of its blocks, the OS queues (pointers to blocks) and the block
each task is working on; a message is the topic id the callback writes and the
topic it was published on, which stands for the payload. `pc`, `arg`, `ids`,
`inited` are where a task is inside a call, with which topic, the ids it was given,
and whether `mqtt_init` has made the client: the first call takes the core once for
that, and once more for the connection. `connState`, `requested` are the connection
state of lwIP and the topics the broker was asked for; `lock` is the core lock;
`rx`, `rxPc`, `rxBlock` are the PUBLISH being received, the place of the TCP/IP
thread in the callbacks and the block it is filling. `crit`, `nest` are the task
that has masked the interrupts and `uxCriticalNesting`.

A step is what happens between two points where another thread can run and see
the difference. A call is cut at `LOCK_TCPIP_CORE` and `UNLOCK_TCPIP_CORE`, at the
assignments outside any critical section, and in `mqtt_sub_topic` before and after
`mqtt_subscribe`, although nothing else runs there: the cut makes visible that lwIP
is entered. The callbacks are cut after the checks, the allocation and the put. In
`TakeCore` and `ReleaseCore` a caller with masked interrupts passes without
touching the lock: `osMutexAcquire` returns `osErrorISR` when BASEPRI is set and
`sys_mutex_lock` ignores it.

### MqttLink, MqttRing, MqttRequests, MqttParser

The four are cut where the code is cut. `MqttLink` has `conn_state`, `cyclic_tick`,
`server_watchdog` and the timers in the list of timeouts; every callback and every
call of the application is an action, and time passes in seconds. The history
variables `told`, `idle`, `verdict` say what the application heard, how long nothing
was received and why the connection ended. `keepAlive` is chosen from a set at the
start and kept. The firmware uses 0, since `mqtt_init` clears the structure it connects
with (`mqtt_client.c:191`): the watchdog then never acts, TCP alone gives up (`GivesUp`),
and only when something is left to be acknowledged. A server that dies on an idle
connection is not noticed, and `DeadNoticed` says so (`Watched`). The run takes 0 and a
value that is not. The timer sends a PINGREQ when the ring has room for one (`Ping`). `MqttRing` has `put`, `get` and the bytes, numbered along the stream;
`MqttRequests` the list with its relative timeouts. `MqttParser` keeps the variables
of `mqtt_parse_incoming` (`in_offset`, `fixed_hdr_len`, `msg_idx`, `msg_rem_len`);
a message is the lengths of its parts, a chain of buffers their lengths, and one
turn of the loop is a step.

### EthRx, EthTx

Receive buffers are counted by where they are: `pool`, with the DMA (`owned`), with
a frame unread (`full`), kept by a descriptor over a restart (`kept`), in the hands
of the input thread (`frame`) or of lwIP (`inside`). `status` is `RxAllocStatus`,
`sem` the semaphore of the input thread, `state` the driver's. The freeing threads
are cut between the return of the buffer and the test of the flag. The DMA reports
that it ran out of descriptors once per suspension, as the interrupt is raised once.
The pointer of the DMA after a restart is not modelled. In `EthTx` a packet is a
name, and takes one descriptor, as the packets of this firmware do; the descriptors
with their OWN bits, the lazy release and `CurrentPacketAddress` are as in the HAL.
The link thread sends an ARP packet when the link comes up (`ethernetif.c:863`), without the
core lock, so that it may be in `low_level_output` together with the TCP/IP thread. The
history variable `crossed` says that this has happened. What happens to the shared fields
of the HAL then is modelled as it is, and refutes `RefsExact`; so the part of the run with
a flapping link goes up to the first crossing and stops there (`Crossing`).

### TcpMulti, EthTests

`free`, `chan` are the two queues, `data`, `type` the contents of the buffers (bytes
numbered along the stream) and their mark; `rxPc`, `txPc` the places of the two
tasks with their buffers. The sender is the more urgent task, hence the Ethernet
task runs only when the sender is blocked or gone. A pointer that was never
assigned is `Wild`, a write through it is visible as such. In `EthTests` the two
other tests are loops of the ETH task. In both modules nothing makes `lwip_connect` return, which the TODO at
`tcp_loopback_simple.c:41` says it may not do, nor the server send: a test that waits in
either for ever (`Waits`) reacts to no command, and the properties except it. A connection
that fails is only printed, and the test goes on with a socket whose first read fails. After the end of the connection `lwip_read` returns 0 once and then -1.

### Lis3dhtr, AppTasks, SpiLog

A register is the set of its bits at 1; a command is its sequence of transfers
(`Transfers`), a transfer starts, is ended by an interrupt with or without an error,
and sets a thread flag. `AppTasks` puts the receive loops over it: the I2C4 task
with every command, the default task for the tasks without a device, one pool, and
the callback that fills the queues. `CTRL_REG4_HR` has position 2 and width 2 in the
header, so that the command `set res 2` sets a bit of the self-test field, and the
model does as the code does. In `SpiLog` the interrupt that ends a receive writes a
record first; `halted` is the loop of `configASSERT` in `vPortEnterCritical`.
`Recording = FALSE` is the log before `lwl_init`, whose records return at once.

### AdcBuffer, AdcTemp

The DMA writes the two registers of a sample into one buffer while the other one is
published by the interrupt; the task reads the pointer and then the registers.
`Slack` bounds the samples that fit into one reading: TIM2 triggers once per second.
`main.c:108` enables the data cache and nothing invalidates the buffers, so that the task
reads through a copy that is made and dropped at any time (`line`; lines are never written
back). The history variable `fresh` says that no old copy of the buffer was there as the
task read the pointer.
`AdcTemp` computes with widths and calibration values that are constants, so that
the edges lie among few values. A signed overflow wraps as in the build. A reading
before the first conversion is refused by the functions and the result ignored by
the task, which publishes 0.

### CmsisPool, StartUp, Lwl

`CmsisPool` is cut between the semaphore and the list, and before the count is
compared in a free. `StartUp` has the places of both `main`s, the event and the
notification of the semaphore, and the polling tasks. `Lwl` writes a record byte by
byte in its critical section and dumps chunk by chunk; the operators `Unwrapped` and
`Decoded` are `mqtt/sub.py` and `scripts/lwl_decoder.py`.

## 3. The runs

`tlc -config <run>.cfg <module>` for each. Runs over several components begin with
one that a rigid variable `part` chooses, and the others stay where they start.
The components of a run share no state in the models, so that every behaviour of
their product is one of the part with stutters, and nothing is lost; a property
that begins with `part = ...` is about that part, any other one holds trivially in
the parts it does not mention. Where components do interact they are composed in
one module: tasks with driver and pool (`AppTasks`), interrupt with log (`SpiLog`),
requests with ring (`MqttRequests`), client with lwIP's thread (`MqttClient`).

| Run, module | Checks | Shows |
|---|---|---|
| `client_app`, `MCMqttClient` | `Routed`, `IdxFresh`, `NoAliasing`, `ImplementsMailboxes` | the calls `freertos.c` makes, connection losses included: messages reach a subscriber with the right id, blocks have one owner, the client is one bounded FIFO of values per task |
| `client_dynamic`, `MCMqttClient` | `TypeOK`, `CoreOwned`, `Served`, `SlotFound`, `StableSlots` | the same with unsubscriptions, three topics for two slots |
| `client_live`, `MCMqttClient` | `MessagesConsumed`, `CoreReleased` | messages are consumed and the core lock is released |
| `mqtt_app`, `MCMqttApp` | `LinkSafe`, `HealthyKept`, `DeadNoticed` | one timer per live connection, the application told once; live servers kept, dead ones noticed with keep-alive, and without it while something is to be acknowledged |
| | `RingSafe`, `RequestsSafe`, `RequestsEnd` | bytes go out as accepted (until the ring is once full to the last byte), deadlines add up, unanswered requests end |
| | `ParserSafe`, `Parsed` | messages come in whole wherever the stream is cut and whatever chains it comes in, connections are closed for a cause, the parser ends but at one place, which `Endless` describes |
| `ethernet`, `MCEthernet` | `BuffersSafe`, `SteadySupplied`, `SteadyResumes` | no receive buffer is lost over a flapping link; while the link is steady an exhausted pool is refilled and reception goes on |
| | `TxSafe`, `OutputReturns`, `Retransmitted` | references are exact, with a flapping link up to the first crossing of two outputs; with a steady one `low_level_output` returns; with traffic a lost segment is sent again |
| `eth_tests`, `MCEthTests` | `TestsSafe`, `ImplementsLoopback`, `MultiEnds`, `SingleEnds` | buffers, sockets and blocks are conserved, the stream comes back, the end of the connection ends a test, and a stop command one that does not wait for ever in `lwip_connect` or `lwip_read` |
| `devices`, `MCDevices` | `DriverSafe`, `TasksHandled`, `LossesKnown` | commands leave the other fields alone also when transfers fail; tasks come back for the next message; a block is lost at a full queue and at a malformed option, and nowhere else |
| | `LightSafe`, `AdcSafe`, `TempSafe` | records are whole, one flag per receive; a reading is of one sample, the newest, unless an old copy was in the cache; the fixed-point arithmetic agrees from the first calibration point up |
| `system`, `MCSystem` | `PoolSafe`, `StartSafe`, `AllServe`, `DumpDecodes`, `ImplementsLog` | the pool, the start of both cores and all tasks, the log |

Four runs refute what a document or a comment says of the code:

| Run | Property | What happens |
|---|---|---|
| `client_misrouted` | `ToSubscriber` | unsubscribe and subscribe between the two callbacks: the message goes to the wrong task |
| `tasks_isolated` | `Isolation` | a failed transfer stops the I2C4 task for ever, its queue keeps blocks of the pool, and another task gets no message for lack of one |
| `spi_lux` | `LuxAnswered` | the interrupt that ends a receive enters a critical section, whose assertion halts the system; the same calls are commented out in `i2c.c` |
| `ethtx_lost` | `Retransmitted` | without other traffic nothing releases the sent segment, so that TCP never sends it again; the Known Issues of the README and the TODO at `tcp_loopback_simple.c:41` describe such stalls |

### Disagreements met

Besides the four runs, TLC refutes the following while the rest of this directory
is as it is: take the module by itself with the specification, the constants and
the property given. For the client the module is `MCMqttClient`, with the model
values of `client_misrouted.cfg`, `QueueCap = 1`, one block, `Wants <- WantsOne` and
two topics unless something else is said; a deadlock is not an error there
(`CHECK_DEADLOCK FALSE`).

| Property | The source says | The code does | Module and constants |
|---|---|---|---|
| `FreeSlotAccepted` | topics can be subscribed while there is free space (`README.md:138`) | `mqtt_unsub_topic` never decrements `num_topics`, a table with a free slot refuses (`mqtt_client.c:226`) | client, `Calls = {"sub", "unsub"}`, `MaxTopics = 1` |
| `CriticalExited` | the section protects the changes (`mqtt_client.c:220`) | the error returns at `:227` and `:242` skip `taskEXIT_CRITICAL` | client, `FairSpec`, `Calls = {"sub"}`, `MaxTopics = 1` |
| `CoreExclusive` | lwIP needs core locking (`README.md:100`) | `mqtt_sub_topic` locks the core under the mask, which is refused and ignored (`mqtt_client.c:239`) | client, `Calls = {"sub"}`, `MaxTopics = 2` |
| `ConnectedTruthful` | `mqtt_get_connection_status` tells whether the client is connected (`README.md:35`) | the flag stays after a disconnection (`mqtt_client.c:149`) | client, as before |
| `OnlyCompleted` | "handling only completed payloads" (`mqtt_client.c:88`) | the last fragment of a longer payload passes as a whole one | client, as before |
| `NoLeak` | the receiving task frees (`README.md:142`) | a message for a full queue loses its block (`mqtt_client.c:128`) | client, as before, two blocks |
| `SlotFound` | the search finds a slot "if num_topics was handled correctly" (`mqtt_client.c:234`), `mqtt_init` "can be called at any time" (`README.md:133`) | `mqtt_init` clears counter and slots with no critical section | client, `Calls = {"sub", "reinit"}`, `Wants <- WantsApp`, three topics, `MaxTopics = 1` |
| `FitsMeansKept` | "1 if message will fit" (`mqtt.c:511`) | a message that fills the ring makes put equal to get, that is an empty ring | `MqttRing`, `RingSpec`, `Size = 6`, `Lengths = {2, 3, 5}`, `SndBuf = 4`, `Numbers = 11` |
| `CompleteMeansSent` | callback "when publish is complete or has timed out" (`mqtt.c:1097`) | any acknowledged byte completes every QoS 0 request (`:998`) | `MqttRequests`, `Spec`, `Size = 2`, `Lengths = {1}`, `SndBuf = 1`, `Numbers = 3`, `MaxRequests = 3`, `Interval = 2`, `Timeout = 6`, `PacketIds = 1 .. 4` |
| `IdleLongEnough` | unresponsive after 1.5 times the keep-alive (`mqtt.c:600`) | ticks are counted, the first of which may come at once | `MqttLink`, `Spec`, `Interval = 5`, `ConnectTimeout = 20`, `KeepAlives = {12}` |
| `DeadAlwaysNoticed` | "keep alive time in seconds, 0 to disable keep alive functionality" (`mqtt.h:75`) | with the 0 of `mqtt_client.c:191` a dead server on an idle connection is not noticed, and the flag of `README.md:35` stays | as before, `FairSpec`, `KeepAlives = {0}` |
| `CompleteOrFull` | "Complete MQTT message received or buffer full" (`mqtt.c:663`) | a cut variable header is taken for a short message and closes the connection | `MqttParser`, `Spec`, `BufLen = 8`, `Base = 6`, `Topics = {1}`, `Payloads = {0, 1, 9}`, `MaxBuffers = 1`, `MaxLength = 10`, `MaxMessages = 1` |
| `NoDataNoCall` | no data callback without a payload (`mqtt.h:161`) | it is called with length 0 (`mqtt.c:768`), and `mqtt_client.c` relies on it | as before |
| `ChainParsed` | "PBUF chain of received data" (`mqtt.c:837`) | behind the first buffer of a chain the length is 0 or negative and the loop never ends (`:902`) | as before, `FairSpec`, `Payloads = {9}`, `MaxBuffers = 2` |
| `FieldsSet` | "Sets a field of a register" (`LIS3DHTR.h:70`) | bits are only set, never cleared: disabling does nothing | `Lis3dhtr`, `DeviceSpec`, `Rates = {0, 5}`, `Scales = {2}`, `MayFail = FALSE` |
| `StatusReturned` | "@retval HAL status" (`LIS3DHTR.c:42`) | after a bus error the driver waits for ever (`:66`) | as before, `DeviceFairSpec`, `MayFail = TRUE` |
| `OnlyFullQueueLoses` | the receiving task frees (`README.md:142`) | malformed commands `continue` without freeing (`freertos.c:298`) | `AppTasks`, `Spec`, `devices.cfg` with `Offered = {"BDU"}` |
| `RepliesMeasured` | "Replies on topic" (`README.md:185`) | the result of the driver is ignored and an unset variable published (`freertos.c:324`) | as before, `Offered = {"get_temp"}`, `MayFail = TRUE` |
| `Awaited` | the free signals after an exhausted pool (`ethernetif.c:592`) | in the link thread all buffers can be freed before the flag is set (`:889`) | `EthRx`, `Spec`, `ethernet.cfg` |
| `OutputReturns` | "ERR_OK if the packet could be sent an err_t value if the packet couldn't be sent" (`ethernetif.c:369`) | `HAL_ETH_ERROR_BUSY` is never cleared, and a stopped driver is tried for ever (`:430`) | `EthTx`, `FairSpec`, `ethtx_lost.cfg` with `Flaps` true |
| `RefsExact` | "Save the packet pointer to release." (`stm32h7xx_hal_eth.c:1010`) | the link thread sends without the core lock, and the saved pointer is overwritten (`ethernetif.c:863`) | `EthTx`, `Spec`, `ethtx_lost.cfg` with `Flaps` true |
| `DestroyAssertionsHold` | `assert( osMessageQueueDelete( network_message_free ) )` (`tcp_loopback_multitask.c:209`) | osOK is 0, the assertion fails | `TcpMulti`, `Spec`, `eth_tests.cfg` with `AssertsOn = TRUE` |
| `MarksOwnMessage` | "connection closed, send message to the tx task" (`tcp_loopback_multitask.c:108`) | the mark is written through a pointer that is unassigned or no longer the receiver's | as before, `Resets`, `AssertsOn` false |
| `StopObeyed` | "until given a command to stop" (`README.md:29`) | after a failed write the sender keeps its buffer, and the receiver waits for one for ever | `TcpMulti`, `FairSpec`, `Size = 1`, `Batch = 1`, `Numbers = 4`, `Resets = TRUE` |
| `RunsUntilStop` | the same | the data hose returns when one `sendto` fails (`udp_test.c:68`) | `EthTests`, `Spec`, `Pool = 3`, `Slots = 2`, `Batch = 2`, `Ending = FALSE`, `Failing = TRUE` |
| `SnapshotSent` | "send the snapshot through mqtt" (`lwl.c:161`) | the live buffer is published chunk by chunk (`:171`) | `Lwl`, `Spec`, as in `MCSystem` |
| `M7Starts` | "or timeout" (`main.c:112`) | there is none | `StartUp`, `FairSpec`, as in `MCSystem` with `M4Works`, `Troubled` false |
| `AllServe` | "connect to mqtt" (`freertos.c:184`) | a first attempt that fails is the only one; all tasks poll for ever | `StartUp`, `FairSpec`, `Troubled = TRUE` |
| `AlwaysCurrent`, `AlwaysPaired` | the Ethernet driver invalidates the cache before it reads (`ethernetif.c:931`) | the ADC buffers are cached and never invalidated (`adc.c:29`) | `AdcBuffer`, `Spec`, `Samples = 6`, `Slack = 1` |
| `RepliesOnTopic` | `float` replies on `sensor/temp/float` (`README.md:190`) | it publishes on `sensor/temp/int` (`freertos.c:232`) | as before |
| `Agree` | `reduced` only "minimizes divide operations" (`README.md:189`) | the difference wraps below the first calibration point (`adc.c:245`) | `AdcTemp`, `Spec`, as in `MCDevices` with `Temps = 6 .. 20`, `Vdds = 15 .. 17` |
| `Smoothed` | "smooth the results" (`adc.c:274`) | 0 stands for no reading yet, and a filtered 0 is replaced | as before, `Reduced = FALSE` |

### Bounds, and why they are enough

* Client: two tasks give every pair of actors, with the TCP/IP thread as the third.
  Three topics and two slots make the table full and a name not found; two topics on
  one queue is the default task's case. Queues of one or two are full soon, one block
  or three are soon used up. `MaxNesting` bounds only the error path that never
  leaves the critical section. Blocks are symmetric in `client_app`, which checks
  safety only.
* `mqtt_app`: a keep-alive of 0 is the firmware's; 10 is a multiple of the interval with a
  patience of three ticks; the connect timeout is four. A ring of 6 with messages of 2, 3 and 5 wraps at
  every position, with a send buffer that takes part of a message. Two items, three
  identifiers and a timeout of two ticks make the list full and its head elapse behind
  another one. The parser's buffer of 8 is smaller than the longest message and larger
  than the shortest; the stream comes in chains of up to two buffers of up to four bytes, cut
  anywhere; two messages meet in one chain, and a payload that overflows the buffer behind
  the first buffer of a chain reaches `Endless`. `MaxTimers` is one more than the invariant admits.
* `ethernet`: two descriptors wrap the ring, and a third output waits; five buffers leave three for lwIP, so that
  pool and ring are empty in every combination; two threads free.
* `eth_tests`: two buffers of two bytes and batches of two packets make partial writes
  and the look for a command fall between any two steps. Bytes are numbered modulo 7,
  more than can be on the way.
* `devices`: malformed commands are among those offered, and the cache is filled and emptied at
  any time; two rates and scales with and without common bits; four blocks are fewer
  than two queues of two and two tasks need. `MaxBytes = 11` is the longest record of
  the firmware. `Slack = 1` is what the timer allows. The arithmetic is scaled to 8 and
  20 bits, with registers on both sides of both calibration values.
* `system`: three threads for two blocks; a log of 4 bytes with records of 2 and 3 wraps
  at every position, in chunks of 3. The start has the real number of tasks and slots.

`CHECK_DEADLOCK FALSE` stands in `mqtt_app` (the stream of the parser ends), `eth_tests`
and `devices` (a server that fell silent, a task that waits for ever after a bus error)
and `system` (everything has started), and in `spi_lux` (the halt).

### Fairness

A task whose step stays possible takes it, since all are time sliced; a step that needs
a queue, the core lock or a semaphore that others take in between is strongly fair,
because those serve the threads that wait in order. The TCP/IP thread leaves the core,
since a segment is finite. Nothing obliges a task to call the API, the network to deliver
or a connection to last. In particular:

* `MqttLink`: time passes and timers fire; a live server acknowledges; an attempt to
  connect ends; without keep-alive TCP gives up at last on a server that does not
  acknowledge (`TCP_MAXRTX`), for which it must get its segment back from the driver, that
  is `Retransmitted`. Nobody sends anything by fairness.
* `EthRx`, `EthTx`: the input thread is the most urgent one; the threads that free are
  strongly fair, since a frame inside lwIP is handed on and freed. The DMA sends while the
  link is up. That the tasks keep sending is the constant `Traffic`, whose role is the
  difference between `ethernet` and `ethtx_lost`.
* `TcpMulti`, `EthTests`: the Ethernet task is below the sender, so its steps are strongly
  fair, and the server reads. Nothing is assumed of `lwip_connect`, nor that the server
  sends: a call of `lwip_read` returns when the connection has ended.
* `Lis3dhtr`, `AppTasks`: a transfer ends; whether without an error is `MayFail`.
* `StartUp`: both cores run, the link comes up, the broker answers.

`MessagesConsumed` and `CoreReleased` except the states (`Hung`) in which a task came
back from `mqtt_sub_topic` with the interrupts masked; `CriticalExited` shows they are
reachable.

## 4. The proofs

`tlapm <module>.tla` for each. The constants are any sets and any sizes, under the
assumptions the modules state; no bound of a configuration is used.

`MqttClientProofs`, for any calls of any tasks:

* `TypeCorrect`: `[]TypeOK`. `TypeOK` is not inductive: `num_topics + 1` stays in range
  only because a task in `mqtt_subscribe` has seen room for it and nobody ran since, and
  the data callback uses `idx` as a slot because it checked it. `CallInv` and `ReceiveInv`
  say so.
* `NeverAliased`: `[]NoAliasing`, from `Apart`, the same property block by block.
* `MailboxesImplemented`: `Spec => ImplementsMailboxes`. Besides `Apart` it needs
  `Written`: a block on its way holds a message. The lemmas `ValuesTail`, `ValuesAppend`,
  `ValuesSame` say what becomes of the meaning of a queue when a block is taken, added,
  or written elsewhere.
* `CoreOwnedAlways`, `SlotsStable`: `[]CoreOwned` and `StableSlots`.

For tasks that keep to some of the calls, in the same module:

* `SlotAlwaysFound`: with `mqtt_init` called once, `[]SlotFound`. `SetupInv` says that
  init is over before a slot is valid; `SearchInv` that the counter bounds the valid
  slots, which is all that is left of an exact count when tasks unsubscribe. The premise
  is needed, see `SlotFound` under "Disagreements met".
* `MessagesRouted`, `IndexFresh`: when tasks only subscribe and publish, `[]Routed` and
  `[]IdxFresh`.
  `RegisterInv` ties a valid slot to the task that knows its number, `DeliverInv` a block
  to the task that will read it. The run `client_misrouted` shows the premise is needed.

and with unsubscriptions:

* `AlwaysServed`: with `mqtt_init` called once and no topic wanted by two tasks, which
  holds of `freertos.c`, `[]Served`. `OwnerInv` is the reverse of `RegisterInv`: a number a
  task knows is a valid slot of its own, which is what keeps an unsubscription from
  withdrawing somebody else's topic; `LiveInv` that the table is empty until a connection
  was accepted. With a topic in two slots the second premise fails and so does the
  property, since one task's unsubscription then ends the other one's subscription.

`MqttAppProofs`: `LinkKept`, `[]LinkSafe`, for every interval, timeout and set of keep-alive times.
`LinkInv` adds to the conjuncts of `LinkSafe` the bounds of the counters: a tick is only
counted after the test that ends the connection, so that `cyclic * Interval` stays below
the timeout or the keep-alive and `watchdog * Interval` within the patience. `TicksFit` and
`TicksSeconds` are the arithmetic of it. `LiveServerKept`, `[]HealthyKept`: the watchdog is
never ahead of the ticks until the next keep-alive message, but while such a message waits
for room in the ring or for its acknowledgement, which comes before the next tick (`Guarded`). The premise `Patient`
is that a tick lies between the keep-alive time and the patience, and that two ticks are
two seconds apart at least: `PatientEnough` has it for an interval up to half the keep-alive
time and a second, that is for the interval of 5 s from a keep-alive of 8 s up; this
firmware asks for none, which is the other case. Without it there are counterexamples: an
interval and a keep-alive of a second end the connection while the answer is on its way.

In the same module, `StreamKept`, `[]RingSafe`, for every size of the ring and the send
buffer, and messages of any lengths. The ring is read as the piece of the stream that
begins with the byte after the last one handed to TCP (`Whole`); a message is a piece
behind it (`Added`), sending takes some bytes off its front, whichever way the ring and the
room of TCP cut them (`Taken`, `SendKept`). Numbers of bytes and places are added modulo two
different numbers: `Once` and `Shift` are what is needed of that.

In the same module, `DeadlinesAlways`, `[]RequestsSafe`, for every limit on the requests,
every interval, and every timeout that is a whole number of ticks. The invariant `Timed` is
local: the relative time of a request is what it has left (`TimeLeft` of its age) less what
the one before it has left. Each operation on the list is then a lemma about neighbours:
taking a request out (`TakenList`), the loop of `mqtt_tcp_sent_cb` (`CompletedList`), adding
one (`Appended`), and a tick (`TickedList`), whose loop ends the requests that have no more
left than the interval (`ElapsedList`). That the times add up to the deadline is `SumOfTimes`,
needed once, at the end. It is an induction over the list. The induction theorems of the
library take an operator, which the provers cannot instantiate; `EveryNumber`, in
`NumberInduction`, states induction for a property given as a set, and is proved from the
least element of the numbers that lack it (`LeastNumber`).

`MqttParserProofs`: `ParserAlways`, `[]ParserSafe`, for every stream of messages of any
lengths, every buffer and every cut into chains. `ParserInv` says that the buffers hold no
more than is to come of the stream (`Supplied`), where the parser is in the fixed header,
or how much of the message is to come (`HeaderRead`), and what the application has got of
a message of which so many bytes came in (`CallsMade`). A part is either the end of the
message (`NextMessageKept`) or followed by more of it (`SameMessageKept`); one that is
rejected is the first, and cut or too long (`RejectedForCause`). `SumTail` takes the head
off the bytes of a list, by `EveryNumber` again.

`EthernetProofs`: `BuffersKept`, `[]BuffersSafe`, for every size of pool and ring; and
`ExhaustedAwaited`, that while the link does not change an exhausted pool has a buffer
still to be freed. The latter needs
`SteadyInv`: a build that fails leaves a buffer to be freed, since there are at least as
many buffers as descriptors, and between the failed allocation and the flag only the
input thread runs, which is the most urgent one, so that no free slips in between.
`Awaited` under "Disagreements met" is the same statement with the link thread, which is
less urgent than the threads that free: the argument breaks there.
`SteadySuppliedAlways` adds to it that the DMA is not left without descriptors (`Rebuilt`).
`TxKept`, `[]TxSafe`, for every size of the transmit ring and every set of packets: with a
steady link at every time, with a flapping one up to the first crossing of two outputs,
behind which it does not hold. `TxInv` says that one thread at most is inside (`Alone`, until
`crossed`; nobody takes a lock for it), that the next descriptor is
the one behind the window but for the thread that has just filled it (`IndexInv`), and that
a packet has as many references as descriptors that hold it and a thread that passes it
on (`RefsCounted`); `Following` is the arithmetic of the ring. With a steady link `Quiet` says
that the link thread stays out of `low_level_output`, so that nothing crosses.

`EthTestsProofs`: `TestsKept`, `[]TestsSafe`, for any number and size of buffers, batch,
queue and pool. That a buffer is in one place is not inductive: a sender that died of a
failed write keeps one. `TcpInv` counts it there (`Has`), so that every step of a session
keeps the sum at one. A queue that lacks a buffer therefore has a place for it
(`Room1`, from `CountOnce`), which is why a put never waits, and the end mark is the only
pointer that may be none of the buffers. For the tests with one task `OneInv` balances
the blocks of the pool with the queue. `LoopbackImplemented`,
`SuiteSpec => ImplementsLoopback`, from the same invariant: the bytes queued are the pieces
in the buffers put together up to an end mark (`OpenList`, `FlatIs`), a list of pieces
grows at one end and shrinks at the other (`FlatAppend`, `FlatHead`), and what an end mark
leaves of it is a beginning (`QueuedMarked`, from `FlatCut`). That a buffer is in one place
is what makes the step work in which it is filled: it is then in no other part of the backlog
(`Untouched`). Each step is one lemma, named after it (`LoopedRead`, `LoopedWrite`, ...).

`SystemProofs`: `PoolKept`, `[]PoolSafe`. The invariant counts (`SemExact`): the
semaphore is the size of the pool less the blocks in use, the units taken whose block is
still to be found, and the blocks listed whose unit is still to be given. Threads that
free hold distinct blocks (`FreesDistinct`); `UnitFound` concludes that who got a unit
finds a block, `Accepted` that a free is never refused. `StartKept`, `[]StartSafe`, for any
tasks and any table with room for their topics: `CoresInv` follows the two cores
through the stop mode, `TasksInv` says what is up by the time a task is where it is, and
`TopicsCounted` that the table has the topics of the tasks that serve. `LogImplemented`:
`SuiteSpec => ImplementsLog`, for every size of the ring and all records. The last bytes
written, read backwards from the index, are the window of `LogWindow`; a byte appends to
it and drops the oldest one, and `RingInv` says that nobody writes while no record has an
owner.

In the same module, `DumpDecoded`, `[]DumpDecodes`, for every size of the ring and of a
chunk and all records. Two invariants lead to it. `FrameInv` says of the ring, read
backwards from the index, that each id tells where the next one is: a byte written makes
all others one older, and either begins a record or goes on with the last one, of which
`Pending` bytes are missing. `CopyInv` says that while nothing was logged and nothing
refused, the host has the first bytes of the ring, and the chunk those behind them. At the
end of such a dump the file is the ring. If the bytes behind the index are not all zero the
script rotates it into the window of the log. If they are, it takes the ring for one that
never wrapped, which may be wrong: a full log may begin with arguments that are zero. Then
the file is the log with these zeros behind it instead of before it (`Padded`), and the
decoder, which begins at the first id and stops at what is none, reads the same
(`PaddedDecoded`). The decoder is a recursive function over the bytes, from the end to the
beginning: that there is one (`ReadingExists`) and that it reads the same records from both
files (`PaddedRecords`) are inductions by `EveryNumber`.

`DevicesProofs`:

* `DriverKept`: `[]DriverSafe`. Between the two registers of a command a task has read one
  and not written it yet; the invariant says that a register that was read is as it is
  kept but for the bits of the command (`Kept`), that the reads of a command come before
  its writes, and which transfer the flag belongs to. The masks and values of every command
  are finite sets of bits below 8 (`Bit`, `FieldsFit`, `CommandsShaped`). Above the driver,
  every block of the pool is free, in a queue or with its task (`OwnedSum`).
* `LossesAlways`: `LossesKnown`, an action property, from the same sum before and after the
  step: what leaves the sum is the one block of a full queue, or the one the I2C4 task holds
  at a malformed option. That it were the first alone, `OnlyFullQueueLoses`, is under
  "Disagreements met".
* `LightKept`: `[]LightSafe`. With the log, interrupts are masked exactly while a record is
  written, until the assertion of the kernel stops the program in the handler; without it, a
  command waits for one transfer, one handler or one flag.
* `AdcKept`: `[]AdcSafe`. The DMA turns to the buffer that is being read once at most, and
  then does not start on it. A copy made during the reading is therefore a copy of what is in
  memory, and only one from before (`fresh` is false then) may be old.
* `TempKept`: `[]TempSafe`, the width of the words being a constant as well. `Reciprocal`
  and `Agreement` bound what the fixed-point division loses. The premise, that every
  register of the model is in the range of the sensor, is true of the registers of the run,
  and of the real ones up to 13421 counts above the first calibration point; beyond it the
  product in 32 bits overflows.

## 5. What is only model-checked

* `IdxFresh` and `Routed` with unsubscriptions do not hold (`client_misrouted`); every
  other invariant of the client is proved.
* All liveness: `MessagesConsumed`, `CoreReleased`, `DeadNoticed`, `RequestsEnd`, `Parsed`,
  `SteadyResumes`, `OutputReturns`, `Retransmitted`, `MultiEnds`, `SingleEnds`,
  `TasksHandled`, `AllServe`. TLAPS has neither `ENABLED` nor a way to use fairness.

## 6. What is not modelled, and why

* `mqtt_test` is called by nobody; it is the fault `TakeCoreForgotten`.
  `compare_mqtt_payload` compares two strings: which command a payload is stands for it.
* A second call of `mqtt_init` (`"reinit"`) is an action of `MqttClient`, covered by the
  proofs that hold for any calls, but no run of the firmware makes it; with it `SlotFound`
  fails.
* The contents of messages, topics and headers; wills and TLS, which are not used.
* lwIP below its MQTT application: TCP, IP, ARP and the other messages and timers of the
  TCP/IP thread. They appear as what the modules may be told: bytes acknowledged, a
  connection lost, a segment delivered, a packet referenced.
* Queues, mutexes and flags of FreeRTOS are atomic operations with the results the code
  can get, without waiting lists or priorities inherited; the scheduler is the choice of
  the next step, restricted where priorities or masked interrupts restrict it.
* `HAL`, BSP, newlib hooks, clock set-up, generated start-up code: register accesses
  without a protocol of their own. Where a driver of this firmware depends on one (the
  transmit ring, a transfer and its interrupt, the hardware semaphore, the stop mode), it
  is in the module of the driver. They are also nearly all of the repository's lines.
* Initialisation of MAC and PHY, speed and duplex, packets of several descriptors, the
  write-back of dirty cache lines, floating-point conversions, formatting of replies.
* Host scripts: the decoding is part of `Lwl`, the socket server the environment of
  `TcpMulti`. How the decoder finds the records' descriptions in the sources is not.

## 7. Plan

Every safety property of the passing runs has its theorem. Next: the
list of timeouts of lwIP (`core/timeouts.c`) as a module of its own under `MqttLink`, with
its theorem.
