----------------------------- MODULE MqttClient -----------------------------
(***************************************************************************)
(* The MQTT client of code/CM7/Core/mqtt_client/mqtt_client.c: a table of  *)
(* subscribed topics shared by the application tasks, two callbacks that   *)
(* the TCP/IP thread runs for every incoming PUBLISH, and a pool of        *)
(* message blocks that travel through one OS queue per task.               *)
(*                                                                         *)
(* The actors are the application tasks and the TCP/IP thread.  All run at *)
(* osPriorityNormal and are time sliced, so a step of any of them may      *)
(* follow a step of any other, unless a task has masked the interrupts     *)
(* with taskENTER_CRITICAL.                                                *)
(***************************************************************************)
EXTENDS Integers, Sequences, FiniteSets

CONSTANTS
  Tasks,       \* application tasks; each owns one OS queue
  Starter,     \* the task that calls mqtt_init at start-up (the default task)
  Topics,      \* topic names
  Wants,       \* Wants[t]: the topics task t subscribes to
  Blocks,      \* blocks of the message pool
  Calls,       \* API calls the tasks make, beside mqtt_init at start-up
  MaxTopics,   \* MQTT_MAX_SUBBED_TOPICS
  QueueCap,    \* MQTT_OS_QUEUE_NUM_ELEMENTS
  MaxNesting,  \* bound on the nesting of critical sections
  NoTask, NoTopic, NoBlock, NoMsg,
  TCPIP        \* the TCP/IP thread, as a holder of the core lock

ASSUME TasksAssumption ==
  /\ Starter \in Tasks
  /\ NoTask \notin Tasks
  /\ TCPIP \notin Tasks \cup {NoTask}
ASSUME DataAssumption ==
  /\ NoTopic \notin Topics
  /\ NoBlock \notin Blocks
  /\ Wants \in [Tasks -> SUBSET Topics]
ASSUME SizeAssumption ==
  /\ MaxTopics \in Nat \ {0}
  /\ QueueCap \in Nat \ {0}
  /\ MaxNesting \in Nat \ {0}
ASSUME CallsAssumption == Calls \subseteq {"sub", "unsub", "publish", "reinit"}

VARIABLES
  \* mqtt_data and the index passed from one callback to the other
  slotName, slotQueue, valid, numTopics, connected, idx,
  \* the memory pool, the contents of its blocks, the queues, and the block
  \* each task has taken from its queue and not given back yet
  free, msg, queue, held,
  \* control state of the tasks: where each one is in the API, the topic of the
  \* call it is making, the topic ids it was given; has mqtt_init made the client
  pc, arg, ids, inited,
  \* lwIP: connection state, topics the broker was asked to deliver on this
  \* connection, holder of the core lock, PUBLISH being received, where the
  \* TCP/IP thread is, the block it is filling
  connState, requested, lock, rx, rxPc, rxBlock,
  \* the task that has masked the interrupts, and uxCriticalNesting
  crit, nest

tableVars == <<slotName, slotQueue, valid, numTopics, connected, idx>>
poolVars  == <<free, msg, queue, held>>
taskVars  == <<pc, arg, ids, inited>>
connVars  == <<connState, requested>>
rxVars    == <<rx, rxPc, rxBlock>>
osVars    == <<crit, nest>>
vars == <<tableVars, poolVars, taskVars, connVars, lock, rxVars, osVars>>

UNKNOWN_TOPIC == -1
Slots   == 0 .. MaxTopics - 1
TopicId == Slots \cup {UNKNOWN_TOPIC}

\* A message: the topic_id the callback writes in it, and the topic the broker
\* published it on, which stands for its payload.
Message == [topic_id : Slots, from : Topics]
ASSUME MessageAssumption == NoMsg \notin Message

\* A PUBLISH being received: its topic, and whether all its payload will be seen
\* by the call of the data callback for its last fragment.
NoRx    == [topic |-> NoTopic, whole |-> TRUE]

TableType ==
  /\ slotName \in [Slots -> Topics \cup {NoTopic}]
  /\ slotQueue \in [Slots -> Tasks \cup {NoTask}]
  /\ valid \in [Slots -> BOOLEAN]
  /\ numTopics \in 0 .. MaxTopics
  /\ connected \in BOOLEAN
  /\ idx \in TopicId
PoolType ==
  /\ free \in SUBSET Blocks
  /\ msg \in [Blocks -> Message \cup {NoMsg}]
  /\ queue \in [Tasks -> Seq(Blocks)]
  /\ held \in [Tasks -> Blocks \cup {NoBlock}]
TaskType ==
  /\ pc \in [Tasks -> {"ready", "subCore", "panic", "unsubLock", "unsubCore",
                       "unsubClear", "initSlots", "initLock", "initCore",
                       "pubLock", "pubCore"}]
  /\ arg \in [Tasks -> Topics \cup {NoTopic}]
  /\ ids \in [Tasks -> [Topics -> TopicId]]
  /\ inited \in BOOLEAN
LwipType ==
  /\ connState \in {"disconnected", "connecting", "connected"}
  /\ requested \in SUBSET Topics
  /\ lock \in Tasks \cup {TCPIP, NoTask}
  /\ rx \in [topic : Topics \cup {NoTopic}, whole : BOOLEAN]
  /\ rxPc \in {"blocked", "parse", "alloc", "put"}
  /\ rxBlock \in Blocks \cup {NoBlock}
OsType ==
  /\ crit \in Tasks \cup {NoTask}
  /\ nest \in 0 .. MaxNesting
TypeOK == TableType /\ PoolType /\ TaskType /\ LwipType /\ OsType

\* mqtt_data is static and zeroed; the pool is created by the first mqtt_init,
\* before any message can arrive.
Init ==
  /\ slotName = [i \in Slots |-> NoTopic]
  /\ slotQueue = [i \in Slots |-> NoTask]
  /\ valid = [i \in Slots |-> FALSE]
  /\ numTopics = 0
  /\ connected = FALSE
  /\ idx = UNKNOWN_TOPIC
  /\ free = Blocks
  /\ msg = [b \in Blocks |-> NoMsg]
  /\ queue = [t \in Tasks |-> <<>>]
  /\ held = [t \in Tasks |-> NoBlock]
  /\ pc = [t \in Tasks |-> "ready"]
  /\ arg = [t \in Tasks |-> NoTopic]
  /\ ids = [t \in Tasks |-> [p \in Topics |-> UNKNOWN_TOPIC]]
  /\ inited = FALSE
  /\ connState = "disconnected"
  /\ requested = {}
  /\ lock = NoTask
  /\ rx = NoRx
  /\ rxPc = "blocked"
  /\ rxBlock = NoBlock
  /\ crit = NoTask
  /\ nest = 0

-----------------------------------------------------------------------------
(* Critical sections and the TCP/IP core lock *)

\* While a task has masked the interrupts neither the tick nor PendSV runs, so
\* no other thread does.
CanRun(t) == crit \in {NoTask, t}
TcpipRuns == crit = NoTask

\* Fault: lwIP is called without the core lock, as mqtt_test does.
TakeCoreForgotten(t) == UNCHANGED lock

\* LOCK_TCPIP_CORE.  osMutexAcquire refuses with osErrorISR when the interrupts
\* are masked and sys_mutex_lock ignores what it returns: the caller goes on
\* without the lock.
TakeCore(t) ==
  \/ crit = t /\ UNCHANGED lock
  \/ crit = NoTask /\ lock = NoTask /\ lock' = t

\* Fault: a return between LOCK_TCPIP_CORE and UNLOCK_TCPIP_CORE.
ReleaseCoreForgotten(t) == UNCHANGED lock

\* UNLOCK_TCPIP_CORE, which fails in the same way under the mask.
ReleaseCore(t) ==
  \/ crit = t /\ UNCHANGED lock
  \/ crit = NoTask /\ lock = t /\ lock' = NoTask

\* The three calls that lock the core outside a critical section differ in what
\* they do inside it.
InCoreAfter == [unsubLock |-> "unsubCore", initLock |-> "initCore",
                pubLock |-> "pubCore"]

Goto(t, label) == pc' = [pc EXCEPT ![t] = label]
\* The call returns to the application.
Return(t) == Goto(t, "ready") /\ arg' = [arg EXCEPT ![t] = NoTopic]

EnterCore(t) ==
  /\ CanRun(t)
  /\ pc[t] \in DOMAIN InCoreAfter
  /\ TakeCore(t)
  /\ Goto(t, InCoreAfter[pc[t]])
  /\ UNCHANGED <<tableVars, poolVars, arg, ids, inited, connVars, rxVars, osVars>>

-----------------------------------------------------------------------------
(* mqtt_sub_topic *)

\* Fault: the search accepts a slot that is in use.
FirstFreeUnchecked(i) == \A j \in 0 .. i - 1 : valid[j]

FirstFree(i) == ~valid[i] /\ \A j \in 0 .. i - 1 : valid[j]

\* The call returns early without taskEXIT_CRITICAL: the mask stays.
SubReturnMasked(t) == UNCHANGED osVars

\* The path that ends with taskEXIT_CRITICAL.
SubExitCritical(t) ==
  /\ nest' = nest - 1
  /\ crit' = IF nest = 1 THEN NoTask ELSE t

\* Up to the call of mqtt_subscribe.  The table is full (by its counter): the
\* call returns ERR_MEM.  No slot is free: the assertion in the search fails.
\* Otherwise the name goes into the first free slot and mqtt_subscribe begins,
\* without the core lock since the interrupts are masked.
SubBegin(t, topic) ==
  /\ "sub" \in Calls /\ CanRun(t) /\ pc[t] = "ready" /\ connected
  /\ topic \in Wants[t] /\ ids[t][topic] = UNKNOWN_TOPIC
  /\ nest < MaxNesting
  /\ crit' = t /\ nest' = nest + 1
  /\ \/ /\ numTopics = MaxTopics
        /\ UNCHANGED <<slotName, pc, arg>>
     \/ /\ numTopics # MaxTopics
        /\ \A i \in Slots : valid[i]
        /\ Goto(t, "panic")
        /\ UNCHANGED <<slotName, arg>>
     \/ /\ numTopics # MaxTopics
        /\ \E i \in Slots :
             /\ FirstFree(i)
             /\ slotName' = [slotName EXCEPT ![i] = topic]
        /\ Goto(t, "subCore")
        /\ arg' = [arg EXCEPT ![t] = topic]
  /\ UNCHANGED <<slotQueue, valid, numTopics, connected, idx, poolVars, ids,
                 inited, connVars, lock, rxVars>>

\* mqtt_subscribe failed: ERR_CONN when disconnected, ERR_MEM when no request
\* or no room in the output ring is left.
SubFail(t) ==
  /\ pc[t] = "subCore"
  /\ SubReturnMasked(t)
  /\ Return(t)
  /\ UNCHANGED <<tableVars, poolVars, ids, inited, connVars, lock, rxVars>>

\* Fault: num_topics is not incremented.
CountSubForgotten == numTopics
CountSub == numTopics + 1

\* mqtt_subscribe accepted the request: the slot becomes valid.  Nothing ran
\* since SubBegin, so the first free slot is the one whose name was written.
SubDone(t) ==
  /\ pc[t] = "subCore" /\ connState # "disconnected"
  /\ \E i \in Slots :
       /\ FirstFree(i)
       /\ slotQueue' = [slotQueue EXCEPT ![i] = t]
       /\ valid' = [valid EXCEPT ![i] = TRUE]
       /\ ids' = [ids EXCEPT ![t][arg[t]] = i]
  /\ numTopics' = CountSub
  /\ requested' = requested \cup {arg[t]}
  /\ SubExitCritical(t)
  /\ Return(t)
  /\ UNCHANGED <<slotName, connected, idx, poolVars, inited, connState, lock, rxVars>>

-----------------------------------------------------------------------------
(* mqtt_unsub_topic *)

\* The checks of the id; when they fail the call returns and changes nothing.
UnsubBegin(t, topic) ==
  /\ "unsub" \in Calls /\ CanRun(t) /\ pc[t] = "ready"
  /\ ids[t][topic] \in Slots
  /\ valid[ids[t][topic]]
  /\ Goto(t, "unsubLock")
  /\ arg' = [arg EXCEPT ![t] = topic]
  /\ UNCHANGED <<tableVars, poolVars, ids, inited, connVars, lock, rxVars, osVars>>

\* mqtt_unsubscribe returns and the core is unlocked; on an error the slot stays.
UnsubLeaveCore(t) ==
  /\ CanRun(t) /\ pc[t] = "unsubCore"
  /\ ReleaseCore(t)
  /\ \/ /\ connState # "disconnected"
        /\ requested' = requested \ {slotName[ids[t][arg[t]]]}
        /\ Goto(t, "unsubClear")
        /\ UNCHANGED arg
     \/ /\ Return(t)
        /\ UNCHANGED requested
  /\ UNCHANGED <<tableVars, poolVars, ids, inited, connState, rxVars, osVars>>

\* Fault: the slot stays valid.
ClearSlotForgotten(i) == valid
ClearSlot(i) == [valid EXCEPT ![i] = FALSE]

\* The slot is given up after the core was unlocked, outside any critical
\* section; num_topics is left alone.
UnsubClear(t) ==
  /\ CanRun(t) /\ pc[t] = "unsubClear"
  /\ valid' = ClearSlot(ids[t][arg[t]])
  /\ ids' = [ids EXCEPT ![t][arg[t]] = UNKNOWN_TOPIC]
  /\ Return(t)
  /\ UNCHANGED <<slotName, slotQueue, numTopics, connected, idx, poolVars, inited, connVars,
                 lock, rxVars, osVars>>

-----------------------------------------------------------------------------
(* mqtt_init and mqtt_publish_wrapper *)

\* The Starter makes the first call; "reinit" lets any task call it again.  The
\* counter is cleared first, then the slots, without a critical section.
InitBegin(t) ==
  /\ CanRun(t) /\ pc[t] = "ready"
  /\ IF inited THEN "reinit" \in Calls ELSE t = Starter
  /\ numTopics' = 0
  /\ Goto(t, "initSlots")
  /\ UNCHANGED <<slotName, slotQueue, valid, connected, idx, poolVars, arg, ids,
                 inited, connVars, lock, rxVars, osVars>>

InitSlots(t) ==
  /\ CanRun(t) /\ pc[t] = "initSlots"
  /\ valid' = [i \in Slots |-> FALSE]
  /\ Goto(t, "initLock")
  /\ UNCHANGED <<slotName, slotQueue, numTopics, connected, idx, poolVars, arg,
                 ids, inited, connVars, lock, rxVars, osVars>>

\* The first call takes the core twice.  The first time mqtt_client_new makes
\* the client; once there is one, mqtt_client_connect: ERR_ISCONN unless
\* disconnected, else the connection is started or the attempt fails at once.
\* The connected flag is not touched.
InitLeaveCore(t) ==
  /\ CanRun(t) /\ pc[t] = "initCore"
  /\ ReleaseCore(t)
  /\ inited' = TRUE
  /\ \/ ~inited /\ Goto(t, "initLock") /\ UNCHANGED connState
     \/ inited /\ Goto(t, "ready") /\ UNCHANGED connState
     \/ inited /\ Goto(t, "ready") /\ connState = "disconnected" /\ connState' = "connecting"
  /\ UNCHANGED <<tableVars, poolVars, requested, arg, ids, rxVars, osVars>>

\* A publish refused with ERR_CONN changes nothing.
PublishBegin(t) ==
  /\ "publish" \in Calls /\ CanRun(t) /\ pc[t] = "ready" /\ connected
  /\ Goto(t, "pubLock")
  /\ UNCHANGED <<tableVars, poolVars, arg, ids, inited, connVars, lock, rxVars, osVars>>

PublishLeaveCore(t) ==
  /\ CanRun(t) /\ pc[t] = "pubCore"
  /\ ReleaseCore(t)
  /\ Goto(t, "ready")
  /\ UNCHANGED <<tableVars, poolVars, arg, ids, inited, connVars, rxVars, osVars>>

-----------------------------------------------------------------------------
(* Waiting in a task: the poll of the connection flag, then the loop of         *)
(* osMessageQueueGet ... mqtt_free_message                                     *)

\* Before its first call of the API a task polls the flag with osDelay.
Poll(t) == crit = NoTask /\ pc[t] = "ready" /\ ~connected /\ UNCHANGED vars

Get(t) ==
  /\ crit = NoTask /\ pc[t] = "ready" /\ held[t] = NoBlock
  /\ queue[t] # <<>>
  /\ held' = [held EXCEPT ![t] = Head(queue[t])]
  /\ queue' = [queue EXCEPT ![t] = Tail(queue[t])]
  /\ UNCHANGED <<tableVars, free, msg, taskVars, connVars, lock, rxVars, osVars>>

\* With the interrupts masked osMessageQueueGet refuses to wait and the loop of
\* the task calls it again, for ever.  A failed assertion never returns either.
Spin(t) ==
  /\ crit = t
  /\ pc[t] = "panic" \/ (pc[t] = "ready" /\ held[t] = NoBlock)
  /\ UNCHANGED vars

\* Fault: the block is not given back.
FreeAfterReturnForgotten(b) == free
FreeAfterReturn(b) == free \cup {b}

\* osMemoryPoolFree links the block into the free list through its own memory:
\* the message is gone.
Free(t) ==
  /\ CanRun(t) /\ pc[t] = "ready" /\ held[t] # NoBlock
  /\ free' = FreeAfterReturn(held[t])
  /\ msg' = [msg EXCEPT ![held[t]] = NoMsg]
  /\ held' = [held EXCEPT ![t] = NoBlock]
  /\ UNCHANGED <<tableVars, queue, taskVars, connVars, lock, rxVars, osVars>>

-----------------------------------------------------------------------------
(* The TCP/IP thread *)

\* tcpip_mbox_fetch returns a segment (or a timer) and the core is locked.
TcpipLock ==
  /\ TcpipRuns /\ rxPc = "blocked" /\ lock = NoTask
  /\ connState # "disconnected"
  /\ lock' = TCPIP
  /\ rxPc' = "parse"
  /\ UNCHANGED <<tableVars, poolVars, taskVars, connVars, rx, rxBlock, osVars>>

\* The segment is used up, perhaps in the middle of a PUBLISH.
TcpipUnlock ==
  /\ TcpipRuns /\ rxPc = "parse"
  /\ lock' = NoTask
  /\ rxPc' = "blocked"
  /\ UNCHANGED <<tableVars, poolVars, taskVars, connVars, rx, rxBlock, osVars>>

\* CONNACK accepted: mqtt_connection_cb sets the flag.
ConnectAccepted ==
  /\ TcpipRuns /\ rxPc = "parse" /\ connState = "connecting"
  /\ connState' = "connected"
  /\ connected' = TRUE
  /\ UNCHANGED <<slotName, slotQueue, valid, numTopics, idx, poolVars, requested, taskVars,
                 lock, rxVars, osVars>>

\* mqtt_close, for any reason: the broker refused or closed the connection, a
\* TCP error, a connect timeout.  mqtt_connection_cb only prints the reason.
\* lwIP connects with the clean-session flag: the broker forgets the topics.
ConnectionLost ==
  /\ TcpipRuns /\ rxPc = "parse" /\ connState # "disconnected"
  /\ connState' = "disconnected"
  /\ requested' = {}
  /\ rx' = NoRx
  /\ UNCHANGED <<tableVars, poolVars, taskVars, lock, rxPc, rxBlock, osVars>>

Match(i, topic) == valid[i] /\ slotName[i] = topic

\* Fault: the index of the previous message is not reset first.
NoMatchIndexKept == idx
\* Fault: the counter of the loop, which has run past the table.
NoMatchIndexPast == MaxTopics
NoMatchIndex == UNKNOWN_TOPIC

\* mqtt_incoming_publish_cb: the first frame of a PUBLISH has arrived.
PublishCb(topic) ==
  /\ TcpipRuns /\ rxPc = "parse" /\ rx = NoRx /\ connState = "connected"
  /\ rx' = [topic |-> topic, whole |-> TRUE]
  /\ \/ /\ \A i \in Slots : ~Match(i, topic)
        /\ idx' = NoMatchIndex
     \/ \E i \in Slots :
          /\ Match(i, topic) /\ \A j \in 0 .. i - 1 : ~Match(j, topic)
          /\ idx' = i
  /\ UNCHANGED <<slotName, slotQueue, valid, numTopics, connected, poolVars,
                 taskVars, connVars, lock, rxPc, rxBlock, osVars>>

\* mqtt_incoming_data_cb for a fragment that is not the last: ignored.
DataCbFragment ==
  /\ TcpipRuns /\ rxPc = "parse" /\ rx # NoRx
  /\ rx' = [rx EXCEPT !.whole = FALSE]
  /\ UNCHANGED <<tableVars, poolVars, taskVars, connVars, lock, rxPc, rxBlock, osVars>>

\* The checks of mqtt_incoming_data_cb for the last fragment: unknown topic, a
\* fragment longer than MQTT_PAYLOAD_MAX_SIZE (fits = FALSE), a slot that is no
\* longer valid; the message is dropped in each case.
Deliverable(fits) == idx # UNKNOWN_TOPIC /\ fits /\ valid[idx]

DataCbCheck(fits) ==
  /\ TcpipRuns /\ rxPc = "parse" /\ rx # NoRx
  /\ IF Deliverable(fits)
       THEN rxPc' = "alloc" /\ UNCHANGED rx
       ELSE rx' = NoRx /\ UNCHANGED rxPc
  /\ UNCHANGED <<tableVars, poolVars, taskVars, connVars, lock, rxBlock, osVars>>

\* Fault: the block stays in the free list.
FreeAfterAllocKept(b) == free
FreeAfterAlloc(b) == free \ {b}

\* osMemoryPoolAlloc with no wait, then the message is written in the block.
DataCbAlloc ==
  /\ TcpipRuns /\ rxPc = "alloc"
  /\ \/ /\ free = {}
        /\ rxPc' = "parse" /\ rx' = NoRx
        /\ UNCHANGED <<free, msg, rxBlock>>
     \/ \E b \in free :
          /\ free' = FreeAfterAlloc(b)
          /\ msg' = [msg EXCEPT ![b] =
                       [topic_id |-> idx, from |-> rx.topic]]
          /\ rxBlock' = b
          /\ rxPc' = "put"
          /\ UNCHANGED rx
  /\ UNCHANGED <<tableVars, queue, held, taskVars, connVars, lock, osVars>>

\* Fault: the queue takes more than it was created for.
QueueFullNever(t) == FALSE
QueueFull(t) == Len(queue[t]) >= QueueCap

\* osMessageQueuePut with no wait.  When the queue is full the callback returns
\* and forgets the block.
DataCbPut ==
  /\ TcpipRuns /\ rxPc = "put"
  /\ LET t == slotQueue[idx] IN
       IF QueueFull(t)
         THEN UNCHANGED queue
         ELSE queue' = [queue EXCEPT ![t] = Append(queue[t], rxBlock)]
  /\ rxBlock' = NoBlock
  /\ rxPc' = "parse"
  /\ rx' = NoRx
  /\ UNCHANGED <<tableVars, free, msg, held, taskVars, connVars, lock, osVars>>

-----------------------------------------------------------------------------
TaskStep(t) ==
  \/ \E topic \in Topics : SubBegin(t, topic) \/ UnsubBegin(t, topic)
  \/ SubFail(t) \/ SubDone(t)
  \/ UnsubLeaveCore(t) \/ UnsubClear(t)
  \/ InitBegin(t) \/ InitSlots(t) \/ InitLeaveCore(t)
  \/ PublishBegin(t) \/ PublishLeaveCore(t)
  \/ EnterCore(t)
  \/ Poll(t) \/ Get(t) \/ Free(t) \/ Spin(t)

TcpipStep ==
  \/ TcpipLock \/ TcpipUnlock
  \/ ConnectAccepted \/ ConnectionLost
  \/ \E topic \in Topics : PublishCb(topic)
  \/ DataCbFragment
  \/ \E fits \in BOOLEAN : DataCbCheck(fits)
  \/ DataCbAlloc \/ DataCbPut

Next == TcpipStep \/ \E t \in Tasks : TaskStep(t)

Spec == Init /\ [][Next]_vars

-----------------------------------------------------------------------------
(* Fairness *)

\* The threads are time sliced, a segment holds finitely many messages, and the
\* loop of every application task comes back to osMessageQueueGet and to
\* mqtt_free_message.  Nothing obliges a task to call the API, the network to
\* deliver, or the connection to last.
Fairness ==
  /\ SF_vars(TcpipUnlock) /\ WF_vars(DataCbAlloc) /\ WF_vars(DataCbPut)
  /\ \A t \in Tasks :
       /\ SF_vars(Get(t)) /\ SF_vars(Free(t)) /\ SF_vars(EnterCore(t))
       /\ WF_vars(SubFail(t) \/ SubDone(t))
       /\ WF_vars(InitSlots(t)) /\ WF_vars(InitLeaveCore(t))
       /\ WF_vars(PublishLeaveCore(t))
       /\ WF_vars(UnsubLeaveCore(t)) /\ WF_vars(UnsubClear(t))

FairSpec == Spec /\ Fairness

-----------------------------------------------------------------------------
(* Properties *)

QueuedBlocks(t) == {queue[t][i] : i \in DOMAIN queue[t]}
OwnedBlocks(t)  == QueuedBlocks(t) \cup ({held[t]} \ {NoBlock})
InUse == (UNION {OwnedBlocks(t) : t \in Tasks}) \cup ({rxBlock} \ {NoBlock})

\* A block is never free and in use, nor in use twice: not in two queues, twice
\* in one, in a queue and in the hands of a task, or filled by the callback
\* while somebody still has it.  (osMemoryPoolAlloc, osMessageQueuePut and Get,
\* mqtt_free_message.)
FreeNotInUse == free \cap InUse = {}
QueuesDisjoint ==
  \A t, u \in Tasks : \A i \in DOMAIN queue[t], j \in DOMAIN queue[u] :
    queue[t][i] = queue[u][j] => t = u /\ i = j
HeldOnce ==
  \A t, u \in Tasks :
    /\ held[t] # NoBlock => held[t] \notin QueuedBlocks(u)
    /\ held[t] # NoBlock /\ held[t] = held[u] => t = u
FillingUnshared ==
  rxBlock # NoBlock => \A t \in Tasks : rxBlock \notin OwnedBlocks(t)
NoAliasing == FreeNotInUse /\ QueuesDisjoint /\ HeldOnce /\ FillingUnshared

\* What a queue q of blocks means when the blocks hold m; the messages in the
\* queue of a task, and the one in its hands.
Values(m, q) == [i \in 1 .. Len(q) |-> m[q[i]]]
Inbox == [t \in Tasks |-> Values(msg, queue[t])]
Reading == [t \in Tasks |-> IF held[t] = NoBlock THEN NoMsg ELSE msg[held[t]]]
MailboxOf == INSTANCE Mailboxes WITH
  Messages <- Message, Cap <- QueueCap, inbox <- Inbox, reading <- Reading
\* The client implements the mailboxes: pointers to blocks behave as values, so
\* no message changes, is lost or is repeated between osMessageQueuePut and
\* mqtt_free_message.
ImplementsMailboxes == MailboxOf!Spec

\* A message in the queue or the hands of a task was published on a topic of
\* that task: the index left by one callback still meant the topic when the
\* other callback used it.
ToSubscriber ==
  \A t \in Tasks : \A b \in OwnedBlocks(t) : msg[b].from \in Wants[t]

\* ... and it carries the topic id the task was given for that topic.
Routed ==
  /\ ToSubscriber
  /\ \A t \in Tasks : \A b \in OwnedBlocks(t) :
       msg[b].topic_id = ids[t][msg[b].from]

\* Between the two callbacks of one message, and while its block is on the way
\* to a queue, the index stands for the topic of the message.
IdxFresh ==
  rx # NoRx /\ idx # UNKNOWN_TOPIC => valid[idx] /\ slotName[idx] = rx.topic

\* As long as a slot stays valid its name and its queue stay: the callbacks read
\* them without a critical section.
StableSlots ==
  [][\A i \in Slots : valid[i] /\ valid'[i] =>
        slotName'[i] = slotName[i] /\ slotQueue'[i] = slotQueue[i]]_vars

\* On a live connection the broker was asked for the topic of every valid slot
\* that its task is not giving up.
Served ==
  connState = "connected" =>
    \A i \in Slots : valid[i] =>
      \/ slotName[i] \in requested
      \/ \E t \in Tasks : pc[t] = "unsubClear" /\ ids[t][arg[t]] = i

CoreCalls == {"unsubCore", "initCore", "pubCore"}

\* A task that is inside lwIP with the interrupts enabled holds the core lock,
\* and neither the TCP/IP thread nor another such task is inside.
CoreOwned ==
  /\ rxPc # "blocked" <=> lock = TCPIP
  /\ \A t \in Tasks : pc[t] \in CoreCalls /\ crit # t => lock = t

\* A task came back from mqtt_sub_topic with the interrupts still masked, or
\* failed its assertion: no other thread runs again.
Hung == \E t \in Tasks : crit = t /\ pc[t] \in {"ready", "panic"}

\* A queued message is taken and its block given back, unless the system hangs.
MessagesConsumed ==
  \A b \in Blocks :
    (\E t \in Tasks : b \in QueuedBlocks(t)) ~> (b \in free \/ Hung)

\* Whoever locks the core unlocks it, unless the system hangs.
CoreReleased == \A h \in Tasks \cup {TCPIP} : lock = h ~> (lock # h \/ Hung)

\* The search of mqtt_sub_topic for a free slot never leaves the table: the
\* assertion in it holds.
SlotFound == \A t \in Tasks : pc[t] # "panic"

-----------------------------------------------------------------------------
(* What the documentation and the comments of the code say, and the code does  *)
(* not do: "Disagreements met" in README.md.                                   *)

\* As long as a slot of the table is free, mqtt_sub_topic does not refuse a
\* topic for lack of space.
FreeSlotAccepted == (\E i \in Slots : ~valid[i]) => numTopics < MaxTopics

\* The critical section of mqtt_sub_topic ends, whatever the call returns.
CriticalExited == \A t \in Tasks : crit = t ~> crit # t

\* No two threads are inside lwIP at the same time.
CoreExclusive ==
  /\ \A t \in Tasks : pc[t] \in CoreCalls \cup {"subCore"} => rxPc = "blocked"
  /\ \A t, u \in Tasks :
       {pc[t], pc[u]} \subseteq CoreCalls \cup {"subCore"} => t = u

\* mqtt_get_connection_status is true only while the client is connected.
ConnectedTruthful == connected => connState = "connected"

\* Only payloads the data callback saw whole go to a task.
OnlyCompleted == rxPc \in {"alloc", "put"} => rx.whole

\* Every block that is not free is on its way to a task.
NoLeak == free \cup InUse = Blocks

=============================================================================
