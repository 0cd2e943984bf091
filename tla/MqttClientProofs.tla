---------------------------- MODULE MqttClientProofs ----------------------------
(***************************************************************************)
(* Theorems about MqttClient for any tasks, topics, blocks and sizes: what *)
(* holds whatever calls the tasks make, and then what holds when they keep *)
(* to some of them, as those of code/CM7/Core/Src/freertos.c do: the       *)
(* search for a free slot when mqtt_init is called once, and the way of a  *)
(* message to its subscriber when nobody unsubscribes either.  When tasks  *)
(* unsubscribe as they like, the table and the numbers the tasks were      *)
(* given describe each other, and the broker knows every topic of the      *)
(* table.                                                                  *)
(***************************************************************************)
EXTENDS MqttClient, FiniteSetTheorems, SequenceTheorems, TLAPS

-----------------------------------------------------------------------------
(* Type correctness *)

\* What the code knows at a control point: the topic of the call a task is
\* making, and that the counter left room when it entered mqtt_subscribe, where
\* nobody else runs.
CallInv ==
  \A t \in Tasks :
    /\ pc[t] \in {"subCore", "unsubLock", "unsubCore", "unsubClear"} => arg[t] \in Topics
    /\ pc[t] = "subCore" => crit = t /\ nest > 0 /\ numTopics < MaxTopics

\* Between the checks of the data callback and its end a message is being
\* received, its topic has a slot, and it has a block once one was allocated.
ReceiveInv ==
  /\ rx # NoRx => rx.topic \in Topics
  /\ rxPc \in {"alloc", "put"} => rx # NoRx /\ idx \in Slots
  /\ rxPc = "put" <=> rxBlock # NoBlock

TypeInv == TypeOK /\ CallInv /\ ReceiveInv

LEMMA NoRxType == NoRx \in [topic : Topics \cup {NoTopic}, whole : BOOLEAN]
BY DEF NoRx

LEMMA TypeInvInit == Init => TypeInv
<1> SUFFICES ASSUME Init PROVE TypeInv
  OBVIOUS
<1> USE TasksAssumption, DataAssumption, SizeAssumption DEF Init
<1>1. TableType
  <2>1. numTopics \in 0 .. MaxTopics
    OBVIOUS
  <2>2. idx \in TopicId
    BY DEF TopicId
  <2>3. valid \in [Slots -> BOOLEAN]
    OBVIOUS
  <2> QED BY <2>1, <2>2, <2>3 DEF TableType
<1>2. PoolType
  <2>1. <<>> \in Seq(Blocks)
    BY EmptySeq
  <2> QED BY <2>1 DEF PoolType
<1>3. TaskType
  BY DEF TaskType, TopicId
<1>4. LwipType
  BY NoRxType DEF LwipType
<1>5. OsType
  BY DEF OsType
<1>6. CallInv
  BY DEF CallInv
<1>7. ReceiveInv
  BY DEF ReceiveInv
<1> QED BY <1>1, <1>2, <1>3, <1>4, <1>5, <1>6, <1>7 DEF TypeInv, TypeOK

LEMMA TaskStepTypeInv ==
  ASSUME TypeInv, NEW t \in Tasks, TaskStep(t)
  PROVE  TypeInv'
<1> USE TasksAssumption, DataAssumption, SizeAssumption
<1> USE DEF TypeInv, TypeOK, TableType, PoolType, TaskType, LwipType, OsType, CallInv, ReceiveInv, CanRun, Goto, Return,
        tableVars, poolVars, taskVars, connVars, rxVars, osVars
<1>1. CASE \E topic \in Topics : SubBegin(t, topic)
  <2>1. PICK topic \in Topics : SubBegin(t, topic)
    BY <1>1
  <2>2. TableType'
    BY <2>1 DEF SubBegin
  <2>3. OsType' /\ nest' > 0 /\ crit' = t
    BY <2>1 DEF SubBegin
  <2>4. pc[t] = "ready" /\ CanRun(t) /\ UNCHANGED <<idx, rx, rxPc, rxBlock, numTopics>>
    BY <2>1 DEF SubBegin
  <2>5. \/ pc' = pc /\ arg' = arg
        \/ pc' = [pc EXCEPT ![t] = "panic"] /\ arg' = arg
        \/ /\ numTopics < MaxTopics
           /\ pc' = [pc EXCEPT ![t] = "subCore"] /\ arg' = [arg EXCEPT ![t] = topic]
    BY <2>1 DEF SubBegin
  <2>6. PoolType' /\ LwipType' /\ ReceiveInv'
    BY <2>1 DEF SubBegin
  <2>7. TaskType'
    <3>1. inited' = inited /\ ids' = ids
      BY <2>1 DEF SubBegin
    <3> HIDE DEF TableType, PoolType, LwipType, OsType, CallInv, ReceiveInv
    <3>2. arg' \in [Tasks -> Topics \cup {NoTopic}]
      BY <2>5
    <3> QED BY <2>5, <3>1, <3>2
  <2>8. CallInv'
    BY <2>3, <2>4, <2>5
  <2> QED BY <2>2, <2>3, <2>6, <2>7, <2>8
<1>2. CASE \E topic \in Topics : UnsubBegin(t, topic)
  BY <1>2 DEF UnsubBegin
<1>3. CASE SubFail(t)
  BY <1>3 DEF SubFail, SubReturnMasked
<1>4. CASE SubDone(t)
  BY <1>4 DEF SubDone, SubExitCritical, CountSub, Slots, TopicId
<1>5. CASE UnsubLeaveCore(t)
  <2>1. requested' \in SUBSET Topics
    BY <1>5 DEF UnsubLeaveCore
  <2>2. lock' \in Tasks \cup {TCPIP, NoTask}
    BY <1>5 DEF UnsubLeaveCore, ReleaseCore
  <2>3. \/ pc' = [pc EXCEPT ![t] = "unsubClear"] /\ arg' = arg
        \/ pc' = [pc EXCEPT ![t] = "ready"] /\ arg' = [arg EXCEPT ![t] = NoTopic]
    <3> HIDE DEF TypeInv
    <3> QED BY <1>5 DEF UnsubLeaveCore
  <2>4. TableType' /\ PoolType' /\ OsType' /\ ReceiveInv'
    <3>1. UNCHANGED <<tableVars, poolVars, rxVars, osVars>>
      BY <1>5 DEF UnsubLeaveCore
    <3> QED BY <3>1
  <2>5. LwipType'
    BY <1>5, <2>1, <2>2 DEF UnsubLeaveCore
  <2>6. TaskType'
    <3>1. UNCHANGED <<ids, inited>>
      BY <1>5 DEF UnsubLeaveCore
    <3> HIDE DEF TableType, PoolType, LwipType, OsType, CallInv, ReceiveInv
    <3> QED BY <2>3, <3>1
  <2>7. CallInv'
    <3>1. pc[t] = "unsubCore" /\ UNCHANGED <<crit, nest, numTopics>>
      BY <1>5 DEF UnsubLeaveCore
    <3> QED BY <2>3, <3>1
  <2> QED BY <2>4, <2>5, <2>6, <2>7
<1>6. CASE UnsubClear(t)
  <2>1. valid' \in [Slots -> BOOLEAN]
    BY <1>6 DEF UnsubClear, ClearSlot
  <2>2. ids' \in [Tasks -> [Topics -> TopicId]]
    BY <1>6 DEF UnsubClear, TopicId
  <2> QED BY <1>6, <2>1, <2>2 DEF UnsubClear
<1>7. CASE InitBegin(t)
  BY <1>7 DEF InitBegin
<1>8. CASE InitSlots(t)
  BY <1>8 DEF InitSlots
<1>9. CASE InitLeaveCore(t)
  <2>1. /\ pc[t] = "initCore" /\ inited' \in BOOLEAN
        /\ UNCHANGED <<tableVars, poolVars, requested, arg, ids, rxVars, osVars>>
    BY <1>9 DEF InitLeaveCore
  <2>2. \E label \in {"ready", "initLock"} : pc' = [pc EXCEPT ![t] = label]
    BY <1>9 DEF InitLeaveCore
  <2>3. connState' \in {connState, "connecting"}
    BY <1>9 DEF InitLeaveCore
  <2>4. lock' \in Tasks \cup {TCPIP, NoTask}
    BY <1>9 DEF InitLeaveCore, ReleaseCore
  <2>5. TableType' /\ PoolType' /\ OsType' /\ ReceiveInv' /\ LwipType'
    BY <2>1, <2>3, <2>4
  <2>6. TaskType'
    <3> HIDE DEF TableType, PoolType, LwipType, OsType, CallInv, ReceiveInv
    <3> QED BY <2>1, <2>2
  <2>7. CallInv'
    BY <2>1, <2>2
  <2> QED BY <2>5, <2>6, <2>7
<1>10. CASE PublishBegin(t)
  BY <1>10 DEF PublishBegin
<1>11. CASE PublishLeaveCore(t)
  BY <1>11 DEF PublishLeaveCore, ReleaseCore
<1>12. CASE EnterCore(t)
  BY <1>12 DEF EnterCore, TakeCore, InCoreAfter
<1>13. CASE Get(t)
  BY <1>13, HeadTailProperties DEF Get
<1>14. CASE Free(t)
  BY <1>14 DEF Free, FreeAfterReturn
<1>15. CASE Poll(t) \/ Spin(t)
  BY <1>15 DEF Poll, Spin, vars
<1> QED
  BY <1>1, <1>2, <1>3, <1>4, <1>5, <1>6, <1>7, <1>8, <1>9, <1>10, <1>11, <1>12,
     <1>13, <1>14, <1>15 DEF TaskStep

LEMMA TcpipStepTypeInv ==
  ASSUME TypeInv, TcpipStep
  PROVE  TypeInv'
<1> USE TasksAssumption, DataAssumption, SizeAssumption, NoRxType
<1> USE DEF TypeInv, TypeOK, TableType, PoolType, TaskType, LwipType, OsType, CallInv, ReceiveInv, TcpipRuns,
        tableVars, poolVars, taskVars, connVars, rxVars, osVars
<1>1. CASE TcpipLock
  BY <1>1 DEF TcpipLock
<1>2. CASE TcpipUnlock
  BY <1>2 DEF TcpipUnlock
<1>3. CASE ConnectAccepted
  BY <1>3 DEF ConnectAccepted
<1>4. CASE ConnectionLost
  BY <1>4 DEF ConnectionLost
<1>5. CASE \E topic \in Topics : PublishCb(topic)
  BY <1>5 DEF PublishCb, NoRx, TopicId, NoMatchIndex
<1>6. CASE DataCbFragment
  BY <1>6 DEF DataCbFragment, NoRx
<1>7. CASE \E fits \in BOOLEAN : DataCbCheck(fits)
  <2>1. PICK fits \in BOOLEAN : DataCbCheck(fits)
    BY <1>7
  <2>2. CASE Deliverable(fits)
    <3>1. idx \in Slots
      BY <2>2 DEF Deliverable, TopicId
    <3> QED BY <2>1, <2>2, <3>1 DEF DataCbCheck
  <2>3. CASE ~Deliverable(fits)
    <3>1. rx' = NoRx /\ rxPc' = "parse"
      BY <2>1, <2>3 DEF DataCbCheck
    <3> QED BY <2>1, <3>1 DEF DataCbCheck
  <2> QED BY <2>2, <2>3
<1>8. CASE DataCbAlloc
  <2>1. CASE free = {}
    BY <1>8, <2>1 DEF DataCbAlloc
  <2>2. CASE \E b \in free : /\ free' = FreeAfterAlloc(b)
                            /\ msg' = [msg EXCEPT ![b] = [topic_id |-> idx, from |-> rx.topic]]
                            /\ rxBlock' = b
                            /\ rxPc' = "put"
                            /\ UNCHANGED rx
    <3>1. [topic_id |-> idx, from |-> rx.topic] \in Message
      BY <1>8 DEF DataCbAlloc, Message
    <3>2. msg' \in [Blocks -> Message \cup {NoMsg}]
      BY <2>2, <3>1
    <3> QED BY <1>8, <2>2, <3>2 DEF DataCbAlloc, FreeAfterAlloc
  <2> QED BY <1>8, <2>1, <2>2 DEF DataCbAlloc
<1>9. CASE DataCbPut
  <2>1. rxBlock \in Blocks
    BY <1>9 DEF DataCbPut
  <2>2. \A u \in Tasks : queue[u] \in Seq(Blocks) /\ Append(queue[u], rxBlock) \in Seq(Blocks)
    BY <2>1, AppendProperties
  <2>3. queue' \in [Tasks -> Seq(Blocks)]
    <3> DEFINE u == slotQueue[idx]
    <3>1. queue' = queue \/ queue' = [queue EXCEPT ![u] = Append(queue[u], rxBlock)]
      BY <1>9 DEF DataCbPut
    <3>2. CASE u \in Tasks
      <4>1. Append(queue[u], rxBlock) \in Seq(Blocks)
        BY <2>2, <3>2
      <4> HIDE DEF u, TableType, TaskType, LwipType, OsType, CallInv, ReceiveInv
      <4> QED BY <3>1, <3>2, <4>1
    <3>3. CASE u \notin Tasks
      <4>1. queue' = queue
        BY <3>1, <3>3
      <4> QED BY <4>1
    <3> QED BY <3>2, <3>3
  <2> QED BY <1>9, <2>3 DEF DataCbPut
<1> QED
  BY <1>1, <1>2, <1>3, <1>4, <1>5, <1>6, <1>7, <1>8, <1>9 DEF TcpipStep

LEMMA TypeInvStep == TypeInv /\ [Next]_vars => TypeInv'
<1> SUFFICES ASSUME TypeInv, [Next]_vars PROVE TypeInv'
  OBVIOUS
<1>1. CASE TcpipStep
  BY <1>1, TcpipStepTypeInv
<1>2. CASE \E t \in Tasks : TaskStep(t)
  BY <1>2, TaskStepTypeInv
<1>3. CASE UNCHANGED vars
  BY <1>3 DEF TypeInv, TypeOK, TableType, PoolType, TaskType, LwipType,
              OsType, CallInv, ReceiveInv, vars, tableVars, poolVars,
              taskVars, connVars, rxVars, osVars
<1> QED BY <1>1, <1>2, <1>3 DEF Next

LEMMA TypeInvAlways == Spec => []TypeInv
BY TypeInvInit, TypeInvStep, PTL DEF Spec

\* Every variable keeps its type in every reachable state: in particular
\* num_topics never exceeds the table and the nesting counter never goes below
\* zero.
THEOREM TypeCorrect == Spec => []TypeOK
<1>1. TypeInv => TypeOK
  BY DEF TypeInv
<1> QED BY <1>1, TypeInvAlways, PTL

-----------------------------------------------------------------------------
(* Blocks of the pool *)

\* NoAliasing, block by block.
FreeApart ==
  /\ \A t \in Tasks : held[t] \notin free
  /\ rxBlock \notin free
  /\ \A t \in Tasks : \A i \in 1 .. Len(queue[t]) : queue[t][i] \notin free
QueuesApart ==
  \A t, u \in Tasks : \A i \in 1 .. Len(queue[t]), j \in 1 .. Len(queue[u]) :
    queue[t][i] = queue[u][j] => t = u /\ i = j
HeldApart ==
  /\ \A t, u \in Tasks : \A i \in 1 .. Len(queue[u]) : held[t] # queue[u][i]
  /\ \A t, u \in Tasks : held[t] # NoBlock /\ held[t] = held[u] => t = u
FillingApart ==
  /\ \A t \in Tasks : \A i \in 1 .. Len(queue[t]) : queue[t][i] # rxBlock
  /\ \A t \in Tasks : rxBlock # NoBlock => held[t] # rxBlock
Apart == FreeApart /\ QueuesApart /\ HeldApart /\ FillingApart

\* A block under way holds a message.
Written ==
  /\ \A t \in Tasks : \A i \in 1 .. Len(queue[t]) : msg[queue[t][i]] \in Message
  /\ \A t \in Tasks : held[t] # NoBlock => msg[held[t]] \in Message
  /\ rxBlock # NoBlock => msg[rxBlock] \in Message

PoolInv == Apart /\ Written

LEMMA ApartNoAliasing ==
  ASSUME TypeOK, Apart
  PROVE  NoAliasing
<1> USE DataAssumption DEF TypeOK, PoolType
<1>1. \A t \in Tasks : queue[t] \in Seq(Blocks) /\ DOMAIN queue[t] = 1 .. Len(queue[t])
  BY LenProperties
<1>2. \A t \in Tasks : \A b \in QueuedBlocks(t) : \E i \in 1 .. Len(queue[t]) : b = queue[t][i]
  BY <1>1 DEF QueuedBlocks
<1>3. QueuesDisjoint
  BY <1>1 DEF QueuesDisjoint, Apart, QueuesApart
<1>4. HeldOnce
  BY <1>2 DEF HeldOnce, Apart, HeldApart
<1>5. FillingUnshared
  BY <1>2 DEF FillingUnshared, OwnedBlocks, Apart, FillingApart
<1>6. FreeNotInUse
  <2> SUFFICES ASSUME NEW b \in free, b \in InUse PROVE FALSE
    BY DEF FreeNotInUse
  <2>1. b # NoBlock
    OBVIOUS
  <2>2. b = rxBlock \/ \E t \in Tasks : b \in QueuedBlocks(t) \/ b = held[t]
    <3>1. b = rxBlock \/ \E t \in Tasks : b \in OwnedBlocks(t)
      <4> HIDE DEF TypeOK, PoolType
      <4>1. b \in UNION {OwnedBlocks(t) : t \in Tasks} \/ b \in {rxBlock} \ {NoBlock}
        BY DEF InUse
      <4> QED BY <4>1
    <3>2. ASSUME NEW t \in Tasks, b \in OwnedBlocks(t)
          PROVE  b \in QueuedBlocks(t) \/ b = held[t]
      BY <3>2 DEF OwnedBlocks
    <3> QED BY <3>1, <3>2
  <2> QED BY <1>2, <2>2 DEF Apart, FreeApart
<1> QED BY <1>3, <1>4, <1>5, <1>6 DEF NoAliasing

LEMMA PoolInvInit == Init => PoolInv
BY DataAssumption DEF Init, PoolInv, Apart, FreeApart, QueuesApart, HeldApart, FillingApart, Written

\* The steps that touch neither the pool nor the block being filled.
LEMMA PoolInvUnchanged ==
  ASSUME PoolInv, UNCHANGED <<poolVars, rxBlock>>
  PROVE  PoolInv'
BY DEF PoolInv, Apart, FreeApart, QueuesApart, HeldApart, FillingApart, Written, poolVars

LEMMA PoolInvGet ==
  ASSUME TypeOK, PoolInv, NEW t \in Tasks, Get(t)
  PROVE  PoolInv'
<1> USE DataAssumption DEF TypeOK, PoolType
<1> DEFINE q == queue[t]
<1>1. q \in Seq(Blocks) /\ q # <<>> /\ Len(q) \in Nat /\ Len(q) > 0
  BY EmptySeq DEF Get
<1>2. /\ Head(q) = q[1] /\ q[1] \in Blocks
      /\ Len(Tail(q)) = Len(q) - 1
      /\ \A i \in 1 .. Len(Tail(q)) : Tail(q)[i] = q[i + 1]
  BY <1>1, HeadTailProperties, ElementOfSeq
<1>3. /\ held' = [held EXCEPT ![t] = q[1]]
      /\ queue' = [queue EXCEPT ![t] = Tail(q)]
      /\ UNCHANGED <<free, msg, rxBlock>> /\ held[t] = NoBlock
  BY <1>2 DEF Get, rxVars
<1>4. \A u \in Tasks : Len(queue[u]) \in Nat
  BY LenProperties
<1>5. \A u \in Tasks : \A i \in 1 .. Len(queue'[u]) :
        \E j \in 1 .. Len(queue[u]) :
          queue'[u][i] = queue[u][j] /\ j = IF u = t THEN i + 1 ELSE i
  BY <1>1, <1>2, <1>3, <1>4
<1>6. \A u \in Tasks : \A i \in 1 .. Len(queue'[u]) : u = t => queue'[u][i] # q[1]
  BY <1>1, <1>2, <1>3, <1>4 DEF PoolInv, Apart, QueuesApart
<1>7. Apart'
  <2>1. FreeApart'
    BY <1>1, <1>2, <1>3, <1>5 DEF PoolInv, Apart, FreeApart
  <2>2. QueuesApart'
    BY <1>3, <1>4, <1>5 DEF PoolInv, Apart, QueuesApart
  <2>3. HeldApart'
    <3>1. \A u, w \in Tasks : \A i \in 1 .. Len(queue'[w]) : held'[u] # queue'[w][i]
      <4> SUFFICES ASSUME NEW u \in Tasks, NEW w \in Tasks, NEW i \in 1 .. Len(queue'[w])
                   PROVE  held'[u] # queue'[w][i]
        OBVIOUS
      <4>1. PICK j \in 1 .. Len(queue[w]) :
              queue'[w][i] = queue[w][j] /\ j = IF w = t THEN i + 1 ELSE i
        BY <1>5
      <4>2. CASE u = t
        BY <1>1, <1>3, <1>4, <4>1, <4>2 DEF PoolInv, Apart, QueuesApart
      <4>3. CASE u # t
        BY <1>3, <4>1, <4>3 DEF PoolInv, Apart, HeldApart
      <4> QED BY <4>2, <4>3
    <3>2. \A u \in Tasks : held[u] # q[1]
      BY <1>1 DEF PoolInv, Apart, HeldApart
    <3> QED BY <1>3, <3>1, <3>2 DEF PoolInv, Apart, HeldApart
  <2>4. FillingApart'
    BY <1>1, <1>3, <1>5 DEF PoolInv, Apart, FillingApart
  <2> QED BY <2>1, <2>2, <2>3, <2>4 DEF Apart
<1>8. Written'
  <2>1. msg[q[1]] \in Message
    BY <1>1 DEF PoolInv, Written
  <2>2. \A u \in Tasks : \A i \in 1 .. Len(queue'[u]) : msg'[queue'[u][i]] \in Message
    BY <1>3, <1>5 DEF PoolInv, Written
  <2> QED BY <1>3, <2>1, <2>2 DEF PoolInv, Written
<1> QED BY <1>7, <1>8 DEF PoolInv

LEMMA PoolInvFree ==
  ASSUME TypeOK, PoolInv, NEW t \in Tasks, Free(t)
  PROVE  PoolInv'
<1> USE DataAssumption DEF TypeOK, PoolType
<1>1. /\ held[t] \in Blocks /\ free' = free \cup {held[t]}
      /\ held' = [held EXCEPT ![t] = NoBlock]
      /\ msg' = [msg EXCEPT ![held[t]] = NoMsg]
      /\ UNCHANGED <<queue, rxBlock>>
  BY DEF Free, FreeAfterReturn, rxVars
<1>2. Apart'
  <2>1. FreeApart'
    BY <1>1 DEF PoolInv, Apart, FreeApart, HeldApart, FillingApart
  <2>2. QueuesApart' /\ FillingApart' /\ HeldApart'
    <3>1. \A u \in Tasks : queue[u] \in [1 .. Len(queue[u]) -> Blocks]
      BY LenProperties
    <3> QED BY <1>1, <3>1 DEF PoolInv, Apart, QueuesApart, HeldApart, FillingApart
  <2> QED BY <2>1, <2>2 DEF Apart
<1>3. Written'
  <2>1. \A u \in Tasks : queue[u] \in [1 .. Len(queue[u]) -> Blocks]
    BY LenProperties
  <2>2. \A b \in Blocks : b # held[t] => msg'[b] = msg[b]
    BY <1>1
  <2> QED BY <1>1, <2>1, <2>2 DEF PoolInv, Apart, FreeApart, QueuesApart, HeldApart, FillingApart, Written, LwipType
<1> QED BY <1>2, <1>3 DEF PoolInv

LEMMA PoolInvAlloc ==
  ASSUME TypeInv, PoolInv, DataCbAlloc
  PROVE  PoolInv'
<1> USE DataAssumption DEF TypeInv, TypeOK, PoolType
<1>1. CASE free = {}
  BY <1>1, PoolInvUnchanged DEF DataCbAlloc, poolVars
<1>2. CASE free # {}
  <2>1. rxBlock = NoBlock
    BY DEF DataCbAlloc, ReceiveInv
  <2>2. [topic_id |-> idx, from |-> rx.topic] \in Message
    BY DEF DataCbAlloc, ReceiveInv, Message
  <2>3. PICK b \in free : /\ free' = free \ {b} /\ rxBlock' = b
                          /\ msg' = [msg EXCEPT ![b] = [topic_id |-> idx, from |-> rx.topic]]
    BY <1>2 DEF DataCbAlloc, FreeAfterAlloc
  <2>4. UNCHANGED <<queue, held>>
    BY DEF DataCbAlloc
  <2>5. Apart'
    <3>1. FreeApart'
      BY <2>3, <2>4 DEF PoolInv, Apart, FreeApart
    <3>2. QueuesApart' /\ HeldApart'
      BY <2>4 DEF PoolInv, Apart, QueuesApart, HeldApart
    <3>3. FillingApart'
      BY <2>3, <2>4 DEF PoolInv, Apart, FreeApart, FillingApart
    <3> QED BY <3>1, <3>2, <3>3 DEF Apart
  <2>6. Written'
    <3>1. \A u \in Tasks : queue[u] \in [1 .. Len(queue[u]) -> Blocks]
      BY LenProperties
    <3>2. \A c \in Blocks : c # b => msg'[c] = msg[c]
      BY <2>3
    <3> QED BY <2>2, <2>3, <2>4, <3>1, <3>2 DEF PoolInv, Apart, FreeApart, QueuesApart, HeldApart, FillingApart, Written
  <2> QED BY <2>5, <2>6 DEF PoolInv
<1> QED BY <1>1, <1>2

LEMMA PoolInvPut ==
  ASSUME TypeInv, PoolInv, DataCbPut
  PROVE  PoolInv'
<1> USE DataAssumption DEF TypeInv, TypeOK, PoolType
<1> DEFINE u == slotQueue[idx]
<1>1. rxBlock \in Blocks /\ rxBlock' = NoBlock /\ UNCHANGED <<free, msg, held>>
  BY DEF DataCbPut, ReceiveInv, LwipType
<1>2. \A t \in Tasks : queue[t] \in [1 .. Len(queue[t]) -> Blocks] /\ Len(queue[t]) \in Nat
  BY LenProperties
<1>3. queue' = queue \/ queue' = [queue EXCEPT ![u] = Append(queue[u], rxBlock)]
  BY DEF DataCbPut
<1>4. CASE queue' = queue
  BY <1>1, <1>2, <1>4 DEF PoolInv, Apart, FreeApart, QueuesApart, HeldApart, FillingApart, Written
<1>5. CASE u \in Tasks /\ queue' = [queue EXCEPT ![u] = Append(queue[u], rxBlock)]
  <2>1. /\ Len(queue'[u]) = Len(queue[u]) + 1
        /\ queue'[u][Len(queue[u]) + 1] = rxBlock
        /\ \A i \in 1 .. Len(queue[u]) : queue'[u][i] = queue[u][i]
        /\ \A t \in Tasks : t # u => queue'[t] = queue[t]
    BY <1>1, <1>5, AppendProperties
  <2>2. \A t \in Tasks : \A i \in 1 .. Len(queue'[t]) :
          \/ i \in 1 .. Len(queue[t]) /\ queue'[t][i] = queue[t][i]
          \/ t = u /\ i = Len(queue[u]) + 1 /\ queue'[t][i] = rxBlock
    BY <1>2, <1>5, <2>1
  <2>3. Apart'
    <3>1. FreeApart'
      BY <1>1, <2>2 DEF PoolInv, Apart, FreeApart
    <3>2. QueuesApart'
      <4> SUFFICES ASSUME NEW t \in Tasks, NEW w \in Tasks, NEW i \in 1 .. Len(queue'[t]),
                          NEW j \in 1 .. Len(queue'[w]), queue'[t][i] = queue'[w][j]
                   PROVE  t = w /\ i = j
        BY DEF QueuesApart
      <4> HIDE DEF u
      <4>1. \/ i \in 1 .. Len(queue[t]) /\ queue'[t][i] = queue[t][i]
            \/ t = u /\ i = Len(queue[u]) + 1 /\ queue'[t][i] = rxBlock
        BY <2>2
      <4>2. \/ j \in 1 .. Len(queue[w]) /\ queue'[w][j] = queue[w][j]
            \/ w = u /\ j = Len(queue[u]) + 1 /\ queue'[w][j] = rxBlock
        BY <2>2
      <4> HIDE DEF TypeOK, PoolType
      <4> QED BY <4>1, <4>2 DEF PoolInv, Apart, QueuesApart, FillingApart
    <3>3. HeldApart'
      <4> SUFFICES ASSUME NEW t \in Tasks, NEW w \in Tasks, NEW i \in 1 .. Len(queue'[w])
                   PROVE  held[t] # queue'[w][i]
        BY <1>1 DEF PoolInv, Apart, HeldApart
      <4>1. queue'[w][i] = rxBlock \/ \E j \in 1 .. Len(queue[w]) : queue'[w][i] = queue[w][j]
        BY <2>2
      <4> QED BY <1>1, <4>1 DEF PoolInv, Apart, HeldApart, FillingApart
    <3>4. FillingApart'
      <4> SUFFICES ASSUME NEW w \in Tasks, NEW i \in 1 .. Len(queue'[w])
                   PROVE  queue'[w][i] # NoBlock
        BY <1>1 DEF FillingApart
      <4>1. queue'[w][i] = rxBlock \/ \E j \in 1 .. Len(queue[w]) : queue'[w][i] = queue[w][j]
        BY <2>2
      <4> QED BY <1>1, <1>2, <4>1
    <3> QED BY <3>1, <3>2, <3>3, <3>4 DEF Apart
  <2>4. Written'
    BY <1>1, <2>2 DEF PoolInv, Written
  <2> QED BY <2>3, <2>4 DEF PoolInv
<1>6. CASE u \notin Tasks /\ queue' = [queue EXCEPT ![u] = Append(queue[u], rxBlock)]
  <2>1. queue' = queue
    BY <1>6
  <2> QED BY <1>4, <2>1
<1> QED BY <1>3, <1>4, <1>5, <1>6

\* Everything but Get, Free and the last two steps of the data callback.
LEMMA PoolUntouched ==
  ASSUME TypeInv, [Next]_vars,
         \A t \in Tasks : ~Get(t) /\ ~Free(t), ~DataCbAlloc, ~DataCbPut
  PROVE  UNCHANGED <<poolVars, rxBlock>>
<1> USE DEF vars, rxVars
<1>1. CASE TcpipStep
  BY <1>1 DEF TcpipStep, TcpipLock, TcpipUnlock, ConnectAccepted, ConnectionLost,
              PublishCb, DataCbFragment, DataCbCheck
<1>2. ASSUME NEW t \in Tasks, TaskStep(t)
      PROVE  UNCHANGED <<poolVars, rxBlock>>
  BY <1>2 DEF TaskStep, SubBegin, UnsubBegin, SubFail, SubDone, UnsubLeaveCore,
              UnsubClear, InitBegin, InitSlots, InitLeaveCore, PublishBegin,
              PublishLeaveCore, EnterCore, Poll, Spin
<1>3. CASE UNCHANGED vars
  BY <1>3
<1> QED BY <1>1, <1>2, <1>3 DEF Next

LEMMA PoolInvStep == TypeInv /\ PoolInv /\ [Next]_vars => PoolInv'
<1> SUFFICES ASSUME TypeInv, PoolInv, [Next]_vars PROVE PoolInv'
  OBVIOUS
<1>1. ASSUME NEW t \in Tasks, Get(t) PROVE PoolInv'
  BY <1>1, PoolInvGet DEF TypeInv
<1>2. ASSUME NEW t \in Tasks, Free(t) PROVE PoolInv'
  BY <1>2, PoolInvFree DEF TypeInv
<1>3. CASE DataCbAlloc
  BY <1>3, PoolInvAlloc
<1>4. CASE DataCbPut
  BY <1>4, PoolInvPut
<1> QED BY <1>1, <1>2, <1>3, <1>4, PoolUntouched, PoolInvUnchanged

LEMMA PoolInvAlways == Spec => []PoolInv
BY TypeInvAlways, PoolInvInit, PoolInvStep, PTL DEF Spec

\* No two owners ever share a block of the pool, however osMemoryPoolAlloc, the
\* queues and mqtt_free_message are interleaved, whatever calls the tasks make.
THEOREM NeverAliased == Spec => []NoAliasing
<1>1. TypeInv /\ PoolInv => NoAliasing
  BY ApartNoAliasing DEF TypeInv, PoolInv
<1> QED BY <1>1, TypeInvAlways, PoolInvAlways, PTL

-----------------------------------------------------------------------------
(* The mailboxes *)

\* The meaning of a queue: its type and length, and what becomes of it when a
\* block is taken, added, or written elsewhere.
LEMMA ValuesType ==
  ASSUME NEW m, NEW q \in Seq(Blocks),
         \A i \in 1 .. Len(q) : m[q[i]] \in Message
  PROVE  /\ Values(m, q) \in Seq(Message) /\ Len(Values(m, q)) = Len(q)
         /\ \A i \in 1 .. Len(q) : Values(m, q)[i] = m[q[i]]
<1>1. Len(q) \in Nat
  BY LenProperties
<1> QED BY <1>1 DEF Values

LEMMA ValuesTail ==
  ASSUME NEW m, NEW q \in Seq(Blocks), q # <<>>,
         \A i \in 1 .. Len(q) : m[q[i]] \in Message
  PROVE  /\ Values(m, q) # <<>> /\ Head(Values(m, q)) = m[Head(q)]
         /\ Values(m, Tail(q)) = Tail(Values(m, q))
<1> DEFINE v == Values(m, q)
<1>1. /\ v \in Seq(Message) /\ Len(v) = Len(q) /\ \A i \in 1 .. Len(q) : v[i] = m[q[i]]
  BY ValuesType
<1>2. /\ Len(q) \in Nat /\ Len(q) > 0 /\ Head(q) = q[1]
      /\ Tail(q) \in Seq(Blocks) /\ Len(Tail(q)) = Len(q) - 1
      /\ \A i \in 1 .. Len(Tail(q)) : Tail(q)[i] = q[i + 1]
  BY EmptySeq, HeadTailProperties
<1> HIDE DEF v
<1>3. v # <<>> /\ Head(v) = m[Head(q)]
  BY <1>1, <1>2
<1>4. /\ Tail(v) \in Seq(Message) /\ Len(Tail(v)) = Len(q) - 1
      /\ \A i \in 1 .. Len(q) - 1 : Tail(v)[i] = m[q[i + 1]]
  BY <1>1, <1>2, <1>3, HeadTailProperties
<1>5. /\ Values(m, Tail(q)) \in Seq(Message) /\ Len(Values(m, Tail(q))) = Len(q) - 1
      /\ \A i \in 1 .. Len(q) - 1 : Values(m, Tail(q))[i] = m[q[i + 1]]
  <2>1. \A i \in 1 .. Len(Tail(q)) : m[Tail(q)[i]] \in Message
    BY <1>2
  <2> DEFINE r == Tail(q)
  <2>2. r \in Seq(Blocks) /\ Len(r) = Len(q) - 1
    BY <1>2
  <2>3. /\ Values(m, r) \in Seq(Message) /\ Len(Values(m, r)) = Len(r)
        /\ \A i \in 1 .. Len(r) : Values(m, r)[i] = m[r[i]]
    <3> HIDE DEF r
    <3> QED BY <2>1, <2>2, ValuesType DEF r
  <2> QED BY <1>2, <2>2, <2>3
<1>6. Values(m, Tail(q)) = Tail(v)
  BY <1>4, <1>5, SeqEqual
<1> QED BY <1>3, <1>6 DEF v

LEMMA ValuesAppend ==
  ASSUME NEW m, NEW q \in Seq(Blocks), NEW b \in Blocks, m[b] \in Message,
         \A i \in 1 .. Len(q) : m[q[i]] \in Message
  PROVE  Values(m, Append(q, b)) = Append(Values(m, q), m[b])
<1> DEFINE v == Values(m, q)
<1>1. v \in Seq(Message) /\ Len(v) = Len(q) /\ \A i \in 1 .. Len(q) : v[i] = m[q[i]]
  BY ValuesType
<1>2. /\ Len(q) \in Nat /\ Append(q, b) \in Seq(Blocks) /\ Len(Append(q, b)) = Len(q) + 1
      /\ \A i \in 1 .. Len(q) : Append(q, b)[i] = q[i]
      /\ Append(q, b)[Len(q) + 1] = b
  BY LenProperties, AppendProperties
<1> HIDE DEF v
<1>3. /\ Append(v, m[b]) \in Seq(Message) /\ Len(Append(v, m[b])) = Len(q) + 1
      /\ \A i \in 1 .. Len(q) : Append(v, m[b])[i] = m[q[i]]
      /\ Append(v, m[b])[Len(q) + 1] = m[b]
  BY <1>1, AppendProperties
<1>4. /\ Values(m, Append(q, b)) \in Seq(Message) /\ Len(Values(m, Append(q, b))) = Len(q) + 1
      /\ \A i \in 1 .. Len(q) + 1 : Values(m, Append(q, b))[i] = m[Append(q, b)[i]]
  <2>1. \A i \in 1 .. Len(Append(q, b)) : m[Append(q, b)[i]] \in Message
    BY <1>2
  <2> DEFINE r == Append(q, b)
  <2>2. /\ Values(m, r) \in Seq(Message) /\ Len(Values(m, r)) = Len(r)
        /\ \A i \in 1 .. Len(r) : Values(m, r)[i] = m[r[i]]
    BY <1>2, <2>1, ValuesType
  <2> QED BY <1>2, <2>2
<1>5. \A i \in 1 .. Len(q) + 1 : Values(m, Append(q, b))[i] = Append(v, m[b])[i]
  BY <1>2, <1>3, <1>4
<1> QED BY <1>3, <1>4, <1>5, SeqEqual DEF v

LEMMA ValuesSame ==
  ASSUME NEW m, NEW n, NEW q, \A i \in 1 .. Len(q) : m[q[i]] = n[q[i]]
  PROVE  Values(m, q) = Values(n, q)
BY DEF Values

LEMMA MailboxInit == Init => MailboxOf!Init
<1> SUFFICES ASSUME Init PROVE MailboxOf!Init
  OBVIOUS
<1>1. Inbox = [t \in Tasks |-> <<>>]
  <2>1. \A t \in Tasks : Values(msg, queue[t]) = <<>>
    BY DEF Init, Values
  <2> QED BY <2>1 DEF Inbox
<1>2. Reading = [t \in Tasks |-> NoMsg]
  BY DEF Init, Reading
<1> QED BY <1>1, <1>2 DEF MailboxOf!Init

\* osMessageQueueGet takes the oldest message.
LEMMA MailboxGet ==
  ASSUME TypeOK, PoolInv, NEW t \in Tasks, Get(t)
  PROVE  MailboxOf!Take(t)
<1> USE DataAssumption, MessageAssumption DEF TypeOK, PoolType
<1> DEFINE q == queue[t]
<1>1. q \in Seq(Blocks) /\ q # <<>> /\ Head(q) \in Blocks
  BY HeadTailProperties DEF Get
<1>2. /\ held' = [held EXCEPT ![t] = Head(q)] /\ queue' = [queue EXCEPT ![t] = Tail(q)]
      /\ held[t] = NoBlock /\ msg' = msg
  BY DEF Get
<1>3. \A i \in 1 .. Len(q) : msg[q[i]] \in Message
  BY DEF PoolInv, Written
<1>4. /\ Inbox[t] # <<>> /\ Head(Inbox[t]) = msg[Head(q)]
      /\ Values(msg, Tail(q)) = Tail(Inbox[t])
  BY <1>1, <1>3, ValuesTail DEF Inbox
<1>5. Reading[t] = NoMsg
  BY <1>2 DEF Reading
<1>6. Reading' = [Reading EXCEPT ![t] = Head(Inbox[t])]
  BY <1>1, <1>2, <1>4 DEF Reading
<1>7. Inbox' = [Inbox EXCEPT ![t] = Tail(Inbox[t])]
  BY <1>2, <1>4 DEF Inbox
<1> QED BY <1>4, <1>5, <1>6, <1>7 DEF MailboxOf!Take

\* mqtt_free_message releases the message of the task and changes no other.
LEMMA MailboxFree ==
  ASSUME TypeOK, PoolInv, NEW t \in Tasks, Free(t)
  PROVE  MailboxOf!Release(t)
<1> USE DataAssumption, MessageAssumption DEF TypeOK, PoolType
<1>1. /\ held[t] \in Blocks /\ held' = [held EXCEPT ![t] = NoBlock]
      /\ msg' = [msg EXCEPT ![held[t]] = NoMsg] /\ queue' = queue
  BY DEF Free
<1>2. \A b \in Blocks : b # held[t] => msg'[b] = msg[b]
  BY <1>1
<1>3. Reading[t] # NoMsg
  BY <1>1 DEF Reading, PoolInv, Written
<1>4. Reading' = [Reading EXCEPT ![t] = NoMsg]
  <2>1. ASSUME NEW u \in Tasks, u # t
        PROVE  Reading'[u] = Reading[u]
    BY <1>1, <1>2, <2>1 DEF Reading, PoolInv, Apart, HeldApart
  <2>2. Reading'[t] = NoMsg
    BY <1>1 DEF Reading
  <2> QED BY <2>1, <2>2 DEF Reading
<1>5. Inbox' = Inbox
  <2>1. ASSUME NEW u \in Tasks
        PROVE  Values(msg', queue[u]) = Values(msg, queue[u])
    <3>1. \A i \in 1 .. Len(queue[u]) : queue[u][i] \in Blocks /\ queue[u][i] # held[t]
      BY LenProperties DEF PoolInv, Apart, HeldApart
    <3> QED BY <1>2, <3>1, ValuesSame
  <2> QED BY <1>1, <2>1 DEF Inbox
<1> QED BY <1>3, <1>4, <1>5 DEF MailboxOf!Release

\* A block is written before anybody has it: nobody sees a change.
LEMMA MailboxAlloc ==
  ASSUME TypeOK, PoolInv, DataCbAlloc
  PROVE  UNCHANGED MailboxOf!mailboxVars
<1> USE DataAssumption DEF TypeOK, PoolType
<1>1. UNCHANGED <<queue, held>>
  BY DEF DataCbAlloc
<1>2. PICK b : \/ b \in free /\ \A c \in Blocks : c # b => msg'[c] = msg[c]
               \/ msg' = msg
  BY DEF DataCbAlloc
<1>3. Reading' = Reading
  BY <1>1, <1>2 DEF Reading, PoolInv, Apart, FreeApart
<1>4. Inbox' = Inbox
  <2>1. ASSUME NEW u \in Tasks
        PROVE  Values(msg', queue[u]) = Values(msg, queue[u])
    <3>1. \A i \in 1 .. Len(queue[u]) : queue[u][i] \in Blocks \ free
      BY LenProperties DEF PoolInv, Apart, FreeApart
    <3> QED BY <1>2, <3>1, ValuesSame
  <2> QED BY <1>1, <2>1 DEF Inbox
<1> QED BY <1>3, <1>4 DEF MailboxOf!mailboxVars

\* osMessageQueuePut delivers the message, or drops it when the queue is full.
LEMMA MailboxPut ==
  ASSUME TypeInv, PoolInv, DataCbPut
  PROVE  \/ \E t \in Tasks, m \in Message : MailboxOf!Deliver(t, m)
         \/ UNCHANGED MailboxOf!mailboxVars
<1> USE DataAssumption, SizeAssumption DEF TypeInv, TypeOK, PoolType
<1> DEFINE t == slotQueue[idx]
<1>1. rxBlock \in Blocks /\ msg[rxBlock] \in Message
  BY DEF DataCbPut, ReceiveInv, LwipType, PoolInv, Written
<1>2. UNCHANGED <<msg, held>>
  BY DEF DataCbPut
<1>3. Reading' = Reading
  BY <1>2 DEF Reading
<1>4. CASE queue' = queue
  <2>1. Inbox' = Inbox
    BY <1>2, <1>4 DEF Inbox
  <2> QED BY <1>3, <2>1 DEF MailboxOf!mailboxVars
<1>5. CASE t \in Tasks /\ ~QueueFull(t) /\ queue' = [queue EXCEPT ![t] = Append(queue[t], rxBlock)]
  <2>1. queue[t] \in Seq(Blocks) /\ Len(queue[t]) \in Nat
    BY <1>5, LenProperties
  <2>2. \A i \in 1 .. Len(queue[t]) : msg[queue[t][i]] \in Message
    BY <1>5 DEF PoolInv, Written
  <2>3. Values(msg, Append(queue[t], rxBlock)) = Append(Inbox[t], msg[rxBlock])
    BY <1>1, <1>5, <2>1, <2>2, ValuesAppend DEF Inbox
  <2>4. Inbox' = [Inbox EXCEPT ![t] = Append(Inbox[t], msg[rxBlock])]
    BY <1>2, <1>5, <2>3 DEF Inbox
  <2>5. Len(Inbox[t]) = Len(queue[t])
    BY <1>5, <2>1, <2>2, ValuesType DEF Inbox
  <2>6. Len(Inbox[t]) < QueueCap
    BY <1>5, <2>1, <2>5 DEF QueueFull
  <2>7. MailboxOf!Deliver(t, msg[rxBlock])
    BY <1>3, <2>4, <2>6 DEF MailboxOf!Deliver
  <2> QED BY <1>1, <1>5, <2>7
<1>6. CASE t \notin Tasks /\ queue' = [queue EXCEPT ![t] = Append(queue[t], rxBlock)]
  <2>1. queue' = queue
    BY <1>6
  <2> QED BY <1>4, <2>1
<1> QED BY <1>4, <1>5, <1>6 DEF DataCbPut

LEMMA MailboxStep ==
  ASSUME TypeInv, PoolInv, [Next]_vars
  PROVE  [MailboxOf!Next]_(MailboxOf!mailboxVars)
<1>1. ASSUME NEW t \in Tasks, Get(t) PROVE MailboxOf!Next
  BY <1>1, MailboxGet DEF TypeInv, MailboxOf!Next
<1>2. ASSUME NEW t \in Tasks, Free(t) PROVE MailboxOf!Next
  BY <1>2, MailboxFree DEF TypeInv, MailboxOf!Next
<1>3. CASE DataCbAlloc
  BY <1>3, MailboxAlloc DEF TypeInv
<1>4. CASE DataCbPut
  BY <1>4, MailboxPut DEF MailboxOf!Next
<1>5. CASE UNCHANGED <<poolVars, rxBlock>>
  BY <1>5 DEF poolVars, Inbox, Reading, MailboxOf!mailboxVars
<1> QED BY <1>1, <1>2, <1>3, <1>4, <1>5, PoolUntouched

\* The client implements the mailboxes: for every schedule a task sees a bounded
\* FIFO of messages that nobody changes while it reads them.
THEOREM MailboxesImplemented == Spec => ImplementsMailboxes
BY MailboxInit, MailboxStep, TypeInvAlways, PoolInvAlways, PTL
   DEF Spec, ImplementsMailboxes, MailboxOf!Spec

-----------------------------------------------------------------------------
(* The core lock and the slots *)

LEMMA CoreOwnedInit == Init => CoreOwned
BY TasksAssumption DEF Init, CoreOwned, CoreCalls

LEMMA CoreOwnedStep == TypeInv /\ CoreOwned /\ [Next]_vars => CoreOwned'
<1> SUFFICES ASSUME TypeInv, CoreOwned, [Next]_vars PROVE CoreOwned'
  OBVIOUS
<1> USE TasksAssumption DEF TypeInv, TypeOK, TaskType, LwipType, OsType, CoreOwned, CoreCalls
<1>1. CASE TcpipStep
  BY <1>1 DEF TcpipStep, TcpipRuns, TcpipLock, TcpipUnlock, ConnectAccepted, ConnectionLost,
              PublishCb, DataCbFragment, DataCbCheck, DataCbAlloc, DataCbPut,
              taskVars, osVars, rxVars
<1>2. ASSUME NEW t \in Tasks, TaskStep(t)
      PROVE  CoreOwned'
  <2> USE DEF CanRun, Goto, Return, rxVars, osVars, taskVars, connVars
  <2>1. CASE UnsubLeaveCore(t) \/ InitLeaveCore(t) \/ PublishLeaveCore(t)
    <3>1. ReleaseCore(t) /\ CanRun(t) /\ pc[t] \in CoreCalls /\ UNCHANGED <<crit, rxPc>>
      BY <2>1 DEF UnsubLeaveCore, InitLeaveCore, PublishLeaveCore
    <3>2. \E label \in {"ready", "unsubClear", "initLock"} : pc' = [pc EXCEPT ![t] = label]
      BY <2>1 DEF UnsubLeaveCore, InitLeaveCore, PublishLeaveCore
    <3> QED BY <3>1, <3>2 DEF ReleaseCore
  <2>2. CASE EnterCore(t)
    <3>1. /\ TakeCore(t) /\ CanRun(t) /\ UNCHANGED <<crit, rxPc>>
          /\ \A u \in Tasks : u # t => pc'[u] = pc[u]
      BY <2>2 DEF EnterCore
    <3> QED BY <3>1 DEF TakeCore
  <2>3. CASE \E topic \in Topics : SubBegin(t, topic)
    <3>1. /\ pc[t] = "ready" /\ CanRun(t) /\ crit' = t /\ UNCHANGED <<lock, rxPc>>
          /\ \A u \in Tasks : u # t => pc'[u] = pc[u]
      BY <2>3 DEF SubBegin
    <3>2. pc'[t] \notin CoreCalls
      BY <2>3 DEF SubBegin
    <3> QED BY <3>1, <3>2
  <2>4. CASE SubFail(t) \/ SubDone(t)
    <3>1. /\ pc[t] = "subCore" /\ crit = t /\ UNCHANGED <<lock, rxPc>>
          /\ pc' = [pc EXCEPT ![t] = "ready"]
      BY <2>4 DEF SubFail, SubDone, CallInv
    <3> QED BY <3>1
  <2>5. CASE \/ \E topic \in Topics : UnsubBegin(t, topic)
             \/ UnsubClear(t) \/ InitBegin(t) \/ InitSlots(t) \/ PublishBegin(t)
    <3>1. /\ UNCHANGED <<lock, rxPc, crit>>
          /\ \E label \in {"unsubLock", "ready", "initSlots", "initLock", "pubLock"} :
               pc' = [pc EXCEPT ![t] = label]
      BY <2>5 DEF UnsubBegin, UnsubClear, InitBegin, InitSlots, PublishBegin
    <3> QED BY <3>1
  <2>6. CASE Poll(t) \/ Get(t) \/ Free(t) \/ Spin(t)
    <3>1. UNCHANGED <<lock, rxPc, crit, pc>>
      BY <2>6 DEF Poll, Get, Free, Spin, vars
    <3> QED BY <3>1
  <2> QED BY <1>2, <2>1, <2>2, <2>3, <2>4, <2>5, <2>6 DEF TaskStep
<1>3. CASE UNCHANGED vars
  BY <1>3 DEF vars, taskVars, rxVars, osVars
<1> QED BY <1>1, <1>2, <1>3 DEF Next

\* Whoever is inside lwIP with the interrupts enabled holds the core lock.  The
\* one way around the lock is the masked call of mqtt_sub_topic.
THEOREM CoreOwnedAlways == Spec => []CoreOwned
BY TypeInvAlways, CoreOwnedInit, CoreOwnedStep, PTL DEF Spec

LEMMA StableSlotsStep ==
  ASSUME TypeInv, [Next]_vars, NEW i \in Slots, valid[i], valid'[i]
  PROVE  slotName'[i] = slotName[i] /\ slotQueue'[i] = slotQueue[i]
<1> USE DEF tableVars, vars
<1>1. CASE TcpipStep
  BY <1>1 DEF TcpipStep, TcpipLock, TcpipUnlock, ConnectAccepted, ConnectionLost,
              PublishCb, DataCbFragment, DataCbCheck, DataCbAlloc, DataCbPut
<1>2. ASSUME NEW t \in Tasks, TaskStep(t)
      PROVE  slotName'[i] = slotName[i] /\ slotQueue'[i] = slotQueue[i]
  <2>1. CASE \E topic \in Topics : SubBegin(t, topic)
    BY <2>1 DEF SubBegin, FirstFree, TypeInv, TypeOK, TableType
  <2>2. CASE SubDone(t)
    BY <2>2 DEF SubDone, FirstFree, TypeInv, TypeOK, TableType
  <2>3. CASE ~SubDone(t) /\ \A topic \in Topics : ~SubBegin(t, topic)
    BY <1>2, <2>3 DEF TaskStep, UnsubBegin, SubFail, UnsubLeaveCore,
              UnsubClear, InitBegin, InitSlots, InitLeaveCore, PublishBegin,
              PublishLeaveCore, EnterCore, Poll, Get, Free, Spin
  <2> QED BY <2>1, <2>2, <2>3
<1>3. CASE UNCHANGED vars
  BY <1>3
<1> QED BY <1>1, <1>2, <1>3 DEF Next

\* A slot that stays valid keeps its name and its queue, so that what the
\* callbacks read without a critical section does not change under them.
THEOREM SlotsStable == Spec => StableSlots
<1>1. TypeInv /\ [Next]_vars =>
        [\A i \in Slots : valid[i] /\ valid'[i] =>
           slotName'[i] = slotName[i] /\ slotQueue'[i] = slotQueue[i]]_vars
  BY StableSlotsStep
<1> QED BY <1>1, TypeInvAlways, PTL DEF Spec, StableSlots

-----------------------------------------------------------------------------
(* Tasks that keep to some of the calls *)

InitPcs  == {"initSlots", "initLock", "initCore"}
UnsubPcs == {"unsubLock", "unsubCore", "unsubClear"}

-----------------------------------------------------------------------------
(* mqtt_init is called once *)

\* mqtt_init runs before anything is connected, and a slot is taken only later.
SetupInv ==
  /\ \A t \in Tasks : pc[t] \in InitPcs => t = Starter /\ connState = "disconnected" /\ ~connected
  /\ ~inited => connState = "disconnected" /\ ~connected
  /\ connState # "disconnected" => inited
  /\ \A i \in Slots : valid[i] => connected
  /\ \A t \in Tasks : pc[t] = "subCore" => connected

LEMMA SetupInvInit == Init => SetupInv
BY DEF Init, SetupInv, InitPcs

LEMMA SetupInvStep ==
  ASSUME "reinit" \notin Calls, TypeInv, SetupInv, [Next]_vars
  PROVE  SetupInv'
<1> USE DEF SetupInv, InitPcs, TypeInv, TypeOK, TaskType, TableType
<1>1. CASE TcpipStep
  <2>1. /\ UNCHANGED <<pc, inited, valid>>
        /\ \/ UNCHANGED <<connState, connected>>
           \/ connState = "connecting" /\ connState' = "connected" /\ connected' = TRUE
           \/ connState # "disconnected" /\ connState' = "disconnected" /\ connected' = connected
    BY <1>1 DEF TcpipStep, TcpipLock, TcpipUnlock, ConnectAccepted, ConnectionLost, PublishCb,
                DataCbFragment, DataCbCheck, DataCbAlloc, DataCbPut, taskVars, connVars, tableVars
  <2> QED BY <2>1
<1>2. ASSUME NEW t \in Tasks, TaskStep(t)
      PROVE  SetupInv'
  <2> USE DEF Goto, Return, connVars, tableVars, taskVars
  <2>1. CASE \/ \E topic \in Topics : SubBegin(t, topic) \/ UnsubBegin(t, topic)
             \/ SubFail(t) \/ UnsubLeaveCore(t) \/ PublishBegin(t) \/ PublishLeaveCore(t)
    <3>1. /\ UNCHANGED <<inited, valid, connState, connected>>
          /\ \/ pc' = pc
             \/ \E label \in {"ready", "panic", "unsubLock", "unsubClear", "pubLock"} :
                  pc' = [pc EXCEPT ![t] = label]
             \/ connected /\ pc' = [pc EXCEPT ![t] = "subCore"]
      BY <2>1 DEF SubBegin, UnsubBegin, SubFail, UnsubLeaveCore, PublishBegin, PublishLeaveCore
    <3> QED BY <3>1
  <2>2. CASE SubDone(t)
    <3>1. /\ connected /\ pc' = [pc EXCEPT ![t] = "ready"]
          /\ UNCHANGED <<inited, connState, connected>>
      BY <2>2 DEF SubDone
    <3> QED BY <3>1
  <2>3. CASE UnsubClear(t)
    <3>1. /\ pc' = [pc EXCEPT ![t] = "ready"] /\ UNCHANGED <<inited, connState, connected>>
          /\ \A i \in Slots : valid'[i] => valid[i]
      BY <2>3 DEF UnsubClear, ClearSlot
    <3> QED BY <3>1
  <2>4. CASE InitBegin(t)
    <3>1. /\ ~inited /\ t = Starter
          /\ pc' = [pc EXCEPT ![t] = "initSlots"]
          /\ UNCHANGED <<inited, valid, connState, connected>>
      BY <2>4 DEF InitBegin
    <3> QED BY <3>1
  <2>5. CASE InitSlots(t)
    <3>1. /\ pc[t] = "initSlots" /\ pc' = [pc EXCEPT ![t] = "initLock"]
          /\ UNCHANGED <<inited, connState, connected>> /\ \A i \in Slots : ~valid'[i]
      BY <2>5 DEF InitSlots
    <3> QED BY <3>1
  <2>6. CASE InitLeaveCore(t)
    <3>1. /\ pc[t] = "initCore" /\ inited' = TRUE /\ UNCHANGED <<valid, connected>>
          /\ \/ pc' = [pc EXCEPT ![t] = "initLock"] /\ connState' = connState
             \/ pc' = [pc EXCEPT ![t] = "ready"]
      BY <2>6 DEF InitLeaveCore
    <3> QED BY <3>1
  <2>7. CASE EnterCore(t)
    <3>1. pc[t] \in {"unsubLock", "initLock", "pubLock"}
      BY <2>7 DEF EnterCore, InCoreAfter
    <3>2. /\ UNCHANGED <<inited, valid, connState, connected>>
          /\ pc' = [pc EXCEPT ![t] = InCoreAfter[pc[t]]]
      BY <2>7 DEF EnterCore
    <3>3. pc[t] # "initLock" => InCoreAfter[pc[t]] \in {"unsubCore", "pubCore"}
      BY <3>1 DEF InCoreAfter
    <3>4. pc[t] = "initLock" => InCoreAfter[pc[t]] = "initCore"
      BY DEF InCoreAfter
    <3> QED BY <3>1, <3>2, <3>3, <3>4
  <2>8. CASE Poll(t) \/ Get(t) \/ Free(t) \/ Spin(t)
    <3>1. UNCHANGED <<pc, inited, valid, connState, connected>>
      BY <2>8 DEF Poll, Get, Free, Spin, vars
    <3> QED BY <3>1
  <2> QED BY <1>2, <2>1, <2>2, <2>3, <2>4, <2>5, <2>6, <2>7, <2>8 DEF TaskStep
<1>3. CASE UNCHANGED vars
  BY <1>3 DEF vars, taskVars, connVars, tableVars
<1> QED BY <1>1, <1>2, <1>3 DEF Next

-----------------------------------------------------------------------------
(* The search for a free slot *)

ValidSlots == {i \in Slots : valid[i]}

\* num_topics bounds the valid slots from above: unsubscribing frees a slot and
\* leaves the counter.
SearchInv == Cardinality(ValidSlots) <= numTopics /\ SlotFound

LEMMA SlotsFinite ==
  /\ IsFiniteSet(Slots) /\ Cardinality(Slots) = MaxTopics
  /\ IsFiniteSet(ValidSlots) /\ Cardinality(ValidSlots) \in Nat
<1>1. IsFiniteSet(Slots) /\ Cardinality(Slots) = MaxTopics
  BY SizeAssumption, FS_Interval DEF Slots
<1>2. ValidSlots \in SUBSET Slots
  BY DEF ValidSlots
<1> QED BY <1>1, <1>2, FS_Subset, FS_CardinalityType

LEMMA NoValidSlots ==
  ASSUME \A i \in Slots : ~valid[i]
  PROVE  Cardinality(ValidSlots) = 0
<1>1. ValidSlots = {}
  BY DEF ValidSlots
<1> QED BY <1>1, FS_EmptySet

\* The steps that change a slot or the counter.
LEMMA CountUntouched ==
  ASSUME [Next]_vars, \A t \in Tasks : /\ ~SubDone(t) /\ ~UnsubClear(t)
                                       /\ ~InitBegin(t) /\ ~InitSlots(t)
  PROVE  UNCHANGED <<valid, numTopics>>
<1> USE DEF vars, tableVars
<1>1. CASE TcpipStep
  BY <1>1 DEF TcpipStep, TcpipLock, TcpipUnlock, ConnectAccepted, ConnectionLost,
              PublishCb, DataCbFragment, DataCbCheck, DataCbAlloc, DataCbPut
<1>2. ASSUME NEW t \in Tasks, TaskStep(t)
      PROVE  UNCHANGED <<valid, numTopics>>
  BY <1>2 DEF TaskStep, SubBegin, UnsubBegin, SubFail, UnsubLeaveCore,
              InitLeaveCore, PublishBegin, PublishLeaveCore, EnterCore, Poll, Get, Free, Spin
<1> QED BY <1>1, <1>2 DEF Next

\* Only a subscription that finds no slot fails the assertion.
LEMMA PanicSteps ==
  ASSUME TypeInv, [Next]_vars, SlotFound, ~SlotFound'
  PROVE  numTopics # MaxTopics /\ \A i \in Slots : valid[i]
<1> USE DEF SlotFound, TypeInv, TypeOK, TaskType
<1>1. CASE TcpipStep
  BY <1>1 DEF TcpipStep, TcpipLock, TcpipUnlock, ConnectAccepted, ConnectionLost, PublishCb,
              DataCbFragment, DataCbCheck, DataCbAlloc, DataCbPut, taskVars
<1>2. ASSUME NEW t \in Tasks, TaskStep(t)
      PROVE  numTopics # MaxTopics /\ \A i \in Slots : valid[i]
  <2> USE DEF Goto, Return, taskVars
  <2>1. CASE \E topic \in Topics : SubBegin(t, topic)
    BY <2>1 DEF SubBegin
  <2>2. CASE EnterCore(t)
    <3>1. pc[t] \in {"unsubLock", "initLock", "pubLock"}
      BY <2>2 DEF EnterCore, InCoreAfter
    <3>2. InCoreAfter[pc[t]] \in {"unsubCore", "initCore", "pubCore"}
      BY <3>1 DEF InCoreAfter
    <3> QED BY <2>2, <3>2 DEF EnterCore
  <2>3. CASE ~EnterCore(t) /\ \A topic \in Topics : ~SubBegin(t, topic)
    <3>1. pc' = pc \/ \E label \in {"ready", "unsubLock", "unsubClear", "initSlots", "initLock", "pubLock"} :
                        pc' = [pc EXCEPT ![t] = label]
      BY <1>2, <2>3 DEF TaskStep, UnsubBegin, SubFail, SubDone, UnsubLeaveCore, UnsubClear, InitBegin,
                InitSlots, InitLeaveCore, PublishBegin, PublishLeaveCore, Poll, Get, Free, Spin, vars
    <3> QED BY <3>1
  <2> QED BY <2>1, <2>2, <2>3
<1>3. CASE UNCHANGED vars
  BY <1>3 DEF vars, taskVars
<1> QED BY <1>1, <1>2, <1>3 DEF Next

LEMMA SearchInvStep ==
  ASSUME "reinit" \notin Calls, TypeInv, SetupInv, SearchInv, [Next]_vars
  PROVE  SearchInv'
<1> USE DEF SearchInv
<1>1. SlotFound'
  <2> SUFFICES ASSUME numTopics # MaxTopics, \A i \in Slots : valid[i] PROVE FALSE
    BY PanicSteps
  <2>1. ValidSlots = Slots
    BY DEF ValidSlots
  <2> QED BY <2>1, SlotsFinite, SizeAssumption DEF TypeInv, TypeOK, TableType
<1>2. ASSUME NEW t \in Tasks, SubDone(t)
      PROVE  (Cardinality(ValidSlots) <= numTopics)'
  <2>1. PICK i \in Slots : FirstFree(i) /\ valid' = [valid EXCEPT ![i] = TRUE]
    BY <1>2 DEF SubDone
  <2>2. ValidSlots' = ValidSlots \cup {i} /\ i \notin ValidSlots
    BY <2>1 DEF ValidSlots, FirstFree, TypeInv, TypeOK, TableType
  <2>3. Cardinality(ValidSlots') = Cardinality(ValidSlots) + 1
    BY <2>2, SlotsFinite, FS_AddElement
  <2>4. numTopics' = numTopics + 1
    BY <1>2 DEF SubDone, CountSub
  <2> QED BY <2>3, <2>4, SlotsFinite DEF TypeInv, TypeOK, TableType
<1>3. ASSUME NEW t \in Tasks, UnsubClear(t)
      PROVE  (Cardinality(ValidSlots) <= numTopics)'
  <2>1. ValidSlots' \in SUBSET ValidSlots /\ numTopics' = numTopics
    BY <1>3 DEF UnsubClear, ClearSlot, ValidSlots, TypeInv, TypeOK, TableType
  <2>2. Cardinality(ValidSlots') <= Cardinality(ValidSlots) /\ Cardinality(ValidSlots') \in Nat
    BY <2>1, SlotsFinite, FS_Subset, FS_CardinalityType
  <2> QED BY <2>1, <2>2, SlotsFinite DEF TypeInv, TypeOK, TableType
<1>4. ASSUME NEW t \in Tasks, InitBegin(t) \/ InitSlots(t)
      PROVE  (Cardinality(ValidSlots) <= numTopics)'
  <2>1. \A i \in Slots : ~valid'[i]
    BY <1>4 DEF InitBegin, InitSlots, SetupInv
  <2>2. numTopics' \in Nat
    BY <1>4, SizeAssumption DEF InitBegin, InitSlots, TypeInv, TypeOK, TableType
  <2>3. ValidSlots' = {}
    BY <2>1 DEF ValidSlots
  <2> QED BY <2>2, <2>3, FS_EmptySet
<1>5. ASSUME UNCHANGED <<valid, numTopics>>
      PROVE  (Cardinality(ValidSlots) <= numTopics)'
  BY <1>5 DEF ValidSlots
<1> QED BY <1>1, <1>2, <1>3, <1>4, <1>5, CountUntouched

LEMMA SearchInvInit == Init => SearchInv
<1> SUFFICES ASSUME Init PROVE SearchInv
  OBVIOUS
<1>1. Cardinality(ValidSlots) = 0
  BY NoValidSlots DEF Init
<1> QED BY <1>1 DEF SearchInv, SlotFound, Init

\* When mqtt_init is called once, the assertion in the search of mqtt_sub_topic
\* never fails, although mqtt_unsub_topic leaves num_topics alone.
THEOREM SlotAlwaysFound == ASSUME "reinit" \notin Calls PROVE Spec => []SlotFound
<1>1. Init => TypeInv /\ SetupInv /\ SearchInv
  BY TypeInvInit, SetupInvInit, SearchInvInit
<1>2. TypeInv /\ SetupInv /\ SearchInv /\ [Next]_vars => (TypeInv /\ SetupInv /\ SearchInv)'
  BY TypeInvStep, SetupInvStep, SearchInvStep
<1>3. SearchInv => SlotFound
  BY DEF SearchInv
<1> QED BY <1>1, <1>2, <1>3, PTL DEF Spec

-----------------------------------------------------------------------------
(* Nobody unsubscribes either: a message reaches its subscriber *)

KeepInv == \A t \in Tasks : pc[t] \notin UnsubPcs

\* A valid slot belongs to the task that was given its number for its topic, and
\* a task inside mqtt_subscribe has written its topic in the first free slot.
RegisterInv ==
  /\ \A i \in Slots : valid[i] =>
       /\ slotQueue[i] \in Tasks /\ slotName[i] \in Wants[slotQueue[i]]
       /\ ids[slotQueue[i]][slotName[i]] = i
  /\ \A t \in Tasks : pc[t] = "subCore" =>
       /\ arg[t] \in Wants[t] /\ ids[t][arg[t]] = UNKNOWN_TOPIC
       /\ \A i \in Slots : FirstFree(i) => slotName[i] = arg[t]

\* A block for task t holds a message on a topic of t under the id t knows.
Addressed(t, b) == msg[b].from \in Wants[t] /\ msg[b].topic_id = ids[t][msg[b].from]
DeliverInv ==
  /\ \A t \in Tasks : \A i \in 1 .. Len(queue[t]) : Addressed(t, queue[t][i])
  /\ \A t \in Tasks : held[t] # NoBlock => Addressed(t, held[t])
  /\ rxBlock # NoBlock => msg[rxBlock] = [topic_id |-> idx, from |-> rx.topic]

\* What the tasks of freertos.c never do.
Subscribing == Calls \subseteq {"sub", "publish"}

LEMMA KeepInvStep ==
  ASSUME Subscribing, TypeInv, KeepInv, [Next]_vars
  PROVE  KeepInv'
<1> USE DEF KeepInv, UnsubPcs, TypeInv, TypeOK, TaskType
<1>1. CASE TcpipStep
  BY <1>1 DEF TcpipStep, TcpipLock, TcpipUnlock, ConnectAccepted, ConnectionLost, PublishCb,
              DataCbFragment, DataCbCheck, DataCbAlloc, DataCbPut, taskVars
<1>2. ASSUME NEW t \in Tasks, TaskStep(t)
      PROVE  KeepInv'
  <2> USE DEF Goto, Return, taskVars
  <2>1. CASE EnterCore(t)
    <3>1. pc[t] \in {"initLock", "pubLock"}
      BY <2>1 DEF EnterCore, InCoreAfter
    <3>2. InCoreAfter[pc[t]] \in {"initCore", "pubCore"}
      BY <3>1 DEF InCoreAfter
    <3> QED BY <2>1, <3>2 DEF EnterCore
  <2>2. CASE ~EnterCore(t)
    <3>1. pc' = pc \/ \E label \in {"ready", "subCore", "panic", "initSlots", "initLock", "pubLock"} :
                        pc' = [pc EXCEPT ![t] = label]
      BY <1>2, <2>2 DEF TaskStep, SubBegin, UnsubBegin, SubFail, SubDone, UnsubLeaveCore, UnsubClear,
                InitBegin, InitSlots, InitLeaveCore, PublishBegin, PublishLeaveCore, Poll, Get, Free,
                Spin, vars, Subscribing
    <3> QED BY <3>1
  <2> QED BY <2>1, <2>2
<1>3. CASE UNCHANGED vars
  BY <1>3 DEF vars, taskVars
<1> QED BY <1>1, <1>2, <1>3 DEF Next

LEMMA FirstFreeUnique ==
  ASSUME NEW i \in Slots, NEW j \in Slots, FirstFree(i), FirstFree(j)
  PROVE  i = j
BY SizeAssumption DEF FirstFree, Slots

LEMMA RegisterSubBegin ==
  ASSUME TypeInv, RegisterInv, NEW t \in Tasks, NEW topic \in Topics, SubBegin(t, topic)
  PROVE  RegisterInv'
<1> USE DEF TypeInv, TypeOK, TableType, TaskType, RegisterInv, Goto
<1>1. /\ pc[t] = "ready" /\ topic \in Wants[t] /\ ids[t][topic] = UNKNOWN_TOPIC
      /\ UNCHANGED <<slotQueue, valid, ids>>
      /\ \A u \in Tasks : u # t => pc[u] # "subCore"
  BY TasksAssumption DEF SubBegin, CanRun, CallInv
<1>2. \/ UNCHANGED <<slotName, pc, arg>>
      \/ pc' = [pc EXCEPT ![t] = "panic"] /\ UNCHANGED <<slotName, arg>>
      \/ /\ pc' = [pc EXCEPT ![t] = "subCore"] /\ arg' = [arg EXCEPT ![t] = topic]
         /\ \E i \in Slots : FirstFree(i) /\ slotName' = [slotName EXCEPT ![i] = topic]
  BY DEF SubBegin
<1>3. CASE pc'[t] # "subCore"
  BY <1>1, <1>2, <1>3 DEF FirstFree
<1>4. CASE pc'[t] = "subCore"
  <2>1. /\ pc' = [pc EXCEPT ![t] = "subCore"] /\ arg' = [arg EXCEPT ![t] = topic]
        /\ \E i \in Slots : FirstFree(i) /\ slotName' = [slotName EXCEPT ![i] = topic]
    BY <1>1, <1>2, <1>4
  <2>2. PICK i \in Slots : FirstFree(i) /\ slotName' = [slotName EXCEPT ![i] = topic]
    BY <2>1
  <2>3. \A j \in Slots : valid[j] => slotName'[j] = slotName[j]
    BY <2>2 DEF FirstFree
  <2>4. \A j \in Slots : FirstFree(j)' => slotName'[j] = topic
    BY <1>1, <2>2, FirstFreeUnique DEF FirstFree
  <2> QED BY <1>1, <2>1, <2>3, <2>4
<1> QED BY <1>3, <1>4

LEMMA RegisterSubDone ==
  ASSUME TypeInv, RegisterInv, NEW t \in Tasks, SubDone(t)
  PROVE  RegisterInv'
<1> USE DEF TypeInv, TypeOK, TableType, TaskType, RegisterInv, Goto, Return
<1>1. /\ pc[t] = "subCore" /\ pc' = [pc EXCEPT ![t] = "ready"] /\ slotName' = slotName
      /\ \A u \in Tasks : u # t => pc[u] # "subCore"
      /\ arg[t] \in Topics
  BY DEF SubDone, CallInv
<1>2. PICK i \in Slots : /\ FirstFree(i) /\ slotQueue' = [slotQueue EXCEPT ![i] = t]
                         /\ valid' = [valid EXCEPT ![i] = TRUE]
                         /\ ids' = [ids EXCEPT ![t][arg[t]] = i]
  BY DEF SubDone
<1>3. ~valid[i] /\ slotName[i] = arg[t] /\ arg[t] \in Wants[t] /\ ids[t][arg[t]] = UNKNOWN_TOPIC
  BY <1>1, <1>2 DEF FirstFree
<1>4. ids'[t][arg[t]] = i
  BY <1>1, <1>2
<1>5. ASSUME NEW j \in Slots, valid'[j]
      PROVE  /\ slotQueue'[j] \in Tasks /\ slotName'[j] \in Wants[slotQueue'[j]]
             /\ ids'[slotQueue'[j]][slotName'[j]] = j
  <2>1. CASE j = i
    BY <1>1, <1>2, <1>3, <1>4, <2>1
  <2>2. CASE j # i
    <3>1. /\ valid[j] /\ slotQueue'[j] = slotQueue[j] /\ slotName'[j] = slotName[j]
          /\ slotQueue[j] \in Tasks /\ slotName[j] \in Wants[slotQueue[j]]
          /\ ids[slotQueue[j]][slotName[j]] = j
      BY <1>1, <1>2, <1>5, <2>2
    <3>2. j # UNKNOWN_TOPIC
      BY SizeAssumption DEF Slots, UNKNOWN_TOPIC
    <3>3. slotName[j] \in Topics
      BY <3>1, DataAssumption
    <3>4. ~(slotQueue[j] = t /\ slotName[j] = arg[t])
      BY <1>3, <3>1, <3>2
    <3>5. ids'[slotQueue[j]][slotName[j]] = ids[slotQueue[j]][slotName[j]]
      BY <1>1, <1>2, <3>1, <3>3, <3>4
    <3> QED BY <3>1, <3>5
  <2> QED BY <2>1, <2>2
<1>6. \A u \in Tasks : pc'[u] # "subCore"
  BY <1>1
<1> QED BY <1>5, <1>6

LEMMA RegisterInvStep ==
  ASSUME Subscribing, TypeInv, SetupInv, KeepInv, RegisterInv, [Next]_vars
  PROVE  RegisterInv'
<1>1. ASSUME UNCHANGED <<slotName, slotQueue, valid, ids, pc, arg>>
      PROVE  RegisterInv'
  BY <1>1 DEF RegisterInv, FirstFree
<1>2. CASE TcpipStep
  BY <1>1, <1>2 DEF TcpipStep, TcpipLock, TcpipUnlock, ConnectAccepted, ConnectionLost, PublishCb,
              DataCbFragment, DataCbCheck, DataCbAlloc, DataCbPut, taskVars, tableVars
<1>3. ASSUME NEW t \in Tasks, TaskStep(t)
      PROVE  RegisterInv'
  <2>1. CASE \E topic \in Topics : SubBegin(t, topic)
    BY <2>1, RegisterSubBegin
  <2>2. CASE SubDone(t)
    BY <2>2, RegisterSubDone
  <2>3. CASE InitSlots(t)
    <3>1. /\ \A i \in Slots : ~valid'[i]
          /\ pc[t] = "initSlots" /\ pc' = [pc EXCEPT ![t] = "initLock"]
      BY <2>3 DEF InitSlots, Goto
    <3>2. \A u \in Tasks : pc'[u] # "subCore"
      BY <3>1 DEF SetupInv, InitPcs, TypeInv, TypeOK, TaskType
    <3> QED BY <3>1, <3>2 DEF RegisterInv
  <2>4. CASE \/ SubFail(t) \/ InitBegin(t) \/ InitLeaveCore(t) \/ PublishBegin(t)
             \/ PublishLeaveCore(t)
    <3>1. /\ UNCHANGED <<slotName, slotQueue, valid, ids>>
          /\ \A u \in Tasks : u # t => pc'[u] = pc[u] /\ arg'[u] = arg[u]
          /\ pc'[t] # "subCore"
      BY <2>4 DEF SubFail, InitBegin, InitLeaveCore, PublishBegin, PublishLeaveCore, Goto, Return,
                  tableVars, TypeInv, TypeOK, TaskType
    <3> QED BY <3>1 DEF RegisterInv, FirstFree
  <2>5. CASE EnterCore(t)
    <3>1. pc[t] \in {"unsubLock", "initLock", "pubLock"}
      BY <2>5 DEF EnterCore, InCoreAfter
    <3>2. InCoreAfter[pc[t]] # "subCore"
      BY <3>1 DEF InCoreAfter
    <3>3. /\ UNCHANGED <<slotName, slotQueue, valid, ids, arg>>
          /\ pc' = [pc EXCEPT ![t] = InCoreAfter[pc[t]]]
      BY <2>5 DEF EnterCore, Goto, tableVars
    <3> QED BY <3>2, <3>3 DEF RegisterInv, FirstFree, TypeInv, TypeOK, TaskType
  <2>6. CASE Poll(t) \/ Get(t) \/ Free(t) \/ Spin(t)
    BY <1>1, <2>6 DEF Poll, Get, Free, Spin, vars, taskVars, tableVars
  <2>7. ~UnsubLeaveCore(t) /\ ~UnsubClear(t) /\ \A topic \in Topics : ~UnsubBegin(t, topic)
    BY DEF UnsubLeaveCore, UnsubClear, UnsubBegin, Subscribing, KeepInv, UnsubPcs
  <2> QED BY <1>3, <2>1, <2>2, <2>3, <2>4, <2>5, <2>6, <2>7 DEF TaskStep
<1>4. CASE UNCHANGED vars
  BY <1>1, <1>4 DEF vars, taskVars, tableVars
<1> QED BY <1>2, <1>3, <1>4 DEF Next

\* Nobody gives up a slot, nor the number of a topic.
LEMMA SlotsKept ==
  ASSUME Subscribing, TypeInv, SetupInv, KeepInv, RegisterInv, [Next]_vars
  PROVE  /\ \A i \in Slots : valid[i] => valid'[i]
         /\ \A t \in Tasks, p \in Topics : ids[t][p] # UNKNOWN_TOPIC => ids'[t][p] = ids[t][p]
<1> USE DEF TypeInv, TypeOK, TableType, TaskType
<1>1. CASE TcpipStep
  BY <1>1 DEF TcpipStep, TcpipLock, TcpipUnlock, ConnectAccepted, ConnectionLost, PublishCb,
              DataCbFragment, DataCbCheck, DataCbAlloc, DataCbPut, taskVars, tableVars
<1>2. ASSUME NEW t \in Tasks, TaskStep(t)
      PROVE  /\ \A i \in Slots : valid[i] => valid'[i]
             /\ \A u \in Tasks, p \in Topics : ids[u][p] # UNKNOWN_TOPIC => ids'[u][p] = ids[u][p]
  <2>1. CASE SubDone(t)
    <3>1. PICK i \in Slots : FirstFree(i) /\ valid' = [valid EXCEPT ![i] = TRUE]
                             /\ ids' = [ids EXCEPT ![t][arg[t]] = i]
      BY <2>1 DEF SubDone
    <3>2. ids[t][arg[t]] = UNKNOWN_TOPIC
      BY <2>1 DEF SubDone, RegisterInv
    <3> QED BY <3>1, <3>2
  <2>2. CASE InitSlots(t)
    <3>1. \A i \in Slots : ~valid[i]
      BY <2>2 DEF InitSlots, SetupInv, InitPcs
    <3> QED BY <2>2, <3>1 DEF InitSlots
  <2>3. CASE ~SubDone(t) /\ ~InitSlots(t)
    <3>1. ~UnsubClear(t)
      BY DEF UnsubClear, KeepInv, UnsubPcs
    <3>2. UNCHANGED <<valid, ids>>
      BY <1>2, <2>3, <3>1 DEF TaskStep, SubBegin, UnsubBegin, SubFail, UnsubLeaveCore, InitBegin,
         InitLeaveCore, PublishBegin, PublishLeaveCore, EnterCore, Poll, Get, Free, Spin, vars,
         taskVars, tableVars
    <3> QED BY <3>2
  <2> QED BY <2>1, <2>2, <2>3
<1>3. CASE UNCHANGED vars
  BY <1>3 DEF vars, taskVars, tableVars
<1> QED BY <1>1, <1>2, <1>3 DEF Next

\* The tasks do not touch what the TCP/IP thread is receiving.
LEMMA ReceiveUntouched ==
  ASSUME [Next]_vars, ~TcpipStep
  PROVE  UNCHANGED <<idx, rx, rxPc, rxBlock>>
<1>1. ASSUME NEW t \in Tasks, TaskStep(t)
      PROVE  UNCHANGED <<idx, rx, rxPc, rxBlock>>
  BY <1>1 DEF TaskStep, SubBegin, UnsubBegin, SubFail, SubDone, UnsubLeaveCore, UnsubClear,
     InitBegin, InitSlots, InitLeaveCore, PublishBegin, PublishLeaveCore, EnterCore, Poll, Get,
     Free, Spin, vars, tableVars, rxVars
<1> QED BY <1>1 DEF Next, vars, tableVars, rxVars

LEMMA IdxFreshStep ==
  ASSUME Subscribing, TypeInv, SetupInv, KeepInv, RegisterInv, IdxFresh, [Next]_vars
  PROVE  IdxFresh'
<1>1. ASSUME UNCHANGED idx, rx' # NoRx => rx # NoRx /\ rx'.topic = rx.topic
      PROVE  IdxFresh'
  <2>1. idx # UNKNOWN_TOPIC => idx \in Slots
    BY DEF TypeInv, TypeOK, TableType, TopicId
  <2> QED BY <1>1, <2>1, SlotsKept, StableSlotsStep DEF IdxFresh
<1>2. CASE TcpipStep
  <2>1. CASE \E topic \in Topics : PublishCb(topic)
    BY <2>1 DEF PublishCb, Match, NoMatchIndex, IdxFresh
  <2>2. CASE DataCbFragment
    BY <1>1, <2>2 DEF DataCbFragment, tableVars, TypeInv, TypeOK, LwipType
  <2>3. CASE ~DataCbFragment /\ \A topic \in Topics : ~PublishCb(topic)
    <3>1. UNCHANGED idx /\ (rx' = rx \/ rx' = NoRx)
      BY <1>2, <2>3 DEF TcpipStep, TcpipLock, TcpipUnlock, ConnectAccepted, ConnectionLost,
                        DataCbCheck, DataCbAlloc, DataCbPut, tableVars, rxVars
    <3> QED BY <1>1, <3>1
  <2> QED BY <2>1, <2>2, <2>3
<1>3. CASE ~TcpipStep
  BY <1>1, <1>3, ReceiveUntouched
<1> QED BY <1>2, <1>3

\* A message keeps its address while its block is not written.
LEMMA AddressKept ==
  ASSUME Subscribing, TypeInv, SetupInv, KeepInv, RegisterInv, [Next]_vars,
         NEW t \in Tasks, NEW b, msg[b] \in Message, msg'[b] = msg[b], Addressed(t, b)
  PROVE  Addressed(t, b)'
<1>1. msg[b].from \in Topics /\ ids[t][msg[b].from] # UNKNOWN_TOPIC
  BY SizeAssumption DEF Message, Addressed, Slots, UNKNOWN_TOPIC
<1> QED BY <1>1, SlotsKept DEF Addressed

LEMMA DeliverInvStep ==
  ASSUME Subscribing, TypeInv, SetupInv, PoolInv, KeepInv, RegisterInv, IdxFresh, DeliverInv,
         [Next]_vars
  PROVE  DeliverInv'
<1> USE DataAssumption
<1> DEFINE Old(t, b) == /\ msg[b] \in Message /\ Addressed(t, b) /\ msg'[b] = msg[b]
<1>1. ASSUME \A t \in Tasks : \A i \in 1 .. Len(queue'[t]) : Addressed(t, queue[t][i])',
             \A t \in Tasks : held'[t] # NoBlock => Addressed(t, held[t])',
             rxBlock' # NoBlock => msg'[rxBlock'] = [topic_id |-> idx', from |-> rx'.topic]
      PROVE  DeliverInv'
  BY <1>1 DEF DeliverInv, Addressed
<1>2. ASSUME NEW t \in Tasks, NEW b, Old(t, b)
      PROVE  Addressed(t, b)'
  BY <1>2, AddressKept
<1> HIDE DEF Old
<1>3. CASE UNCHANGED <<poolVars, rxBlock>>
  <2>1. \A t \in Tasks : \A i \in 1 .. Len(queue[t]) : Old(t, queue[t][i])
    BY <1>3 DEF Old, DeliverInv, PoolInv, Written, poolVars
  <2>2. \A t \in Tasks : held[t] # NoBlock => Old(t, held[t])
    BY <1>3 DEF Old, DeliverInv, PoolInv, Written, poolVars
  <2>3. rxBlock # NoBlock => UNCHANGED <<idx, rx>>
    <3>1. rxBlock # NoBlock => rxPc = "put" /\ rxBlock' # NoBlock
      BY <1>3 DEF TypeInv, ReceiveInv
    <3>2. CASE TcpipStep
      BY <3>1, <3>2 DEF TcpipStep, TcpipLock, TcpipUnlock, ConnectAccepted, ConnectionLost, PublishCb,
                        DataCbFragment, DataCbCheck, DataCbAlloc, DataCbPut
    <3> QED BY <3>2, ReceiveUntouched
  <2>4. rxBlock' # NoBlock => msg'[rxBlock'] = [topic_id |-> idx', from |-> rx'.topic]
    BY <1>3, <2>3 DEF DeliverInv, poolVars
  <2>5. UNCHANGED <<queue, held>>
    BY <1>3 DEF poolVars
  <2> QED BY <1>2, <2>1, <2>2, <2>4, <2>5 DEF DeliverInv, Addressed

<1>4. ASSUME NEW u \in Tasks, Get(u)
      PROVE  DeliverInv'
  <2> DEFINE q == queue[u]
  <2>1. q \in Seq(Blocks) /\ q # <<>> /\ Len(q) \in Nat /\ Len(q) > 0
    BY <1>4, EmptySeq DEF Get, TypeInv, TypeOK, PoolType
  <2>2. /\ Head(q) = q[1] /\ Len(Tail(q)) = Len(q) - 1
        /\ \A i \in 1 .. Len(Tail(q)) : Tail(q)[i] = q[i + 1]
    BY <2>1, HeadTailProperties
  <2>3. /\ held' = [held EXCEPT ![u] = q[1]] /\ queue' = [queue EXCEPT ![u] = Tail(q)]
        /\ UNCHANGED <<msg, rxBlock, idx, rx>>
    BY <1>4, <2>2 DEF Get, tableVars, rxVars
  <2>4. \A t \in Tasks : \A i \in 1 .. Len(queue[t]) : Old(t, queue[t][i])
    BY <2>3 DEF Old, DeliverInv, PoolInv, Written
  <2>5. \A t \in Tasks : held[t] # NoBlock => Old(t, held[t])
    BY <2>3 DEF Old, DeliverInv, PoolInv, Written
  <2>6. \A t \in Tasks : \A i \in 1 .. Len(queue'[t]) : Old(t, queue'[t][i])
    <3> SUFFICES ASSUME NEW t \in Tasks, NEW i \in 1 .. Len(queue'[t])
                 PROVE  \E j \in 1 .. Len(queue[t]) : queue'[t][i] = queue[t][j]
      BY <2>4
    <3> HIDE DEF q
    <3>1. CASE t = u
      BY <2>1, <2>2, <2>3, <3>1 DEF TypeInv, TypeOK, PoolType, q
    <3>2. CASE t # u
      BY <2>3, <3>2 DEF TypeInv, TypeOK, PoolType
    <3> QED BY <3>1, <3>2
  <2>7. \A t \in Tasks : held'[t] # NoBlock => Old(t, held'[t])
    BY <2>1, <2>3, <2>4, <2>5 DEF TypeInv, TypeOK, PoolType
  <2>8. rxBlock' # NoBlock => msg'[rxBlock'] = [topic_id |-> idx', from |-> rx'.topic]
    BY <2>3 DEF DeliverInv
  <2> QED BY <1>2, <2>6, <2>7, <2>8 DEF DeliverInv, Addressed

<1>5. ASSUME NEW u \in Tasks, Free(u)
      PROVE  DeliverInv'
  <2>1. /\ held[u] \in Blocks /\ held' = [held EXCEPT ![u] = NoBlock]
        /\ UNCHANGED <<queue, rxBlock, idx, rx>>
        /\ \A b \in Blocks : b # held[u] => msg'[b] = msg[b]
    BY <1>5 DEF Free, tableVars, rxVars, TypeInv, TypeOK, PoolType
  <2>2. \A t \in Tasks : \A i \in 1 .. Len(queue[t]) : Old(t, queue[t][i])
    <3>1. \A t \in Tasks : \A i \in 1 .. Len(queue[t]) :
            queue[t][i] \in Blocks /\ queue[t][i] # held[u]
      BY LenProperties DEF TypeInv, TypeOK, PoolType, PoolInv, Apart, HeldApart
    <3> QED BY <2>1, <3>1 DEF Old, DeliverInv, PoolInv, Written
  <2>3. \A t \in Tasks : held'[t] # NoBlock => Old(t, held'[t])
    <3>1. \A t \in Tasks : held'[t] # NoBlock => held'[t] = held[t] /\ held[t] \in Blocks /\ held[t] # held[u]
      BY <2>1 DEF TypeInv, TypeOK, PoolType, PoolInv, Apart, HeldApart
    <3> QED BY <2>1, <3>1 DEF Old, DeliverInv, PoolInv, Written
  <2>4. rxBlock' # NoBlock => msg'[rxBlock'] = [topic_id |-> idx', from |-> rx'.topic]
    <3>1. rxBlock # NoBlock => rxBlock \in Blocks /\ rxBlock # held[u]
      BY <2>1 DEF TypeInv, TypeOK, LwipType, PoolInv, Apart, FillingApart
    <3> QED BY <2>1, <3>1 DEF DeliverInv
  <2> QED BY <1>2, <2>1, <2>2, <2>3, <2>4 DEF DeliverInv, Addressed

<1>6. CASE DataCbAlloc
  <2>1. CASE free = {}
    BY <1>3, <1>6, <2>1 DEF DataCbAlloc, poolVars
  <2>2. CASE free # {}
    <3>1. PICK b \in free : /\ rxBlock' = b
                            /\ msg' = [msg EXCEPT ![b] = [topic_id |-> idx, from |-> rx.topic]]
      BY <1>6, <2>2 DEF DataCbAlloc
    <3>2. UNCHANGED <<queue, held, idx, rx>>
      BY <1>6, <2>2 DEF DataCbAlloc, tableVars
    <3>3. b \in Blocks /\ \A c \in Blocks : c # b => msg'[c] = msg[c]
      BY <3>1 DEF TypeInv, TypeOK, PoolType
    <3>4. \A t \in Tasks : \A i \in 1 .. Len(queue[t]) : Old(t, queue[t][i])
      <4>1. \A t \in Tasks : \A i \in 1 .. Len(queue[t]) :
              queue[t][i] \in Blocks /\ queue[t][i] # b
        BY LenProperties DEF TypeInv, TypeOK, PoolType, PoolInv, Apart, FreeApart
      <4> QED BY <3>3, <4>1 DEF Old, DeliverInv, PoolInv, Written
    <3>5. \A t \in Tasks : held[t] # NoBlock => Old(t, held[t])
      <4>1. \A t \in Tasks : held[t] # NoBlock => held[t] \in Blocks /\ held[t] # b
        BY DEF TypeInv, TypeOK, PoolType, PoolInv, Apart, FreeApart
      <4> QED BY <3>3, <4>1 DEF Old, DeliverInv, PoolInv, Written
    <3>6. msg'[rxBlock'] = [topic_id |-> idx', from |-> rx'.topic]
      BY <3>1, <3>2, <3>3 DEF TypeInv, TypeOK, PoolType
    <3> QED BY <1>2, <3>2, <3>4, <3>5, <3>6 DEF DeliverInv, Addressed
  <2> QED BY <2>1, <2>2

<1>7. CASE DataCbPut
  <2> DEFINE u == slotQueue[idx]
  <2>1. /\ rxBlock \in Blocks /\ rxBlock # NoBlock /\ idx \in Slots /\ rx # NoRx /\ rx.topic \in Topics
        /\ rxBlock' = NoBlock /\ UNCHANGED <<msg, held>>
    BY <1>7 DEF DataCbPut, TypeInv, TypeOK, LwipType, ReceiveInv
  <2>2. valid[idx] /\ slotName[idx] = rx.topic
    <3>1. idx # UNKNOWN_TOPIC
      BY <2>1, SizeAssumption DEF Slots, UNKNOWN_TOPIC
    <3> QED BY <2>1, <3>1 DEF IdxFresh
  <2>3. u \in Tasks /\ rx.topic \in Wants[u] /\ ids[u][rx.topic] = idx
    BY <2>1, <2>2 DEF RegisterInv
  <2>4. msg[rxBlock] = [topic_id |-> idx, from |-> rx.topic]
    BY <2>1 DEF DeliverInv
  <2>5. Old(u, rxBlock)
    <3>1. Addressed(u, rxBlock)
      BY <2>3, <2>4 DEF Addressed
    <3> QED BY <2>1, <3>1 DEF Old, PoolInv, Written
  <2>6. queue' = queue \/ queue' = [queue EXCEPT ![u] = Append(queue[u], rxBlock)]
    BY <1>7 DEF DataCbPut
  <2>7. \A t \in Tasks : \A i \in 1 .. Len(queue'[t]) :
          \/ i \in 1 .. Len(queue[t]) /\ queue'[t][i] = queue[t][i]
          \/ t = u /\ queue'[t][i] = rxBlock
    <3>1. \A t \in Tasks : queue[t] \in Seq(Blocks) /\ Len(queue[t]) \in Nat
      BY LenProperties DEF TypeInv, TypeOK, PoolType
    <3>2. /\ Len(Append(queue[u], rxBlock)) = Len(queue[u]) + 1
          /\ \A i \in 1 .. Len(queue[u]) : Append(queue[u], rxBlock)[i] = queue[u][i]
          /\ Append(queue[u], rxBlock)[Len(queue[u]) + 1] = rxBlock
      BY <2>1, <2>3, <3>1, AppendProperties
    <3> HIDE DEF u
    <3> QED BY <2>3, <2>6, <3>1, <3>2 DEF TypeInv, TypeOK, PoolType
  <2> HIDE DEF u
  <2>8. \A t \in Tasks : \A i \in 1 .. Len(queue[t]) : Old(t, queue[t][i])
    BY <2>1 DEF Old, DeliverInv, PoolInv, Written
  <2>9. \A t \in Tasks : held[t] # NoBlock => Old(t, held[t])
    BY <2>1 DEF Old, DeliverInv, PoolInv, Written
  <2>10. \A t \in Tasks : \A i \in 1 .. Len(queue'[t]) : Old(t, queue'[t][i])
    BY <2>5, <2>7, <2>8
  <2> QED BY <1>2, <2>1, <2>9, <2>10 DEF DeliverInv, Addressed
<1> QED BY <1>3, <1>4, <1>5, <1>6, <1>7, PoolUntouched

LEMMA DeliverRouted ==
  ASSUME TypeInv, DeliverInv
  PROVE  Routed
<1>1. ASSUME NEW t \in Tasks, NEW b \in OwnedBlocks(t)
      PROVE  Addressed(t, b)
  <2>1. DOMAIN queue[t] = 1 .. Len(queue[t])
    BY LenProperties DEF TypeInv, TypeOK, PoolType
  <2>2. (\E i \in 1 .. Len(queue[t]) : b = queue[t][i]) \/ (b = held[t] /\ held[t] # NoBlock)
    BY <1>1, <2>1 DEF OwnedBlocks, QueuedBlocks
  <2> QED BY <2>2 DEF DeliverInv
<1> QED BY <1>1 DEF Routed, ToSubscriber, Addressed

LEMMA RoutingInit == Init => KeepInv /\ RegisterInv /\ IdxFresh /\ DeliverInv
BY DEF Init, KeepInv, UnsubPcs, RegisterInv, IdxFresh, DeliverInv

\* The invariant of the routing, in every state.
LEMMA RoutingAlways == ASSUME Subscribing PROVE Spec => [](Routed /\ IdxFresh)
<1> DEFINE Inv == /\ TypeInv /\ SetupInv /\ PoolInv
                  /\ KeepInv /\ RegisterInv /\ IdxFresh /\ DeliverInv
<1>1. Init => Inv
  BY TypeInvInit, SetupInvInit, PoolInvInit, RoutingInit
<1>2. Inv /\ [Next]_vars => Inv'
  <2>1. "reinit" \notin Calls
    BY DEF Subscribing
  <2> QED BY <2>1, TypeInvStep, SetupInvStep, PoolInvStep, KeepInvStep, RegisterInvStep,
             IdxFreshStep, DeliverInvStep
<1>3. Inv => Routed /\ IdxFresh
  BY DeliverRouted
<1> HIDE DEF Inv
<1> QED BY <1>1, <1>2, <1>3, PTL DEF Spec

\* When the tasks only subscribe, publish and receive, every message in the
\* queue or the hands of a task was published on a topic the task subscribed to
\* and carries the id the task knows that topic by.
THEOREM MessagesRouted == ASSUME Subscribing PROVE Spec => []Routed
  BY RoutingAlways, PTL

\* The index that mqtt_incoming_publish_cb leaves for mqtt_incoming_data_cb always
\* stands for the topic being received, whichever slots were added in between.
THEOREM IndexFresh == ASSUME Subscribing PROVE Spec => []IdxFresh
  BY RoutingAlways, PTL

-----------------------------------------------------------------------------
(* Subscriptions that end *)


\* The reverse of RegisterInv: a number a task was given is a valid slot of that
\* task for that topic, and a task that unsubscribes has a number.
OwnerInv ==
  /\ \A t \in Tasks, p \in Topics : ids[t][p] # UNKNOWN_TOPIC =>
       valid[ids[t][p]] /\ slotQueue[ids[t][p]] = t /\ slotName[ids[t][p]] = p
  /\ \A t \in Tasks : pc[t] \in UnsubPcs => ids[t][arg[t]] # UNKNOWN_TOPIC

TableInv == RegisterInv /\ OwnerInv

\* A connection is attempted before the first one was accepted, and never again.
LiveInv == connState = "connecting" => ~connected

LEMMA IdSlot ==
  ASSUME TypeInv, NEW t \in Tasks, NEW p \in Topics
  PROVE  ids[t][p] \in Slots <=> ids[t][p] # UNKNOWN_TOPIC
BY SizeAssumption DEF TypeInv, TypeOK, TaskType, TopicId, Slots, UNKNOWN_TOPIC

-----------------------------------------------------------------------------
(* The table and the numbers *)

\* A step of t that touches neither the table nor a number, and begins no
\* subscription.
LEMMA TableQuiet ==
  ASSUME TypeInv, TableInv, UNCHANGED <<slotName, slotQueue, valid, ids>>, NEW t \in Tasks,
         \A u \in Tasks : u # t => pc'[u] = pc[u] /\ arg'[u] = arg[u],
         pc'[t] # "subCore",
         pc'[t] \in UnsubPcs => ids[t][arg'[t]] # UNKNOWN_TOPIC
  PROVE  TableInv'
<1>1. RegisterInv'
  BY DEF TableInv, RegisterInv, FirstFree
<1>2. OwnerInv'
  BY DEF TableInv, OwnerInv
<1> QED BY <1>1, <1>2 DEF TableInv

\* A new slot has a number of its own.
LEMMA TableSubDone ==
  ASSUME TypeInv, TableInv, NEW t \in Tasks, SubDone(t)
  PROVE  TableInv'
<1> USE DEF TypeInv, TypeOK, TableType, TaskType
<1>1. RegisterInv'
  BY RegisterSubDone DEF TableInv
<1>2. /\ pc[t] = "subCore" /\ pc' = [pc EXCEPT ![t] = "ready"] /\ slotName' = slotName
      /\ arg' = [arg EXCEPT ![t] = NoTopic] /\ arg[t] \in Topics
  BY DEF SubDone, CallInv, Goto, Return
<1>3. PICK i \in Slots : /\ FirstFree(i) /\ slotQueue' = [slotQueue EXCEPT ![i] = t]
                         /\ valid' = [valid EXCEPT ![i] = TRUE]
                         /\ ids' = [ids EXCEPT ![t][arg[t]] = i]
  BY DEF SubDone
<1>4. ~valid[i] /\ slotName[i] = arg[t]
  BY <1>2, <1>3 DEF FirstFree, TableInv, RegisterInv
<1>5. i # UNKNOWN_TOPIC
  BY SizeAssumption DEF Slots, UNKNOWN_TOPIC
<1>6. ASSUME NEW u \in Tasks, NEW p \in Topics, ids'[u][p] # UNKNOWN_TOPIC
      PROVE  valid'[ids'[u][p]] /\ slotQueue'[ids'[u][p]] = u /\ slotName'[ids'[u][p]] = p
  <2>1. CASE u = t /\ p = arg[t]
    <3>1. ids'[u][p] = i
      BY <1>2, <1>3, <2>1
    <3> QED BY <1>2, <1>3, <1>4, <2>1, <3>1
  <2>2. CASE ~(u = t /\ p = arg[t])
    <3>1. ids'[u][p] = ids[u][p]
      BY <1>2, <1>3, <2>2
    <3>2. ids[u][p] \in Slots /\ valid[ids[u][p]] /\ slotQueue[ids[u][p]] = u /\ slotName[ids[u][p]] = p
      BY <1>6, <3>1, IdSlot DEF TableInv, OwnerInv
    <3>3. ids[u][p] # i
      BY <1>4, <3>2
    <3> QED BY <1>2, <1>3, <3>1, <3>2, <3>3
  <2> QED BY <2>1, <2>2
<1>7. ASSUME NEW u \in Tasks, pc'[u] \in UnsubPcs
      PROVE  ids'[u][arg'[u]] # UNKNOWN_TOPIC
  <2>1. u # t
    BY <1>2, <1>7 DEF UnsubPcs
  <2> QED BY <1>2, <1>3, <1>7, <2>1 DEF TableInv, OwnerInv
<1> QED BY <1>1, <1>6, <1>7 DEF TableInv, OwnerInv

\* The slot and its number are given up together, and nobody else's number is
\* that slot.
LEMMA TableUnsubClear ==
  ASSUME TypeInv, TableInv, NEW t \in Tasks, UnsubClear(t)
  PROVE  TableInv'
<1> USE DEF TypeInv, TypeOK, TableType, TaskType
<1> DEFINE i == ids[t][arg[t]]
<1>1. /\ pc[t] = "unsubClear" /\ pc' = [pc EXCEPT ![t] = "ready"]
      /\ arg' = [arg EXCEPT ![t] = NoTopic] /\ arg[t] \in Topics
      /\ UNCHANGED <<slotName, slotQueue>>
      /\ valid' = [valid EXCEPT ![i] = FALSE]
      /\ ids' = [ids EXCEPT ![t][arg[t]] = UNKNOWN_TOPIC]
      /\ CanRun(t)
  BY DEF UnsubClear, CallInv, Goto, Return, ClearSlot
<1>2. i # UNKNOWN_TOPIC
  BY <1>1 DEF TableInv, OwnerInv, UnsubPcs
<1>3. i \in Slots /\ valid[i] /\ slotQueue[i] = t /\ slotName[i] = arg[t]
  BY <1>1, <1>2, IdSlot DEF TableInv, OwnerInv
<1>4. \A u \in Tasks : u # t => pc[u] # "subCore"
  BY <1>1, TasksAssumption DEF CallInv, CanRun
<1>5. \A u \in Tasks, p \in Topics : ~(u = t /\ p = arg[t]) => ids'[u][p] = ids[u][p]
  BY <1>1
<1> HIDE DEF i
<1>6. ASSUME NEW j \in Slots, valid'[j]
      PROVE  /\ slotQueue'[j] \in Tasks /\ slotName'[j] \in Wants[slotQueue'[j]]
             /\ ids'[slotQueue'[j]][slotName'[j]] = j
  <2>1. j # i /\ valid[j]
    BY <1>1, <1>3, <1>6
  <2>2. /\ slotQueue[j] \in Tasks /\ slotName[j] \in Wants[slotQueue[j]]
        /\ ids[slotQueue[j]][slotName[j]] = j /\ slotName[j] \in Topics
    BY <2>1, DataAssumption DEF TableInv, RegisterInv
  <2>3. ~(slotQueue[j] = t /\ slotName[j] = arg[t])
    BY <2>1, <2>2 DEF i
  <2> QED BY <1>1, <1>5, <2>2, <2>3
<1>7. ASSUME NEW u \in Tasks, NEW p \in Topics, ids'[u][p] # UNKNOWN_TOPIC
      PROVE  valid'[ids'[u][p]] /\ slotQueue'[ids'[u][p]] = u /\ slotName'[ids'[u][p]] = p
  <2>1. ~(u = t /\ p = arg[t])
    BY <1>1, <1>7
  <2>2. ids'[u][p] = ids[u][p] /\ ids[u][p] # UNKNOWN_TOPIC
    BY <1>5, <1>7, <2>1
  <2>3. ids[u][p] \in Slots /\ valid[ids[u][p]] /\ slotQueue[ids[u][p]] = u /\ slotName[ids[u][p]] = p
    BY <2>2, IdSlot DEF TableInv, OwnerInv
  <2>4. ids[u][p] # i
    BY <1>3, <2>1, <2>3
  <2> QED BY <1>1, <2>2, <2>3, <2>4
<1>8. ASSUME NEW u \in Tasks, pc'[u] \in UnsubPcs
      PROVE  ids'[u][arg'[u]] # UNKNOWN_TOPIC
  <2>1. u # t
    BY <1>1, <1>8 DEF UnsubPcs
  <2> QED BY <1>1, <1>8, <2>1 DEF TableInv, OwnerInv
<1>9. \A u \in Tasks : pc'[u] # "subCore"
  BY <1>1, <1>4
<1> QED BY <1>6, <1>7, <1>8, <1>9 DEF TableInv, RegisterInv, OwnerInv

LEMMA TableInvStep ==
  ASSUME "reinit" \notin Calls, TypeInv, SetupInv, TableInv, [Next]_vars
  PROVE  TableInv'
<1>1. ASSUME UNCHANGED <<slotName, slotQueue, valid, ids, pc, arg>>
      PROVE  TableInv'
  BY <1>1 DEF TableInv, RegisterInv, OwnerInv, FirstFree
<1>2. CASE TcpipStep
  BY <1>1, <1>2 DEF TcpipStep, TcpipLock, TcpipUnlock, ConnectAccepted, ConnectionLost, PublishCb,
              DataCbFragment, DataCbCheck, DataCbAlloc, DataCbPut, taskVars, tableVars
<1>3. ASSUME NEW t \in Tasks, TaskStep(t)
      PROVE  TableInv'
  <2> USE DEF Goto, Return, TypeInv, TypeOK, TaskType
  <2>1. ASSUME NEW topic \in Topics, SubBegin(t, topic)
        PROVE  TableInv'
    <3>1. RegisterInv'
      BY <2>1, RegisterSubBegin DEF TableInv
    <3>2. /\ UNCHANGED <<slotQueue, valid, ids>> /\ pc[t] = "ready"
          /\ \A i \in Slots : valid[i] => slotName'[i] = slotName[i]
          /\ \A u \in Tasks : u # t => pc'[u] = pc[u] /\ arg'[u] = arg[u]
          /\ pc'[t] \in {"ready", "panic", "subCore"}
      BY <2>1 DEF SubBegin, FirstFree, TableType
    <3>3. \A u \in Tasks, p \in Topics : ids'[u][p] # UNKNOWN_TOPIC =>
            valid'[ids'[u][p]] /\ slotQueue'[ids'[u][p]] = u /\ slotName'[ids'[u][p]] = p
      <4>1. \A u \in Tasks, p \in Topics : ids[u][p] # UNKNOWN_TOPIC =>
              ids[u][p] \in Slots /\ valid[ids[u][p]] /\ slotQueue[ids[u][p]] = u /\ slotName[ids[u][p]] = p
        BY IdSlot DEF TableInv, OwnerInv
      <4> QED BY <3>2, <4>1
    <3>4. \A u \in Tasks : pc'[u] \in UnsubPcs => ids'[u][arg'[u]] # UNKNOWN_TOPIC
      BY <3>2 DEF TableInv, OwnerInv, UnsubPcs
    <3> QED BY <3>1, <3>3, <3>4 DEF TableInv, OwnerInv
  <2>2. ASSUME NEW topic \in Topics, UnsubBegin(t, topic)
        PROVE  TableInv'
    <3>1. ids[t][topic] # UNKNOWN_TOPIC
      BY <2>2, IdSlot DEF UnsubBegin
    <3>2. /\ UNCHANGED <<slotName, slotQueue, valid, ids>>
          /\ pc' = [pc EXCEPT ![t] = "unsubLock"] /\ arg' = [arg EXCEPT ![t] = topic]
      BY <2>2 DEF UnsubBegin, tableVars
    <3> QED BY <3>1, <3>2, TableQuiet
  <2>3. CASE SubDone(t)
    BY <2>3, TableSubDone
  <2>4. CASE UnsubClear(t)
    BY <2>4, TableUnsubClear
  <2>5. CASE UnsubLeaveCore(t)
    <3>1. /\ UNCHANGED <<slotName, slotQueue, valid, ids>> /\ pc[t] = "unsubCore"
          /\ \/ pc' = [pc EXCEPT ![t] = "unsubClear"] /\ arg' = arg
             \/ pc' = [pc EXCEPT ![t] = "ready"] /\ arg' = [arg EXCEPT ![t] = NoTopic]
      BY <2>5 DEF UnsubLeaveCore, tableVars
    <3>2. ids[t][arg[t]] # UNKNOWN_TOPIC
      BY <3>1 DEF TableInv, OwnerInv, UnsubPcs
    <3> QED BY <3>1, <3>2, TableQuiet DEF UnsubPcs
  <2>6. CASE InitSlots(t)
    <3>1. /\ \A i \in Slots : ~valid[i] /\ ~valid'[i]
          /\ pc[t] = "initSlots" /\ pc' = [pc EXCEPT ![t] = "initLock"] /\ UNCHANGED <<ids, arg>>
      BY <2>6 DEF InitSlots, SetupInv, InitPcs
    <3>2. \A u \in Tasks, p \in Topics : ids[u][p] = UNKNOWN_TOPIC
      BY <3>1, IdSlot DEF TableInv, OwnerInv
    <3>3. \A u \in Tasks : pc'[u] # "subCore"
      BY <3>1 DEF SetupInv, InitPcs
    <3>4. \A u \in Tasks : pc'[u] \in UnsubPcs => ids[u][arg[u]] # UNKNOWN_TOPIC
      BY <3>1 DEF TableInv, OwnerInv, UnsubPcs
    <3> QED BY <3>1, <3>2, <3>3, <3>4 DEF TableInv, RegisterInv, OwnerInv
  <2>7. CASE \/ SubFail(t) \/ InitBegin(t) \/ InitLeaveCore(t) \/ PublishBegin(t)
             \/ PublishLeaveCore(t)
    <3>1. /\ UNCHANGED <<slotName, slotQueue, valid, ids>>
          /\ \A u \in Tasks : u # t => pc'[u] = pc[u] /\ arg'[u] = arg[u]
          /\ pc'[t] \in {"ready", "initSlots", "initLock", "pubLock"}
      BY <2>7 DEF SubFail, InitBegin, InitLeaveCore, PublishBegin, PublishLeaveCore, tableVars
    <3> QED BY <3>1, TableQuiet DEF UnsubPcs
  <2>8. CASE EnterCore(t)
    <3>1. pc[t] \in {"unsubLock", "initLock", "pubLock"}
      BY <2>8 DEF EnterCore, InCoreAfter
    <3>2. InCoreAfter[pc[t]] # "subCore" /\ (InCoreAfter[pc[t]] \in UnsubPcs => pc[t] \in UnsubPcs)
      BY <3>1 DEF InCoreAfter, UnsubPcs
    <3>3. /\ UNCHANGED <<slotName, slotQueue, valid, ids, arg>>
          /\ pc' = [pc EXCEPT ![t] = InCoreAfter[pc[t]]]
      BY <2>8 DEF EnterCore, tableVars
    <3>4. pc'[t] \in UnsubPcs => ids[t][arg'[t]] # UNKNOWN_TOPIC
      BY <3>2, <3>3 DEF TableInv, OwnerInv
    <3> QED BY <3>2, <3>3, <3>4, TableQuiet
  <2>9. CASE Poll(t) \/ Get(t) \/ Free(t) \/ Spin(t)
    BY <1>1, <2>9 DEF Poll, Get, Free, Spin, vars, taskVars, tableVars
  <2> QED BY <1>3, <2>1, <2>2, <2>3, <2>4, <2>5, <2>6, <2>7, <2>8, <2>9 DEF TaskStep
<1>4. CASE UNCHANGED vars
  BY <1>1, <1>4 DEF vars, taskVars, tableVars
<1> QED BY <1>2, <1>3, <1>4 DEF Next

-----------------------------------------------------------------------------
(* The connection *)

LEMMA LiveInvStep ==
  ASSUME TypeInv, SetupInv, LiveInv, [Next]_vars
  PROVE  LiveInv'
<1> USE DEF LiveInv
<1>1. CASE TcpipStep
  BY <1>1 DEF TcpipStep, TcpipLock, TcpipUnlock, ConnectAccepted, ConnectionLost, PublishCb,
              DataCbFragment, DataCbCheck, DataCbAlloc, DataCbPut, connVars, tableVars
<1>2. ASSUME NEW t \in Tasks, TaskStep(t)
      PROVE  LiveInv'
  <2>1. CASE InitLeaveCore(t)
    <3>1. ~connected /\ connected' = connected
      BY <2>1 DEF InitLeaveCore, tableVars, SetupInv, InitPcs
    <3> QED BY <3>1
  <2>2. CASE ~InitLeaveCore(t)
    BY <1>2, <2>2 DEF TaskStep, SubBegin, UnsubBegin, SubFail, SubDone, UnsubLeaveCore, UnsubClear,
       InitBegin, InitSlots, PublishBegin, PublishLeaveCore, EnterCore, Poll, Get, Free, Spin, vars,
       connVars, tableVars
  <2> QED BY <2>1, <2>2
<1>3. CASE UNCHANGED vars
  BY <1>3 DEF vars, connVars, tableVars
<1> QED BY <1>1, <1>2, <1>3 DEF Next

-----------------------------------------------------------------------------
(* The broker *)

\* No two tasks want the same topic, as in code/CM7/Core/Src/freertos.c.
OwnTopics == \A t \in Tasks, u \in Tasks : t # u => Wants[t] \cap Wants[u] = {}

\* Slot i is known to the broker, or its task is giving it up.
Asked(i) ==
  \/ slotName[i] \in requested
  \/ \E t \in Tasks : pc[t] = "unsubClear" /\ ids[t][arg[t]] = i

\* With topics of their own two valid slots have two names.
LEMMA NamesDiffer ==
  ASSUME OwnTopics, TableInv, NEW i \in Slots, NEW j \in Slots, valid[i], valid[j],
         slotName[i] = slotName[j]
  PROVE  i = j
<1>1. slotQueue[i] = slotQueue[j]
  BY DEF OwnTopics, TableInv, RegisterInv
<1> QED BY <1>1 DEF TableInv, RegisterInv

LEMMA ServedStep ==
  ASSUME "reinit" \notin Calls, OwnTopics, TypeInv, SetupInv, TableInv, LiveInv, Served,
         [Next]_vars
  PROVE  Served'
<1> USE DEF TypeInv, TypeOK, TableType, TaskType
<1> SUFFICES ASSUME connState' = "connected", NEW i \in Slots, valid'[i]
             PROVE  Asked(i)'
  BY DEF Served, Asked
<1>1. ASSUME connState = "connected", valid[i], slotName'[i] = slotName[i],
             requested \subseteq requested', ids' = ids,
             \A t \in Tasks : pc[t] = "unsubClear" => pc'[t] = "unsubClear" /\ arg'[t] = arg[t]
      PROVE  Asked(i)'
  <2>1. Asked(i)
    BY <1>1 DEF Served, Asked
  <2> QED BY <1>1, <2>1 DEF Asked
<1>2. CASE TcpipStep
  <2>1. CASE ConnectAccepted
    BY <2>1 DEF ConnectAccepted, SetupInv, LiveInv
  <2>2. CASE ~ConnectAccepted
    <3>1. UNCHANGED <<slotName, valid, ids, pc, arg, connState, requested>>
      BY <1>2, <2>2 DEF TcpipStep, TcpipLock, TcpipUnlock, ConnectionLost, PublishCb,
                DataCbFragment, DataCbCheck, DataCbAlloc, DataCbPut, connVars, tableVars, taskVars
    <3> QED BY <1>1, <3>1
  <2> QED BY <2>1, <2>2
<1>3. ASSUME NEW t \in Tasks, TaskStep(t)
      PROVE  Asked(i)'
  <2> USE DEF Goto, Return
  <2>1. CASE SubDone(t)
    <3>1. PICK j \in Slots : FirstFree(j) /\ valid' = [valid EXCEPT ![j] = TRUE]
                             /\ ids' = [ids EXCEPT ![t][arg[t]] = j]
      BY <2>1 DEF SubDone
    <3>2. /\ pc[t] = "subCore" /\ pc' = [pc EXCEPT ![t] = "ready"]
          /\ arg' = [arg EXCEPT ![t] = NoTopic]
          /\ UNCHANGED <<slotName, connState>> /\ requested' = requested \cup {arg[t]}
      BY <2>1 DEF SubDone
    <3>3. CASE i = j
      <4>1. slotName[i] = arg[t]
        BY <3>1, <3>2, <3>3 DEF TableInv, RegisterInv
      <4> QED BY <3>2, <4>1 DEF Asked
    <3>4. CASE i # j
      <4>1. valid[i]
        BY <3>1, <3>4
      <4>2. Asked(i)
        BY <3>2, <4>1 DEF Served, Asked
      <4>3. CASE slotName[i] \in requested
        BY <3>2, <4>3 DEF Asked
      <4>4. CASE slotName[i] \notin requested
        <5>1. PICK u \in Tasks : pc[u] = "unsubClear" /\ ids[u][arg[u]] = i
          BY <4>2, <4>4 DEF Asked
        <5>2. u # t /\ pc'[u] = "unsubClear" /\ ids'[u][arg'[u]] = i
          BY <3>1, <3>2, <5>1
        <5> QED BY <5>2 DEF Asked
      <4> QED BY <4>3, <4>4
    <3> QED BY <3>3, <3>4
  <2>2. CASE UnsubClear(t)
    <3> DEFINE k == ids[t][arg[t]]
    <3>1. /\ pc[t] = "unsubClear" /\ pc' = [pc EXCEPT ![t] = "ready"]
          /\ arg' = [arg EXCEPT ![t] = NoTopic]
          /\ ids' = [ids EXCEPT ![t][arg[t]] = UNKNOWN_TOPIC]
          /\ valid' = [valid EXCEPT ![k] = FALSE]
          /\ UNCHANGED <<slotName, connState, requested>>
      BY <2>2 DEF UnsubClear, ClearSlot, connVars
    <3>2. valid[i] /\ i # k
      BY <3>1
    <3>3. Asked(i)
      BY <3>1, <3>2 DEF Served, Asked
    <3>4. CASE slotName[i] \in requested
      BY <3>1, <3>4 DEF Asked
    <3>5. CASE slotName[i] \notin requested
      <4>1. PICK u \in Tasks : pc[u] = "unsubClear" /\ ids[u][arg[u]] = i
        BY <3>3, <3>5 DEF Asked
      <4>2. u # t /\ pc'[u] = "unsubClear" /\ ids'[u][arg'[u]] = i
        BY <3>1, <3>2, <4>1
      <4> QED BY <4>2 DEF Asked
    <3> QED BY <3>4, <3>5
  <2>3. CASE UnsubLeaveCore(t)
    <3> DEFINE k == ids[t][arg[t]]
    <3>1. /\ pc[t] = "unsubCore" /\ UNCHANGED <<slotName, valid, ids, connState>>
          /\ \/ /\ requested' = requested \ {slotName[k]}
                /\ pc' = [pc EXCEPT ![t] = "unsubClear"] /\ arg' = arg
             \/ /\ requested' = requested
                /\ pc' = [pc EXCEPT ![t] = "ready"] /\ arg' = [arg EXCEPT ![t] = NoTopic]
      BY <2>3 DEF UnsubLeaveCore, tableVars
    <3>2. k \in Slots /\ valid[k]
      BY <3>1, IdSlot DEF TableInv, OwnerInv, UnsubPcs, CallInv
    <3>3. CASE requested' = requested \ {slotName[k]} /\ pc' = [pc EXCEPT ![t] = "unsubClear"] /\ arg' = arg
      <4>1. CASE i = k
        <5>1. pc'[t] = "unsubClear" /\ ids'[t][arg'[t]] = i
          BY <3>1, <3>3, <4>1
        <5> QED BY <5>1 DEF Asked
      <4>2. CASE i # k
        <5>1. slotName[i] # slotName[k]
          BY <3>1, <3>2, <4>2, NamesDiffer
        <5>2. Asked(i)
          BY <3>1 DEF Served, Asked
        <5>3. CASE slotName[i] \in requested
          BY <3>1, <3>3, <5>1, <5>3 DEF Asked
        <5>4. CASE slotName[i] \notin requested
          <6>1. PICK u \in Tasks : pc[u] = "unsubClear" /\ ids[u][arg[u]] = i
            BY <5>2, <5>4 DEF Asked
          <6>2. pc'[u] = "unsubClear" /\ ids'[u][arg'[u]] = i
            BY <3>1, <3>3, <6>1
          <6> QED BY <6>2 DEF Asked
        <5> QED BY <5>3, <5>4
      <4> QED BY <4>1, <4>2
    <3>4. CASE requested' = requested /\ pc' = [pc EXCEPT ![t] = "ready"] /\ arg' = [arg EXCEPT ![t] = NoTopic]
      <4>1. \A u \in Tasks : pc[u] = "unsubClear" => pc'[u] = "unsubClear" /\ arg'[u] = arg[u]
        BY <3>1, <3>4
      <4> QED BY <1>1, <3>1, <3>4, <4>1
    <3> QED BY <3>1, <3>3, <3>4
  <2>4. CASE InitSlots(t)
    BY <2>4 DEF InitSlots
  <2>5. CASE InitLeaveCore(t)
    <3>1. connState = "disconnected"
      BY <2>5 DEF InitLeaveCore, SetupInv, InitPcs
    <3> QED BY <2>5, <3>1 DEF InitLeaveCore
  <2>6. CASE \E topic \in Topics : SubBegin(t, topic)
    <3>1. /\ UNCHANGED <<valid, ids, connState, requested>> /\ pc[t] = "ready"
          /\ slotName'[i] = slotName[i]
          /\ \A u \in Tasks : u # t => pc'[u] = pc[u] /\ arg'[u] = arg[u]
      BY <2>6 DEF SubBegin, FirstFree, connVars
    <3> QED BY <1>1, <3>1
  <2>7. CASE EnterCore(t)
    <3>1. pc[t] # "unsubClear"
      BY <2>7 DEF EnterCore, InCoreAfter
    <3>2. /\ UNCHANGED <<slotName, valid, ids, arg, connState, requested>>
          /\ \A u \in Tasks : u # t => pc'[u] = pc[u]
      BY <2>7 DEF EnterCore, tableVars, connVars
    <3> QED BY <1>1, <3>1, <3>2
  <2>8. CASE \/ SubFail(t) \/ InitBegin(t) \/ PublishBegin(t) \/ PublishLeaveCore(t)
             \/ \E topic \in Topics : UnsubBegin(t, topic)
    <3>1. /\ UNCHANGED <<slotName, valid, ids, connState, requested>> /\ pc[t] # "unsubClear"
          /\ \A u \in Tasks : u # t => pc'[u] = pc[u] /\ arg'[u] = arg[u]
      BY <2>8 DEF SubFail, InitBegin, PublishBegin, PublishLeaveCore, UnsubBegin, tableVars, connVars
    <3> QED BY <1>1, <3>1
  <2>9. CASE Poll(t) \/ Get(t) \/ Free(t) \/ Spin(t)
    <3>1. UNCHANGED <<slotName, valid, ids, pc, arg, connState, requested>>
      BY <2>9 DEF Poll, Get, Free, Spin, vars, taskVars, connVars, tableVars
    <3> QED BY <1>1, <3>1
  <2> QED BY <1>3, <2>1, <2>2, <2>3, <2>4, <2>5, <2>6, <2>7, <2>8, <2>9 DEF TaskStep
<1>4. CASE UNCHANGED vars
  BY <1>1, <1>4 DEF vars, taskVars, connVars, tableVars
<1> QED BY <1>2, <1>3, <1>4 DEF Next

LEMMA ServedInit == Init => TableInv /\ LiveInv /\ Served
BY DEF Init, TableInv, RegisterInv, OwnerInv, UnsubPcs, LiveInv, Served

\* When mqtt_init is called once and no two tasks want the same topic, the broker
\* was asked for every topic of the table on a live connection, but for those
\* whose task is just giving them up: mqtt_unsub_topic withdraws no topic but its
\* own, although it clears the slot outside any critical section.
THEOREM AlwaysServed ==
  ASSUME "reinit" \notin Calls, OwnTopics PROVE Spec => []Served
<1> DEFINE Inv == TypeInv /\ SetupInv /\ TableInv /\ LiveInv /\ Served
<1>1. Init => Inv
  BY TypeInvInit, SetupInvInit, ServedInit
<1>2. Inv /\ [Next]_vars => Inv'
  BY TypeInvStep, SetupInvStep, TableInvStep, LiveInvStep, ServedStep
<1>3. Inv => Served
  OBVIOUS
<1> HIDE DEF Inv
<1> QED BY <1>1, <1>2, <1>3, PTL DEF Spec
=============================================================================
