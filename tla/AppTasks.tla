-------------------------------- MODULE AppTasks --------------------------------
(***************************************************************************)
(* The receive loops of the application (Src/freertos.c) over one pool of  *)
(* messages: the I2C4 task with the driver of Lis3dhtr under it, and the   *)
(* default task, which stands for the tasks that need no device.  The      *)
(* callback of the MQTT client fills their queues.                         *)
(***************************************************************************)
EXTENDS Lis3dhtr

CONSTANTS
  QueueSize,   \* MQTT_OS_QUEUE_NUM_ELEMENTS
  PoolSize,    \* blocks of the pool
  Offered      \* names of the commands that are published

ASSUME PoolAssumption ==
  /\ {QueueSize, PoolSize} \subseteq Nat \ {0}
  /\ Offered \subseteq {c.name : c \in Commands}

VARIABLES
  free,      \* blocks of the pool that are free
  queue,     \* the queues of the tasks
  held,      \* the message a task has taken, or None
  reading,   \* the variable of the stack a reading is stored in: "measured" or "stale"
  published, \* history: replies of the I2C4 task, as they were read
  refused    \* history: tasks for which a message was dropped without a block

taskVars == <<free, queue, held, reading, published, refused>>
vars == <<deviceVars, taskVars>>

Tasks == {"i2c4", "default"}
None == [name |-> "none"]
Bad == [name |-> "set"]          \* "set odr" or "set res" with a bad option
Unknown == [name |-> "unknown"]  \* anything else
Readings == {"get_temp", "get_acceleration"}

\* What may be published on the topic of a task.
Messages(t) ==
  IF t = "i2c4"
    THEN {c \in Commands : c.name \in Offered} \cup {Unknown, Bad}
    ELSE {Unknown}

Used == PoolSize - free
Owned == Len(queue["i2c4"]) + Len(queue["default"])
         + Cardinality({t \in Tasks : held[t] # None})

TypeOK ==
  /\ DeviceTypeOK
  /\ free \in 0 .. PoolSize /\ Owned <= Used
  /\ \A t \in Tasks : /\ Len(queue[t]) <= QueueSize
                      /\ \A i \in DOMAIN queue[t] : queue[t][i] \in Messages(t)
                      /\ held[t] \in Messages(t) \cup {None}
  /\ reading \in {"measured", "stale"}
  /\ published \subseteq {"measured", "stale"} /\ refused \subseteq Tasks

Init ==
  /\ DeviceInit
  /\ free = PoolSize
  /\ queue = [t \in Tasks |-> <<>>] /\ held = [t \in Tasks |-> None]
  /\ reading = "stale" /\ published = {} /\ refused = {}

-----------------------------------------------------------------------------
(* The TCP/IP thread *)

\* mqtt_incoming_data_cb: without a block the message is dropped; with a full queue the
\* block is not given back.
Incoming(t, m) ==
  /\ IF free = 0
       THEN refused' = refused \cup {t} /\ UNCHANGED <<free, queue>>
       ELSE /\ free' = free - 1
            /\ queue' = IF Len(queue[t]) < QueueSize
                          THEN [queue EXCEPT ![t] = Append(@, m)] ELSE queue
            /\ UNCHANGED refused
  /\ UNCHANGED <<deviceVars, held, reading, published>>

-----------------------------------------------------------------------------
(* The tasks *)

\* osMessageQueueGet
Take(t) ==
  /\ held[t] = None /\ queue[t] # <<>>
  /\ held' = [held EXCEPT ![t] = Head(queue[t])]
  /\ queue' = [queue EXCEPT ![t] = Tail(@)]
  /\ UNCHANGED <<deviceVars, free, reading, published, refused>>

\* Fault: a message no command fits is not freed.
FreedKnown(t) == IF held[t] = Unknown THEN free ELSE free + 1
\* mqtt_free_message
Freed(t) == free + 1

\* The default task, and the I2C4 task with an unknown command: nothing to do.
Ignore(t) ==
  /\ held[t] = Unknown
  /\ free' = Freed(t) /\ held' = [held EXCEPT ![t] = None]
  /\ UNCHANGED <<deviceVars, queue, reading, published, refused>>

\* Length or option out of range: continue, and mqtt_free_message is passed over.
Continue ==
  /\ held["i2c4"] = Bad
  /\ held' = [held EXCEPT !["i2c4"] = None]
  /\ UNCHANGED <<deviceVars, free, queue, reading, published, refused>>

\* The driver is called; a reading goes to a variable that was not initialised.
Begin ==
  /\ held["i2c4"] \in Commands
  /\ Call(held["i2c4"])
  /\ reading' = "stale"
  /\ UNCHANGED <<free, queue, held, published, refused>>

\* The driver goes on; the last read stores the reading.
Drive ==
  /\ DriverStep
  /\ reading' = IF op' = Idle /\ result' = "OK" THEN "measured" ELSE reading
  /\ IF op' # Idle
       THEN UNCHANGED <<free, held, published>>
       ELSE \* the command returned: the reply, whatever the result, and the message
            /\ published' = IF op.name \in Readings
                              THEN published \cup {reading'} ELSE published
            /\ free' = Freed("i2c4") /\ held' = [held EXCEPT !["i2c4"] = None]
  /\ UNCHANGED <<queue, refused>>

Interrupted == Interrupt /\ UNCHANGED taskVars

Publish == \E t \in Tasks : \E m \in Messages(t) : Incoming(t, m)
I2c4Step == Take("i2c4") \/ Ignore("i2c4") \/ Continue \/ Begin \/ Drive
DefaultStep == Take("default") \/ Ignore("default")

Next == Publish \/ I2c4Step \/ DefaultStep \/ Interrupted

Spec == Init /\ [][Next]_vars

\* The scheduler runs both tasks, a transfer ends one way or the other.  The broker
\* owes nothing.
FairSpec ==
  Spec /\ WF_vars(I2c4Step) /\ WF_vars(DefaultStep) /\ WF_vars(Interrupted)

-----------------------------------------------------------------------------
(* Properties *)

\* The ways a block gets lost for good, over the callback, the queues and every path of a
\* command, failed transfers included, are two: the callback meets a full queue, and the
\* I2C4 task drops a malformed option.  Each costs one block.
Lost == Used - Owned
LossesKnown ==
  [][Lost' > Lost =>
       /\ Lost' = Lost + 1
       /\ \/ free' < free /\ \E t \in Tasks : Len(queue[t]) = QueueSize
          \/ held["i2c4"] = Bad /\ held'["i2c4"] = None]_vars

\* The tasks come back for the next message again and again, while transfers succeed:
\* no message keeps a task for ever.
Handled == \A t \in Tasks : []<>(held[t] = None)

-----------------------------------------------------------------------------
(* What the README says, and TLC refutes ("Disagreements met"):               *)

\* "The receiving task is expected to free it after no longer needing the message": a
\* block is lost in the callback only.
OnlyFullQueueLoses == [][Lost' > Lost => free' < free]_vars

\* The driver waits for a flag that no interrupt will set.
Stuck == waiting /\ bus = Idle /\ "MEM" \notin flags

\* "If there is a problem with an interface, the rest of the app will be unaffected."
Isolation == ~(Stuck /\ "default" \in refused)

\* A reply carries a reading of the sensor.
RepliesMeasured == "stale" \notin published
=============================================================================
