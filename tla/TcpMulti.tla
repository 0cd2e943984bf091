------------------------------- MODULE TcpMulti -------------------------------
(***************************************************************************)
(* The loopback test with two tasks of                                     *)
(* code/CM7/Core/tests/tcp_loopback_multitask.c.  The Ethernet task        *)
(* receives: it takes a buffer of the free queue, fills it from the socket *)
(* and passes it on.  The task it spawns sends the buffer back and returns *)
(* it to the free queue.  The test ends when a stop command is found in    *)
(* the MQTT queue, or when the connection fails; then the Ethernet task    *)
(* closes the socket, waits for the other task and tears everything down.  *)
(*                                                                         *)
(* The sending task has a higher priority than the Ethernet task, which    *)
(* therefore runs only while the sender is blocked or gone.                *)
(***************************************************************************)
EXTENDS Integers, Sequences, FiniteSets, SequencesExt

CONSTANTS
  Buffers,    \* NUM_NETWORK_MESSAGES blocks
  Size,       \* NETWORK_MESSAGE_SIZE, in bytes
  Batch,      \* packets between two looks into the MQTT queue (1000)
  Numbers,    \* bytes of the stream are numbered modulo this
  Resets,     \* may the connection be reset?
  AssertsOn,  \* is assert() compiled in (no NDEBUG)?
  Wild        \* the value of a pointer that was never assigned

SizeAssumption ==
  /\ IsFiniteSet(Buffers) /\ Buffers # {} /\ Wild \notin Buffers
  /\ {Size, Batch} \subseteq Nat \ {0}
  /\ Numbers \in Nat /\ Numbers > Size * (Cardinality(Buffers) + 1)
  /\ {Resets, AssertsOn} \subseteq BOOLEAN

VARIABLES
  \* network_message_free, network_message_rx_to_tx, the contents of the buffers
  \* (numbers of the bytes) and their type field
  free, chan, data, type,
  \* the Ethernet task: place in the code, network_message, packets of this batch
  rxPc, rxBuf, count,
  \* the sender: place, network_message, sent_bytes
  txPc, txBuf, sent,
  flag,      \* TX_TASK_EXITED_FLAG of the Ethernet task
  stop,      \* a stop command waits in the MQTT queue
  conn,      \* the connection; "none" is a socket that lwip_connect could not connect
  input,     \* number of the next byte the socket will give
  echoed     \* number of the last byte written to the socket

queueVars == <<free, chan>>
bufVars   == <<data, type>>
rxVars    == <<rxPc, rxBuf, count>>
txVars    == <<txPc, txBuf, sent>>
envVars   == <<flag, stop>>
netVars   == <<conn, input, echoed>>
vars == <<queueVars, bufVars, rxVars, txVars, envVars, netVars>>

Pointers == Buffers \cup {Wild}
Bytes    == 0 .. Numbers - 1

TypeOK ==
  /\ free \in Seq(Buffers) /\ chan \in Seq(Pointers)
  /\ Len(chan) <= Cardinality(Buffers) \* a put never waits
  /\ data \in [Buffers -> Seq(Bytes)]
  /\ \A b \in Buffers : Len(data[b]) <= Size
  /\ type \in [Pointers -> {"DATA", "CLOSED"}]
  /\ rxPc \in {"idle", "connect", "check", "get", "read", "destroy", "wait", "assert", "fault"}
  /\ rxBuf \in Pointers /\ count \in 0 .. Batch
  /\ txPc \in {"none", "get", "write", "exited"}
  /\ txBuf \in Pointers /\ sent \in 0 .. Size
  /\ flag \in BOOLEAN /\ stop \in BOOLEAN
  /\ conn \in {"closed", "none", "up", "fin", "reset"}
  /\ input \in Bytes /\ echoed \in Bytes \cup {-1}

Init ==
  /\ free = <<>> /\ chan = <<>>
  /\ data = [b \in Buffers |-> <<>>]
  /\ type = [b \in Pointers |-> "DATA"]
  /\ rxPc = "idle" /\ rxBuf = Wild /\ count = 0
  /\ txPc = "none" /\ txBuf = Wild /\ sent = 0
  /\ flag = FALSE /\ stop = FALSE
  /\ conn = "closed" /\ input = 0 /\ echoed = -1

\* The sender waits for a buffer, may be blocked inside lwip_write, or is gone.
RxRuns ==
  \/ txPc \in {"none", "write", "exited"}
  \/ txPc = "get" /\ chan = <<>>

-----------------------------------------------------------------------------
(* The Ethernet task *)

\* tcp_multi_set_up: a new pool, all its blocks in a new free queue, a new socket.
SetUp ==
  /\ rxPc = "idle"
  /\ \E q \in SetToSeqs(Buffers) : free' = q
  /\ chan' = <<>>
  /\ data' = [b \in Buffers |-> <<>>]
  /\ type' = [b \in Pointers |-> "DATA"]
  /\ rxPc' = "connect"
  /\ UNCHANGED <<rxBuf, count, txVars, envVars, netVars>>

\* lwip_connect returns, if it does; a failure is printed only.  tcp_multi_loopback spawns
\* the sender; network_message is not initialised.
Connect ==
  /\ rxPc = "connect"
  /\ rxPc' = "check" /\ rxBuf' = Wild /\ count' = 0
  /\ txPc' = "get" /\ txBuf' = Wild /\ sent' = 0
  /\ conn' \in {"up", "none"} /\ input' = 0 /\ echoed' = -1
  /\ UNCHANGED <<queueVars, bufVars, envVars>>

\* Between two sessions the Ethernet task takes a stop command for an unknown
\* one and frees it.
IgnoreStop ==
  /\ rxPc = "idle" /\ stop
  /\ stop' = FALSE
  /\ UNCHANGED <<queueVars, bufVars, rxVars, txVars, flag, netVars>>

\* The last message of a session carries no data but its type.
Marked(b) == [type EXCEPT ![b] = "CLOSED"]

\* The end mark: whatever network_message points to becomes CLOSED and is queued.
SendClosed ==
  /\ type' = Marked(rxBuf)
  /\ chan' = Append(chan, rxBuf)
  /\ rxPc' = "destroy"

\* A look into the MQTT queue.  Other commands are freed and ignored.  Through a
\* pointer that was never assigned the write may fault.
CheckStop ==
  /\ rxPc = "check" /\ RxRuns
  /\ count' = 0
  /\ \/ /\ ~stop
        /\ rxPc' = "get"
        /\ UNCHANGED <<type, chan, stop>>
     \/ /\ stop /\ stop' = FALSE
        /\ SendClosed
     \/ /\ stop /\ rxBuf = Wild
        /\ rxPc' = "fault"
        /\ UNCHANGED <<type, chan, stop>>
  /\ UNCHANGED <<free, data, rxBuf, txVars, flag, netVars>>

\* Take a free buffer, waiting for ever if there is none.
GetFree ==
  /\ rxPc = "get" /\ RxRuns /\ free # <<>>
  /\ rxBuf' = Head(free) /\ free' = Tail(free)
  /\ data' = [data EXCEPT ![Head(free)] = <<>>]
  /\ rxPc' = "read"
  /\ UNCHANGED <<chan, type, count, txVars, envVars, netVars>>

\* Fault: received_bytes is not added to the address.
FilledOver(b, k) ==
  [i \in 1 .. Len(data[b]) + k |->
     IF i <= k THEN (input + i - 1) % Numbers ELSE data[b][i - k]]
\* k bytes of the stream behind those the buffer holds.
Filled(b, k) == data[b] \o [i \in 1 .. k |-> (input + i - 1) % Numbers]

\* Fault: the length asked for does not shrink with the bytes received.
RoomWhole(b) == Size
Room(b) == Size - Len(data[b])

\* lwip_read gives at least a byte; when the buffer is full it is queued.
ReadData ==
  /\ rxPc = "read" /\ RxRuns /\ conn \notin {"closed", "none"}
  /\ \E k \in 1 .. Room(rxBuf) :
       /\ data' = [data EXCEPT ![rxBuf] = Filled(rxBuf, k)]
       /\ input' = (input + k) % Numbers
       /\ IF Len(data[rxBuf]) + k < Size
            THEN UNCHANGED <<chan, type, rxPc, count>>
            ELSE /\ type' = [type EXCEPT ![rxBuf] = "DATA"]
                 /\ chan' = Append(chan, rxBuf)
                 /\ count' = count + 1
                 /\ rxPc' = IF count + 1 = Batch THEN "check" ELSE "get"
  /\ UNCHANGED <<free, rxBuf, txVars, envVars, conn, echoed>>

\* lwip_read returns 0 or an error: what the buffer holds is dropped.
ReadFails ==
  /\ rxPc = "read" /\ RxRuns /\ conn # "up"
  /\ SendClosed
  /\ UNCHANGED <<free, data, rxBuf, count, txVars, envVars, netVars>>

\* tcp_multi_destroy: the socket is shut down and closed.
CloseSocket ==
  /\ rxPc = "destroy" /\ RxRuns
  /\ conn' = "closed" /\ rxPc' = "wait"
  /\ UNCHANGED <<queueVars, bufVars, rxBuf, count, txVars, envVars, input, echoed>>

\* Fault: the wait for the flag of the sender is left out.
SenderGoneUnchecked == TRUE
SenderGone == flag

\* The flag arrives and is cleared.  osMessageQueueDelete returns osOK, which is
\* zero: compiled in, the assertion fails; compiled out, it takes the deletion of
\* the queues and the pool with it.
TearDown ==
  /\ rxPc = "wait" /\ RxRuns /\ SenderGone
  /\ flag' = FALSE
  /\ rxPc' = IF AssertsOn THEN "assert" ELSE "idle"
  /\ UNCHANGED <<queueVars, bufVars, rxBuf, count, txVars, stop, netVars>>

-----------------------------------------------------------------------------
(* The sender *)

\* Fault: the flag is set only on the path of a failed write.
ExitUnannounced == txPc' = "exited" /\ UNCHANGED flag
\* The sender tells the Ethernet task and ends.  The buffer in its hands, if any,
\* stays with it.
Exit == txPc' = "exited" /\ flag' = TRUE

TakeMessage ==
  /\ txPc = "get" /\ chan # <<>>
  /\ txBuf' = Head(chan) /\ chan' = Tail(chan)
  /\ sent' = 0
  /\ IF type[Head(chan)] = "CLOSED" THEN Exit ELSE txPc' = "write" /\ UNCHANGED flag
  /\ UNCHANGED <<free, bufVars, rxVars, stop, netVars>>

\* The last byte of a write of k bytes.
SentByte(b, k) == data[b][sent + k]

\* Fault: the buffer is not given back.
ReturnedForgotten(b) == free
Returned(b) == Append(free, b)

\* lwip_write takes some of the bytes; after the last one the buffer is returned.
WriteData ==
  /\ txPc = "write" /\ conn \in {"up", "fin"}
  /\ \E k \in 1 .. Len(data[txBuf]) - sent :
       /\ echoed' = SentByte(txBuf, k)
       /\ IF sent + k < Len(data[txBuf])
            THEN sent' = sent + k /\ UNCHANGED <<free, txPc>>
            ELSE sent' = 0 /\ free' = Returned(txBuf) /\ txPc' = "get"
  /\ UNCHANGED <<chan, bufVars, rxVars, txBuf, envVars, conn, input>>

\* lwip_write returns an error: the connection was reset or closed under it.
WriteFails ==
  /\ txPc = "write" /\ conn \notin {"up", "fin"}
  /\ Exit
  /\ UNCHANGED <<queueVars, bufVars, rxVars, txBuf, sent, stop, netVars>>

-----------------------------------------------------------------------------
(* The server and the user *)

StopCommand ==
  /\ ~stop /\ stop' = TRUE
  /\ UNCHANGED <<queueVars, bufVars, rxVars, txVars, flag, netVars>>

ServerEnds ==
  /\ conn = "up"
  /\ \/ conn' = "fin"
     \/ Resets /\ conn' = "reset"
  /\ UNCHANGED <<queueVars, bufVars, rxVars, txVars, envVars, input, echoed>>

\* What the Ethernet task does as soon as it can; the other two wait for the network.
RxRunning == CheckStop \/ GetFree \/ ReadFails \/ CloseSocket \/ TearDown
RxStep == Connect \/ ReadData \/ RxRunning
TxStep == TakeMessage \/ WriteData \/ WriteFails

Next ==
  \/ SetUp \/ IgnoreStop \/ RxStep \/ TxStep
  \/ StopCommand \/ ServerEnds

Spec == Init /\ [][Next]_vars

\* The tasks run when they can, the server reads, and a connection that ended fails the
\* read at last.  Nothing makes lwip_connect return or the server send.
FairSpec ==
  /\ Spec
  /\ WF_vars(RxRunning) /\ WF_vars(TxStep) /\ WF_vars(IgnoreStop)
  /\ SF_vars(CheckStop) /\ SF_vars(GetFree) /\ SF_vars(ReadFails)
  /\ SF_vars(TearDown) /\ SF_vars(CloseSocket)

-----------------------------------------------------------------------------
(* Properties *)

InSession == rxPc \in {"check", "get", "read"}

Places(b) ==
  Cardinality({i \in DOMAIN free : free[i] = b})
  + Cardinality({i \in DOMAIN chan : chan[i] = b})
  + (IF rxPc = "read" /\ rxBuf = b THEN 1 ELSE 0)
  + (IF txPc = "write" /\ txBuf = b THEN 1 ELSE 0)

\* While a session runs, each buffer is in exactly one place: the free queue, the
\* hands of the receiver, the queue between the tasks or the hands of the sender.
\* A sender that died of a failed write takes one buffer with it.
Conserved ==
  InSession /\ txPc # "exited" => \A b \in Buffers : Places(b) = 1

\* The bytes that will be written to the socket: the rest of the buffer being
\* sent, the queued ones up to an end mark, and the one being filled.  A sender
\* that died leaves them lying until the session is over.
RestOfSender ==
  IF txPc = "write" \/ (txPc = "exited" /\ InSession)
    THEN SubSeq(data[txBuf], sent + 1, Len(data[txBuf])) ELSE <<>>
Open(i) == \A j \in 1 .. i : type[chan[j]] = "DATA"
Queued  == FlattenSeq([i \in DOMAIN chan |-> IF Open(i) THEN data[chan[i]] ELSE <<>>])
Filling == IF rxPc = "read" THEN data[rxBuf] ELSE <<>>
Backlog == IF txPc = "exited" /\ ~InSession THEN <<>>
           ELSE RestOfSender \o Queued \o Filling

\* The two tasks are a loopback: bytes come back in order, without gaps, however
\* the socket cuts them, up to the end of the session or of the connection.
LoopbackOf == INSTANCE Loopback WITH
  backlog <- Backlog, closing <- ~InSession
ImplementsLoopback == LoopbackOf!Spec

\* When the queues are torn down the sender no longer uses them.
SenderEndsFirst == rxPc \in {"assert", "idle"} => txPc \in {"none", "exited"}

\* The Ethernet task is back in its loop, or the program has stopped.
Over == rxPc \in {"idle", "assert", "fault"}

\* Inside lwip_connect, or inside lwip_read on a connection that is up.
Waits == rxPc = "connect" \/ (rxPc = "read" /\ conn = "up")

\* A stop command ends the session, unless the receiver waits for ever in lwip_connect or in
\* lwip_read, and the end of the connection ends it always: both tasks leave their loops and
\* the tear-down comes to its end.  (The two queues never leave the tasks waiting for each
\* other.)
StopObeyed == ~<>[]Waits => (stop ~> Over)
SessionEnds == conn # "up" /\ InSession ~> Over

-----------------------------------------------------------------------------
(* What the code and the documents say, and TLC                               *)
(* refutes: "Disagreements met" in README.md.                                 *)

\* The assertions of tcp_multi_destroy hold.
DestroyAssertionsHold == rxPc # "assert"

\* At a stop command the receiver marks a message that is its own: one that is
\* neither unassigned nor queued nor in the hands of the sender.
MarksOwnMessage ==
  [][rxPc = "check" /\ rxPc' # "get" => rxBuf # Wild /\ Places(rxBuf) = 0]_vars
=============================================================================
