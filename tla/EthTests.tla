-------------------------------- MODULE EthTests --------------------------------
(***************************************************************************)
(* The Ethernet task (eth_task of CM7/Core/Src/freertos.c) with the tests  *)
(* that run in it: the TCP loopback of tcp_loopback_simple.c and the UDP   *)
(* data hose of udp_test.c.  It takes commands from its queue, also during *)
(* a test, where all but "stop" are dropped.  The test with two tasks is   *)
(* in TcpMulti; contents of packets are left out.                          *)
(***************************************************************************)
EXTENDS Naturals, Sequences, FiniteSets, SequencesExt

CONSTANTS
  Pool,    \* blocks of the message pool this task can hold up
  Slots,   \* capacity of the queue
  Batch,   \* 1000: packets between two looks into the queue
  Ending,  \* may the server end or reset the connection?
  Failing  \* may sendto fail?

TestsAssumption ==
  /\ {Pool, Slots, Batch} \subseteq Nat \ {0}
  /\ {Ending, Failing} \subseteq BOOLEAN

VARIABLES
  queue,  \* commands, each in a block
  pool,   \* free blocks
  pc,     \* "wait", "connect", "look", "read", "write", "send", "destroy"
  test,   \* "none", "simple", "udp"
  count,  \* packets of this batch
  conn,   \* connection of the socket: "none", "open" (not connected), "up",
          \* "fin" (the server has ended), "drained" (and it was read), "reset"
  data    \* is there something to read?

vars == <<queue, pool, pc, test, count, conn, data>>

Commands == {"tcp simple", "udp", "stop", "other"}
Places == {"wait", "connect", "look", "read", "write", "send", "destroy"}

TypeOK ==
  /\ queue \in Seq(Commands) /\ Len(queue) <= Slots /\ pool \in 0 .. Pool
  /\ pc \in Places /\ test \in {"none", "simple", "udp"} /\ count \in 0 .. Batch
  /\ conn \in {"none", "open", "up", "fin", "drained", "reset"} /\ data \in BOOLEAN

Init ==
  /\ queue = <<>> /\ pool = Pool /\ pc = "wait" /\ test = "none"
  /\ count = 0 /\ conn = "none" /\ data = FALSE

-----------------------------------------------------------------------------
(* eth_task *)

TestOf(c) == CASE c = "tcp simple" -> "simple" [] c = "udp" -> "udp" [] OTHER -> "none"

\* The command is copied and freed before the test; tcp_simple_set_up, udp_set_up: a socket.
Start ==
  /\ pc = "wait" /\ queue # <<>>
  /\ LET t == TestOf(Head(queue)) IN
     /\ test' = t
     /\ pc' = CASE t = "simple" -> "connect" [] t = "udp" -> "look" [] OTHER -> "wait"
     /\ conn' = IF t = "none" THEN "none" ELSE "open"
  /\ queue' = Tail(queue) /\ pool' = pool + 1
  /\ UNCHANGED <<count, data>>

\* lwip_connect returns, if it does; a failure is printed only.
Connect ==
  /\ pc = "connect"
  /\ conn' = "up" \/ (Ending /\ UNCHANGED conn)
  /\ pc' = "look" /\ data' = FALSE
  /\ UNCHANGED <<queue, pool, test, count>>

Returned(c) == pool + 1

Continued == IF test = "simple" THEN "read" ELSE "send"

\* Check for the stop command.
Look ==
  /\ pc = "look" /\ count' = 0
  /\ IF queue = <<>>
       THEN pc' = Continued /\ UNCHANGED <<queue, pool>>
       ELSE /\ queue' = Tail(queue) /\ pool' = Returned(Head(queue))
            /\ pc' = IF Head(queue) = "stop" THEN "destroy" ELSE Continued
  /\ UNCHANGED <<test, conn, data>>

-----------------------------------------------------------------------------
(* tcp_simple_loopback: lwip_read waits for data; at the end of the connection it *)
(* returns 0 once, then -1                                                        *)

\* Fault: the result of lwip_read is not looked at.
ReadFailedNot == "write"
ReadFailed == "destroy"

Read ==
  /\ pc = "read"
  /\ \/ conn = "up" /\ data /\ pc' = "write" /\ data' = FALSE /\ UNCHANGED conn
     \/ conn = "fin" /\ pc' = "write" /\ conn' = "drained" /\ UNCHANGED data
     \/ conn \in {"open", "drained", "reset"} /\ pc' = ReadFailed /\ UNCHANGED <<conn, data>>
  /\ UNCHANGED <<queue, pool, test, count>>

\* Fault: one batch has no end.
BatchOverNot == FALSE
BatchOver == count + 1 = Batch

Counted(place) == IF BatchOver THEN pc' = "look" /\ UNCHANGED count
                               ELSE pc' = place /\ count' = (count + 1) % Batch

\* lwip_write, of no bytes after the end of the connection; the server reads all the time.
Write ==
  /\ pc = "write"
  /\ IF conn = "reset" THEN pc' = "destroy" /\ UNCHANGED count ELSE Counted("read")
  /\ UNCHANGED <<queue, pool, test, conn, data>>

\* udp_tx_datahose
Send ==
  /\ pc = "send"
  /\ Counted("send") \/ (Failing /\ pc' = "destroy" /\ UNCHANGED count)
  /\ UNCHANGED <<queue, pool, test, conn, data>>

\* Fault: the socket stays open.
ClosedNot == conn
Closed == "none"

\* tcp_simple_destroy, udp_destroy
Destroy ==
  /\ pc = "destroy"
  /\ pc' = "wait" /\ test' = "none" /\ conn' = Closed /\ data' = FALSE /\ count' = 0
  /\ UNCHANGED <<queue, pool>>

\* What the task does as soon as it can; lwip_connect is in the hands of the network.
Task == Start \/ Look \/ Read \/ Write \/ Send \/ Destroy

\* Inside lwip_connect, which "sometimes blocks indefinitely", or inside lwip_read while the
\* server is silent.
Waits == pc = "connect" \/ (pc = "read" /\ conn = "up" /\ ~data)

-----------------------------------------------------------------------------
(* The client puts commands in the queue; the server sends and may end the connection *)

Command(c) ==
  /\ pool > 0 /\ Len(queue) < Slots
  /\ queue' = Append(queue, c) /\ pool' = pool - 1
  /\ UNCHANGED <<pc, test, count, conn, data>>

ServerSends ==
  /\ conn = "up" /\ ~data
  /\ data' = TRUE
  /\ UNCHANGED <<queue, pool, pc, test, count, conn>>

ServerEnds ==
  /\ Ending /\ pc \in {"look", "read", "write"}
  /\ \/ conn = "up" /\ ~data /\ conn' \in {"fin", "reset"}
     \/ conn = "fin" /\ conn' = "reset"
  /\ UNCHANGED <<queue, pool, pc, test, count, data>>

Next == Task \/ Connect \/ (\E c \in Commands : Command(c)) \/ ServerSends \/ ServerEnds

Spec == Init /\ [][Next]_vars

\* The task runs.  Nothing makes lwip_connect return or the server send.
FairSpec == Spec /\ WF_vars(Task)

-----------------------------------------------------------------------------
(* Properties *)

\* A socket is open during a test only, and every block is in the queue or free.
Resources ==
  /\ pool + Len(queue) = Pool
  /\ conn # "none" <=> pc # "wait"
  /\ test # "none" <=> pc # "wait"

\* A stop command that waits during a test ends it, unless the task waits for ever in
\* lwip_connect or in lwip_read.
StopObeyed ==
  ~<>[]Waits => (("stop" \in ToSet(queue) /\ test # "none") ~> test = "none")

\* A connection that the server has ended ends the test, without a command or any condition.
EndNoticed == conn \in {"fin", "reset"} ~> test = "none"

\* The test runs until given a command to stop.
RunsUntilStop == [][test = "udp" /\ pc # "look" => pc' # "destroy"]_vars
=============================================================================
