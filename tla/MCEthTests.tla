------------------------------ MODULE MCEthTests ------------------------------
(***************************************************************************)
(* The performance tests of the Ethernet task for TLC.  The components     *)
(* share no state: part says which of them this behaviour is about, and    *)
(* the others stay where they start.                                       *)
(*   "multi"   two tasks, on a connection that may be reset                *)
(*   "steady"  the same without resets, and fair                           *)
(*   "single"  the tests with one task, against a server that may end      *)
(***************************************************************************)
EXTENDS TcpMulti

CONSTANTS TestPool, TestSlots, TestBatch  \* Pool, Slots and Batch of EthTests

VARIABLES part, queue, pool, pc, test, packets, socket, readable

singleVars == <<queue, pool, pc, test, packets, socket, readable>>
allVars == <<vars, singleVars, part>>

Steady == INSTANCE TcpMulti WITH Resets <- FALSE, Batch <- 1
Single == INSTANCE EthTests WITH
  Pool <- TestPool, Slots <- TestSlots, Batch <- TestBatch, Ending <- TRUE, Failing <- TRUE,
  count <- packets, conn <- socket, data <- readable

ASSUME SuiteAssumption == SizeAssumption /\ Steady!SizeAssumption /\ Single!TestsAssumption

SuiteInit == Init /\ Single!Init /\ part \in {"multi", "steady", "single"}

Multi == part = "multi" /\ Next /\ UNCHANGED <<singleVars, part>>
Calm  == part = "steady" /\ Steady!Next /\ UNCHANGED <<singleVars, part>>
One   == part = "single" /\ Single!Next /\ UNCHANGED <<vars, part>>

SuiteNext == Multi \/ Calm \/ One

\* The fairness of TcpMulti for its steady part, that of EthTests for the single one.
SuiteSpec ==
  /\ SuiteInit /\ [][SuiteNext]_allVars
  /\ WF_vars(part = "steady" /\ Steady!RxRunning)
  /\ WF_vars(part = "steady" /\ Steady!TxStep)
  /\ WF_vars(part = "steady" /\ Steady!IgnoreStop)
  /\ SF_vars(part = "steady" /\ Steady!CheckStop)
  /\ SF_vars(part = "steady" /\ Steady!GetFree)
  /\ SF_vars(part = "steady" /\ Steady!ReadFails)
  /\ SF_vars(part = "steady" /\ Steady!TearDown)
  /\ SF_vars(part = "steady" /\ Steady!CloseSocket)
  /\ WF_singleVars(part = "single" /\ Single!Task)

-----------------------------------------------------------------------------
(* Properties of the parts, under the names of this run.                      *)

\* tcp_loopback_multitask: each buffer is in one place, and the sender ends before its
\* queues do.  tcp_loopback_simple, udp_test: a socket is open during a test only, and
\* every block of a command comes back.
TestsSafe ==
  /\ TypeOK /\ Conserved /\ SenderEndsFirst
  /\ Single!TypeOK /\ Single!Resources

\* tcp_loopback_multitask: without resets a stop command ends both tasks, unless the receiver
\* waits for ever in lwip_connect or for a silent server, and the end of the connection ends
\* them always.
MultiEnds == part = "steady" => StopObeyed /\ SessionEnds

\* The tests with one task: a stop command ends them, unless the task waits for ever in
\* lwip_connect or for a silent server; a connection the server has ended ends them always.
SingleEnds == part = "single" => Single!StopObeyed /\ Single!EndNoticed
=============================================================================
