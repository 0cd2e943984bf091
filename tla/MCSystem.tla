------------------------------- MODULE MCSystem -------------------------------
(***************************************************************************)
(* What the tasks stand on, for TLC.  The modules share no state: part     *)
(* says which of them this behaviour is about, and the others stay where   *)
(* they start.                                                             *)
(*   "pool"     memory pools of CMSIS-RTOS2                                *)
(*   "start"    both cores and all tasks, with a broker that may be late   *)
(*              and a first connection that may fail                       *)
(*   "smooth"   the same without these troubles, and fair                  *)
(*   "log"      the log, its dump and the decoder                          *)
(***************************************************************************)
EXTENDS CmsisPool

CONSTANTS
  Subscribers,  \* tasks of StartUp
  MaxTopics,    \* MQTT_MAX_SUBBED_TOPICS
  Loggers, LogSize, LogRecords, Chunk  \* tasks and parameters of Lwl

VARIABLES
  part,
  m7, m4, clock, notify, event, lwip, log, link, broker, client, flag, task, topics,
  buffer, next, filled, owner, rest, dumpPc, index, remaining, payload, host, begun,
  quiet, refused

startVars == <<m7, m4, clock, notify, event, lwip, log, link, broker, client, flag, task,
               topics>>
logVars == <<buffer, next, filled, owner, rest, dumpPc, index, remaining, payload, host,
             begun, quiet, refused>>
allVars == <<vars, startVars, logVars, part>>

Start == INSTANCE StartUp WITH
  Tasks <- Subscribers, M4Works <- TRUE, Troubled <- TRUE
Smooth == INSTANCE StartUp WITH
  Tasks <- Subscribers, M4Works <- TRUE, Troubled <- FALSE

Log == INSTANCE Lwl WITH
  N <- LogSize, Records <- LogRecords, Tasks <- Loggers,
  Dumper <- "default", NoTask <- "none"

\* A record with one argument and one with two, zero among them.
TwoRecords == {<<2, 0>>, <<3, 9, 0>>}

ASSUME StartUpAssumption == Start!StartAssumption /\ Smooth!StartAssumption
ASSUME LogAssumption == Log!SizeAssumption /\ Log!RecordAssumption

SuiteInit ==
  /\ part \in {"pool", "start", "smooth", "log"}
  /\ Init /\ Log!Init
  /\ IF part = "start" THEN Start!Init ELSE Smooth!Init
  /\ part \notin {"start", "smooth"} => ~event

PoolPart == part = "pool" /\ Next /\ UNCHANGED <<startVars, logVars, part>>
StartPart == part = "start" /\ Start!Next /\ UNCHANGED <<vars, logVars, part>>
SmoothPart == part = "smooth" /\ Smooth!Next /\ UNCHANGED <<vars, logVars, part>>
LogPart == part = "log" /\ Log!Next /\ UNCHANGED <<vars, startVars, part>>

SuiteNext == PoolPart \/ StartPart \/ SmoothPart \/ LogPart

\* The fairness of StartUp for its part without troubles.
SuiteSpec ==
  /\ SuiteInit /\ [][SuiteNext]_allVars
  /\ WF_startVars(part = "smooth" /\ Smooth!M7)
  /\ WF_startVars(part = "smooth" /\ Smooth!M4)
  /\ WF_startVars(part = "smooth" /\ Smooth!Default)
  /\ \A t \in Smooth!AllTasks : WF_startVars(part = "smooth" /\ Smooth!Task(t))
  /\ WF_startVars(part = "smooth" /\ Smooth!LinkUp)
  /\ WF_startVars(part = "smooth" /\ Smooth!Answer)

-----------------------------------------------------------------------------
(* Properties of the parts, under the names of this run.                      *)

\* No core runs its program before the clock is there; no task publishes or subscribes
\* before lwIP, the log and the client are there and the broker has accepted.
StartSafe ==
  part \in {"start", "smooth"} => Start!StartSafe

\* Both cores start; with a broker that listens all tasks serve in the end.
AllServe == part = "smooth" => Smooth!BothStart /\ Smooth!AllServe

\* Without records and refusals during the dump the decoder finds the records of the
\* log; the ring is a log of its last bytes.
DumpDecodes == part = "log" => Log!TypeOK /\ Log!DumpDecodes
ImplementsLog == Log!ImplementsLog
=============================================================================
