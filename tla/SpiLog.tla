--------------------------------- MODULE SpiLog ---------------------------------
(***************************************************************************)
(* The light sensor and the log: pmodals_get_lux starts a receive on SPI1  *)
(* and waits for a thread flag; the interrupt that ends the receive        *)
(* (Src/spi.c) writes a record before it sets the flag, and the critical   *)
(* section of lwl_enter_record (port.c of the kernel) is not made for      *)
(* interrupts.  Other tasks write records of several bytes.                *)
(***************************************************************************)
EXTENDS Naturals, FiniteSets

CONSTANTS
  Loggers,   \* tasks that write records
  Recording, \* is the log initialised?  If not, lwl_enter_record returns at once.
  MaxBytes,  \* bound: bytes of a record
  MaxLux     \* bound: commands "get lux"

LogAssumption ==
  /\ IsFiniteSet(Loggers) /\ Recording \in BOOLEAN
  /\ MaxBytes \in Nat \ {0} /\ MaxLux \in Nat

VARIABLES
  spi1,      \* the SPI task: "take", "start", "wait", "reply"
  bus,       \* is a receive on the bus?
  flags,     \* thread flags of the SPI task
  asked, replied, \* history: commands taken, replies published
  handler,   \* the interrupt handler: "none", "record", "flag"
  ended,     \* the flag it is about to set
  rest,      \* per task: steps to the end of its record, 0 outside of one
  masked,    \* are interrupts and the tick masked?
  nesting,   \* uxCriticalNesting
  halted     \* configASSERT failed: interrupts off, for ( ;; )

spiVars == <<spi1, bus, flags, asked, replied>>
logVars == <<rest, masked, nesting>>
vars == <<spiVars, logVars, handler, ended, halted>>

Flags == {"MEM", "ERR"}

TypeOK ==
  /\ spi1 \in {"take", "start", "wait", "reply"} /\ bus \in BOOLEAN
  /\ flags \subseteq Flags
  /\ asked \in 0 .. MaxLux /\ replied \in 0 .. asked
  /\ handler \in {"none", "record", "flag"} /\ ended \in Flags
  /\ rest \in [Loggers -> 0 .. MaxBytes + 1]
  /\ masked \in BOOLEAN /\ nesting \in 0 .. Cardinality(Loggers) + 1 /\ halted \in BOOLEAN

Init ==
  /\ spi1 = "take" /\ bus = FALSE /\ flags = {}
  /\ asked = 0 /\ replied = 0
  /\ handler = "none" /\ ended = "MEM"
  /\ rest = [t \in Loggers |-> 0] /\ masked = FALSE /\ nesting = 0 /\ halted = FALSE

writing == {t \in Loggers : rest[t] > 0}

\* A task runs when no handler does; only the one in the critical section when
\* the tick is masked.
TaskRuns(t) == ~halted /\ handler = "none" /\ (masked => t \in writing)

-----------------------------------------------------------------------------
(* spi1_task, pmodals_get_lux *)

\* A message "get lux" is there.
Take ==
  /\ TaskRuns("spi1") /\ spi1 = "take" /\ asked < MaxLux
  /\ spi1' = "start" /\ asked' = asked + 1
  /\ UNCHANGED <<bus, flags, replied, logVars, handler, ended, halted>>

\* HAL_SPI_Receive_IT
Start ==
  /\ TaskRuns("spi1") /\ spi1 = "start"
  /\ spi1' = "wait" /\ bus' = TRUE
  /\ UNCHANGED <<flags, asked, replied, logVars, handler, ended, halted>>

\* Fault: the flags are not cleared.
TakenNone == {}
\* osThreadFlagsWait( MEM | ERR , osFlagsWaitAny ) clears both.
Taken == Flags

Wake ==
  /\ TaskRuns("spi1") /\ spi1 = "wait" /\ flags # {}
  /\ spi1' = "reply" /\ flags' = flags \ Taken
  /\ UNCHANGED <<bus, asked, replied, logVars, handler, ended, halted>>

\* The reply is published and the message freed, whichever flag it was.
Reply ==
  /\ TaskRuns("spi1") /\ spi1 = "reply"
  /\ spi1' = "take" /\ replied' = replied + 1
  /\ UNCHANGED <<bus, flags, asked, logVars, handler, ended, halted>>

-----------------------------------------------------------------------------
(* lwl_enter_record *)

\* Fault: the critical section does not mask.
EnteredOpen == FALSE
\* vPortEnterCritical masks first.
Entered == TRUE

\* vPortExitCritical unmasks when the nesting is back to 0.
Left == nesting > 1

\* n bytes, and the exit.
Steps(n) == n + 1

BeginRecord(t) ==
  /\ Recording /\ TaskRuns(t) /\ t \notin writing
  /\ masked' = Entered /\ nesting' = nesting + 1
  /\ \E n \in 1 .. MaxBytes : rest' = [rest EXCEPT ![t] = Steps(n)]
  /\ UNCHANGED <<spiVars, handler, ended, halted>>

\* One byte of the record.
WriteByte(t) ==
  /\ TaskRuns(t) /\ rest[t] > 1
  /\ rest' = [rest EXCEPT ![t] = @ - 1]
  /\ UNCHANGED <<spiVars, masked, nesting, handler, ended, halted>>

EndRecord(t) ==
  /\ TaskRuns(t) /\ rest[t] = 1
  /\ masked' = Left /\ nesting' = nesting - 1 /\ rest' = [rest EXCEPT ![t] = 0]
  /\ UNCHANGED <<spiVars, handler, ended, halted>>

-----------------------------------------------------------------------------
(* The interrupt *)

\* The receive ends: with a byte, or with an error.
Interrupt ==
  /\ bus /\ ~masked /\ ~halted /\ handler = "none"
  /\ handler' = IF Recording THEN "record" ELSE "flag"
  /\ bus' = FALSE /\ ended' \in Flags
  /\ UNCHANGED <<spi1, flags, asked, replied, logVars, halted>>

\* vPortEnterCritical asserts, at the outermost level, that no interrupt is active.
Asserted == handler # "none" /\ nesting = 0

\* lwl_enter_record in HAL_SPI_RxCpltCallback, HAL_SPI_ErrorCallback
HandlerRecord ==
  /\ handler = "record" /\ ~halted
  /\ IF Asserted
       THEN halted' = TRUE /\ masked' = TRUE /\ nesting' = nesting + 1 /\ UNCHANGED handler
       ELSE handler' = "flag" /\ UNCHANGED <<halted, masked, nesting>>
  /\ UNCHANGED <<spiVars, rest, ended>>

Told == {ended}

\* osThreadFlagsSet
SetFlag ==
  /\ handler = "flag"
  /\ flags' = flags \cup Told /\ handler' = "none"
  /\ UNCHANGED <<spi1, bus, asked, replied, logVars, ended, halted>>

Spi1 == Take \/ Start \/ Wake \/ Reply
Handler == Interrupt \/ HandlerRecord \/ SetFlag

Next ==
  \/ Spi1 \/ Handler
  \/ \E t \in Loggers : BeginRecord(t) \/ WriteByte(t) \/ EndRecord(t)

Spec == Init /\ [][Next]_vars

\* A runnable task runs in the end; the receive ends; a record is finite.  Records of
\* the other tasks leave the SPI task its turn: strong fairness for it.
FairSpec ==
  /\ Spec
  /\ SF_vars(Spi1) /\ SF_vars(Handler)
  /\ \A t \in Loggers : WF_vars(WriteByte(t) \/ EndRecord(t))

-----------------------------------------------------------------------------
(* Properties *)

\* No record is written into the middle of another one: neither by a second task nor
\* by the handler.
RecordsWhole ==
  /\ Cardinality(writing) <= 1
  /\ handler # "none" => writing = {}

\* One flag for one receive: no command is answered by what an earlier one left.
FlagFresh == spi1 \in {"take", "start", "reply"} => flags = {} /\ ~bus

\* README: "get lux" "Replies on topic sensor/als/lux".
LuxAnswered == spi1 = "start" ~> spi1 = "reply"
=============================================================================
