---------------------------------- MODULE EthRx ----------------------------------
(***************************************************************************)
(* Reception of the Ethernet driver (LWIP/Target/ethernetif.c over         *)
(* stm32h7xx_hal_eth.c).  Buffers of RX_POOL travel from the pool to       *)
(* descriptors of the DMA, with a frame in them to lwIP, and back to the   *)
(* pool.  When the pool is empty the driver remembers it (RxAllocStatus)   *)
(* and the next buffer that is freed must wake the thread EthIf.  Buffers  *)
(* are counted; a frame fills one.  EthIf runs with osPriorityRealtime.    *)
(***************************************************************************)
EXTENDS Naturals

CONSTANTS
  Descs,    \* ETH_RX_DESC_CNT
  Bufs,     \* ETH_RX_BUFFER_CNT
  Freers,   \* threads that free frames: tcpip_thread, tasks with sockets
  Flaps     \* may the link go down and up?

ASSUME RxAssumption ==
  Descs \in Nat \ {0} /\ Bufs \in Nat /\ Bufs >= Descs /\ Flaps \in BOOLEAN

VARIABLES
  pool,     \* free buffers of RX_POOL
  owned,    \* descriptors the DMA may fill
  full,     \* descriptors with a frame that was not read
  kept,     \* descriptors to build that still have their buffer (after a restart)
  bare,     \* descriptors to build that have none
  inside,   \* frames inside lwIP
  suspended,\* has the DMA run out of descriptors and said so?
  status,   \* RxAllocStatus
  sem,      \* RxPktSemaphore
  state,    \* gState of the driver: "STARTED", "READY", "BUSY"
  ethif,    \* the thread EthIf: "wait", "read", "build", "fail", "input"
  frame,    \* frames EthIf has read and not passed on: 0 or 1
  freer,    \* the threads that free: "run", "freed", "signal"
  link      \* the link thread: "watch", "build", "fail"

dmaVars == <<pool, owned, full, kept, bare, inside, suspended>>
vars == <<dmaVars, status, sem, state, ethif, frame, freer, link>>

TypeOK ==
  /\ pool \in 0 .. Bufs /\ inside \in 0 .. Bufs
  /\ owned \in 0 .. Descs /\ full \in 0 .. Descs
  /\ kept \in 0 .. Descs /\ bare \in 0 .. Descs
  /\ suspended \in BOOLEAN
  /\ status \in {"OK", "ERROR"} /\ sem \in 0 .. 1
  /\ state \in {"STARTED", "READY", "BUSY"}
  /\ ethif \in {"wait", "read", "build", "fail", "input"} /\ frame \in 0 .. 1
  /\ freer \in [Freers -> {"run", "freed", "signal"}]
  /\ link \in {"watch", "build", "fail"}

Init ==
  /\ pool = Bufs - Descs /\ owned = Descs /\ full = 0 /\ kept = 0 /\ bare = 0
  /\ inside = 0 /\ suspended = FALSE /\ status = "OK" /\ sem = 0 /\ state = "STARTED"
  /\ ethif = "wait" /\ frame = 0
  /\ freer = [f \in Freers |-> "run"] /\ link = "watch"

\* Fault: EthIf is a thread like the others.
OthersRunAlways == TRUE
\* A thread of lower priority runs while EthIf waits for the semaphore.
OthersRun == ethif = "wait" /\ sem = 0

-----------------------------------------------------------------------------
(* The DMA and its interrupt *)

\* HAL_ETH_RxCpltCallback
FrameArrives ==
  /\ state = "STARTED" /\ owned > 0
  /\ owned' = owned - 1 /\ full' = full + 1 /\ sem' = 1
  /\ UNCHANGED <<pool, kept, bare, inside, suspended>>
  /\ UNCHANGED <<status, state, ethif, frame, freer, link>>

\* HAL_ETH_ErrorCallback: receive buffer unavailable, said once; frames go on being
\* lost until the tail pointer is written.
FrameLost ==
  /\ state = "STARTED" /\ owned = 0
  /\ suspended' = TRUE /\ sem' = IF suspended THEN sem ELSE 1
  /\ UNCHANGED <<pool, owned, full, kept, bare, inside>>
  /\ UNCHANGED <<status, state, ethif, frame, freer, link>>

-----------------------------------------------------------------------------
(* ethernetif_input *)

Acquire ==
  /\ ethif = "wait" /\ sem = 1
  /\ sem' = 0 /\ ethif' = "read"
  /\ UNCHANGED <<dmaVars, status, state, frame, freer, link>>

\* low_level_input, HAL_ETH_ReadData
Readable == status = "OK" /\ state = "STARTED"

\* Nothing can be read: back to the semaphore.
ReadNot ==
  /\ ethif = "read" /\ ~Readable
  /\ ethif' = "wait"
  /\ UNCHANGED <<dmaVars, status, sem, state, frame, freer, link>>

\* HAL_ETH_ReadData takes a frame from the ring if there is one.
Taken == IF full > 0 THEN 1 ELSE 0

Read ==
  /\ ethif = "read" /\ Readable
  /\ frame' = Taken /\ full' = full - Taken /\ bare' = bare + Taken
  /\ ethif' = "build"
  /\ UNCHANGED <<pool, owned, kept, inside, suspended, status, sem, state, freer, link>>

\* ETH_UpdateDescriptor: a descriptor gets a buffer, or has one, and goes to the DMA.
BuildOne ==
  /\ \/ /\ bare > 0 /\ pool > 0
        /\ pool' = pool - 1 /\ bare' = bare - 1 /\ UNCHANGED kept
     \/ /\ bare = 0 /\ kept > 0
        /\ kept' = kept - 1 /\ UNCHANGED <<pool, bare>>
  /\ owned' = owned + 1 /\ suspended' = FALSE
  /\ UNCHANGED <<full, inside>>

Exhausted == bare > 0 /\ pool = 0
Built == bare = 0 /\ kept = 0

Build ==
  /\ ethif = "build" /\ BuildOne
  /\ UNCHANGED <<status, sem, state, ethif, frame, freer, link>>

\* LWIP_MEMPOOL_ALLOC returns NULL ...
BuildFails ==
  /\ ethif = "build" /\ Exhausted
  /\ ethif' = "fail"
  /\ UNCHANGED <<dmaVars, status, sem, state, frame, freer, link>>

AfterBuild == IF frame = 1 THEN "input" ELSE "wait"

\* ... and HAL_ETH_RxAllocateCallback remembers it.
NoteFailure ==
  /\ ethif = "fail"
  /\ status' = "ERROR" /\ ethif' = AfterBuild
  /\ UNCHANGED <<dmaVars, sem, state, frame, freer, link>>

BuildEnds ==
  /\ ethif = "build" /\ Built
  /\ ethif' = AfterBuild
  /\ UNCHANGED <<dmaVars, status, sem, state, frame, freer, link>>

\* tcpip_input: the frame is in the mailbox of tcpip_thread.
Input ==
  /\ ethif = "input"
  /\ frame' = 0 /\ inside' = inside + 1 /\ ethif' = "read"
  /\ UNCHANGED <<pool, owned, full, kept, bare, suspended, status, sem, state, freer, link>>

\* pbuf_free_custom: was the pool exhausted?
Signalled == status = "ERROR"

\* tcpip_input fails, the mailbox is full: pbuf_free.
InputRefused ==
  /\ ethif = "input"
  /\ frame' = 0 /\ pool' = pool + 1 /\ ethif' = "read"
  /\ status' = "OK" /\ sem' = IF Signalled THEN 1 ELSE sem
  /\ UNCHANGED <<owned, full, kept, bare, inside, suspended, state, freer, link>>

-----------------------------------------------------------------------------
(* pbuf_free_custom in the other threads *)

\* LWIP_MEMPOOL_FREE
Free(f) ==
  /\ OthersRun /\ freer[f] = "run" /\ inside > 0
  /\ inside' = inside - 1 /\ pool' = pool + 1
  /\ freer' = [freer EXCEPT ![f] = "freed"]
  /\ UNCHANGED <<owned, full, kept, bare, suspended, status, sem, state, ethif, frame, link>>

Check(f) ==
  /\ OthersRun /\ freer[f] = "freed"
  /\ IF Signalled
       THEN status' = "OK" /\ freer' = [freer EXCEPT ![f] = "signal"]
       ELSE UNCHANGED status /\ freer' = [freer EXCEPT ![f] = "run"]
  /\ UNCHANGED <<dmaVars, sem, state, ethif, frame, link>>

\* Fault: the semaphore is not released.
ReleasedNot == sem
Released == 1

Signal(f) ==
  /\ OthersRun /\ freer[f] = "signal"
  /\ sem' = Released /\ freer' = [freer EXCEPT ![f] = "run"]
  /\ UNCHANGED <<dmaVars, status, state, ethif, frame, link>>

-----------------------------------------------------------------------------
(* ethernet_link_thread, with the lowest priority of all *)

\* HAL_ETH_Stop_IT
LinkDown ==
  /\ Flaps /\ OthersRun /\ link = "watch" /\ state = "STARTED"
  /\ state' = "READY"
  /\ UNCHANGED <<dmaVars, status, sem, ethif, frame, freer, link>>

\* Fault: buffers with an unread frame are forgotten.
ReusedOwned == kept + owned
\* Descriptors that have a buffer.
Reused == kept + owned + full

\* HAL_ETH_Start_IT: all descriptors are to be built, those with a buffer keep it;
\* frames in them are lost.
LinkUp ==
  /\ OthersRun /\ link = "watch" /\ state = "READY"
  /\ state' = "BUSY" /\ link' = "build"
  /\ kept' = Reused /\ owned' = 0 /\ full' = 0
  /\ UNCHANGED <<pool, bare, inside, suspended, status, sem, ethif, frame, freer>>

LinkBuild ==
  /\ OthersRun /\ link = "build" /\ BuildOne
  /\ UNCHANGED <<status, sem, state, ethif, frame, freer, link>>

LinkBuildFails ==
  /\ OthersRun /\ link = "build" /\ Exhausted
  /\ link' = "fail"
  /\ UNCHANGED <<dmaVars, status, sem, state, ethif, frame, freer>>

LinkNoteFailure ==
  /\ OthersRun /\ link = "fail"
  /\ status' = "ERROR" /\ link' = "watch" /\ state' = "STARTED"
  /\ UNCHANGED <<dmaVars, sem, ethif, frame, freer>>

LinkBuildEnds ==
  /\ OthersRun /\ link = "build" /\ Built
  /\ link' = "watch" /\ state' = "STARTED"
  /\ UNCHANGED <<dmaVars, status, sem, ethif, frame, freer>>

-----------------------------------------------------------------------------
EthIf ==
  \/ Acquire \/ ReadNot \/ Read \/ Build \/ BuildFails \/ NoteFailure \/ BuildEnds
  \/ Input \/ InputRefused
Freeing(f) == Free(f) \/ Check(f) \/ Signal(f)
Link ==
  \/ LinkDown \/ LinkUp \/ LinkBuild \/ LinkBuildFails \/ LinkNoteFailure
  \/ LinkBuildEnds

Next == FrameArrives \/ FrameLost \/ EthIf \/ (\E f \in Freers : Freeing(f)) \/ Link

Spec == Init /\ [][Next]_vars

\* EthIf runs when it can; lwIP works off its frames and frees them, as often as the
\* frames that keep coming let it run; the link thread finishes a restart.
FairSpec ==
  /\ Spec
  /\ WF_vars(EthIf)
  /\ \A f \in Freers : SF_vars(Freeing(f))
  /\ SF_vars(LinkUp \/ LinkBuild \/ LinkBuildFails \/ LinkNoteFailure \/ LinkBuildEnds)

-----------------------------------------------------------------------------
(* Properties *)

\* Every buffer is at one place, and every descriptor counted once: none is lost and
\* none is used twice.
Conserved ==
  /\ pool + owned + full + kept + frame + inside = Bufs
  /\ owned + full + kept + bare = Descs

\* The buffers and the descriptors stay what they are, over every change of the link.
BuffersSafe == TypeOK /\ Conserved

\* When the driver takes the pool for exhausted, a buffer is still to be freed, or its
\* freeing is about to be noticed: reception does not wait for what cannot come.
Awaited ==
  status = "ERROR" =>
    inside + frame > 0 \/ \E f \in Freers : freer[f] = "freed"

\* Descriptors are missing only while somebody is about to build them: EthIf, the next
\* free, or a start of the driver.
Rebuilt ==
  bare + kept > 0 =>
    \/ status = "ERROR" \/ sem = 1 \/ ethif # "wait"
    \/ state # "STARTED" \/ link # "watch"
    \/ \E f \in Freers : freer[f] = "signal"

\* Without changes of the link there is always somebody who gives the driver what it
\* waits for.
Supplied == Awaited /\ Rebuilt

\* Reception resumes: a DMA that ran out of descriptors gets one.
Resumes == suspended ~> owned > 0
=============================================================================
