---------------------------------- MODULE EthTx ----------------------------------
(***************************************************************************)
(* Transmission of the Ethernet driver: low_level_output of                *)
(* LWIP/Target/ethernetif.c over the ring of descriptors of                *)
(* stm32h7xx_hal_eth.c, and TCP's retransmission, which leaves a segment   *)
(* alone while the driver has a reference to it.  A sent packet is         *)
(* released only when the ring is full.  A packet needs one descriptor:    *)
(* no pbuf chain of this firmware has more than two links.                 *)
(*                                                                         *)
(* "tcpip" is whoever holds the core lock of lwIP, "link" the thread       *)
(* ethernet_link_thread, which sends an ARP packet when the link comes up, *)
(* without that lock: the two may be in the driver at the same time.       *)
(***************************************************************************)
EXTENDS Naturals, FiniteSets

CONSTANTS
  Descs,    \* ETH_TX_DESC_CNT
  Others,   \* packets of the holder of the lock other than the segment; a name may
            \* stand for several packets
  Flaps,    \* may the link go down and up?
  Traffic   \* do the tasks keep sending?

TxAssumption ==
  /\ Descs \in Nat \ {0} /\ IsFiniteSet(Others) /\ {"seg", "arp", "none"} \cap Others = {}
  /\ Flaps \in BOOLEAN /\ Traffic \in BOOLEAN

VARIABLES
  state,   \* gState: "STARTED" or not ("READY")
  own,     \* the OWN bit of each descriptor
  buf,     \* the packet each descriptor was last filled with
  addr,    \* PacketAddress
  cur,     \* CurTxDesc
  dma,     \* the descriptor the DMA is at
  rel,     \* releaseIndex
  inUse,   \* BuffersInUse
  saved,   \* CurrentPacketAddress
  busy,    \* HAL_ETH_ERROR_BUSY in ErrorCode
  sem,     \* TxPktSemaphore
  refs,    \* references of the driver to the packets of each name
  pc, pk,  \* of the threads: place in low_level_output, its packet
  num, idx,\* of the threads: numOfBuf and idx of HAL_ETH_ReleaseTxPacket
  tcp,     \* the segment: "idle" (none), "queued", "unacked", "lost"
  crossed  \* history: has a thread entered low_level_output while the other was in it?

ringVars == <<own, buf, addr, cur, rel, inUse>>
threadVars == <<pc, pk, num, idx, crossed>>
vars == <<state, ringVars, dma, saved, busy, sem, refs, threadVars, tcp>>

Ring == 0 .. Descs - 1
Packets == Others \cup {"seg", "arp"}
Threads == {"tcpip", "link"}
Following(i) == (i + 1) % Descs

TypeOK ==
  /\ state \in {"STARTED", "READY"} /\ own \in [Ring -> BOOLEAN]
  /\ buf \in [Ring -> Packets \cup {"none"}] /\ addr \in [Ring -> Packets \cup {"none"}]
  /\ cur \in Ring /\ dma \in Ring /\ rel \in Ring /\ inUse \in 0 .. Descs
  /\ saved \in Packets \cup {"none"} /\ busy \in BOOLEAN /\ sem \in 0 .. 1
  /\ refs \in [Packets -> 0 .. Descs + 1]
  /\ pc \in [Threads -> {"idle", "save", "prepare", "advance", "wait", "release"}]
  /\ pk \in [Threads -> Packets \cup {"none"}]
  /\ num \in [Threads -> 0 .. Descs] /\ idx \in [Threads -> Ring]
  /\ tcp \in {"idle", "queued", "unacked", "lost"} /\ crossed \in BOOLEAN

Init ==
  /\ state = "STARTED" /\ own = [i \in Ring |-> FALSE] /\ buf = [i \in Ring |-> "none"]
  /\ addr = [i \in Ring |-> "none"] /\ cur = 0 /\ dma = 0 /\ rel = 0 /\ inUse = 0
  /\ saved = "none" /\ busy = FALSE /\ sem = 0 /\ refs = [p \in Packets |-> 0]
  /\ pc = [t \in Threads |-> "idle"] /\ pk = [t \in Threads |-> "none"]
  /\ num = [t \in Threads |-> 0] /\ idx = [t \in Threads |-> 0]
  /\ tcp = "idle" /\ crossed = FALSE

\* Scheduling: the link thread has the lowest priority.
MayRun(t) ==
  t = "link" => pc["tcpip"] = "idle" \/ (pc["tcpip"] = "wait" /\ sem = 0)

-----------------------------------------------------------------------------
(* low_level_output *)

\* The other thread is in low_level_output.
Crosses(t) == \E u \in Threads \ {t} : pc[u] # "idle"

Begin(t, p) ==
  /\ pc[t] = "idle" /\ crossed' = (crossed \/ Crosses(t))
  /\ refs' = [refs EXCEPT ![p] = @ + 1]
  /\ pc' = [pc EXCEPT ![t] = "save"] /\ pk' = [pk EXCEPT ![t] = p]

OutputOther(p) ==
  /\ Begin("tcpip", p)
  /\ UNCHANGED <<state, ringVars, dma, saved, busy, sem, num, idx, tcp>>

\* Fault: the segment is sent again while the driver has it.
SegmentBusyNot == FALSE
\* tcp_output_segment_busy
SegmentBusy == refs["seg"] # 0

\* tcp_output, tcp_output_segment
OutputSegment ==
  /\ tcp = "queued" /\ ~SegmentBusy /\ Begin("tcpip", "seg")
  /\ UNCHANGED <<state, ringVars, dma, saved, busy, sem, num, idx, tcp>>

\* HAL_ETH_Transmit_IT
Save(t) ==
  /\ MayRun(t) /\ pc[t] = "save" /\ state = "STARTED"
  /\ saved' = pk[t] /\ pc' = [pc EXCEPT ![t] = "prepare"]
  /\ UNCHANGED <<state, ringVars, dma, busy, sem, refs, pk, num, idx, tcp>>

\* Fault: the packet is kept when it was not sent.
GivenBackNot(t) == refs
\* "Other error": pbuf_free.
GivenBack(t) == [refs EXCEPT ![pk[t]] = @ - 1]

\* The driver is stopped; an error BUSY of an earlier packet is still in ErrorCode.
NotStarted(t) ==
  /\ MayRun(t) /\ pc[t] = "save" /\ state # "STARTED"
  /\ IF busy
       THEN pc' = [pc EXCEPT ![t] = "wait"] /\ UNCHANGED <<refs, pk>>
       ELSE /\ pc' = [pc EXCEPT ![t] = "idle"] /\ pk' = [pk EXCEPT ![t] = "none"]
            /\ refs' = GivenBack(t)
  /\ UNCHANGED <<state, ringVars, dma, saved, busy, sem, num, idx, tcp>>

\* Fault: a sent packet that was not released counts as free.
OccupiedOwn == own[cur]
Occupied == own[cur] \/ addr[cur] # "none"

\* ETH_Prepare_Tx_Descriptors
Prepare(t) ==
  /\ MayRun(t) /\ pc[t] = "prepare" /\ ~Occupied
  /\ own' = [own EXCEPT ![cur] = TRUE] /\ buf' = [buf EXCEPT ![cur] = pk[t]]
  /\ addr' = [addr EXCEPT ![cur] = saved] /\ inUse' = inUse + 1
  /\ pc' = [pc EXCEPT ![t] = "advance"]
  /\ tcp' = IF pk[t] = "seg" THEN "unacked" ELSE tcp
  /\ UNCHANGED <<state, cur, rel, dma, saved, busy, sem, refs, pk, num, idx>>

PrepareFails(t) ==
  /\ MayRun(t) /\ pc[t] = "prepare" /\ Occupied
  /\ busy' = TRUE /\ pc' = [pc EXCEPT ![t] = "wait"]
  /\ UNCHANGED <<state, ringVars, dma, saved, sem, refs, pk, num, idx, tcp>>

Advance(t) ==
  /\ MayRun(t) /\ pc[t] = "advance"
  /\ cur' = Following(cur)
  /\ pc' = [pc EXCEPT ![t] = "idle"] /\ pk' = [pk EXCEPT ![t] = "none"]
  /\ UNCHANGED <<state, own, buf, addr, rel, inUse, dma, saved, busy, sem, refs, num, idx, tcp>>

\* Fault: no release after the wait.
AfterWaitSave == "save"
AfterWait == "release"

\* osSemaphoreAcquire, which ends with the semaphore or after ETHIF_TX_TIMEOUT
Wait(t) ==
  /\ MayRun(t) /\ pc[t] = "wait"
  /\ sem' = 0 /\ pc' = [pc EXCEPT ![t] = AfterWait]
  /\ num' = [num EXCEPT ![t] = inUse] /\ idx' = [idx EXCEPT ![t] = rel]
  /\ UNCHANGED <<state, ringVars, dma, saved, busy, refs, pk, tcp>>

-----------------------------------------------------------------------------
(* HAL_ETH_ReleaseTxPacket *)

\* Fault: whatever the DMA does.
SentBlind(i) == TRUE
Sent(i) == ~own[i]
\* Fault: the release index stays.
ReleasedToStay(i) == rel
ReleasedTo(i) == Following(i)

Release(t) ==
  LET i == idx[t] IN
    /\ MayRun(t) /\ pc[t] = "release" /\ num[t] > 0
    /\ addr[i] # "none" /\ Sent(i)
    /\ refs' = [refs EXCEPT ![addr[i]] = @ - 1] /\ addr' = [addr EXCEPT ![i] = "none"]
    /\ inUse' = num[t] - 1 /\ rel' = ReleasedTo(i)
    /\ num' = [num EXCEPT ![t] = @ - 1] /\ idx' = [idx EXCEPT ![t] = Following(i)]
    /\ UNCHANGED <<state, own, buf, cur, dma, saved, busy, sem, pc, pk, tcp>>

\* The end, or the first packet that was not sent.
ReleaseEnds(t) ==
  /\ MayRun(t) /\ pc[t] = "release"
  /\ num[t] = 0 \/ (addr[idx[t]] # "none" /\ ~Sent(idx[t]))
  /\ pc' = [pc EXCEPT ![t] = "save"]
  /\ UNCHANGED <<state, ringVars, dma, saved, busy, sem, refs, pk, num, idx, tcp>>

Output(t) ==
  /\ \/ Save(t) \/ NotStarted(t) \/ Prepare(t) \/ PrepareFails(t) \/ Advance(t)
     \/ Wait(t) \/ Release(t) \/ ReleaseEnds(t)
  /\ UNCHANGED crossed

-----------------------------------------------------------------------------
(* The DMA, the link, TCP *)

\* The DMA sends a packet, HAL_ETH_TxCpltCallback; the network may lose it.
Send ==
  /\ state = "STARTED" /\ own[dma]
  /\ own' = [own EXCEPT ![dma] = FALSE] /\ dma' = Following(dma) /\ sem' = 1
  /\ tcp' \in IF buf[dma] = "seg" /\ tcp = "unacked" THEN {"unacked", "lost"} ELSE {tcp}
  /\ UNCHANGED <<state, buf, addr, cur, rel, inUse, saved, busy, refs, threadVars>>

\* ethernet_link_thread: HAL_ETH_Stop_IT
LinkDown ==
  /\ Flaps /\ MayRun("link") /\ pc["link"] = "idle" /\ state = "STARTED"
  /\ state' = "READY"
  /\ UNCHANGED <<ringVars, dma, saved, busy, sem, refs, threadVars, tcp>>

\* HAL_ETH_Start_IT, netif_set_up, netif_set_link_up: etharp_gratuitous
LinkUp ==
  /\ MayRun("link") /\ state = "READY" /\ Begin("link", "arp")
  /\ state' = "STARTED"
  /\ UNCHANGED <<ringVars, dma, saved, busy, sem, num, idx, tcp>>

NewSegment ==
  /\ tcp = "idle" /\ refs["seg"] = 0
  /\ tcp' = "queued"
  /\ UNCHANGED <<state, ringVars, dma, saved, busy, sem, refs, threadVars>>

Acknowledged ==
  /\ tcp = "unacked" /\ pc["tcpip"] = "idle" /\ \A i \in Ring : own[i] => buf[i] # "seg"
  /\ tcp' = "idle"
  /\ UNCHANGED <<state, ringVars, dma, saved, busy, sem, refs, threadVars>>

\* tcp_slowtmr, tcp_rexmit_rto_prepare
Retransmit ==
  /\ tcp \in {"unacked", "lost"} /\ pc["tcpip"] = "idle" /\ ~SegmentBusy
  /\ tcp' = "queued"
  /\ UNCHANGED <<state, ringVars, dma, saved, busy, sem, refs, threadVars>>

Next ==
  \/ \E p \in Others : OutputOther(p)
  \/ OutputSegment
  \/ \E t \in Threads : Output(t)
  \/ Send \/ LinkDown \/ LinkUp
  \/ NewSegment \/ Acknowledged \/ Retransmit

Spec == Init /\ [][Next]_vars

\* The threads and the DMA go on, and the timers of TCP run; nobody promises that the
\* link comes up again.  With Traffic tasks keep sending.
FairSpec ==
  /\ Spec
  /\ WF_vars(Output("tcpip")) /\ SF_vars(Output("link"))
  /\ WF_vars(Send)
  /\ SF_vars(OutputSegment) /\ SF_vars(Retransmit)
  /\ Traffic => SF_vars(\E p \in Others : OutputOther(p))

-----------------------------------------------------------------------------
(* Properties *)

Holds(t, p) == pk[t] = p /\ pc[t] \in {"save", "prepare", "wait", "release"}

\* Each reference of the driver has its owner: a descriptor, or a call on its way there.
\* No packet is freed twice and none is kept.
RefsExact ==
  \A p \in Packets :
    refs[p] = Cardinality({i \in Ring : addr[i] = p})
              + Cardinality({t \in Threads : Holds(t, p)})

\* What the DMA is to send is still referenced: its memory is not used for anything else.
SentWhole == \A i \in Ring : own[i] => addr[i] = buf[i]

\* The packets to release are those from the release index on, without a gap.
Window ==
  \A k \in Ring :
    addr[(rel + k) % Descs] # "none" <=> k < inUse

\* TCP does not write into a segment that the DMA is still to send.
SegmentStill ==
  pk["tcpip"] = "seg" /\ pc["tcpip"] \in {"save", "prepare", "wait", "release"} =>
    \A i \in Ring : own[i] => buf[i] # "seg"

\* What the driver owes to lwIP and to TCP about packets on their way.  With a link that
\* stays up it holds always, with one that flaps until two outputs cross, and TLC refutes it
\* behind that: "Disagreements met" in README.md.
TxSafe == TypeOK /\ RefsExact /\ SentWhole /\ Window /\ SegmentStill

\* low_level_output returns.
OutputReturns == pc["tcpip"] # "idle" ~> pc["tcpip"] = "idle"

\* A segment that was lost is sent again.
Retransmitted == tcp = "lost" ~> tcp # "lost"
=============================================================================
