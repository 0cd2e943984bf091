------------------------------- MODULE EthernetProofs -------------------------------
(***************************************************************************)
(* Proofs about the Ethernet driver.  Reception: buffers are conserved     *)
(* whatever the threads and the link do, and, while the link stays up, an  *)
(* exhausted pool always has a buffer still to be freed, and somebody to   *)
(* build the descriptors with it.  Transmission: references to packets     *)
(* are exact, and the ring is a window without a gap, with a link that     *)
(* flaps under the lock and with a link that stays up without it.          *)
(***************************************************************************)
EXTENDS MCEthernet, FiniteSetTheorems, TLAPS

\* EthIf holds a frame from the read to the input.
FrameHeld ==
  /\ frame = 1 => ethif \in {"build", "fail", "input"}
  /\ ethif = "input" => frame = 1

BuffersInv == TypeOK /\ Conserved /\ FrameHeld

\* While the link stays up; a build that fails leaves a buffer to be freed, for there
\* are at least as many buffers as descriptors.
SteadyInv ==
  /\ state = "STARTED" /\ link = "watch" /\ kept = 0
  /\ ethif = "fail" => inside + frame > 0
  /\ Awaited

LEMMA BuffersInit == Init => BuffersInv
<1> SUFFICES ASSUME Init PROVE BuffersInv
  OBVIOUS
<1> USE RxAssumption DEF RxAssumption, Init
<1>1. TypeOK
  <2>1. pool \in 0 .. Bufs /\ inside \in 0 .. Bufs
    OBVIOUS
  <2>2. owned \in 0 .. Descs /\ full \in 0 .. Descs /\ kept \in 0 .. Descs /\ bare \in 0 .. Descs
    OBVIOUS
  <2>3. freer \in [Freers -> {"run", "freed", "signal"}]
    OBVIOUS
  <2>4. suspended \in BOOLEAN
    BY Zenon
  <2>5. QED
    BY <2>1, <2>2, <2>3, <2>4 DEF TypeOK
<1>2. Conserved /\ FrameHeld
  BY DEF Conserved, FrameHeld
<1>3. QED
  BY <1>1, <1>2 DEF BuffersInv

\* The interrupts.
LEMMA BuffersDma ==
  ASSUME BuffersInv, FrameArrives \/ FrameLost
  PROVE  BuffersInv'
<1> USE RxAssumption DEF RxAssumption, BuffersInv, TypeOK, Conserved, FrameHeld
<1>1. CASE FrameArrives
  BY <1>1 DEF FrameArrives
<1>2. CASE FrameLost
  BY <1>2 DEF FrameLost
<1>3. QED
  BY <1>1, <1>2

\* A descriptor is built, by EthIf or by the link thread.
LEMMA BuffersBuilt ==
  ASSUME BuffersInv, BuildOne,
         UNCHANGED <<status, sem, state, ethif, frame, freer, link>>
  PROVE  BuffersInv'
<1> USE RxAssumption DEF RxAssumption, BuffersInv, TypeOK, Conserved, FrameHeld
<1>1. CASE bare > 0 /\ pool > 0 /\ pool' = pool - 1 /\ bare' = bare - 1 /\ kept' = kept
  <2>1. suspended' \in BOOLEAN
    BY Zenon DEF BuildOne
  <2>2. owned' = owned + 1 /\ full' = full /\ inside' = inside
    BY DEF BuildOne
  <2>3. QED
    BY <1>1, <2>1, <2>2
<1>2. CASE bare = 0 /\ kept > 0 /\ kept' = kept - 1 /\ pool' = pool /\ bare' = bare
  <2>1. suspended' \in BOOLEAN
    BY Zenon DEF BuildOne
  <2>2. owned' = owned + 1 /\ full' = full /\ inside' = inside
    BY DEF BuildOne
  <2>3. QED
    BY <1>2, <2>1, <2>2
<1>3. QED
  BY <1>1, <1>2 DEF BuildOne

\* The thread EthIf.
LEMMA BuffersEthIf ==
  ASSUME BuffersInv, EthIf
  PROVE  BuffersInv'
<1> USE RxAssumption DEF RxAssumption, BuffersInv, TypeOK, Conserved, FrameHeld
<1>1. CASE Acquire \/ ReadNot
  BY <1>1 DEF Acquire, ReadNot, dmaVars
<1>2. CASE Read
  BY <1>2 DEF Read, Taken
<1>3. CASE Build
  BY <1>3, BuffersBuilt DEF Build
<1>4. CASE BuildFails \/ NoteFailure \/ BuildEnds
  BY <1>4 DEF BuildFails, NoteFailure, BuildEnds, AfterBuild, dmaVars
<1>5. CASE Input \/ InputRefused
  BY <1>5 DEF Input, InputRefused
<1>6. QED
  BY <1>1, <1>2, <1>3, <1>4, <1>5 DEF EthIf

\* The threads that free.
LEMMA BuffersFreeing ==
  ASSUME BuffersInv, NEW f \in Freers, Freeing(f)
  PROVE  BuffersInv'
<1> USE RxAssumption DEF RxAssumption, BuffersInv, TypeOK, Conserved, FrameHeld
<1>1. CASE Free(f)
  BY <1>1 DEF Free
<1>2. CASE Check(f)
  BY <1>2 DEF Check, dmaVars
<1>3. CASE Signal(f)
  BY <1>3 DEF Signal, Released, dmaVars
<1>4. QED
  BY <1>1, <1>2, <1>3 DEF Freeing

\* The link thread.
LEMMA BuffersLink ==
  ASSUME BuffersInv, Link
  PROVE  BuffersInv'
<1> USE RxAssumption DEF RxAssumption, BuffersInv, TypeOK, Conserved, FrameHeld
<1>1. CASE LinkDown \/ LinkBuildFails \/ LinkNoteFailure \/ LinkBuildEnds
  BY <1>1 DEF LinkDown, LinkBuildFails, LinkNoteFailure, LinkBuildEnds, dmaVars
<1>2. CASE LinkUp
  BY <1>2 DEF LinkUp, Reused
<1>3. CASE LinkBuild
  BY <1>3, BuffersBuilt DEF LinkBuild
<1>4. QED
  BY <1>1, <1>2, <1>3 DEF Link

LEMMA BuffersNext ==
  ASSUME BuffersInv, [Next]_vars
  PROVE  BuffersInv'
<1>1. CASE Next
  BY <1>1, BuffersDma, BuffersEthIf, BuffersFreeing, BuffersLink DEF Next
<1>2. CASE UNCHANGED vars
  BY <1>2 DEF vars, dmaVars, BuffersInv, TypeOK, Conserved, FrameHeld
<1>3. QED
  BY <1>1, <1>2

LEMMA BuffersInvariant == Spec => []BuffersInv
  BY BuffersInit, BuffersNext, PTL DEF Spec

\* Buffers and descriptors of the driver stay in their ranges (RX_POOL, the ring).
THEOREM BuffersTyped == Spec => []TypeOK
<1>1. BuffersInv => TypeOK
  BY DEF BuffersInv
<1>2. QED
  BY <1>1, BuffersInvariant, PTL

\* Both: the buffers and the descriptors of the reception are safe.
THEOREM BuffersKept == Spec => []BuffersSafe
<1>1. BuffersInv => BuffersSafe
  BY DEF BuffersInv, BuffersSafe
<1>2. QED
  BY <1>1, BuffersInvariant, PTL

\* No buffer of RX_POOL and no descriptor is lost or used twice, for every size of the
\* pool and the ring and over every change of the link.
THEOREM BuffersConserved == Spec => []Conserved
<1>1. BuffersInv => Conserved
  BY DEF BuffersInv
<1>2. QED
  BY <1>1, BuffersInvariant, PTL

-----------------------------------------------------------------------------
(* Without changes of the link *)

LEMMA SteadyInit == Init => SteadyInv
  BY DEF Init, SteadyInv, Awaited

LEMMA SteadyEthIf ==
  ASSUME BuffersInv, SteadyInv, EthIf
  PROVE  SteadyInv'
<1> USE DEF BuffersInv, TypeOK, FrameHeld, SteadyInv, Awaited
<1>1. CASE Acquire \/ ReadNot
  BY <1>1 DEF Acquire, ReadNot, dmaVars
<1>2. CASE Read
  BY <1>2 DEF Read, Taken, Readable
<1>3. CASE Build
  BY <1>3 DEF Build, BuildOne
<1>4. CASE BuildFails
  <2>1. inside + frame > 0
    BY <1>4, RxAssumption DEF RxAssumption, BuildFails, Exhausted, Conserved
  <2>2. QED
    BY <1>4, <2>1 DEF BuildFails, dmaVars
<1>5. CASE NoteFailure \/ BuildEnds
  BY <1>5 DEF NoteFailure, BuildEnds, AfterBuild, dmaVars
<1>6. CASE Input \/ InputRefused
  BY <1>6 DEF Input, InputRefused
<1>7. QED
  BY <1>1, <1>2, <1>3, <1>4, <1>5, <1>6 DEF EthIf

LEMMA SteadyFreeing ==
  ASSUME BuffersInv, SteadyInv, NEW f \in Freers, Freeing(f)
  PROVE  SteadyInv'
<1> USE DEF BuffersInv, TypeOK, SteadyInv, Awaited
<1>1. CASE Free(f)
  BY <1>1 DEF Free, OthersRun
<1>2. CASE Check(f)
  <2>1. status' = "OK" \/ (status # "ERROR" /\ UNCHANGED status)
    BY <1>2 DEF Check, Signalled
  <2>2. QED
    BY <1>2, <2>1 DEF Check, OthersRun, dmaVars
<1>3. CASE Signal(f)
  <2>1. \A g \in Freers : freer[g] = "freed" => freer'[g] = "freed"
    BY <1>3 DEF Signal
  <2>2. QED
    BY <1>3, <2>1 DEF Signal, OthersRun, dmaVars
<1>4. QED
  BY <1>1, <1>2, <1>3 DEF Freeing

LEMMA SteadyNext ==
  ASSUME ~LinkDown, BuffersInv, SteadyInv, [Next]_vars
  PROVE  SteadyInv'
<1>1. CASE FrameArrives \/ FrameLost
  BY <1>1 DEF FrameArrives, FrameLost, SteadyInv, Awaited
<1>2. CASE Link
  BY <1>2 DEF Link, LinkDown, LinkUp, LinkBuild, LinkBuildFails, LinkNoteFailure,
              LinkBuildEnds, SteadyInv
<1>3. CASE UNCHANGED vars
  BY <1>3 DEF vars, dmaVars, SteadyInv, Awaited
<1>4. QED
  BY <1>1, <1>2, <1>3, SteadyEthIf, SteadyFreeing DEF Next

\* While the link does not change, the driver that takes the pool for exhausted
\* (RxAllocStatus) has a buffer to wait for, for every size of the pool: the flag is set
\* by the thread of the highest priority, so no free slips between the failed
\* allocation and the flag.
THEOREM ExhaustedAwaited ==
  ASSUME ~Flaps
  PROVE  Spec => []Awaited
<1>1. Init => SteadyInv
  BY SteadyInit
<1>2. BuffersInv /\ SteadyInv /\ [Next]_vars => SteadyInv'
  BY SteadyNext DEF LinkDown
<1>3. SteadyInv => Awaited
  BY DEF SteadyInv
<1>4. QED
  BY <1>1, <1>2, <1>3, BuffersInvariant, PTL DEF Spec

\* A step that leaves descriptors without a buffer leaves somebody to build them: a
\* read goes on to the build, a failed build sets the flag, who clears the flag signals.
LEMMA RebuiltEthIf ==
  ASSUME BuffersInv, SteadyInv, Rebuilt, EthIf
  PROVE  Rebuilt'
<1> USE DEF BuffersInv, TypeOK, SteadyInv, Rebuilt
<1>1. CASE ReadNot
  BY <1>1 DEF ReadNot, Readable, dmaVars
<1>2. CASE NoteFailure
  BY <1>2 DEF NoteFailure
<1>3. CASE BuildEnds
  BY <1>3 DEF BuildEnds, Built, dmaVars
<1>4. CASE Acquire \/ Read \/ BuildFails \/ Input \/ InputRefused
  BY <1>4 DEF Acquire, Read, BuildFails, Input, InputRefused
<1>5. CASE Build
  BY <1>5 DEF Build
<1>6. QED
  BY <1>1, <1>2, <1>3, <1>4, <1>5 DEF EthIf

LEMMA RebuiltFreeing ==
  ASSUME BuffersInv, SteadyInv, Rebuilt, NEW f \in Freers, Freeing(f)
  PROVE  Rebuilt'
<1> USE DEF BuffersInv, TypeOK, SteadyInv, Rebuilt
<1>1. CASE Free(f)
  <2>1. \A g \in Freers : freer[g] = "signal" => freer'[g] = "signal"
    BY <1>1 DEF Free
  <2>2. QED
    BY <1>1, <2>1 DEF Free
<1>2. CASE Check(f)
  <2>1. CASE Signalled
    <3>1. freer'[f] = "signal"
      BY <1>2, <2>1 DEF Check
    <3>2. QED
      BY <3>1
  <2>2. CASE ~Signalled
    <3>1. \A g \in Freers : freer[g] = "signal" => freer'[g] = "signal"
      BY <1>2, <2>2 DEF Check
    <3>2. QED
      BY <1>2, <2>2, <3>1 DEF Check, dmaVars
  <2>3. QED
    BY <2>1, <2>2
<1>3. CASE Signal(f)
  BY <1>3 DEF Signal, Released
<1>4. QED
  BY <1>1, <1>2, <1>3 DEF Freeing

\* What the receiver owes to the DMA is preserved while the link does not change.
SupplyInv == BuffersInv /\ SteadyInv /\ Rebuilt

LEMMA SupplyInit == Init => SupplyInv
  BY BuffersInit, SteadyInit DEF Init, Rebuilt, SupplyInv

LEMMA SupplyNext ==
  ASSUME ~LinkDown, SupplyInv, [Next]_vars
  PROVE  SupplyInv'
<1>1. BuffersInv /\ SteadyInv /\ Rebuilt
  BY DEF SupplyInv
<1>2. BuffersInv' /\ SteadyInv'
  BY <1>1, BuffersNext, SteadyNext
<1>3. Rebuilt'
  <2>1. CASE EthIf
    BY <1>1, <2>1, RebuiltEthIf
  <2>2. CASE \E f \in Freers : Freeing(f)
    BY <1>1, <2>2, RebuiltFreeing
  <2>3. CASE FrameArrives \/ FrameLost \/ UNCHANGED vars
    BY <1>1, <2>3 DEF FrameArrives, FrameLost, vars, dmaVars, Rebuilt
  <2>4. CASE Link
    BY <1>1, <2>4 DEF Link, LinkUp, LinkBuild, LinkBuildFails, LinkNoteFailure,
                      LinkBuildEnds, SteadyInv
  <2>5. QED
    BY <2>1, <2>2, <2>3, <2>4 DEF Next
<1>4. QED
  BY <1>2, <1>3 DEF SupplyInv

\* While the link does not change, a DMA without descriptors and a pool without buffers
\* are never left alone: somebody builds, or a free is on its way that wakes who builds.
THEOREM AlwaysSupplied ==
  ASSUME ~Flaps
  PROVE  Spec => []Supplied
<1>1. SupplyInv /\ [Next]_vars => SupplyInv'
  BY SupplyNext DEF LinkDown
<1>2. SupplyInv => Supplied
  BY DEF SupplyInv, SteadyInv, Supplied
<1>3. QED
  BY SupplyInit, <1>1, <1>2, PTL DEF Spec

-----------------------------------------------------------------------------
(* Transmission *)

\* One thread at a time is in low_level_output, up to the first crossing.
Alone == pc["tcpip"] = "idle" \/ pc["link"] = "idle"

TxTypes ==
  /\ txState \in {"STARTED", "READY"} /\ own \in [Tx!Ring -> BOOLEAN]
  /\ buf \in [Tx!Ring -> Tx!Packets \cup {"none"}]
  /\ addr \in [Tx!Ring -> Tx!Packets \cup {"none"}]
  /\ cur \in Tx!Ring /\ dma \in Tx!Ring /\ rel \in Tx!Ring /\ inUse \in 0 .. TxDescs
  /\ saved \in Tx!Packets \cup {"none"} /\ busy \in BOOLEAN /\ txSem \in 0 .. 1
  /\ refs \in [Tx!Packets -> Int]
  /\ pc \in [Tx!Threads -> {"idle", "save", "prepare", "advance", "wait", "release"}]
  /\ pk \in [Tx!Threads -> Tx!Packets \cup {"none"}]
  /\ num \in [Tx!Threads -> 0 .. TxDescs] /\ idx \in [Tx!Threads -> Tx!Ring]
  /\ tcp \in {"idle", "queued", "unacked", "lost"}

\* A thread on its way has a packet, and what it saved is that packet; the link thread
\* sends nothing but ARP.
PacketsInv ==
  /\ \A t \in Tx!Threads : pc[t] # "idle" => pk[t] \in Tx!Packets
  /\ \A t \in Tx!Threads : pc[t] = "prepare" => saved = pk[t]
  /\ pk["link"] \in {"arp", "none"}

\* The next descriptor to fill is the one behind the window, but for the thread that has
\* just filled it; a release goes on at the head of the window and knows its length.
Filling == \E t \in Tx!Threads : pc[t] = "advance"
IndexInv ==
  /\ Filling => inUse > 0
  /\ cur = (rel + inUse - (IF Filling THEN 1 ELSE 0)) % TxDescs
  /\ \A t \in Tx!Threads : pc[t] = "release" => idx[t] = rel /\ num[t] = inUse

\* References as they can be counted while threads are alone.
InRing(a, p) == Cardinality({i \in Tx!Ring : a[i] = p})
Held(p) == IF \E t \in Tx!Threads : Tx!Holds(t, p) THEN 1 ELSE 0
RefsCounted == \A p \in Tx!Packets : refs[p] = InRing(addr, p) + Held(p)

TxInv ==
  /\ TxTypes /\ Alone /\ PacketsInv /\ IndexInv /\ RefsCounted
  /\ Tx!SentWhole /\ Tx!Window /\ Tx!SegmentStill

LEMMA RingFacts ==
  /\ TxDescs \in Nat \ {0} /\ Tx!Ring = 0 .. TxDescs - 1
  /\ "none" \notin Tx!Packets /\ "seg" \in Tx!Packets /\ "arp" \in Tx!Packets
  /\ TxOthers \subseteq Tx!Packets /\ "seg" \notin TxOthers /\ "arp" \notin TxOthers
BY SendAssumption DEF SendAssumption, Tx!TxAssumption, Tx!Ring, Tx!Packets

LEMMA Following ==
  ASSUME NEW a \in Tx!Ring, NEW k \in Tx!Ring
  PROVE  /\ (a + k) % TxDescs \in Tx!Ring
         /\ \A j \in Tx!Ring : (a + k) % TxDescs = (a + j) % TxDescs => k = j
         /\ (((a + 1) % TxDescs) + k) % TxDescs = (a + k + 1) % TxDescs
         /\ (((a + k) % TxDescs) + 1) % TxDescs = (a + k + 1) % TxDescs
         /\ (a + TxDescs) % TxDescs = a /\ (a + 0) % TxDescs = a
<1> USE RingFacts
<1>1. \A b \in 0 .. TxDescs - 1 : b % TxDescs = b
  OBVIOUS
<1>2. \A b \in TxDescs .. 2 * TxDescs - 1 : b % TxDescs = b - TxDescs
  OBVIOUS
<1>3. (a + k) % TxDescs = IF a + k < TxDescs THEN a + k ELSE a + k - TxDescs
  BY <1>1, <1>2
<1>4. \A j \in Tx!Ring : (a + j) % TxDescs = IF a + j < TxDescs THEN a + j ELSE a + j - TxDescs
  BY <1>1, <1>2
<1>5. (a + 1) % TxDescs = IF a + 1 < TxDescs THEN a + 1 ELSE 0
  BY <1>1, <1>2
<1>6. (a + TxDescs) % TxDescs = a /\ (a + 0) % TxDescs = a
  BY <1>1, <1>2
<1>7. (a + k) % TxDescs \in Tx!Ring /\ \A j \in Tx!Ring : (a + k) % TxDescs = (a + j) % TxDescs => k = j
  BY <1>3, <1>4
<1>8. (((a + 1) % TxDescs) + k) % TxDescs = (a + k + 1) % TxDescs
  <2>1. CASE a + 1 < TxDescs
    BY <1>5, <2>1
  <2>2. CASE a + 1 = TxDescs
    <3>1. (a + 1) % TxDescs = 0
      BY <1>5, <2>2
    <3>2. (0 + k) % TxDescs = k
      BY <1>1
    <3>3. (a + k + 1) % TxDescs = k
      BY <1>2, <2>2
    <3>4. QED
      BY <3>1, <3>2, <3>3
  <2>3. QED
    BY <2>1, <2>2
<1>9. (((a + k) % TxDescs) + 1) % TxDescs = (a + k + 1) % TxDescs
  <2>1. CASE a + k < TxDescs
    BY <1>3, <2>1
  <2>2. CASE a + k >= TxDescs
    <3>1. (a + k) % TxDescs = a + k - TxDescs
      BY <1>3, <2>2
    <3>2. (a + k - TxDescs + 1) % TxDescs = a + k - TxDescs + 1
      BY <1>1, <2>2
    <3>3. (a + k + 1) % TxDescs = a + k + 1 - TxDescs
      BY <1>2, <2>2
    <3>4. QED
      BY <3>1, <3>2, <3>3
  <2>3. QED
    BY <2>1, <2>2
<1>10. QED
  BY <1>6, <1>7, <1>8, <1>9

\* The packets in the ring are counted.
LEMMA InRingFinite ==
  ASSUME NEW a, NEW p
  PROVE  IsFiniteSet({i \in Tx!Ring : a[i] = p})
<1>1. IsFiniteSet(Tx!Ring)
  BY RingFacts, FS_Interval
<1>2. {i \in Tx!Ring : a[i] = p} \in SUBSET Tx!Ring
  OBVIOUS
<1>3. QED
  BY <1>1, <1>2, FS_Subset

LEMMA InRingNat ==
  \A a, p : InRing(a, p) \in Nat /\ InRing(a, p) <= TxDescs
<1> SUFFICES ASSUME NEW a, NEW p
             PROVE  InRing(a, p) \in Nat /\ InRing(a, p) <= TxDescs
  OBVIOUS
<1> DEFINE S == {i \in Tx!Ring : a[i] = p}
<1>1. IsFiniteSet(Tx!Ring) /\ Cardinality(Tx!Ring) = TxDescs
  BY RingFacts, FS_Interval
<1>2. S \in SUBSET Tx!Ring
  OBVIOUS
<1>3. Cardinality(S) \in Nat /\ Cardinality(S) <= TxDescs
  BY <1>1, <1>2, FS_Subset, FS_CardinalityType
<1>4. QED
  BY <1>3 DEF InRing

LEMMA InRingNone ==
  ASSUME NEW a, NEW p, InRing(a, p) = 0
  PROVE  \A i \in Tx!Ring : a[i] # p
<1>1. {i \in Tx!Ring : a[i] = p} = {}
  BY InRingFinite, FS_EmptySet DEF InRing
<1>2. QED
  BY <1>1

\* One descriptor gets another packet, or loses it.
Replaced(a, b, i, x) == \A j \in Tx!Ring : b[j] = IF j = i THEN x ELSE a[j]

LEMMA InRingChange ==
  ASSUME NEW a \in [Tx!Ring -> Tx!Packets \cup {"none"}], NEW i \in Tx!Ring, NEW x, a[i] # x,
         NEW b, Replaced(a, b, i, x), NEW p
  PROVE  InRing(b, p)
           = InRing(a, p) + (IF p = x THEN 1 ELSE 0) - (IF p = a[i] THEN 1 ELSE 0)
<1> DEFINE S == {j \in Tx!Ring : a[j] = p}
           T == {j \in Tx!Ring : b[j] = p}
<1>1. IsFiniteSet(S) /\ Cardinality(S) \in Nat /\ InRing(a, p) = Cardinality(S)
  BY InRingFinite, FS_CardinalityType DEF InRing
<1>2. IsFiniteSet(T) /\ Cardinality(T) \in Nat /\ InRing(b, p) = Cardinality(T)
  <2>1. IsFiniteSet(Tx!Ring) /\ T \in SUBSET Tx!Ring
    BY RingFacts, FS_Interval
  <2>2. IsFiniteSet(T)
    BY <2>1, FS_Subset
  <2>3. QED
    BY <2>2, FS_CardinalityType DEF InRing
<1>3. \A j \in Tx!Ring : b[j] = IF j = i THEN x ELSE a[j]
  BY DEF Replaced
<1>4. CASE p = x
  <2>1. T = S \cup {i} /\ i \notin S
    BY <1>3, <1>4
  <2>2. Cardinality(T) = Cardinality(S) + 1
    BY <1>1, <2>1, FS_AddElement
  <2>3. QED
    BY <1>1, <1>2, <1>4, <2>2
<1>5. CASE p = a[i]
  <2>1. T = S \ {i} /\ i \in S
    BY <1>3, <1>5
  <2>2. Cardinality(T) = Cardinality(S) - 1
    BY <1>1, <2>1, FS_RemoveElement
  <2>3. QED
    BY <1>1, <1>2, <1>5, <2>2
<1>6. CASE p # x /\ p # a[i]
  <2>1. T = S
    BY <1>3, <1>6
  <2>2. QED
    BY <1>1, <1>2, <1>6, <2>1
<1>7. p = x \/ p = a[i] \/ (p # x /\ p # a[i])
  OBVIOUS
<1> HIDE DEF S, T
<1>8. QED
  BY <1>4, <1>5, <1>6, <1>7

-----------------------------------------------------------------------------
(* The steps of a thread in low_level_output.                                 *)

AllIdle == \A t \in Tx!Threads : pc[t] = "idle"
Sending == {"save", "prepare", "wait", "release"}

\* A thread on its way is alone on it.
LEMMA Only ==
  ASSUME TxInv, NEW t \in Tx!Threads, pc[t] # "idle"
  PROVE  /\ \A u \in Tx!Threads : u # t => pc[u] = "idle"
         /\ pk[t] \in Tx!Packets
         /\ \A p : Held(p) = IF pk[t] = p /\ pc[t] \in Sending THEN 1 ELSE 0
         /\ Filling <=> pc[t] = "advance"
<1>1. \A u \in Tx!Threads : u # t => pc[u] = "idle"
  BY DEF TxInv, Alone, Tx!Threads
<1>2. pk[t] \in Tx!Packets
  BY DEF TxInv, PacketsInv
<1>3. \A p : Held(p) = IF pk[t] = p /\ pc[t] \in Sending THEN 1 ELSE 0
  BY <1>1 DEF Held, Tx!Holds, Sending
<1>4. Filling <=> pc[t] = "advance"
  BY <1>1 DEF Filling
<1>5. QED
  BY <1>1, <1>2, <1>3, <1>4

\* The same of the next state.
LEMMA OnlyThen ==
  ASSUME NEW t \in Tx!Threads, \A u \in Tx!Threads : u # t => pc'[u] = "idle"
  PROVE  /\ Alone'
         /\ \A p : Held(p)' = IF pk'[t] = p /\ pc'[t] \in Sending THEN 1 ELSE 0
         /\ Filling' <=> pc'[t] = "advance"
<1>1. Alone'
  BY DEF Alone, Tx!Threads
<1>2. \A p : Held(p)' = IF pk'[t] = p /\ pc'[t] \in Sending THEN 1 ELSE 0
  BY DEF Held, Tx!Holds, Sending
<1>3. Filling' <=> pc'[t] = "advance"
  BY DEF Filling
<1>4. QED
  BY <1>1, <1>2, <1>3

LEMMA KeptBegin ==
  ASSUME TxInv, NEW t \in Tx!Threads, NEW p \in Tx!Packets, AllIdle,
         t = "link" => p = "arp", p = "seg" => refs["seg"] = 0,
         refs' = [refs EXCEPT ![p] = @ + 1],
         pc' = [pc EXCEPT ![t] = "save"], pk' = [pk EXCEPT ![t] = p],
         txState' \in {"STARTED", "READY"},
         UNCHANGED <<own, buf, addr, cur, dma, rel, inUse, saved, busy, txSem, num, idx, tcp>>
  PROVE  TxInv'
<1>0. TxTypes
  BY DEF TxInv
<1>1. TxTypes'
  BY <1>0 DEF TxTypes, Tx!Ring, Tx!Packets, Tx!Threads
<1>2. /\ pc'[t] = "save" /\ pk'[t] = p
      /\ \A u \in Tx!Threads : u # t => pc'[u] = "idle" /\ pk'[u] = pk[u]
  BY <1>0 DEF TxTypes, AllIdle
<1>3. Alone' /\ ~Filling' /\ \A q : Held(q)' = IF q = p THEN 1 ELSE 0
  BY <1>2, OnlyThen DEF Sending
<1>4. ~Filling /\ \A q : Held(q) = 0
  BY DEF AllIdle, Filling, Held, Tx!Holds
<1>5. PacketsInv'
  BY <1>2 DEF TxInv, PacketsInv, Tx!Threads, Tx!Packets
<1>6. IndexInv'
  BY <1>2, <1>3, <1>4 DEF TxInv, IndexInv
<1>7. RefsCounted'
  <2>1. \A q \in Tx!Packets : refs[q] = InRing(addr, q)
    BY <1>4, InRingNat, RingFacts DEF TxInv, RefsCounted
  <2>2. \A q \in Tx!Packets : refs'[q] = refs[q] + (IF q = p THEN 1 ELSE 0)
    BY <1>0 DEF TxTypes
  <2>3. \A q \in Tx!Packets : refs'[q] = InRing(addr', q) + Held(q)'
    BY <1>3, <2>1, <2>2, InRingNat, RingFacts
  <2>4. QED
    BY <2>3 DEF RefsCounted, Tx!Packets
<1>8. Tx!SentWhole' /\ Tx!Window'
  BY DEF TxInv, Tx!SentWhole, Tx!Window, Tx!Ring
<1>9. Tx!SegmentStill'
  <2>1. CASE pk'["tcpip"] = "seg" /\ pc'["tcpip"] \in Sending
    <3>1. p = "seg"
      BY <1>2, <2>1 DEF Sending, Tx!Threads
    <3>2. InRing(addr, "seg") = 0
      BY <1>4, <3>1, RingFacts, InRingNat, RingFacts DEF TxInv, RefsCounted
    <3>3. \A i \in Tx!Ring : addr[i] # "seg"
      BY <3>2, InRingNone
    <3>4. QED
      BY <3>3 DEF TxInv, Tx!SentWhole, Tx!SegmentStill, Tx!Ring
  <2>2. CASE ~(pk'["tcpip"] = "seg" /\ pc'["tcpip"] \in Sending)
    BY <2>2 DEF Tx!SegmentStill, Sending
  <2>3. QED
    BY <2>1, <2>2
<1>10. QED
  BY <1>1, <1>3, <1>5, <1>6, <1>7, <1>8, <1>9 DEF TxInv

\* A step on the way to the driver that touches neither the ring nor the references.
LEMMA KeptOnTheWay ==
  ASSUME TxInv, NEW t \in Tx!Threads, pc[t] \in Sending, NEW s \in Sending,
         pc' = [pc EXCEPT ![t] = s],
         saved' \in {saved, pk[t]}, s = "prepare" => saved' = pk[t],
         busy' \in BOOLEAN, txSem' \in 0 .. 1,
         \/ num' = [num EXCEPT ![t] = inUse] /\ idx' = [idx EXCEPT ![t] = rel]
         \/ s # "release" /\ num' = num /\ idx' = idx,
         UNCHANGED <<txState, own, buf, addr, cur, dma, rel, inUse, refs, pk, tcp>>
  PROVE  TxInv'
<1>0. TxTypes
  BY DEF TxInv
<1>1. TxTypes'
  BY <1>0 DEF TxTypes, Tx!Ring, Tx!Packets, Tx!Threads, Sending
<1>2. /\ pc[t] # "idle" /\ pc[t] # "advance"
      /\ pc'[t] = s /\ pk'[t] = pk[t]
      /\ \A u \in Tx!Threads : u # t => pc'[u] = "idle" /\ pk'[u] = pk[u]
  BY <1>0, Only DEF TxTypes, Sending
<1>3. Alone' /\ ~Filling' /\ \A q : Held(q)' = IF pk[t] = q THEN 1 ELSE 0
  BY <1>2, OnlyThen DEF Sending
<1>4. ~Filling /\ \A q : Held(q) = IF pk[t] = q THEN 1 ELSE 0
  BY <1>2, Only
<1>5. PacketsInv'
  BY <1>2, Only DEF TxInv, PacketsInv, Tx!Threads, Tx!Packets
<1>6. IndexInv'
  <2>1. s = "release" => idx'[t] = rel /\ num'[t] = inUse
    BY <1>0 DEF TxTypes
  <2>2. QED
    BY <1>2, <1>3, <1>4, <2>1 DEF TxInv, IndexInv
<1>7. RefsCounted'
  BY <1>3, <1>4 DEF TxInv, RefsCounted, Tx!Packets
<1>8. Tx!SentWhole' /\ Tx!Window'
  BY DEF TxInv, Tx!SentWhole, Tx!Window, Tx!Ring
<1>9. Tx!SegmentStill'
  <2>1. pk'["tcpip"] = "seg" /\ pc'["tcpip"] \in Sending =>
          pk["tcpip"] = "seg" /\ pc["tcpip"] \in Sending
    BY <1>2 DEF Tx!Threads, Sending
  <2>2. QED
    BY <2>1 DEF TxInv, Tx!SegmentStill, Tx!Ring, Sending
<1>10. QED
  BY <1>1, <1>3, <1>5, <1>6, <1>7, <1>8, <1>9 DEF TxInv

\* A packet that was not sent is freed.
LEMMA KeptGivenBack ==
  ASSUME TxInv, NEW t \in Tx!Threads, pc[t] = "save",
         pc' = [pc EXCEPT ![t] = "idle"], pk' = [pk EXCEPT ![t] = "none"],
         refs' = [refs EXCEPT ![pk[t]] = @ - 1],
         UNCHANGED <<txState, own, buf, addr, cur, dma, rel, inUse, saved, busy, txSem,
                     num, idx, tcp>>
  PROVE  TxInv'
<1>0. TxTypes /\ pk[t] \in Tx!Packets
  BY Only DEF TxInv
<1>1. TxTypes'
  BY <1>0 DEF TxTypes, Tx!Ring, Tx!Packets, Tx!Threads
<1>2. /\ pc'[t] = "idle" /\ pk'[t] = "none"
      /\ \A u \in Tx!Threads : u # t => pc'[u] = "idle" /\ pk'[u] = pk[u]
  BY <1>0, Only DEF TxTypes
<1>3. Alone' /\ ~Filling' /\ \A q : Held(q)' = 0
  BY <1>2, OnlyThen DEF Sending
<1>4. ~Filling /\ \A q : Held(q) = IF pk[t] = q THEN 1 ELSE 0
  BY Only DEF Sending
<1>5. PacketsInv'
  BY <1>2 DEF TxInv, PacketsInv, Tx!Threads, Tx!Packets
<1>6. IndexInv'
  BY <1>2, <1>3, <1>4 DEF TxInv, IndexInv
<1>7. RefsCounted'
  <2>1. \A q \in Tx!Packets : refs'[q] = refs[q] - (IF pk[t] = q THEN 1 ELSE 0)
    BY <1>0 DEF TxTypes
  <2>2. \A q \in Tx!Packets : refs'[q] = InRing(addr', q) + Held(q)'
    BY <1>3, <1>4, <2>1, InRingNat, RingFacts DEF TxInv, RefsCounted
  <2>3. QED
    BY <2>2 DEF RefsCounted, Tx!Packets
<1>8. Tx!SentWhole' /\ Tx!Window'
  BY DEF TxInv, Tx!SentWhole, Tx!Window, Tx!Ring
<1>9. Tx!SegmentStill'
  BY <1>2 DEF Tx!SegmentStill, Tx!Threads
<1>10. QED
  BY <1>1, <1>3, <1>5, <1>6, <1>7, <1>8, <1>9 DEF TxInv

\* The descriptor to fill is the one behind the window, and free.
LEMMA KeptPrepare ==
  ASSUME TxInv, NEW t \in Tx!Threads, Tx!Prepare(t)
  PROVE  TxInv'
<1>p. /\ pc[t] = "prepare" /\ addr[cur] = "none"
      /\ own' = [own EXCEPT ![cur] = TRUE] /\ buf' = [buf EXCEPT ![cur] = pk[t]]
      /\ addr' = [addr EXCEPT ![cur] = saved] /\ inUse' = inUse + 1
      /\ pc' = [pc EXCEPT ![t] = "advance"]
      /\ tcp' = IF pk[t] = "seg" THEN "unacked" ELSE tcp
      /\ UNCHANGED <<txState, cur, dma, rel, saved, busy, txSem, refs, pk, num, idx>>
  BY DEF Tx!Prepare, Tx!Occupied
<1>q. addr[cur] = "none" /\ refs' = refs
  BY <1>p
<1>0. TxTypes /\ pk[t] \in Tx!Packets /\ saved = pk[t] /\ pk[t] # "none"
  BY <1>p, Only, RingFacts DEF TxInv, PacketsInv
<1>2. /\ pc'[t] = "advance" /\ pk'[t] = pk[t]
      /\ \A u \in Tx!Threads : u # t => pc'[u] = "idle" /\ pk'[u] = pk[u]
  BY <1>p, <1>0, Only DEF TxTypes
<1>3. Alone' /\ Filling' /\ \A q : Held(q)' = 0
  BY <1>p, <1>2, OnlyThen DEF Sending
<1>4. ~Filling /\ \A q : Held(q) = IF pk[t] = q THEN 1 ELSE 0
  BY <1>p, Only DEF Sending
<1>a. cur = (rel + inUse) % TxDescs /\ inUse < TxDescs
  <2>1. cur = (rel + inUse) % TxDescs
    BY <1>p, <1>0, <1>4, RingFacts DEF TxInv, IndexInv, TxTypes
  <2>2. CASE inUse = TxDescs
    <3>1. cur = rel /\ 0 \in Tx!Ring /\ (rel + 0) % TxDescs = rel
      BY <1>p, <2>1, <2>2, <1>0, RingFacts, Following DEF TxTypes
    <3>2. addr[rel] # "none"
      BY <1>p, <3>1, <2>2, RingFacts DEF TxInv, Tx!Window
    <3>3. QED
      BY <1>p, <3>1, <3>2
  <2>3. QED
    BY <1>p, <1>0, <2>1, <2>2, RingFacts DEF TxTypes
<1>1. TxTypes'
  <2>1. own' \in [Tx!Ring -> BOOLEAN]
    BY <1>p, <1>0 DEF TxTypes
  <2>2. buf' \in [Tx!Ring -> Tx!Packets \cup {"none"}]
    BY <1>p, <1>0 DEF TxTypes
  <2>3. addr' \in [Tx!Ring -> Tx!Packets \cup {"none"}]
    BY <1>p, <1>0 DEF TxTypes
  <2>4. inUse' \in 0 .. TxDescs
    BY <1>p, <1>0, <1>a, RingFacts DEF TxTypes
  <2>5. /\ pc' \in [Tx!Threads -> {"idle", "save", "prepare", "advance", "wait", "release"}]
        /\ tcp' \in {"idle", "queued", "unacked", "lost"}
    BY <1>p, <1>0 DEF TxTypes
  <2>6. QED
    BY <1>p, <1>0, <2>1, <2>2, <2>3, <2>4, <2>5 DEF TxTypes, Tx!Ring, Tx!Packets,
                                                    Tx!Threads
<1>5. PacketsInv'
  BY <1>p, <1>2 DEF TxInv, PacketsInv, Tx!Threads, Tx!Packets
<1>6. IndexInv'
  BY <1>p, <1>0, <1>2, <1>3, <1>a, RingFacts DEF TxInv, IndexInv, TxTypes
<1>7. RefsCounted'
  <2>1. \A q : InRing(addr', q) = InRing(addr, q) + (IF q = saved THEN 1 ELSE 0)
                                                  - (IF q = addr[cur] THEN 1 ELSE 0)
    <3>1. addr \in [Tx!Ring -> Tx!Packets \cup {"none"}] /\ cur \in Tx!Ring /\ addr[cur] # saved
          /\ Replaced(addr, addr', cur, saved)
      BY <1>p, <1>0 DEF TxTypes, Replaced
    <3>2. QED
      BY <3>1, InRingChange, SMT
  <2>2. \A q \in Tx!Packets : InRing(addr', q) = InRing(addr, q) + (IF pk[t] = q THEN 1 ELSE 0)
    BY <1>q, <1>0, <2>1, InRingNat, RingFacts
  <2>3. \A q \in Tx!Packets : refs[q] = InRing(addr, q) + (IF pk[t] = q THEN 1 ELSE 0)
    BY <1>p, <1>4 DEF TxInv, RefsCounted
  <2>4. \A q \in Tx!Packets : refs'[q] = InRing(addr', q) + Held(q)'
    BY <1>q, <1>3, <2>2, <2>3, InRingNat
  <2>5. QED
    BY <1>p, <2>4 DEF RefsCounted, Tx!Packets
<1>8. Tx!SentWhole'
  BY <1>p, <1>0 DEF TxInv, Tx!SentWhole, Tx!Ring, TxTypes
<1>9. Tx!Window'
  <2> SUFFICES ASSUME NEW k \in Tx!Ring
               PROVE  addr'[(rel + k) % TxDescs] # "none" <=> k < inUse + 1
    BY <1>p DEF Tx!Window, Tx!Ring
  <2>1. (rel + k) % TxDescs \in Tx!Ring /\ ((rel + k) % TxDescs = cur <=> k = inUse)
    <3>1. inUse \in Tx!Ring /\ rel \in Tx!Ring
      BY <1>p, <1>0, <1>a, RingFacts DEF TxTypes
    <3>2. QED
      BY <1>p, <1>a, <3>1, Following
  <2>2. addr[(rel + k) % TxDescs] # "none" <=> k < inUse
    BY <1>p DEF TxInv, Tx!Window
  <2>3. QED
    BY <1>p, <1>0, <2>1, <2>2, RingFacts DEF TxTypes
<1>10. Tx!SegmentStill'
  BY <1>p, <1>2 DEF Tx!SegmentStill, Tx!Threads
<1>11. QED
  BY <1>p, <1>1, <1>3, <1>5, <1>6, <1>7, <1>8, <1>9, <1>10 DEF TxInv

LEMMA KeptAdvance ==
  ASSUME TxInv, NEW t \in Tx!Threads, pc[t] = "advance",
         cur' = Tx!Following(cur),
         pc' = [pc EXCEPT ![t] = "idle"], pk' = [pk EXCEPT ![t] = "none"],
         UNCHANGED <<txState, own, buf, addr, rel, inUse, dma, saved, busy, txSem, refs,
                     num, idx, tcp>>
  PROVE  TxInv'
<1>0. TxTypes /\ cur' = (cur + 1) % TxDescs
  BY DEF TxInv, Tx!Following
<1>2. /\ pc'[t] = "idle" /\ pk'[t] = "none"
      /\ \A u \in Tx!Threads : u # t => pc'[u] = "idle" /\ pk'[u] = pk[u]
  BY <1>0, Only DEF TxTypes
<1>3. Alone' /\ ~Filling' /\ \A q : Held(q)' = 0
  BY <1>2, OnlyThen DEF Sending
<1>4. Filling /\ \A q : Held(q) = 0
  BY Only DEF Sending
<1>a. cur' = (rel + inUse) % TxDescs
  <2>1. inUse > 0 /\ cur = (rel + inUse - 1) % TxDescs
    BY <1>4 DEF TxInv, IndexInv
  <2>2. inUse - 1 \in Tx!Ring /\ rel + inUse - 1 = rel + (inUse - 1)
    BY <1>0, <2>1, RingFacts DEF TxTypes
  <2>3. (((rel + (inUse - 1)) % TxDescs) + 1) % TxDescs = (rel + (inUse - 1) + 1) % TxDescs
    BY <1>0, <2>2, Following DEF TxTypes
  <2>4. rel + (inUse - 1) + 1 = rel + inUse
    BY <1>0, <2>2, RingFacts DEF TxTypes
  <2>5. QED
    BY <1>0, <2>1, <2>2, <2>3, <2>4
<1>b. cur' \in Tx!Ring
  BY <1>0, RingFacts DEF TxTypes
<1>1. TxTypes'
  BY <1>0, <1>b, RingFacts DEF TxTypes, Tx!Threads
<1>5. PacketsInv'
  BY <1>2 DEF TxInv, PacketsInv, Tx!Threads, Tx!Packets
<1>6. IndexInv'
  BY <1>0, <1>2, <1>3, <1>a, RingFacts DEF TxInv, IndexInv, TxTypes
<1>7. RefsCounted'
  BY <1>3, <1>4 DEF TxInv, RefsCounted, Tx!Packets
<1>8. Tx!SentWhole' /\ Tx!Window'
  BY DEF TxInv, Tx!SentWhole, Tx!Window, Tx!Ring
<1>9. Tx!SegmentStill'
  BY <1>2 DEF Tx!SegmentStill, Tx!Threads
<1>10. QED
  BY <1>1, <1>3, <1>5, <1>6, <1>7, <1>8, <1>9 DEF TxInv

\* The packet at the head of the window is released, and the window begins behind it.
LEMMA KeptRelease ==
  ASSUME TxInv, NEW t \in Tx!Threads, Tx!Release(t)
  PROVE  TxInv'
<1>p. /\ pc[t] = "release" /\ num[t] > 0 /\ addr[idx[t]] # "none" /\ ~own[idx[t]]
      /\ refs' = [refs EXCEPT ![addr[idx[t]]] = @ - 1]
      /\ addr' = [addr EXCEPT ![idx[t]] = "none"]
      /\ inUse' = num[t] - 1 /\ rel' = Tx!Following(idx[t])
      /\ num' = [num EXCEPT ![t] = @ - 1]
      /\ idx' = [idx EXCEPT ![t] = Tx!Following(idx[t])]
      /\ UNCHANGED <<txState, own, buf, cur, dma, saved, busy, txSem, pc, pk, tcp>>
  BY DEF Tx!Release, Tx!Sent, Tx!ReleasedTo
<1>0. /\ TxTypes /\ idx[t] = rel /\ num[t] = inUse /\ rel' = (rel + 1) % TxDescs
      /\ inUse' = inUse - 1 /\ addr[rel] \in Tx!Packets
  BY <1>p DEF TxInv, IndexInv, TxTypes, Tx!Following
<1>2. \A u \in Tx!Threads : u # t => pc'[u] = "idle"
  BY <1>p, Only
<1>3. Alone' /\ ~Filling' /\ \A q : Held(q)' = Held(q)
  BY <1>p, <1>2, OnlyThen, Only DEF Sending
<1>4. ~Filling
  BY <1>p, Only
<1>a. rel' \in Tx!Ring /\ inUse > 0 /\ inUse' \in Tx!Ring
  BY <1>p, <1>0, RingFacts DEF TxTypes
<1>b. cur = (rel' + inUse') % TxDescs
  <2>1. cur = (rel + inUse) % TxDescs
    BY <1>p, <1>0, <1>4, RingFacts DEF TxInv, IndexInv, TxTypes
  <2>2. (((rel + 1) % TxDescs) + (inUse - 1)) % TxDescs = (rel + (inUse - 1) + 1) % TxDescs
    BY <1>p, <1>0, <1>a, Following DEF TxTypes
  <2>3. rel + (inUse - 1) + 1 = rel + inUse
    BY <1>p, <1>0, <1>a, RingFacts DEF TxTypes
  <2>4. QED
    BY <1>p, <1>0, <2>1, <2>2, <2>3
<1>1. TxTypes'
  <2>1. addr' \in [Tx!Ring -> Tx!Packets \cup {"none"}]
    BY <1>p, <1>0 DEF TxTypes
  <2>2. refs' \in [Tx!Packets -> Int]
    BY <1>p, <1>0 DEF TxTypes
  <2>3. inUse' \in 0 .. TxDescs
    BY <1>p, <1>0, <1>a, RingFacts DEF TxTypes
  <2>4. num' \in [Tx!Threads -> 0 .. TxDescs]
    BY <1>p, <1>0, <2>3 DEF TxTypes
  <2>5. idx' \in [Tx!Threads -> Tx!Ring]
    BY <1>p, <1>0, <1>a DEF TxTypes
  <2>6. QED
    BY <1>p, <1>0, <1>a, <2>1, <2>2, <2>3, <2>4, <2>5 DEF TxTypes, Tx!Ring, Tx!Packets,
                                                          Tx!Threads
<1>5. PacketsInv'
  BY <1>p DEF TxInv, PacketsInv, Tx!Threads, Tx!Packets
<1>6. IndexInv'
  <2>1. idx'[t] = rel' /\ num'[t] = inUse'
    BY <1>p, <1>0 DEF TxTypes
  <2>2. inUse' - 0 = inUse' /\ rel' + inUse' - 0 = rel' + inUse'
    BY <1>p, <1>a, RingFacts
  <2>3. QED
    BY <1>p, <1>2, <1>3, <1>b, <2>1, <2>2 DEF IndexInv
<1>7. RefsCounted'
  <2>1. \A q : InRing(addr', q) = InRing(addr, q) + (IF q = "none" THEN 1 ELSE 0)
                                                  - (IF q = addr[rel] THEN 1 ELSE 0)
    <3>1. /\ addr \in [Tx!Ring -> Tx!Packets \cup {"none"}] /\ rel \in Tx!Ring
          /\ addr[rel] # "none" /\ Replaced(addr, addr', rel, "none")
      BY <1>p, <1>0 DEF TxTypes, Replaced
    <3>2. QED
      BY <3>1, InRingChange, SMT
  <2>2. \A q \in Tx!Packets : refs'[q] = refs[q] - (IF q = addr[rel] THEN 1 ELSE 0)
    BY <1>p, <1>0 DEF TxTypes
  <2>3. \A q \in Tx!Packets : refs'[q] = InRing(addr', q) + Held(q)
    <3>1. \A q \in Tx!Packets : InRing(addr', q) = InRing(addr, q) - (IF q = addr[rel] THEN 1 ELSE 0)
      BY <1>0, <2>1, InRingNat, RingFacts
    <3>2. \A q \in Tx!Packets : refs[q] = InRing(addr, q) + Held(q) /\ Held(q) \in 0 .. 1
      BY <1>p DEF TxInv, RefsCounted, Held
    <3>3. QED
      BY <2>2, <3>1, <3>2, InRingNat
  <2>4. QED
    BY <1>p, <1>3, <2>3 DEF RefsCounted, Tx!Packets
<1>8. Tx!SentWhole'
  BY <1>p, <1>0 DEF TxInv, Tx!SentWhole, Tx!Ring, TxTypes
<1>9. Tx!Window'
  <2> SUFFICES ASSUME NEW k \in Tx!Ring
               PROVE  addr'[(rel' + k) % TxDescs] # "none" <=> k < inUse - 1
    BY <1>p, <1>0 DEF Tx!Window, Tx!Ring
  <2>1. (rel' + k) % TxDescs = (rel + k + 1) % TxDescs
    BY <1>p, <1>0, Following DEF TxTypes
  <2>2. CASE k + 1 < TxDescs
    <3>1. k + 1 \in Tx!Ring /\ rel + k + 1 = rel + (k + 1) /\ 0 \in Tx!Ring
      BY <1>p, <2>2, <1>0, RingFacts DEF TxTypes
    <3>2. addr[(rel + (k + 1)) % TxDescs] # "none" <=> k + 1 < inUse
      BY <1>p, <3>1 DEF TxInv, Tx!Window
    <3>3. (rel + (k + 1)) % TxDescs \in Tx!Ring /\ (rel + (k + 1)) % TxDescs # rel
      <4>1. (rel + 0) % TxDescs = rel /\ k + 1 # 0
        BY <1>p, <1>0, <3>1, Following, RingFacts DEF TxTypes
      <4>2. QED
        BY <1>p, <1>0, <3>1, <4>1, Following DEF TxTypes
    <3>4. addr'[(rel + (k + 1)) % TxDescs] = addr[(rel + (k + 1)) % TxDescs]
      BY <1>p, <1>0, <3>3 DEF TxTypes
    <3>5. k + 1 < inUse <=> k < inUse - 1
      BY <1>p, <1>0, RingFacts DEF TxTypes
    <3>6. QED
      BY <1>p, <2>1, <3>1, <3>2, <3>4, <3>5
  <2>3. CASE k + 1 = TxDescs
    <3>1. rel + k + 1 = rel + TxDescs
      BY <1>p, <2>3, <1>0, RingFacts DEF TxTypes
    <3>2. (rel + k + 1) % TxDescs = rel
      BY <1>p, <3>1, <1>0, Following DEF TxTypes
    <3>3. addr'[rel] = "none" /\ ~(k < inUse - 1)
      BY <1>p, <1>0, <2>3, RingFacts DEF TxTypes
    <3>4. QED
      BY <1>p, <2>1, <3>2, <3>3
  <2>4. QED
    BY <1>p, <2>2, <2>3, RingFacts
<1>10. Tx!SegmentStill'
  BY <1>p DEF TxInv, Tx!SegmentStill, Tx!Ring
<1>11. QED
  BY <1>p, <1>1, <1>3, <1>5, <1>6, <1>7, <1>8, <1>9, <1>10 DEF TxInv

\* The DMA gives a descriptor back, the link goes down, or TCP turns to its segment.
LEMMA KeptOutside ==
  ASSUME TxInv, NEW i \in Tx!Ring, own' \in {own, [own EXCEPT ![i] = FALSE]},
         txState' \in {"STARTED", "READY"}, dma' \in Tx!Ring, txSem' \in 0 .. 1,
         tcp' \in {"idle", "queued", "unacked", "lost"},
         UNCHANGED <<buf, addr, cur, rel, inUse, saved, busy, refs, pc, pk, num, idx>>
  PROVE  TxInv'
<1>0. TxTypes /\ own' \in [Tx!Ring -> BOOLEAN] /\ \A j \in Tx!Ring : own'[j] => own[j]
  BY DEF TxInv, TxTypes
<1>1. TxTypes'
  BY <1>0 DEF TxTypes, Tx!Ring, Tx!Packets, Tx!Threads
<1>2. Alone' /\ PacketsInv'
  BY DEF TxInv, Alone, PacketsInv, Tx!Threads, Tx!Packets
<1>3. IndexInv'
  BY DEF TxInv, IndexInv, Filling
<1>4. RefsCounted'
  BY DEF TxInv, RefsCounted, Held, Tx!Holds, Tx!Packets
<1>5. Tx!SentWhole' /\ Tx!SegmentStill'
  BY <1>0 DEF TxInv, Tx!SentWhole, Tx!SegmentStill, Tx!Ring
<1>6. Tx!Window'
  BY DEF TxInv, Tx!Window, Tx!Ring
<1>7. QED
  BY <1>1, <1>2, <1>3, <1>4, <1>5, <1>6 DEF TxInv

LEMMA KeptOutput ==
  ASSUME TxInv, NEW t \in Tx!Threads, Tx!Output(t)
  PROVE  TxInv'
<1>0. TxTypes
  BY DEF TxInv
<1>1. CASE Tx!Save(t)
  BY <1>0, <1>1, KeptOnTheWay DEF Tx!Save, Tx!ringVars, Sending, TxTypes
<1>2. CASE Tx!NotStarted(t)
  <2>1. CASE busy
    BY <1>0, <1>2, <2>1, KeptOnTheWay DEF Tx!NotStarted, Tx!ringVars, Sending, TxTypes
  <2>2. CASE ~busy
    BY <1>2, <2>2, KeptGivenBack DEF Tx!NotStarted, Tx!ringVars, Tx!GivenBack
  <2>3. QED
    BY <2>1, <2>2
<1>3. CASE Tx!Prepare(t)
  BY <1>3, KeptPrepare
<1>4. CASE Tx!PrepareFails(t)
  BY <1>0, <1>4, KeptOnTheWay DEF Tx!PrepareFails, Tx!ringVars, Sending, TxTypes
<1>5. CASE Tx!Advance(t)
  BY <1>5, KeptAdvance DEF Tx!Advance
<1>6. CASE Tx!Wait(t)
  <2>1. /\ pc[t] \in Sending /\ "release" \in Sending /\ pc' = [pc EXCEPT ![t] = "release"]
        /\ saved' \in {saved, pk[t]} /\ busy' \in BOOLEAN /\ txSem' \in 0 .. 1
        /\ num' = [num EXCEPT ![t] = inUse] /\ idx' = [idx EXCEPT ![t] = rel]
        /\ UNCHANGED <<txState, own, buf, addr, cur, dma, rel, inUse, refs, pk, tcp>>
    BY <1>0, <1>6 DEF Tx!Wait, Tx!AfterWait, Tx!ringVars, Sending, TxTypes
  <2>2. QED
    BY <2>1, KeptOnTheWay
<1>7. CASE Tx!Release(t)
  BY <1>7, KeptRelease
<1>8. CASE Tx!ReleaseEnds(t)
  BY <1>0, <1>8, KeptOnTheWay DEF Tx!ReleaseEnds, Tx!ringVars, Sending, TxTypes
<1>9. QED
  BY <1>1, <1>2, <1>3, <1>4, <1>5, <1>6, <1>7, <1>8 DEF Tx!Output

LEMMA TxInit ==
  Tx!Init => TxInv
<1> SUFFICES ASSUME Tx!Init PROVE TxInv
  OBVIOUS
<1> USE DEF Tx!Init
<1>1. TxTypes
  <2>1. 0 \in Tx!Ring /\ 0 \in 0 .. TxDescs
    BY RingFacts
  <2>2. refs \in [Tx!Packets -> Int] /\ num \in [Tx!Threads -> 0 .. TxDescs]
    BY <2>1
  <2>3. idx \in [Tx!Threads -> Tx!Ring] /\ own \in [Tx!Ring -> BOOLEAN]
    BY <2>1
  <2>4. /\ buf \in [Tx!Ring -> Tx!Packets \cup {"none"}]
        /\ addr \in [Tx!Ring -> Tx!Packets \cup {"none"}]
        /\ pk \in [Tx!Threads -> Tx!Packets \cup {"none"}]
    OBVIOUS
  <2>5. pc \in [Tx!Threads -> {"idle", "save", "prepare", "advance", "wait", "release"}]
    OBVIOUS
  <2>6. /\ txState \in {"STARTED", "READY"} /\ tcp \in {"idle", "queued", "unacked", "lost"}
        /\ cur \in Tx!Ring /\ dma \in Tx!Ring /\ rel \in Tx!Ring /\ inUse \in 0 .. TxDescs
        /\ saved \in Tx!Packets \cup {"none"} /\ txSem \in 0 .. 1
    BY <2>1
  <2>7. busy \in BOOLEAN
    BY Zenon
  <2> HIDE DEF Tx!Init
  <2>8. QED
    BY <2>2, <2>3, <2>4, <2>5, <2>6, <2>7 DEF TxTypes
<1>2. Alone /\ PacketsInv
  BY DEF Alone, PacketsInv, Tx!Threads
<1>3. ~Filling /\ IndexInv
  <2>1. ~Filling
    BY DEF Filling
  <2>2. (0 + 0 - 0) % TxDescs = 0
    BY RingFacts
  <2>3. QED
    BY <2>1, <2>2 DEF IndexInv
<1>4. RefsCounted
  <2>1. \A p \in Tx!Packets : {i \in Tx!Ring : addr[i] = p} = {}
    BY RingFacts
  <2>2. \A p \in Tx!Packets : InRing(addr, p) = 0
    BY <2>1, FS_EmptySet DEF InRing
  <2>3. \A p : Held(p) = 0
    BY DEF Held, Tx!Holds
  <2>4. QED
    BY <2>2, <2>3 DEF RefsCounted
<1>5. Tx!SentWhole /\ Tx!SegmentStill
  BY DEF Tx!SentWhole, Tx!SegmentStill, Tx!Threads
<1>6. Tx!Window
  BY RingFacts, Following DEF Tx!Window
<1>7. QED
  BY <1>1, <1>2, <1>3, <1>4, <1>5, <1>6 DEF TxInv

\* As long as no two outputs cross, whatever the link does.
LEMMA TxNext ==
  ASSUME TxInv, Tx!Next, ~crossed'
  PROVE  TxInv'
<1>0. TxTypes
  BY DEF TxInv
<1>1. \A t \in Tx!Threads, p \in Tx!Packets : Tx!Begin(t, p) => AllIdle
  <2> SUFFICES ASSUME NEW t \in Tx!Threads, NEW p \in Tx!Packets, Tx!Begin(t, p)
               PROVE  AllIdle
    OBVIOUS
  <2>1. pc[t] = "idle" /\ ~Tx!Crosses(t)
    BY Zenon DEF Tx!Begin
  <2>2. QED
    BY <2>1 DEF Tx!Crosses, AllIdle
<1>2. CASE \E p \in TxOthers : Tx!OutputOther(p)
  <2> PICK p \in TxOthers : Tx!OutputOther(p)
    BY <1>2
  <2>1. AllIdle
    BY <1>1, RingFacts DEF Tx!OutputOther, Tx!Threads
  <2>2. p \in Tx!Packets /\ p # "seg" /\ "tcpip" \in Tx!Threads
    BY RingFacts DEF Tx!Threads
  <2>3. QED
    BY <1>0, <2>1, <2>2, KeptBegin DEF Tx!OutputOther, Tx!Begin, Tx!ringVars, TxTypes
<1>3. CASE Tx!OutputSegment
  <2>1. AllIdle
    BY <1>1, <1>3, RingFacts DEF Tx!OutputSegment, Tx!Threads
  <2>2. "seg" \in Tx!Packets /\ "tcpip" \in Tx!Threads
    BY RingFacts DEF Tx!Threads
  <2>3. QED
    BY <1>0, <1>3, <2>1, <2>2, KeptBegin
       DEF Tx!OutputSegment, Tx!SegmentBusy, Tx!Begin, Tx!ringVars, TxTypes
<1>4. CASE \E t \in Tx!Threads : Tx!Output(t)
  BY <1>4, KeptOutput
<1>5. CASE Tx!Send
  <2>1. /\ dma \in Tx!Ring /\ own' \in {own, [own EXCEPT ![dma] = FALSE]}
        /\ txState' \in {"STARTED", "READY"} /\ txSem' \in 0 .. 1
        /\ UNCHANGED <<buf, addr, cur, rel, inUse, saved, busy, refs, pc, pk, num, idx>>
    BY <1>0, <1>5 DEF Tx!Send, Tx!ringVars, Tx!threadVars, TxTypes
  <2>2. dma' \in Tx!Ring
    BY <1>5, <2>1, RingFacts DEF Tx!Send, Tx!Following
  <2>3. tcp' \in {"idle", "queued", "unacked", "lost"}
    BY <1>0, <1>5 DEF Tx!Send, TxTypes
  <2>4. QED
    BY <2>1, <2>2, <2>3, KeptOutside
<1>6. CASE Tx!LinkDown
  BY <1>0, <1>6, KeptOutside DEF Tx!LinkDown, Tx!ringVars, Tx!threadVars, TxTypes
<1>7. CASE Tx!LinkUp
  <2>1. AllIdle
    BY <1>1, <1>7, RingFacts DEF Tx!LinkUp, Tx!Threads
  <2>2. "arp" \in Tx!Packets /\ "link" \in Tx!Threads
    BY RingFacts DEF Tx!Threads
  <2>3. QED
    BY <1>0, <1>7, <2>1, <2>2, KeptBegin DEF Tx!LinkUp, Tx!Begin, Tx!ringVars, TxTypes
<1>8. CASE Tx!NewSegment \/ Tx!Acknowledged \/ Tx!Retransmit
  BY <1>0, <1>8, KeptOutside
     DEF Tx!NewSegment, Tx!Acknowledged, Tx!Retransmit, Tx!ringVars, Tx!threadVars, TxTypes
<1>9. QED
  BY <1>2, <1>3, <1>4, <1>5, <1>6, <1>7, <1>8 DEF Tx!Next

\* The link thread stays out of low_level_output while the link is up.
Quiet == txState = "STARTED" /\ pc["link"] = "idle" /\ crossed = FALSE

LEMMA BusyNext ==
  ASSUME TxInv, Quiet, Busy!Next
  PROVE  Tx!Next /\ Quiet'
<1>0. TxTypes
  BY DEF TxInv
<1>1. CASE \E p \in TxOthers : Busy!OutputOther(p)
  <2> PICK p \in TxOthers : Busy!OutputOther(p)
    BY <1>1
  <2>1. Tx!OutputOther(p) /\ Quiet'
    BY <1>0 DEF Quiet, Busy!OutputOther, Busy!Begin, Busy!ringVars, Busy!Crosses,
                Busy!Threads,
                TxTypes,
                Tx!OutputOther, Tx!Begin, Tx!ringVars, Tx!Crosses, Tx!Threads
  <2>2. QED
    BY <2>1 DEF Tx!Next
<1>2. CASE Busy!OutputSegment
  <2>1. Tx!OutputSegment /\ Quiet'
    BY <1>0, <1>2
       DEF Quiet, Busy!OutputSegment, Busy!Begin, Busy!ringVars, Busy!Crosses,
                Busy!Threads, TxTypes,
           Busy!SegmentBusy, Tx!SegmentBusy,
           Tx!OutputSegment, Tx!Begin, Tx!ringVars, Tx!Crosses, Tx!Threads
  <2>2. QED
    BY <2>1 DEF Tx!Next
<1>3. CASE \E t \in Busy!Threads : Busy!Output(t)
  <2> PICK t \in Tx!Threads : Busy!Output(t)
    BY <1>3 DEF Busy!Threads, Tx!Threads
  <2> USE DEF Busy!MayRun, Tx!MayRun, Busy!ringVars, Tx!ringVars
  <2>1. Busy!Save(t) => Tx!Save(t)
    BY DEF Busy!Save, Tx!Save
  <2>2. Busy!NotStarted(t) => Tx!NotStarted(t)
    BY DEF Busy!NotStarted, Tx!NotStarted, Busy!GivenBack, Tx!GivenBack
  <2>3. Busy!Prepare(t) => Tx!Prepare(t)
    BY DEF Busy!Prepare, Tx!Prepare, Busy!Occupied, Tx!Occupied
  <2>4. Busy!PrepareFails(t) => Tx!PrepareFails(t)
    BY DEF Busy!PrepareFails, Tx!PrepareFails, Busy!Occupied, Tx!Occupied
  <2>5. Busy!Advance(t) => Tx!Advance(t)
    BY DEF Busy!Advance, Tx!Advance, Busy!Following, Tx!Following
  <2>6. Busy!Wait(t) => Tx!Wait(t)
    BY DEF Busy!Wait, Tx!Wait, Busy!AfterWait, Tx!AfterWait
  <2>7. Busy!Release(t) => Tx!Release(t)
    BY DEF Busy!Release, Tx!Release, Busy!Sent, Tx!Sent, Busy!ReleasedTo, Tx!ReleasedTo,
           Busy!Following, Tx!Following
  <2>8. Busy!ReleaseEnds(t) => Tx!ReleaseEnds(t)
    BY DEF Busy!ReleaseEnds, Tx!ReleaseEnds, Busy!Sent, Tx!Sent
  <2>0. crossed' = crossed
    BY DEF Busy!Output
  <2>9. Tx!Output(t)
    BY <2>0, <2>1, <2>2, <2>3, <2>4, <2>5, <2>6, <2>7, <2>8 DEF Busy!Output, Tx!Output
  <2>10. pc[t] # "idle"
    BY DEF Busy!Output, Busy!Save, Busy!NotStarted, Busy!Prepare, Busy!PrepareFails,
           Busy!Advance, Busy!Wait, Busy!Release, Busy!ReleaseEnds
  <2>11. t # "link" /\ txState' = txState
    BY <2>10 DEF Quiet, Busy!Output, Busy!Save, Busy!NotStarted, Busy!Prepare,
           Busy!PrepareFails, Busy!Advance, Busy!Wait, Busy!Release, Busy!ReleaseEnds
  <2>12. pc' = pc \/ \E s : pc' = [pc EXCEPT ![t] = s]
    BY DEF Busy!Output, Busy!Save, Busy!NotStarted, Busy!Prepare,
           Busy!PrepareFails, Busy!Advance, Busy!Wait, Busy!Release, Busy!ReleaseEnds
  <2>13. Quiet'
    BY <1>0, <2>0, <2>11, <2>12 DEF Quiet, TxTypes, Tx!Threads
  <2>14. QED
    BY <2>9, <2>13 DEF Tx!Next
<1>4. CASE Busy!Send
  <2>1. Tx!Send /\ Quiet'
    BY <1>4 DEF Quiet, Busy!Send, Busy!ringVars, Busy!threadVars, Busy!Following,
                Tx!Send, Tx!ringVars, Tx!threadVars, Tx!Following
  <2>2. QED
    BY <2>1 DEF Tx!Next
<1>5. ~Busy!LinkDown /\ ~Busy!LinkUp
  BY DEF Quiet, Busy!LinkDown, Busy!LinkUp
<1>6. CASE Busy!NewSegment \/ Busy!Acknowledged \/ Busy!Retransmit
  <2>1. (Tx!NewSegment \/ Tx!Acknowledged \/ Tx!Retransmit) /\ Quiet'
    BY <1>6 DEF Quiet, Busy!NewSegment, Busy!Acknowledged, Busy!Retransmit, Busy!ringVars,
                Busy!threadVars, Busy!SegmentBusy, Busy!Ring,
                Tx!NewSegment, Tx!Acknowledged, Tx!Retransmit, Tx!ringVars,
                Tx!threadVars, Tx!SegmentBusy, Tx!Ring
  <2>2. QED
    BY <2>1 DEF Tx!Next
<1>7. QED
  BY <1>1, <1>2, <1>3, <1>4, <1>5, <1>6 DEF Busy!Next

-----------------------------------------------------------------------------
(* The invariants of the run, for all its parts                               *)

\* The set theory of the instances is the one of this module.
LEMMA SameCounting ==
  ASSUME NEW S
  PROVE  Tx!Cardinality(S) = Cardinality(S)
BY DEF Tx!Cardinality, Cardinality

\* What is invariant implies what the run checks.
LEMMA TxInvSafe ==
  ASSUME TxInv, crossed \in BOOLEAN
  PROVE  Tx!TxSafe
<1>1. \A p \in Tx!Packets :
        Cardinality({t \in Tx!Threads : Tx!Holds(t, p)}) = Held(p)
  <2> SUFFICES ASSUME NEW p \in Tx!Packets
               PROVE  Cardinality({t \in Tx!Threads : Tx!Holds(t, p)}) = Held(p)
    OBVIOUS
  <2>1. CASE \E t \in Tx!Threads : Tx!Holds(t, p)
    <3> PICK t \in Tx!Threads : Tx!Holds(t, p)
      BY <2>1
    <3>1. {u \in Tx!Threads : Tx!Holds(u, p)} = {t}
      BY DEF TxInv, Alone, Tx!Threads, Tx!Holds
    <3>2. QED
      BY <2>1, <3>1, FS_Singleton DEF Held
  <2>2. CASE ~\E t \in Tx!Threads : Tx!Holds(t, p)
    <3>1. {u \in Tx!Threads : Tx!Holds(u, p)} = {}
      BY <2>2
    <3>2. QED
      BY <2>2, <3>1, FS_EmptySet DEF Held
  <2>3. QED
    BY <2>1, <2>2
<1>2. Tx!RefsExact
  <2> SUFFICES ASSUME NEW p \in Tx!Packets
               PROVE  refs[p] = Tx!Cardinality({i \in Tx!Ring : addr[i] = p})
                                + Tx!Cardinality({t \in Tx!Threads : Tx!Holds(t, p)})
    BY DEF Tx!RefsExact
  <2>1. Tx!Cardinality({i \in Tx!Ring : addr[i] = p}) = InRing(addr, p)
    BY SameCounting DEF InRing
  <2>2. Tx!Cardinality({t \in Tx!Threads : Tx!Holds(t, p)}) = Held(p)
    BY <1>1, SameCounting
  <2>3. refs[p] = InRing(addr, p) + Held(p)
    BY DEF TxInv, RefsCounted
  <2>4. QED
    BY <2>1, <2>2, <2>3
<1>3. Tx!TypeOK
  <2>1. \A p \in Tx!Packets : refs[p] \in 0 .. TxDescs + 1
    BY InRingNat, RingFacts DEF TxInv, RefsCounted, Held
  <2>2. refs \in [Tx!Packets -> 0 .. TxDescs + 1]
    BY <2>1 DEF TxInv, TxTypes
  <2>3. QED
    BY <2>2 DEF TxInv, TxTypes, Tx!TypeOK
<1>4. QED
  BY <1>2, <1>3 DEF TxInv, Tx!TxSafe

LEMMA BusySafe ==
  ASSUME Tx!TxSafe
  PROVE  Busy!TxSafe
<1> USE DEF Busy!Ring, Tx!Ring, Busy!Packets, Tx!Packets, Busy!Threads, Tx!Threads
<1>1. Busy!TypeOK
  BY DEF Tx!TxSafe, Busy!TypeOK, Tx!TypeOK
<1>2. Busy!RefsExact
  <2>1. \A S : Busy!Cardinality(S) = Tx!Cardinality(S)
    BY DEF Busy!Cardinality, Tx!Cardinality
  <2>2. \A t, p : Busy!Holds(t, p) <=> Tx!Holds(t, p)
    BY DEF Busy!Holds, Tx!Holds
  <2>3. \A p : {t \in Busy!Threads : Busy!Holds(t, p)} = {t \in Tx!Threads : Tx!Holds(t, p)}
    BY <2>2
  <2>4. QED
    BY <2>1, <2>3 DEF Tx!TxSafe, Busy!RefsExact, Tx!RefsExact
<1>3. Busy!SentWhole /\ Busy!Window /\ Busy!SegmentStill
  BY DEF Tx!TxSafe, Busy!SentWhole, Tx!SentWhole, Busy!Window, Tx!Window,
         Busy!SegmentStill, Tx!SegmentStill
<1>4. QED
  BY <1>1, <1>2, <1>3 DEF Busy!TxSafe

\* What holds of every part of the run.
SuiteInv ==
  /\ part \in {"rx", "steadyRx", "tx", "steadyTx"}
  /\ BuffersInv /\ crossed \in BOOLEAN /\ (~crossed => TxInv)
  /\ part = "steadyRx" => SupplyInv
  /\ part = "steadyTx" => Quiet

LEMMA SuiteInvInit == SuiteInit => SuiteInv
<1> SUFFICES ASSUME SuiteInit PROVE SuiteInv
  OBVIOUS
<1>1. SupplyInv /\ BuffersInv
  BY SupplyInit DEF SuiteInit, SupplyInv
<1>2. Tx!Init /\ Quiet
  BY DEF SuiteInit, Tx!Init, Busy!Init, Tx!Ring, Busy!Ring, Tx!Packets, Busy!Packets,
         Tx!Threads, Busy!Threads, Quiet
<1>3. crossed \in BOOLEAN
  BY <1>2 DEF Quiet
<1>4. part \in {"rx", "steadyRx", "tx", "steadyTx"}
  BY DEF SuiteInit
<1>5. QED
  BY <1>1, <1>2, <1>3, <1>4, TxInit, Zenon DEF SuiteInv

\* A link that stays up is one of those that may change.
LEMMA UpNext == Up!Next => Next /\ ~LinkDown
<1> SUFFICES ASSUME Up!Next PROVE Next /\ ~LinkDown
  OBVIOUS
<1> USE DEF Up!dmaVars, dmaVars, Up!OthersRun, OthersRun, Up!BuildOne, BuildOne,
            Up!Exhausted, Exhausted, Up!Built, Built, Up!AfterBuild, AfterBuild,
            Up!Signalled, Signalled
<1>1. CASE Up!FrameArrives \/ Up!FrameLost
  <2>1. FrameArrives \/ FrameLost
    BY <1>1 DEF Up!FrameArrives, FrameArrives, Up!FrameLost, FrameLost
  <2>2. state' = state
    BY <2>1 DEF FrameArrives, FrameLost
  <2>3. QED
    BY <2>1, <2>2 DEF Next, LinkDown
<1>2. CASE Up!EthIf
  <2>1. EthIf
    <3>1. Up!Acquire \/ Up!ReadNot \/ Up!Read => Acquire \/ ReadNot \/ Read
      BY DEF Up!Acquire, Acquire, Up!ReadNot, ReadNot, Up!Read, Read, Up!Readable,
             Readable,
             Up!Taken, Taken
    <3>2. Up!Build \/ Up!BuildFails => Build \/ BuildFails
      BY DEF Up!Build, Build, Up!BuildFails, BuildFails
    <3>3. Up!NoteFailure \/ Up!BuildEnds => NoteFailure \/ BuildEnds
      BY DEF Up!NoteFailure, NoteFailure, Up!BuildEnds, BuildEnds
    <3>4. Up!Input \/ Up!InputRefused => Input \/ InputRefused
      BY DEF Up!Input, Input, Up!InputRefused, InputRefused
    <3>5. QED
      BY <1>2, <3>1, <3>2, <3>3, <3>4 DEF Up!EthIf, EthIf
  <2>2. state' = state
    BY <2>1 DEF EthIf, Acquire, ReadNot, Read, Build, BuildFails, NoteFailure, BuildEnds,
                Input, InputRefused
  <2>3. QED
    BY <2>1, <2>2 DEF Next, LinkDown
<1>3. CASE \E f \in Freers : Up!Freeing(f)
  <2> PICK f \in Freers : Up!Freeing(f)
    BY <1>3
  <2>1. Freeing(f)
    BY DEF Up!Freeing, Freeing, Up!Free, Free, Up!Check, Check, Up!Signal, Signal,
           Up!Released, Released
  <2>2. state' = state
    BY <2>1 DEF Freeing, Free, Check, Signal
  <2>3. QED
    BY <2>1, <2>2 DEF Next, LinkDown
<1>4. CASE Up!Link
  <2>1. ~Up!LinkDown
    BY DEF Up!LinkDown
  <2>2. LinkUp \/ LinkBuild \/ LinkBuildFails \/ LinkNoteFailure \/ LinkBuildEnds
    BY <1>4, <2>1 DEF Up!Link, Up!LinkUp, LinkUp, Up!LinkBuild, LinkBuild,
       Up!LinkBuildFails, LinkBuildFails, Up!LinkNoteFailure, LinkNoteFailure,
       Up!LinkBuildEnds, LinkBuildEnds, Up!Reused, Reused
  <2>3. ~LinkDown
    BY <2>2 DEF LinkDown, LinkUp, LinkBuild, LinkBuildFails, LinkNoteFailure,
                LinkBuildEnds
  <2>4. QED
    BY <2>2, <2>3 DEF Next, Link
<1>5. QED
  BY <1>1, <1>2, <1>3, <1>4 DEF Up!Next

\* Transmission stays where it is.
LEMMA TxSame ==
  ASSUME TxInv, UNCHANGED txVars
  PROVE  TxInv' /\ (Quiet => Quiet')
<1>0. /\ txState' = txState /\ own' = own /\ buf' = buf /\ addr' = addr /\ cur' = cur
      /\ dma' = dma /\ rel' = rel /\ inUse' = inUse /\ saved' = saved /\ busy' = busy
      /\ txSem' = txSem /\ refs' = refs /\ pc' = pc /\ pk' = pk /\ num' = num
      /\ idx' = idx /\ tcp' = tcp /\ crossed' = crossed
  BY DEF txVars
<1>1. TxTypes' /\ Alone' /\ PacketsInv'
  BY <1>0 DEF TxInv, TxTypes, Alone, PacketsInv, Tx!Ring, Tx!Packets, Tx!Threads
<1>2. IndexInv' /\ RefsCounted'
  BY <1>0 DEF TxInv, IndexInv, Filling, RefsCounted, Held, Tx!Holds, Tx!Packets
<1>3. Tx!SentWhole' /\ Tx!Window' /\ Tx!SegmentStill'
  BY <1>0 DEF TxInv, Tx!SentWhole, Tx!Window, Tx!SegmentStill, Tx!Ring
<1>4. Quiet => Quiet'
  BY <1>0 DEF Quiet
<1>5. QED
  BY <1>1, <1>2, <1>3, <1>4 DEF TxInv

\* The history of crossings is a Boolean.
LEMMA CrossedType ==
  ASSUME crossed \in BOOLEAN, Tx!Next
  PROVE  crossed' \in BOOLEAN
<1>1. CASE \E t \in Tx!Threads, p \in Tx!Packets : Tx!Begin(t, p)
  BY <1>1, Zenon DEF Tx!Begin
<1>2. CASE \E t \in Tx!Threads : Tx!Output(t)
  BY <1>2, Zenon DEF Tx!Output
<1>3. CASE Tx!Send \/ Tx!LinkDown \/ Tx!NewSegment \/ Tx!Acknowledged \/ Tx!Retransmit
  <2>1. crossed' = crossed
    BY <1>3 DEF Tx!Send, Tx!LinkDown, Tx!NewSegment, Tx!Acknowledged, Tx!Retransmit,
                Tx!threadVars
  <2>2. QED
    BY <2>1
<1>4. Tx!Next => \/ \E t \in Tx!Threads, p \in Tx!Packets : Tx!Begin(t, p)
                 \/ \E t \in Tx!Threads : Tx!Output(t)
                 \/ Tx!Send \/ Tx!LinkDown \/ Tx!NewSegment \/ Tx!Acknowledged
                 \/ Tx!Retransmit
  BY Zenon DEF Tx!Next, Tx!OutputOther, Tx!OutputSegment, Tx!LinkUp, Tx!Threads, Tx!Packets
<1>5. QED
  BY <1>1, <1>2, <1>3, <1>4

\* So does reception.
LEMMA RxSame ==
  ASSUME BuffersInv, UNCHANGED vars
  PROVE  BuffersInv' /\ (SupplyInv => SupplyInv')
<1>1. BuffersInv'
  BY BuffersNext
<1>2. ASSUME SupplyInv PROVE SupplyInv'
  <2>1. ~LinkDown
    BY <1>2 DEF LinkDown, vars, SupplyInv, SteadyInv
  <2>2. QED
    BY <1>2, <2>1, SupplyNext
<1>3. QED
  BY <1>1, <1>2

LEMMA SuiteInvNext ==
  ASSUME SuiteInv, [SuiteNext]_allVars
  PROVE  SuiteInv'
<1>0. BuffersInv /\ part \in {"rx", "steadyRx", "tx", "steadyTx"}
  BY DEF SuiteInv
<1>1. crossed \in BOOLEAN /\ (~crossed => TxInv)
  BY Zenon DEF SuiteInv
<1>2. CASE RxPart \/ SteadyRxPart \/ UNCHANGED allVars \/ Crossing
  <2>1. UNCHANGED <<txVars, part>>
    BY <1>2 DEF RxPart, SteadyRxPart, Crossing, allVars
  <2>2. crossed' = crossed
    BY <2>1 DEF txVars
  <2>3. crossed' \in BOOLEAN /\ (~crossed' => TxInv')
    <3>1. TxInv => TxInv'
      BY <2>1, TxSame
    <3>2. QED
      BY <1>1, <2>2, <3>1, Zenon
  <2>4. part = "steadyTx" => Quiet /\ Quiet'
    <3>1. Quiet => Quiet'
      BY <2>1 DEF Quiet, txVars
    <3>2. QED
      BY <3>1 DEF SuiteInv
  <2>5. BuffersInv' /\ (part = "steadyRx" => SupplyInv')
    <3>1. CASE RxPart
      BY <1>0, <3>1, BuffersNext DEF RxPart
    <3>2. CASE SteadyRxPart
      BY <1>0, <3>2, UpNext, BuffersNext, SupplyNext DEF SuiteInv, SteadyRxPart
    <3>3. CASE UNCHANGED allVars \/ Crossing
      <4>1. UNCHANGED vars
        BY <3>3 DEF Crossing, allVars
      <4>2. QED
        BY <1>0, <4>1, RxSame DEF SuiteInv
    <3>4. QED
      BY <1>2, <3>1, <3>2, <3>3
  <2>6. QED
    BY <1>0, <2>1, <2>3, <2>4, <2>5, Zenon DEF SuiteInv
<1>3. CASE TxPart
  <2>1. TxInv /\ Tx!Next /\ part = "tx" /\ UNCHANGED <<vars, part>>
    BY <1>1, <1>3, Zenon DEF TxPart
  <2>2. ~crossed' => TxInv'
    BY <2>1, TxNext, Zenon
  <2>3. crossed' \in BOOLEAN
    BY <1>1, <2>1, CrossedType
  <2>4. BuffersInv'
    BY <1>0, <2>1, RxSame
  <2>5. part' = "tx"
    BY <2>1
  <2>6. part' # "steadyRx" /\ part' # "steadyTx"
    BY <2>5
  <2>7. QED
    BY <2>2, <2>3, <2>4, <2>5, <2>6, Zenon DEF SuiteInv
<1>4. CASE SteadyTxPart
  <2>1. Busy!Next /\ part = "steadyTx" /\ UNCHANGED <<vars, part>> /\ Quiet
    BY <1>4 DEF SteadyTxPart, SuiteInv
  <2>2. ~crossed
    BY <2>1 DEF Quiet
  <2>3. TxInv
    BY <1>1, <2>2, Zenon
  <2>4. Tx!Next /\ Quiet'
    BY <2>1, <2>3, BusyNext
  <2>5. crossed' = FALSE
    BY <2>4 DEF Quiet
  <2>6. crossed' \in BOOLEAN /\ ~crossed'
    BY <2>5
  <2>7. TxInv'
    BY <2>3, <2>4, <2>6, TxNext
  <2>8. BuffersInv'
    BY <1>0, <2>1, RxSame
  <2>9. part' = "steadyTx"
    BY <2>1
  <2>10. part' # "steadyRx"
    BY <2>9
  <2>11. QED
    BY <2>4, <2>6, <2>7, <2>8, <2>9, <2>10, Zenon DEF SuiteInv
<1>5. QED
  BY <1>2, <1>3, <1>4 DEF SuiteNext

LEMMA SuiteInvariant == SuiteSpec => []SuiteInv
  BY SuiteInvInit, SuiteInvNext, PTL DEF SuiteSpec

\* References of the driver to packets are exact (no packet is freed twice or kept), the
\* DMA sends nothing that was freed, the release walks over a window without a gap, and
\* TCP does not write into a segment of the ring (low_level_output, HAL_ETH_Transmit_IT,
\* HAL_ETH_ReleaseTxPacket), for every size of the ring and every set of packets: with a
\* link that stays up at every time, with a link that flaps up to the first moment at which
\* ethernet_link_thread, which sends its ARP packet without the core lock, and another
\* thread are in low_level_output at once.  Nothing is said of what follows.
THEOREM TxKept == SuiteSpec => []TxSafe
<1>1. SuiteInv => TxSafe
  <2> SUFFICES ASSUME SuiteInv PROVE TxSafe
    OBVIOUS
  <2>1. crossed \in BOOLEAN /\ (~crossed => TxInv)
    BY Zenon DEF SuiteInv
  <2>2. ~crossed => Tx!TxSafe
    BY <2>1, TxInvSafe, Zenon
  <2>3. part = "steadyTx" => ~crossed
    BY DEF SuiteInv, Quiet
  <2>4. part = "steadyTx" => Busy!TxSafe
    BY <2>2, <2>3, BusySafe, Zenon
  <2>5. QED
    BY <2>2, <2>4, Zenon DEF TxSafe
<1>2. QED
  BY <1>1, SuiteInvariant, PTL

\* With a link that stays up the receiver is never left without buffers by everybody.
THEOREM SteadySuppliedAlways == SuiteSpec => []SteadySupplied
<1>1. SuiteInv => SteadySupplied
  BY DEF SuiteInv, SupplyInv, SteadyInv, Supplied, SteadySupplied
<1>2. QED
  BY <1>1, SuiteInvariant, PTL
=============================================================================
