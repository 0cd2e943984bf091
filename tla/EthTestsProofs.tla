----------------------------- MODULE EthTestsProofs -----------------------------
(***************************************************************************)
(* Proofs about the performance tests of the Ethernet task, for any number *)
(* and size of buffers, batch, queue and pool.  TcpInv is the invariant of *)
(* the test with two tasks: it counts how often a buffer is in each queue, *)
(* and a buffer that a dead sender holds is counted as well, so that every *)
(* step of a session keeps the sum at one.  OneInv is that of the tests    *)
(* with one task.  The last sections prove that the two tasks implement    *)
(* Loopback: the bytes of the queue are the pieces of its buffers put      *)
(* together, up to an end mark, and every step moves bytes between the     *)
(* parts of the backlog, reads, echoes or abandons some.                   *)
(***************************************************************************)
EXTENDS MCEthTests, NumberInduction, FiniteSetTheorems, SequenceTheorems, TLAPS

-----------------------------------------------------------------------------
(* How often a value is in a queue                                       *)

\* How often a pointer is in a queue.
Count(s, b) == Cardinality({i \in DOMAIN s : s[i] = b})

\* A count is a number, at most the length of the queue.
LEMMA CountNat ==
  ASSUME NEW S, NEW s \in Seq(S), NEW b
  PROVE  /\ IsFiniteSet({i \in DOMAIN s : s[i] = b}) /\ Count(s, b) \in Nat
         /\ Count(s, b) <= Len(s)
<1> DEFINE I == {i \in DOMAIN s : s[i] = b}
<1>1. DOMAIN s = 1 .. Len(s) /\ Len(s) \in Nat
  BY LenProperties
<1>2. IsFiniteSet(1 .. Len(s)) /\ Cardinality(1 .. Len(s)) = Len(s)
  BY <1>1, FS_Interval
<1>3. I \subseteq 1 .. Len(s)
  BY <1>1
<1>4. IsFiniteSet(I) /\ Cardinality(I) <= Len(s)
  BY <1>2, <1>3, FS_Subset
<1>5. Cardinality(I) \in Nat
  BY <1>4, FS_CardinalityType
<1>6. QED
  BY <1>4, <1>5 DEF Count

\* Nothing is counted of what is not in the queue.
LEMMA CountNone ==
  ASSUME NEW S, NEW s \in Seq(S), NEW b
  PROVE  Count(s, b) = 0 <=> \A i \in DOMAIN s : s[i] # b
<1> DEFINE I == {i \in DOMAIN s : s[i] = b}
<1>1. IsFiniteSet(I)
  BY CountNat
<1>2. Cardinality(I) = 0 <=> I = {}
  BY <1>1, FS_EmptySet
<1>3. QED
  BY <1>2 DEF Count

\* An empty queue holds nothing.
LEMMA CountEmpty == \A b : Count(<<>>, b) = 0
<1>1. \A b : {i \in DOMAIN <<>> : <<>>[i] = b} = {}
  OBVIOUS
<1>2. QED
  BY <1>1, FS_EmptySet DEF Count

\* A put adds one to the count of what is put.
LEMMA CountAppend ==
  ASSUME NEW S, NEW s \in Seq(S), NEW x \in S, NEW b
  PROVE  Count(Append(s, x), b) = Count(s, b) + (IF x = b THEN 1 ELSE 0)
<1> DEFINE I == {i \in DOMAIN s : s[i] = b}
           J == {i \in DOMAIN Append(s, x) : Append(s, x)[i] = b}
           n == Len(s)
<1>1. /\ n \in Nat /\ DOMAIN s = 1 .. n /\ DOMAIN Append(s, x) = 1 .. n + 1
      /\ \A i \in 1 .. n : Append(s, x)[i] = s[i]
      /\ Append(s, x)[n + 1] = x
  BY AppendProperties, LenProperties
<1>2. IsFiniteSet(I) /\ Cardinality(I) \in Nat
  BY CountNat, FS_CardinalityType
<1>3. Count(s, b) = Cardinality(I) /\ Count(Append(s, x), b) = Cardinality(J)
  BY DEF Count
<1> HIDE DEF I, J
<1>4. CASE x = b
  <2>1. J = I \cup {n + 1} /\ n + 1 \notin I
    BY <1>1, <1>4 DEF I, J
  <2>2. Cardinality(J) = Cardinality(I) + 1
    BY <1>2, <2>1, FS_AddElement
  <2>3. QED
    BY <1>2, <1>3, <1>4, <2>2
<1>5. CASE x # b
  <2>1. J = I
    BY <1>1, <1>5 DEF I, J
  <2>2. QED
    BY <1>3, <1>5, <2>1, <1>2
<1>6. QED
  BY <1>4, <1>5

\* A get takes one of the count of what is at the head.
LEMMA CountTail ==
  ASSUME NEW S, NEW s \in Seq(S), s # <<>>, NEW b
  PROVE  Count(s, b) = Count(Tail(s), b) + (IF Head(s) = b THEN 1 ELSE 0)
<1> DEFINE I == {i \in DOMAIN s : s[i] = b}
           J == {i \in DOMAIN Tail(s) : Tail(s)[i] = b}
           K == I \ {1}
           n == Len(s)
           f == [i \in J |-> i + 1]
<1>1. /\ n \in Nat /\ n > 0 /\ DOMAIN s = 1 .. n /\ DOMAIN Tail(s) = 1 .. n - 1
      /\ \A i \in 1 .. n - 1 : Tail(s)[i] = s[i + 1]
      /\ Head(s) = s[1]
  BY HeadTailProperties, LenProperties, EmptySeq
<1>2. IsFiniteSet(I) /\ Cardinality(I) \in Nat
  BY CountNat, FS_CardinalityType
<1>3. IsFiniteSet(J)
  <2>1. Tail(s) \in Seq(S)
    BY HeadTailProperties
  <2>2. QED
    BY <2>1, CountNat
<1>4. f \in Bijection(J, K)
  <2>1. \A i \in J : i + 1 \in K
    BY <1>1
  <2>2. \A k \in K : k - 1 \in J /\ (k - 1) + 1 = k
    BY <1>1
  <2>3. \A i \in J : i \in Int
    BY <1>1
  <2> HIDE DEF J, K
  <2>4. f \in [J -> K]
    BY <2>1
  <2>5. IsInjective(f)
    BY <2>3 DEF IsInjective
  <2>6. \A k \in K : \E i \in J : f[i] = k
    BY <2>2
  <2>7. QED
    BY <2>4, <2>5, <2>6 DEF Bijection, Injection, Surjection
<1>5. Cardinality(J) = Cardinality(K)
  BY <1>3, <1>4, FS_Bijection DEF ExistsBijection
<1>6. Cardinality(K) = IF 1 \in I THEN Cardinality(I) - 1 ELSE Cardinality(I)
  BY <1>2, FS_RemoveElement
<1>7. 1 \in I <=> Head(s) = b
  BY <1>1
<1>8. Count(s, b) = Cardinality(I) /\ Count(Tail(s), b) = Cardinality(J)
  BY DEF Count
<1> HIDE DEF I, J, K
<1>9. QED
  BY <1>2, <1>5, <1>6, <1>7, <1>8

\* A queue in which every pointer is once at most is no longer than there are pointers.
LEMMA CountOnce ==
  ASSUME NEW S, IsFiniteSet(S), NEW s \in Seq(S), \A b \in S : Count(s, b) <= 1
  PROVE  Len(s) <= Cardinality(S)
<1>1. DOMAIN s = 1 .. Len(s) /\ Len(s) \in Nat /\ s \in [1 .. Len(s) -> S]
  BY LenProperties
<1>2. ASSUME NEW i \in DOMAIN s, NEW j \in DOMAIN s, s[i] = s[j], i # j
      PROVE  FALSE
  <2> DEFINE b == s[i]
             I == {k \in DOMAIN s : s[k] = b}
  <2>1. b \in S /\ IsFiniteSet(I)
    BY <1>1, CountNat
  <2>2. {i} \cup {j} \subseteq I
    BY <1>2
  <2>3. IsFiniteSet({i}) /\ Cardinality({i}) = 1
    BY FS_Singleton
  <2>4. Cardinality({i} \cup {j}) = 2
    <3>1. j \notin {i}
      BY <1>2
    <3>2. Cardinality({i} \cup {j}) = Cardinality({i}) + 1
      BY <2>3, <3>1, FS_AddElement, Zenon
    <3>3. Cardinality({i} \cup {j}) = 1 + 1
      BY <2>3, <3>2, Zenon
    <3>4. 1 + 1 = 2
      OBVIOUS
    <3>5. QED
      BY <3>3, <3>4, Zenon
  <2>5. Cardinality({i} \cup {j}) <= Cardinality(I)
    BY <2>1, <2>2, FS_Subset
  <2>6. Cardinality(I) <= 1
    BY <2>1 DEF Count
  <2>7. Cardinality(I) \in Nat
    BY <2>1, FS_CardinalityType
  <2>8. 2 <= Cardinality(I)
    BY <2>4, <2>5, Zenon
  <2> HIDE DEF I
  <2>9. QED
    BY <2>6, <2>7, <2>8
<1>3. s \in Injection(1 .. Len(s), S)
  BY <1>1, <1>2 DEF Injection, IsInjective
<1>4. Cardinality(1 .. Len(s)) = Len(s)
  BY <1>1, FS_Interval
<1>5. Cardinality(1 .. Len(s)) <= Cardinality(S)
  BY <1>3, FS_Injection
<1>6. QED
  BY <1>4, <1>5

\* In an order of all elements each one is once.
LEMMA CountOrder ==
  ASSUME NEW S, IsFiniteSet(S), NEW q \in SetToSeqs(S), NEW b \in S
  PROVE  q \in Seq(S) /\ Count(q, b) = 1
<1> DEFINE D == 1 .. Cardinality(S)
<1>1. Cardinality(S) \in Nat
  BY FS_CardinalityType
<1>2. q \in [D -> S] /\ \A i, j \in D : i # j => q[i] # q[j]
  BY DEF SetToSeqs
<1>3. q \in Seq(S)
  BY <1>1, <1>2, SeqDef
<1>4. IsFiniteSet(D) /\ Cardinality(D) = Cardinality(S)
  BY <1>1, FS_Interval
<1>5. q \in Injection(D, S)
  BY <1>2 DEF Injection, IsInjective
<1>6. q \in Surjection(D, S)
  BY <1>4, <1>5, FS_Injection
<1>7. PICK i \in D : q[i] = b
  BY <1>6 DEF Surjection
<1>8. {k \in DOMAIN q : q[k] = b} = {i}
  BY <1>2, <1>7
<1>9. Count(q, b) = 1
  BY <1>8, FS_Singleton DEF Count
<1>10. QED
  BY <1>3, <1>9

-----------------------------------------------------------------------------
(* The invariant of tcp_loopback_multitask.c                             *)

\* The batch of the part at hand.
Limit == IF part = "steady" THEN 1 ELSE Batch

Shapes ==
  /\ free \in Seq(Buffers) /\ chan \in Seq(Pointers)
  /\ data \in [Buffers -> Seq(Bytes)]
  /\ \A b \in Buffers : Len(data[b]) <= Size
  /\ type \in [Pointers -> {"DATA", "CLOSED"}]
  /\ rxPc \in {"idle", "connect", "check", "get", "read", "destroy", "wait", "assert", "fault"}
  /\ rxBuf \in Pointers /\ count \in 0 .. Limit
  /\ rxPc \in {"get", "read"} => count < Limit
  /\ txPc \in {"none", "get", "write", "exited"}
  /\ txBuf \in Pointers /\ sent \in 0 .. Size
  /\ conn \in {"closed", "none", "up", "fin", "reset"}
  /\ input \in Bytes /\ echoed \in Bytes \cup {-1}

\* What is written or read belongs to a buffer; only an end mark is not one.
Owners ==
  /\ txPc = "write" => txBuf \in Buffers
  /\ rxPc = "read" => rxBuf \in Buffers
  /\ type[Wild] = "CLOSED" \/ chan \in Seq(Buffers)

\* In how many places a buffer is, in the hands of a sender that died as well.
Has(b) ==
  Count(free, b) + Count(chan, b)
  + (IF rxPc = "read" /\ rxBuf = b THEN 1 ELSE 0)
  + (IF txPc \in {"write", "exited"} /\ txBuf = b THEN 1 ELSE 0)

\* During a session there is no end mark, every buffer is in one place, and a sender that
\* is gone died of a failed write.  Before the session all buffers are free.
Session ==
  /\ InSession =>
       /\ txPc # "none" /\ chan \in Seq(Buffers)
       /\ \A b \in Pointers : type[b] = "DATA"
       /\ \A b \in Buffers : Has(b) = 1
       /\ txPc = "exited" => txBuf \in Buffers
  /\ rxPc = "connect" =>
       /\ chan = <<>> /\ \A b \in Pointers : type[b] = "DATA"
       /\ \A b \in Buffers : Count(free, b) = 1

\* The sender ends before the flag is set, and the flag is taken before the end.
Ends ==
  /\ flag \in BOOLEAN /\ stop \in BOOLEAN
  /\ flag => txPc = "exited"
  /\ rxPc \in {"idle", "connect", "assert"} => txPc \in {"none", "exited"} /\ ~flag

TcpInv ==
  Shapes /\ Owners /\ Session /\ Ends /\ Len(chan) <= Cardinality(Buffers)

\* The assumptions on the constants, in the form the provers use.
LEMMA SizeFacts ==
  /\ IsFiniteSet(Buffers) /\ Buffers # {} /\ Wild \notin Buffers
  /\ Size \in Nat /\ Size > 0 /\ Batch \in Nat /\ Batch > 0
  /\ Cardinality(Buffers) \in Nat /\ Cardinality(Buffers) > 0
  /\ Numbers \in Nat /\ Numbers > 0
  /\ Limit \in Nat /\ Limit > 0
<1>1. /\ IsFiniteSet(Buffers) /\ Buffers # {} /\ Wild \notin Buffers
      /\ Size \in Nat \ {0} /\ Batch \in Nat \ {0}
      /\ Numbers \in Nat /\ Numbers > Size * (Cardinality(Buffers) + 1)
  BY SuiteAssumption DEF SuiteAssumption, SizeAssumption
<1>2. Cardinality(Buffers) \in Nat /\ Cardinality(Buffers) # 0
  BY <1>1, FS_CardinalityType, FS_EmptySet
<1>3. Size * (Cardinality(Buffers) + 1) >= 0
  BY <1>1, <1>2
<1>4. QED
  BY <1>1, <1>2, <1>3 DEF Limit

\* The invariant holds before the first session.
LEMMA TcpInit == Init => TcpInv
<1> SUFFICES ASSUME Init PROVE TcpInv
  OBVIOUS
<1> USE SizeFacts
<1>1. /\ free = <<>> /\ chan = <<>> /\ data = [b \in Buffers |-> <<>>]
      /\ type = [b \in Pointers |-> "DATA"] /\ rxPc = "idle" /\ rxBuf = Wild /\ count = 0
      /\ txPc = "none" /\ txBuf = Wild /\ sent = 0 /\ conn = "closed" /\ input = 0
      /\ echoed = -1
  BY DEF Init
<1>2. \A S : <<>> \in Seq(S) /\ Len(<<>>) = 0
  OBVIOUS
<1>3. Shapes
  BY <1>1, <1>2 DEF Shapes, Pointers, Bytes
<1>4. Owners
  BY <1>1, <1>2 DEF Owners
<1>5. Session
  BY <1>1 DEF Session, InSession
<1>6. Ends
  BY <1>1, Zenon DEF Ends, Init
<1>7. QED
  BY <1>1, <1>2, <1>3, <1>4, <1>5, <1>6 DEF TcpInv

\* A queue of a session without one of the buffers has a place for it.
LEMMA Room1 ==
  ASSUME TcpInv, InSession, NEW x \in Buffers, Count(chan, x) = 0
  PROVE  Len(chan) + 1 <= Cardinality(Buffers)
<1> DEFINE S == Buffers \ {x}
<1>1. IsFiniteSet(S) /\ Cardinality(S) = Cardinality(Buffers) - 1
  BY SizeFacts, FS_RemoveElement
<1>2. chan \in Seq(Buffers)
  BY DEF TcpInv, Session
<1>3. chan \in Seq(S)
  <2>1. \A i \in DOMAIN chan : chan[i] # x
    BY <1>2, CountNone
  <2>2. /\ Len(chan) \in Nat /\ DOMAIN chan = 1 .. Len(chan)
        /\ \A i \in 1 .. Len(chan) : chan[i] \in Buffers
    BY <1>2, LenProperties
  <2>3. chan \in [1 .. Len(chan) -> S]
    BY <1>2, <2>1, <2>2
  <2>4. QED
    BY <2>2, <2>3, SeqDef
<1>4. \A b \in S : Count(chan, b) <= 1
  <2>1. \A b \in Buffers : Count(chan, b) \in Nat /\ Count(free, b) \in Nat
    BY <1>2, CountNat DEF TcpInv, Shapes
  <2>2. \A b \in Buffers : Has(b) = 1
    BY DEF TcpInv, Session
  <2>3. QED
    BY <2>1, <2>2 DEF Has
<1>5. Len(chan) <= Cardinality(S)
  BY <1>1, <1>3, <1>4, CountOnce
<1>6. Len(chan) \in Nat
  BY <1>2
<1> HIDE DEF S
<1>7. QED
  BY <1>1, <1>5, <1>6, SizeFacts

-----------------------------------------------------------------------------
(* Its steps                                                             *)

\* A read, in batches of the part at hand.
ReadSome ==
  /\ rxPc = "read" /\ conn \notin {"closed", "none"}
  /\ \E k \in 1 .. Room(rxBuf) :
       /\ data' = [data EXCEPT ![rxBuf] = Filled(rxBuf, k)]
       /\ input' = (input + k) % Numbers
  /\ \/ UNCHANGED <<chan, type, rxPc, count>>
     \/ /\ type' = [type EXCEPT ![rxBuf] = "DATA"] /\ chan' = Append(chan, rxBuf)
        /\ count' = count + 1 /\ rxPc' = IF count + 1 = Limit THEN "check" ELSE "get"
  /\ UNCHANGED <<free, rxBuf, txVars, envVars, conn, echoed>>

TcpStep ==
  \/ SetUp \/ Connect \/ IgnoreStop \/ CheckStop \/ GetFree \/ ReadSome \/ ReadFails
  \/ CloseSocket \/ TearDown \/ TxStep \/ StopCommand \/ ServerEnds

\* The steps of both parts, with and without resets, are steps of TcpStep.
LEMMA Steps ==
  /\ part # "steady" /\ Next => TcpStep
  /\ part = "steady" /\ Steady!Next => TcpStep
<1>1. part # "steady" /\ ReadData => ReadSome
  BY DEF ReadData, ReadSome, Limit
<1>2. part = "steady" /\ Steady!ReadData => ReadSome
  BY DEF Steady!ReadData, ReadSome, Limit, Steady!RxRuns, Steady!Room, Room,
     Steady!Filled, Filled, Steady!txVars, txVars, Steady!envVars, envVars
<1>3. Steady!SetUp => SetUp
  BY DEF Steady!SetUp, SetUp, Steady!SetToSeqs, SetToSeqs, Steady!Pointers, Pointers,
     Steady!txVars, txVars, Steady!envVars, envVars, Steady!netVars, netVars,
     Steady!Cardinality, Cardinality
<1>8. Steady!Connect => Connect
  BY DEF Steady!Connect, Connect, Steady!queueVars, queueVars, Steady!bufVars, bufVars,
     Steady!envVars, envVars
<1>4. Steady!IgnoreStop \/ Steady!CheckStop \/ Steady!GetFree \/ Steady!ReadFails
        \/ Steady!CloseSocket \/ Steady!TearDown
      => IgnoreStop \/ CheckStop \/ GetFree \/ ReadFails \/ CloseSocket \/ TearDown
  BY Zenon DEF Steady!IgnoreStop, IgnoreStop, Steady!CheckStop, CheckStop,
               Steady!GetFree, GetFree,
     Steady!ReadFails, ReadFails, Steady!CloseSocket, CloseSocket, Steady!TearDown, TearDown,
     Steady!RxRuns, RxRuns, Steady!SendClosed, SendClosed, Steady!Marked, Marked,
     Steady!SenderGone, SenderGone,
     Steady!txVars, txVars, Steady!envVars, envVars, Steady!queueVars, queueVars,
     Steady!bufVars, bufVars, Steady!rxVars, rxVars, Steady!netVars, netVars
<1>5. Steady!TxStep => TxStep
  BY Zenon DEF Steady!TxStep, TxStep, Steady!TakeMessage, TakeMessage, Steady!WriteData,
               WriteData,
     Steady!WriteFails, WriteFails, Steady!Exit, Exit, Steady!SentByte, SentByte,
     Steady!Returned, Returned,
     Steady!txVars, txVars, Steady!envVars, envVars, Steady!queueVars, queueVars,
     Steady!bufVars, bufVars, Steady!rxVars, rxVars, Steady!netVars, netVars
<1>6. Steady!StopCommand \/ Steady!ServerEnds => StopCommand \/ ServerEnds
  BY Zenon DEF Steady!StopCommand, StopCommand, Steady!ServerEnds, ServerEnds,
     Steady!txVars, txVars, Steady!envVars, envVars, Steady!queueVars, queueVars,
     Steady!bufVars, bufVars, Steady!rxVars, rxVars, Steady!netVars, netVars
<1>7. QED
  BY <1>1, <1>2, <1>3, <1>4, <1>5, <1>6, <1>8
     DEF Steady!Next, Steady!RxStep, Steady!RxRunning, Next, RxStep, RxRunning, TcpStep

\* SetUp: all buffers are in the free queue, each once.
LEMMA StepSetUp ==
  ASSUME TcpInv, part' = part, SetUp
  PROVE  TcpInv'
<1> USE SizeFacts
<1>1. PICK q \in SetToSeqs(Buffers) : free' = q
  BY DEF SetUp
<1>2. /\ rxPc = "idle" /\ chan' = <<>> /\ data' = [b \in Buffers |-> <<>>]
      /\ type' = [b \in Pointers |-> "DATA"] /\ rxPc' = "connect"
      /\ UNCHANGED <<rxBuf, count, txPc, txBuf, sent, conn, input, echoed, flag, stop>>
  BY DEF SetUp, txVars, envVars, netVars
<1>3. free' \in Seq(Buffers) /\ \A b \in Buffers : Count(free', b) = 1
  BY <1>1, CountOrder
<1>4. \A S : <<>> \in Seq(S) /\ Len(<<>>) = 0
  OBVIOUS
<1>5. Shapes'
  BY <1>2, <1>3, <1>4 DEF TcpInv, Shapes, Pointers, Bytes, Limit
<1>6. Owners'
  BY <1>2, <1>4 DEF TcpInv, Owners
<1>7. Session'
  BY <1>2, <1>3 DEF Session, InSession, Pointers
<1>8. Ends'
  BY <1>2, Zenon DEF TcpInv, Ends
<1>9. QED
  BY <1>2, <1>4, <1>5, <1>6, <1>7, <1>8 DEF TcpInv

\* Connect begins the session and spawns the sender.
LEMMA StepConnect ==
  ASSUME TcpInv, part' = part, Connect
  PROVE  TcpInv'
<1> USE SizeFacts
<1>1. /\ rxPc = "connect" /\ rxPc' = "check" /\ rxBuf' = Wild /\ count' = 0
      /\ txPc' = "get" /\ txBuf' = Wild /\ sent' = 0
      /\ conn' \in {"up", "none"} /\ input' = 0 /\ echoed' = -1
      /\ UNCHANGED <<free, chan, data, type, flag, stop>>
  BY DEF Connect, queueVars, bufVars, envVars
<1>2. chan = <<>> /\ \A b \in Buffers : Count(free, b) = 1
  BY <1>1 DEF TcpInv, Session
<1>3. Shapes'
  BY <1>1 DEF TcpInv, Shapes, Pointers, Bytes, Limit
<1>4. Owners'
  BY <1>1 DEF TcpInv, Owners
<1>5. Session'
  <2>1. \A b \in Buffers : Count(chan', b) = 0
    BY <1>1, <1>2, CountEmpty
  <2>2. \A b \in Buffers : Has(b)' = 1
    BY <1>1, <1>2, <2>1 DEF Has
  <2>3. \A b \in Pointers : type'[b] = "DATA"
    BY <1>1 DEF TcpInv, Session
  <2>4. QED
    BY <1>1, <1>2, <2>2, <2>3 DEF Session, InSession
<1>6. Ends'
  <2>1. flag' = FALSE /\ stop' \in BOOLEAN
    BY <1>1, Zenon DEF TcpInv, Ends
  <2>2. rxPc' \notin {"idle", "connect", "assert"}
    BY <1>1
  <2>3. QED
    BY <2>1, <2>2, Zenon DEF Ends
<1>7. QED
  BY <1>1, <1>3, <1>4, <1>5, <1>6 DEF TcpInv

\* IgnoreStop touches the stop command only.
LEMMA StepIgnore ==
  ASSUME TcpInv, part' = part, IgnoreStop
  PROVE  TcpInv'
<1>1. UNCHANGED <<free, chan, data, type, rxPc, rxBuf, count, txPc, txBuf, sent, flag, conn,
                  input, echoed>>
  BY DEF IgnoreStop, queueVars, bufVars, rxVars, txVars, netVars
<1>2. Ends'
  <2>1. stop' \in BOOLEAN
    BY DEF IgnoreStop
  <2>2. flag' = flag /\ rxPc' = rxPc /\ txPc' = txPc
    BY <1>1
  <2>3. QED
    BY <2>1, <2>2, Zenon DEF TcpInv, Ends
<1>3. QED
  BY <1>1, <1>2 DEF TcpInv, Shapes, Owners, Session, InSession, Has, Limit

\* StopCommand touches the stop command only.
LEMMA StepStop ==
  ASSUME TcpInv, part' = part, StopCommand
  PROVE  TcpInv'
<1>1. UNCHANGED <<free, chan, data, type, rxPc, rxBuf, count, txPc, txBuf, sent, flag, conn,
                  input, echoed>>
  BY DEF StopCommand, queueVars, bufVars, rxVars, txVars, netVars
<1>2. Ends'
  <2>1. stop' \in BOOLEAN
    BY DEF StopCommand
  <2>2. flag' = flag /\ rxPc' = rxPc /\ txPc' = txPc
    BY <1>1
  <2>3. QED
    BY <2>1, <2>2, Zenon DEF TcpInv, Ends
<1>3. QED
  BY <1>1, <1>2 DEF TcpInv, Shapes, Owners, Session, InSession, Has, Limit

\* ServerEnds touches the connection only.
LEMMA StepServer ==
  ASSUME TcpInv, part' = part, ServerEnds
  PROVE  TcpInv'
<1>1. UNCHANGED <<free, chan, data, type, rxPc, rxBuf, count, txPc, txBuf, sent, flag, stop,
                  input, echoed>>
  BY DEF ServerEnds, queueVars, bufVars, rxVars, txVars, envVars
<1>2. conn' \in {"fin", "reset"}
  BY DEF ServerEnds
<1>3. Ends'
  BY <1>1, Zenon DEF TcpInv, Ends
<1>4. QED
  BY <1>1, <1>2, <1>3 DEF TcpInv, Shapes, Owners, Session, InSession, Has, Limit

\* The end mark goes into a queue that has a place for it, and the session is over.
LEMMA Closing ==
  ASSUME TcpInv, part' = part, SendClosed, InSession,
         Len(chan) + 1 <= Cardinality(Buffers), count' \in 0 .. Limit,
         UNCHANGED <<free, data, rxBuf, txVars, flag, netVars>>, stop' \in BOOLEAN
  PROVE  TcpInv'
<1>1. /\ type' = [type EXCEPT ![rxBuf] = "CLOSED"] /\ chan' = Append(chan, rxBuf)
      /\ rxPc' = "destroy"
  BY DEF SendClosed, Marked
<1>2. UNCHANGED <<txPc, txBuf, sent, conn, input, echoed>>
  BY DEF txVars, netVars
<1>3. rxBuf \in Pointers /\ chan \in Seq(Buffers) /\ chan \in Seq(Pointers)
  BY DEF TcpInv, Shapes, Session
<1>4. chan' \in Seq(Pointers) /\ Len(chan') = Len(chan) + 1
  BY <1>1, <1>3
<1>5. Shapes'
  BY <1>1, <1>2, <1>4 DEF TcpInv, Shapes, Limit
<1>6. Owners'
  <2>1. CASE rxBuf = Wild
    BY <1>1, <1>2, <2>1 DEF TcpInv, Shapes, Owners, Pointers
  <2>2. CASE rxBuf # Wild
    <3>1. chan' \in Seq(Buffers)
      BY <1>1, <1>3, <2>2 DEF Pointers
    <3>2. QED
      BY <1>1, <1>2, <3>1 DEF TcpInv, Owners
  <2>3. QED
    BY <2>1, <2>2
<1>7. Session'
  BY <1>1 DEF Session, InSession
<1>8. Ends'
  BY <1>1, <1>2, Zenon DEF TcpInv, Ends
<1>9. QED
  BY <1>4, <1>5, <1>6, <1>7, <1>8 DEF TcpInv

\* CheckStop: the loop goes on, ends with the end mark, or faults.
LEMMA StepCheck ==
  ASSUME TcpInv, part' = part, CheckStop
  PROVE  TcpInv'
<1> USE SizeFacts
<1>1. rxPc = "check" /\ InSession /\ count' = 0
      /\ UNCHANGED <<free, data, rxBuf, txVars, flag, netVars>>
  BY DEF CheckStop, InSession
<1>2. CASE SendClosed /\ stop' = FALSE
  <2>1. Len(chan) + 1 <= Cardinality(Buffers)
    <3>1. CASE txPc = "get" /\ chan = <<>>
      BY <3>1
    <3>2. CASE txPc \in {"write", "exited"}
      <4>1. txBuf \in Buffers /\ Has(txBuf) = 1
        BY <1>1, <3>2 DEF TcpInv, Session, Owners
      <4>2. Count(chan, txBuf) \in Nat /\ Count(free, txBuf) \in Nat
        BY CountNat DEF TcpInv, Shapes
      <4>3. Count(chan, txBuf) = 0
        BY <1>1, <3>2, <4>1, <4>2 DEF Has
      <4>4. QED
        BY <1>1, <4>1, <4>3, Room1
    <3>3. txPc # "none"
      BY <1>1 DEF TcpInv, Session
    <3>4. QED
      BY <3>1, <3>2, <3>3 DEF CheckStop, RxRuns
  <2>2. count' \in 0 .. Limit
    BY <1>1
  <2>3. stop' \in BOOLEAN
    BY <1>2
  <2>4. QED
    BY <1>1, <1>2, <2>1, <2>2, <2>3, Closing
<1>3. CASE rxPc' \in {"get", "fault"} /\ UNCHANGED <<type, chan, stop>>
  <2>1. UNCHANGED <<txPc, txBuf, sent, conn, input, echoed, free, data, rxBuf, flag>>
    BY <1>1 DEF txVars, netVars
  <2>2. Shapes'
    BY <1>1, <1>3, <2>1 DEF TcpInv, Shapes, Limit
  <2>3. Owners'
    BY <1>1, <1>3, <2>1 DEF TcpInv, Owners
  <2>4. Session'
    BY <1>1, <1>3, <2>1 DEF TcpInv, Session, InSession, Has
  <2>5. Ends'
    BY <1>3, <2>1, Zenon DEF TcpInv, Ends
  <2>6. QED
    BY <1>3, <2>2, <2>3, <2>4, <2>5 DEF TcpInv
<1>4. \/ rxPc' = "get" /\ UNCHANGED <<type, chan, stop>>
      \/ SendClosed /\ stop' = FALSE
      \/ rxPc' = "fault" /\ UNCHANGED <<type, chan, stop>>
  BY Zenon DEF CheckStop
<1>5. QED
  BY <1>2, <1>3, <1>4

\* Counts of the two queues are numbers.
LEMMA Counts ==
  ASSUME TcpInv
  PROVE  \A b : Count(free, b) \in Nat /\ Count(chan, b) \in Nat
BY CountNat DEF TcpInv, Shapes

\* GetFree: the buffer moves from the free queue to the hands of the receiver.
LEMMA StepGetFree ==
  ASSUME TcpInv, part' = part, GetFree
  PROVE  TcpInv'
<1> DEFINE h == Head(free)
<1>1. /\ rxPc = "get" /\ free # <<>> /\ rxBuf' = h /\ free' = Tail(free)
      /\ data' = [data EXCEPT ![h] = <<>>] /\ rxPc' = "read"
      /\ UNCHANGED <<chan, type, count, txPc, txBuf, sent, flag, stop, conn, input, echoed>>
  BY DEF GetFree, txVars, envVars, netVars
<1>2. free \in Seq(Buffers)
  BY DEF TcpInv, Shapes
<1>3. h \in Buffers /\ Tail(free) \in Seq(Buffers)
  BY <1>1, <1>2
<1>4. <<>> \in Seq(Bytes) /\ Len(<<>>) = 0
  OBVIOUS
<1>5. \A b : Count(free, b) = Count(free', b) + (IF h = b THEN 1 ELSE 0)
  BY <1>1, <1>2, CountTail
<1>6. \A b : Count(free', b) \in Nat
  BY <1>1, <1>3, CountNat
<1> HIDE DEF h
<1>7. data' \in [Buffers -> Seq(Bytes)] /\ \A b \in Buffers : Len(data'[b]) <= Size
  <2>1. data' \in [Buffers -> Seq(Bytes)]
    BY <1>1, <1>3, <1>4 DEF TcpInv, Shapes
  <2>2. \A b \in Buffers : data'[b] = IF b = h THEN <<>> ELSE data[b]
    BY <1>1 DEF TcpInv, Shapes
  <2>3. 0 <= Size
    BY SizeFacts
  <2>4. QED
    BY <1>4, <2>1, <2>2, <2>3, Zenon DEF TcpInv, Shapes
<1>8. Shapes'
  BY <1>1, <1>3, <1>7 DEF TcpInv, Shapes, Pointers, Limit
<1>9. Owners'
  BY <1>1, <1>3 DEF TcpInv, Owners
<1>10. \A b \in Buffers : Has(b)' = Has(b)
  <2>1. \A b : Count(free, b) \in Nat /\ Count(chan, b) \in Nat
    BY Counts
  <2>2. QED
    BY <1>1, <1>5, <1>6, <2>1 DEF Has
<1>11. Session'
  BY <1>1, <1>10 DEF TcpInv, Session, InSession
<1>12. Ends'
  BY <1>1, Zenon DEF TcpInv, Ends
<1>13. QED
  BY <1>1, <1>8, <1>9, <1>11, <1>12 DEF TcpInv

\* Numbers of the stream behind the bytes of a buffer.
LEMMA FilledShape ==
  ASSUME TcpInv, NEW b \in Buffers, NEW k \in 1 .. Room(b)
  PROVE  /\ Filled(b, k) \in Seq(Bytes) /\ Len(Filled(b, k)) <= Size
         /\ (input + k) % Numbers \in Bytes
<1> DEFINE more == [i \in 1 .. k |-> (input + i - 1) % Numbers]
<1>1. /\ data[b] \in Seq(Bytes) /\ Len(data[b]) \in Nat /\ Len(data[b]) <= Size
      /\ input \in Int
  BY DEF TcpInv, Shapes, Bytes
<1>2. k \in Nat /\ Len(data[b]) + k <= Size
  BY <1>1, SizeFacts DEF Room
<1>3. \A i \in Int : i % Numbers \in Bytes
  BY SizeFacts DEF Bytes
<1>4. \A i \in 1 .. k : (input + i - 1) % Numbers \in Bytes
  BY <1>1, <1>3
<1>5. more \in Seq(Bytes) /\ Len(more) = k
  BY <1>2, <1>4
<1>6. Filled(b, k) = data[b] \o more
  BY DEF Filled
<1>7. (input + k) % Numbers \in Bytes
  BY <1>1, <1>2, <1>3
<1> HIDE DEF more
<1>8. /\ data[b] \o more \in Seq(Bytes) /\ Len(data[b] \o more) = Len(data[b]) + Len(more)
  BY <1>1, <1>5, ConcatProperties
<1>9. QED
  BY <1>2, <1>5, <1>6, <1>7, <1>8

\* ReadData: a full buffer moves from the receiver to the queue between the tasks.
LEMMA StepRead ==
  ASSUME TcpInv, part' = part, ReadSome
  PROVE  TcpInv'
<1>1. /\ rxPc = "read" /\ InSession /\ rxBuf \in Buffers
      /\ UNCHANGED <<free, rxBuf, txPc, txBuf, sent, flag, stop, conn, echoed>>
  BY DEF ReadSome, InSession, txVars, envVars, TcpInv, Owners
<1>2. PICK k \in 1 .. Room(rxBuf) : /\ data' = [data EXCEPT ![rxBuf] = Filled(rxBuf, k)]
                                    /\ input' = (input + k) % Numbers
  BY DEF ReadSome
<1>3. /\ data' \in [Buffers -> Seq(Bytes)] /\ \A b \in Buffers : Len(data'[b]) <= Size
      /\ input' \in Bytes
  <2>1. /\ Filled(rxBuf, k) \in Seq(Bytes) /\ Len(Filled(rxBuf, k)) <= Size
        /\ (input + k) % Numbers \in Bytes
    BY <1>1, FilledShape
  <2>2. \A b \in Buffers : data'[b] = IF b = rxBuf THEN Filled(rxBuf, k) ELSE data[b]
    BY <1>2 DEF TcpInv, Shapes
  <2>3. data' \in [Buffers -> Seq(Bytes)]
    BY <1>2, <2>1 DEF TcpInv, Shapes
  <2>4. QED
    BY <1>2, <2>1, <2>2, <2>3, Zenon DEF TcpInv, Shapes
<1>4. Ends'
  <2>1. rxPc' \in {"read", "check", "get"}
    BY <1>1 DEF ReadSome
  <2>2. rxPc' \notin {"idle", "connect", "assert"}
    BY <2>1
  <2>3. QED
    BY <1>1, <2>2, Zenon DEF TcpInv, Ends
<1>5. CASE UNCHANGED <<chan, type, rxPc, count>>
  <2>1. Shapes'
    BY <1>1, <1>3, <1>5 DEF TcpInv, Shapes, Limit
  <2>2. QED
    BY <1>1, <1>4, <1>5, <2>1 DEF TcpInv, Owners, Session, InSession, Has
<1>6. CASE /\ type' = [type EXCEPT ![rxBuf] = "DATA"] /\ chan' = Append(chan, rxBuf)
           /\ count' = count + 1 /\ rxPc' = IF count + 1 = Limit THEN "check" ELSE "get"
  <2>1. \A b : Count(free, b) \in Nat /\ Count(chan, b) \in Nat
    BY Counts
  <2>2. chan \in Seq(Buffers)
    BY <1>1 DEF TcpInv, Session
  <2>3. chan' \in Seq(Buffers) /\ Len(chan') = Len(chan) + 1 /\ chan' \in Seq(Pointers)
    BY <1>1, <1>6, <2>2 DEF Pointers
  <2>4. \A b : Count(chan', b) = Count(chan, b) + (IF rxBuf = b THEN 1 ELSE 0)
    BY <1>1, <1>6, <2>2, CountAppend
  <2>5. Len(chan') <= Cardinality(Buffers)
    <3>1. Has(rxBuf) = 1
      BY <1>1 DEF TcpInv, Session
    <3>2. Count(chan, rxBuf) = 0
      BY <1>1, <2>1, <3>1 DEF Has
    <3>3. QED
      BY <1>1, <2>3, <3>2, Room1
  <2>6. \A b \in Buffers : Has(b)' = Has(b)
    BY <1>1, <1>6, <2>1, <2>4 DEF Has
  <2>7. count' \in 0 .. Limit /\ (rxPc' = "get" => count' < Limit)
    BY <1>1, <1>6, SizeFacts DEF TcpInv, Shapes
  <2>8. rxPc' \in {"get", "check"} /\ Limit' = Limit
    BY <1>6 DEF Limit
  <2>9. /\ type' \in [Pointers -> {"DATA", "CLOSED"}]
        /\ \A b \in Pointers : type'[b] = "DATA"
    BY <1>1, <1>6 DEF TcpInv, Shapes, Session
  <2>10. Shapes'
    BY <1>1, <1>3, <2>3, <2>7, <2>8, <2>9 DEF TcpInv, Shapes
  <2>11. Owners'
    BY <1>1, <2>3, <2>8 DEF TcpInv, Owners
  <2>12. Session'
    BY <1>1, <2>3, <2>6, <2>8, <2>9 DEF TcpInv, Session, InSession
  <2>13. QED
    BY <1>4, <2>5, <2>10, <2>11, <2>12 DEF TcpInv
<1>7. QED
  BY <1>5, <1>6 DEF ReadSome

\* ReadFails: the end mark is the buffer of the receiver, which has a place in the queue.
LEMMA StepReadFails ==
  ASSUME TcpInv, part' = part, ReadFails
  PROVE  TcpInv'
<1>1. /\ rxPc = "read" /\ InSession /\ SendClosed /\ rxBuf \in Buffers
      /\ UNCHANGED <<free, data, rxBuf, txVars, flag, netVars, count, stop>>
  BY DEF ReadFails, InSession, envVars, TcpInv, Owners
<1>2. Has(rxBuf) = 1
  BY <1>1 DEF TcpInv, Session
<1>3. Count(chan, rxBuf) = 0
  BY <1>1, <1>2, Counts DEF Has
<1>4. Len(chan) + 1 <= Cardinality(Buffers)
  BY <1>1, <1>3, Room1
<1>5. count' \in 0 .. Limit
  BY <1>1 DEF TcpInv, Shapes
<1>6. stop' \in BOOLEAN
  BY <1>1, Zenon DEF TcpInv, Ends
<1>7. QED
  BY <1>1, <1>4, <1>5, <1>6, Closing

\* CloseSocket: the session is over already.
LEMMA StepClose ==
  ASSUME TcpInv, part' = part, CloseSocket
  PROVE  TcpInv'
<1>1. /\ rxPc = "destroy" /\ conn' = "closed" /\ rxPc' = "wait"
      /\ UNCHANGED <<free, chan, data, type, rxBuf, count, txPc, txBuf, sent, flag, stop,
                     input, echoed>>
  BY DEF CloseSocket, queueVars, bufVars, txVars, envVars
<1>2. Ends'
  <2>1. rxPc' \notin {"idle", "connect", "assert"}
    BY <1>1
  <2>2. QED
    BY <1>1, <2>1, Zenon DEF TcpInv, Ends
<1>3. QED
  BY <1>1, <1>2 DEF TcpInv, Shapes, Owners, Session, InSession, Limit

\* TearDown takes the flag, which only a sender that has ended sets.
LEMMA StepTearDown ==
  ASSUME TcpInv, part' = part, TearDown
  PROVE  TcpInv'
<1>1. /\ flag /\ flag' = FALSE /\ rxPc' \in {"assert", "idle"}
      /\ UNCHANGED <<free, chan, data, type, rxBuf, count, txPc, txBuf, sent, stop, conn,
                     input, echoed>>
  BY DEF TearDown, SenderGone, queueVars, bufVars, txVars, netVars
<1>2. Ends'
  <2>1. txPc = "exited" /\ stop \in BOOLEAN
    BY <1>1, Zenon DEF TcpInv, Ends
  <2>2. txPc' = "exited" /\ stop' \in BOOLEAN
    BY <1>1, <2>1, Zenon
  <2>3. flag' = FALSE
    BY <1>1
  <2>4. QED
    BY <2>2, <2>3, Zenon DEF Ends
<1>3. QED
  BY <1>1, <1>2 DEF TcpInv, Shapes, Owners, Session, InSession, Limit

\* TakeMessage: the buffer moves to the hands of the sender; an end mark ends it.
LEMMA StepTake ==
  ASSUME TcpInv, part' = part, TakeMessage
  PROVE  TcpInv'
<1> DEFINE h == Head(chan)
<1>1. /\ txPc = "get" /\ chan # <<>> /\ txBuf' = h /\ chan' = Tail(chan) /\ sent' = 0
      /\ UNCHANGED <<free, data, type, rxPc, rxBuf, count, stop, conn, input, echoed>>
  BY DEF TakeMessage, bufVars, rxVars, netVars
<1>2. \/ type[h] = "CLOSED" /\ txPc' = "exited" /\ flag' = TRUE
      \/ type[h] # "CLOSED" /\ txPc' = "write" /\ flag' = flag
  BY Zenon DEF TakeMessage, Exit
<1>3. chan \in Seq(Pointers) /\ Len(chan) \in Nat /\ Cardinality(Buffers) \in Nat
  BY SizeFacts DEF TcpInv, Shapes
<1>4. h \in Pointers /\ chan' \in Seq(Pointers) /\ Len(chan') = Len(chan) - 1
  BY <1>1, <1>3
<1>5. chan \in Seq(Buffers) => h \in Buffers /\ chan' \in Seq(Buffers)
  BY <1>1
<1>6. \A b : Count(chan, b) = Count(chan', b) + (IF h = b THEN 1 ELSE 0)
  BY <1>1, <1>3, CountTail
<1>7. \A b : Count(chan', b) \in Nat /\ Count(free, b) \in Nat
  BY <1>4, Counts, CountNat
<1> HIDE DEF h
<1>8. Shapes'
  BY <1>1, <1>2, <1>4, SizeFacts DEF TcpInv, Shapes, Limit
<1>9. type[h] # "CLOSED" => h \in Buffers
  BY <1>4, <1>5 DEF TcpInv, Owners, Pointers
<1>10. Owners'
  BY <1>1, <1>2, <1>5, <1>9 DEF TcpInv, Owners
<1>11. InSession => /\ txPc' = "write" /\ chan' \in Seq(Buffers)
                    /\ \A b \in Buffers : Has(b)' = Has(b)
  <2>1. InSession => type[h] # "CLOSED" /\ chan' \in Seq(Buffers)
    BY <1>4, <1>5 DEF TcpInv, Session
  <2>2. type[h] # "CLOSED" => \A b \in Buffers : Has(b)' = Has(b)
    BY <1>1, <1>2, <1>6, <1>7 DEF Has
  <2>3. QED
    BY <1>2, <2>1, <2>2
<1>12. Session'
  BY <1>1, <1>11 DEF TcpInv, Session, InSession
<1>13. Ends'
  <2>1. txPc # "exited" /\ txPc # "none"
    BY <1>1
  <2>2. ~flag /\ flag \in BOOLEAN /\ rxPc \notin {"idle", "connect", "assert"} /\ stop \in BOOLEAN
    BY <2>1, Zenon DEF TcpInv, Ends
  <2>3. flag' \in BOOLEAN /\ (flag' => txPc' = "exited")
    <3>1. CASE txPc' = "exited" /\ flag' = TRUE
      BY <3>1, Zenon
    <3>2. CASE flag' = flag
      BY <2>2, <3>2, Zenon
    <3>3. QED
      BY <1>2, <3>1, <3>2
  <2>4. rxPc' = rxPc /\ stop' = stop
    BY <1>1
  <2>5. rxPc' \notin {"idle", "connect", "assert"} /\ stop' \in BOOLEAN
    BY <2>2, <2>4, Zenon
  <2>6. QED
    BY <2>3, <2>5, Zenon DEF Ends
<1>14. QED
  BY <1>3, <1>4, <1>8, <1>10, <1>12, <1>13 DEF TcpInv

\* WriteData: after its last byte the buffer goes back to the free queue.
LEMMA StepWrite ==
  ASSUME TcpInv, part' = part, WriteData
  PROVE  TcpInv'
<1>1. /\ txPc = "write" /\ txBuf \in Buffers
      /\ UNCHANGED <<chan, data, type, rxPc, rxBuf, count, txBuf, flag, stop, conn, input>>
  BY DEF WriteData, bufVars, rxVars, envVars, TcpInv, Owners
<1>2. PICK k \in 1 .. Len(data[txBuf]) - sent :
        /\ echoed' = data[txBuf][sent + k]
        /\ \/ sent + k < Len(data[txBuf]) /\ sent' = sent + k /\ UNCHANGED <<free, txPc>>
           \/ sent' = 0 /\ free' = Append(free, txBuf) /\ txPc' = "get"
  BY DEF WriteData, SentByte, Returned
<1>3. data[txBuf] \in Seq(Bytes) /\ Len(data[txBuf]) <= Size /\ sent \in 0 .. Size
  BY <1>1 DEF TcpInv, Shapes
<1>4. echoed' \in Bytes
  <2>1. sent + k \in 1 .. Len(data[txBuf])
    BY <1>3, SizeFacts
  <2>2. QED
    BY <1>2, <1>3, <2>1
<1>5. ~flag /\ rxPc \notin {"idle", "connect", "assert"}
  <2>1. txPc # "exited" /\ txPc # "none"
    BY <1>1
  <2>2. QED
    BY <2>1, Zenon DEF TcpInv, Ends
<1>6. Ends'
  BY <1>1, <1>5, Zenon DEF TcpInv, Ends
<1>7. CASE sent + k < Len(data[txBuf]) /\ sent' = sent + k /\ UNCHANGED <<free, txPc>>
  <2>1. sent' \in 0 .. Size
    BY <1>3, <1>7, SizeFacts
  <2>2. Shapes'
    BY <1>1, <1>4, <1>7, <2>1 DEF TcpInv, Shapes, Limit
  <2>3. QED
    BY <1>1, <1>6, <1>7, <2>2 DEF TcpInv, Owners, Session, InSession, Has
<1>8. CASE sent' = 0 /\ free' = Append(free, txBuf) /\ txPc' = "get"
  <2>1. free \in Seq(Buffers)
    BY DEF TcpInv, Shapes
  <2>2. free' \in Seq(Buffers)
    BY <1>1, <1>8, <2>1
  <2>3. \A b : Count(free', b) = Count(free, b) + (IF txBuf = b THEN 1 ELSE 0)
    BY <1>1, <1>8, <2>1, CountAppend
  <2>4. Shapes'
    BY <1>1, <1>4, <1>8, <2>2, SizeFacts DEF TcpInv, Shapes, Limit
  <2>5. Owners'
    BY <1>1, <1>8 DEF TcpInv, Owners
  <2>6. \A b \in Buffers : Has(b)' = Has(b)
    BY <1>1, <1>8, <2>3, Counts DEF Has
  <2>7. txPc = "write" /\ rxPc' = rxPc
    BY <1>1
  <2>8. rxPc # "connect"
    BY <2>7 DEF TcpInv, Ends
  <2>9. Session'
    BY <1>1, <1>8, <2>6, <2>7, <2>8 DEF TcpInv, Session, InSession
  <2>10. QED
    BY <1>1, <1>6, <2>4, <2>5, <2>9 DEF TcpInv
<1>9. QED
  BY <1>2, <1>7, <1>8

\* WriteFails: the sender ends with the buffer in its hands.
LEMMA StepWriteFails ==
  ASSUME TcpInv, part' = part, WriteFails
  PROVE  TcpInv'
<1>1. /\ txPc = "write" /\ txPc' = "exited" /\ flag' = TRUE /\ txBuf \in Buffers
      /\ UNCHANGED <<free, chan, data, type, rxPc, rxBuf, count, txBuf, sent, stop, conn,
                     input, echoed>>
  BY DEF WriteFails, Exit, queueVars, bufVars, rxVars, netVars, TcpInv, Owners
<1>2. Ends'
  <2>1. txPc # "exited" /\ txPc # "none"
    BY <1>1
  <2>2. QED
    BY <1>1, <2>1, Zenon DEF TcpInv, Ends
<1>3. \A b : Has(b)' = Has(b)
  BY <1>1 DEF Has
<1>4. QED
  BY <1>1, <1>2, <1>3 DEF TcpInv, Shapes, Owners, Session, InSession, Limit

\* A step of another part changes nothing here.
LEMMA TcpStutter ==
  ASSUME TcpInv, part' = part, UNCHANGED vars
  PROVE  TcpInv'
<1>1. UNCHANGED <<free, chan, data, type, rxPc, rxBuf, count, txPc, txBuf, sent, conn, input,
                  echoed>>
  BY DEF vars, queueVars, bufVars, rxVars, txVars, netVars
<1>2. Ends'
  <2>1. UNCHANGED <<rxPc, txPc, flag, stop>>
    BY DEF vars, rxVars, txVars, envVars
  <2>2. QED
    BY <2>1, Zenon DEF TcpInv, Ends
<1>3. \A b \in Buffers : Has(b)' = Has(b)
  BY <1>1 DEF Has
<1>4. (Shapes /\ Owners)'
  BY <1>1 DEF TcpInv, Shapes, Owners, Limit, Bytes, Pointers
<1>5. Session'
  BY <1>1, <1>3 DEF TcpInv, Session, InSession
<1>6. QED
  BY <1>1, <1>2, <1>4, <1>5 DEF TcpInv

\* Every step of the test with two tasks keeps the invariant.
LEMMA TcpKept ==
  ASSUME TcpInv, part' = part, TcpStep \/ UNCHANGED vars
  PROVE  TcpInv'
BY StepSetUp, StepConnect, StepIgnore, StepStop, StepServer, StepCheck, StepGetFree, StepRead,
   StepReadFails, StepClose, StepTearDown, StepTake, StepWrite, StepWriteFails, TcpStutter
   DEF TcpStep, TxStep

\* The invariant implies what the run checks of the test with two tasks.
LEMMA TcpSafe == TcpInv => TypeOK /\ Conserved /\ SenderEndsFirst
<1> SUFFICES ASSUME TcpInv PROVE TypeOK /\ Conserved /\ SenderEndsFirst
  OBVIOUS
<1>1. count \in 0 .. Batch
  <2>1. count \in 0 .. Limit /\ Limit <= Batch
    BY SizeFacts DEF TcpInv, Shapes, Limit
  <2>2. QED
    BY <2>1, SizeFacts
<1>2. flag \in BOOLEAN /\ stop \in BOOLEAN
  BY Zenon DEF TcpInv, Ends
<1>3. TypeOK
  BY <1>1, <1>2 DEF TypeOK, TcpInv, Shapes
<1>4. Conserved
  <2> SUFFICES ASSUME InSession, txPc # "exited", NEW b \in Buffers PROVE Places(b) = 1
    BY DEF Conserved
  <2>1. Has(b) = 1
    BY DEF TcpInv, Session
  <2>2. txPc \in {"write", "exited"} <=> txPc = "write"
    OBVIOUS
  <2>3. Places(b) = Has(b)
    BY <2>2, Zenon DEF Places, Has, Count
  <2>4. QED
    BY <2>1, <2>3
<1>5. SenderEndsFirst
  BY Zenon DEF TcpInv, Ends, SenderEndsFirst
<1>6. QED
  BY <1>3, <1>4, <1>5

-----------------------------------------------------------------------------
(* The tests with one task *)

\* Every block is in the queue or free, and a test has a socket.
OneInv ==
  /\ queue \in Seq(Single!Commands) /\ Len(queue) <= TestSlots
  /\ pool \in Nat /\ pool + Len(queue) = TestPool
  /\ pc \in Single!Places /\ test \in {"none", "simple", "udp"}
  /\ packets \in 0 .. TestBatch /\ readable \in BOOLEAN
  /\ socket \in {"none", "open", "up", "fin", "drained", "reset"}
  /\ socket # "none" <=> pc # "wait"
  /\ test # "none" <=> pc # "wait"

\* The sizes of the tests with one task are numbers.
LEMMA TestFacts == TestPool \in Nat /\ TestSlots \in Nat /\ TestBatch \in Nat /\ TestBatch > 0
BY SuiteAssumption DEF SuiteAssumption, Single!TestsAssumption

\* No test runs and every block is free.
LEMMA OneInit == Single!Init => OneInv
<1>1. <<>> \in Seq(Single!Commands) /\ Len(<<>>) = 0
  OBVIOUS
<1>2. Single!Init => readable \in BOOLEAN
  BY Zenon DEF Single!Init
<1>3. QED
  BY <1>1, <1>2, TestFacts DEF Single!Init, OneInv, Single!Places

\* The invariant implies what the run checks of the tests with one task.
LEMMA OneSafe == OneInv => Single!TypeOK /\ Single!Resources
BY TestFacts DEF OneInv, Single!TypeOK, Single!Resources

\* A command leaves the queue and its block is free again.
LEMMA OneTaken ==
  ASSUME OneInv, queue # <<>>, queue' = Tail(queue), pool' = pool + 1
  PROVE  /\ queue' \in Seq(Single!Commands) /\ Len(queue') <= TestSlots
         /\ pool' \in Nat /\ pool' + Len(queue') = TestPool
<1>1. /\ Len(queue) \in Nat /\ Len(queue) # 0
      /\ Len(queue') = Len(queue) - 1 /\ queue' \in Seq(Single!Commands)
  BY DEF OneInv
<1>2. QED
  BY <1>1, TestFacts DEF OneInv

\* The packets of a batch are counted below its length.
LEMMA OneCounted ==
  ASSUME OneInv, NEW place \in {"read", "send"}, Single!Counted(place)
  PROVE  packets' \in 0 .. TestBatch /\ pc' \in {"look", "read", "send"}
BY TestFacts DEF OneInv, Single!Counted, Single!BatchOver

\* Every step of the Ethernet task, the client and the server keeps the invariant.
LEMMA OneKept ==
  ASSUME OneInv, Single!Next \/ UNCHANGED singleVars
  PROVE  OneInv'
<1> USE TestFacts
<1>1. CASE Single!Start
  <2>1. CASE Single!TestOf(Head(queue)) = "none"
    BY <1>1, <2>1, OneTaken DEF Single!Start, OneInv, Single!Places
  <2>2. CASE Single!TestOf(Head(queue)) = "simple"
    BY <1>1, <2>2, OneTaken DEF Single!Start, OneInv, Single!Places
  <2>3. CASE Single!TestOf(Head(queue)) = "udp"
    BY <1>1, <2>3, OneTaken DEF Single!Start, OneInv, Single!Places
  <2>4. Single!TestOf(Head(queue)) \in {"none", "simple", "udp"}
    BY DEF Single!TestOf
  <2>5. QED
    BY <2>1, <2>2, <2>3, <2>4
<1>2. CASE Single!Connect
  BY <1>2 DEF Single!Connect, OneInv, Single!Places
<1>3. CASE Single!Look
  <2>1. Single!Continued \in {"read", "send"}
    BY DEF Single!Continued
  <2>2. CASE queue = <<>>
    BY <1>3, <2>1, <2>2 DEF Single!Look, OneInv, Single!Places
  <2>3. CASE queue # <<>>
    BY <1>3, <2>1, <2>3, OneTaken DEF Single!Look, Single!Returned, OneInv, Single!Places
  <2>4. QED
    BY <2>2, <2>3
<1>4. CASE Single!Read
  BY <1>4 DEF Single!Read, Single!ReadFailed, OneInv, Single!Places
<1>5. CASE Single!Write
  <2>1. CASE socket = "reset"
    BY <1>5, <2>1 DEF Single!Write, OneInv, Single!Places
  <2>2. CASE socket # "reset"
    BY <1>5, <2>2, OneCounted DEF Single!Write, OneInv, Single!Places
  <2>3. QED
    BY <2>1, <2>2
<1>6. CASE Single!Send
  <2>1. /\ pc = "send" /\ UNCHANGED <<queue, pool, test, socket, readable>>
        /\ Single!Counted("send") \/ (pc' = "destroy" /\ UNCHANGED packets)
    BY <1>6 DEF Single!Send
  <2>2. packets' \in 0 .. TestBatch /\ pc' \in {"look", "read", "send", "destroy"}
    BY <2>1, OneCounted DEF OneInv
  <2>3. QED
    BY <2>1, <2>2 DEF OneInv, Single!Places
<1>7. CASE Single!Destroy
  <2>1. readable' \in BOOLEAN
    BY <1>7, Zenon DEF Single!Destroy
  <2>2. /\ pc' = "wait" /\ test' = "none" /\ socket' = "none" /\ packets' = 0
        /\ UNCHANGED <<queue, pool>>
    BY <1>7 DEF Single!Destroy, Single!Closed
  <2>3. QED
    BY <2>1, <2>2 DEF OneInv, Single!Places
<1>8. CASE \E c \in Single!Commands : Single!Command(c)
  <2>1. PICK c \in Single!Commands : Single!Command(c)
    BY <1>8
  <2>2. /\ Len(queue) \in Nat /\ Len(queue') = Len(queue) + 1
        /\ queue' \in Seq(Single!Commands)
    BY <2>1 DEF Single!Command, OneInv
  <2>3. QED
    BY <2>1, <2>2 DEF Single!Command, OneInv
<1>9. CASE Single!ServerSends
  BY <1>9 DEF Single!ServerSends, OneInv
<1>10. CASE Single!ServerEnds
  BY <1>10 DEF Single!ServerEnds, OneInv
<1>11. CASE UNCHANGED singleVars
  BY <1>11 DEF singleVars, OneInv
<1>12. QED
  BY <1>1, <1>2, <1>3, <1>4, <1>5, <1>6, <1>7, <1>8, <1>9, <1>10, <1>11
     DEF Single!Next, Single!Task

-----------------------------------------------------------------------------
(* The run *)

\* Buffers are conserved and the sender ends first; every block comes back and sockets are
\* open during a test only: for any number and size of buffers, any batch, any queue and
\* pool.
THEOREM TestsKept == SuiteSpec => []TestsSafe
<1> DEFINE Inv == TcpInv /\ OneInv /\ part \in {"multi", "steady", "single"}
<1>1. SuiteInit => Inv
  BY TcpInit, OneInit DEF SuiteInit
<1>2. Inv /\ [SuiteNext]_allVars => Inv'
  <2> SUFFICES ASSUME Inv, [SuiteNext]_allVars PROVE Inv'
    OBVIOUS
  <2>1. part' = part
    BY DEF SuiteNext, Multi, Calm, One, allVars
  <2>2. TcpStep \/ UNCHANGED vars
    BY Steps DEF SuiteNext, Multi, Calm, One, allVars
  <2>3. Single!Next \/ UNCHANGED singleVars
    BY DEF SuiteNext, Multi, Calm, One, allVars
  <2>4. QED
    BY <2>1, <2>2, <2>3, TcpKept, OneKept
<1>3. Inv => TestsSafe
  BY TcpSafe, OneSafe DEF TestsSafe
<1> HIDE DEF Inv
<1>4. QED
  BY <1>1, <1>2, <1>3, PTL DEF SuiteSpec

-----------------------------------------------------------------------------
(* Lists of pieces of the stream                                             *)

Pieces == Seq(Seq(Bytes))

\* One piece behind another.
Then(a, b) == a \o b

\* What putting two pieces together gives.
LEMMA ThenPiece ==
  ASSUME NEW a \in Seq(Bytes), NEW b \in Seq(Bytes)
  PROVE  /\ Then(a, b) \in Seq(Bytes) /\ Len(Then(a, b)) = Len(a) + Len(b)
         /\ \A i \in 1 .. Len(a) + Len(b) :
              Then(a, b)[i] = IF i <= Len(a) THEN a[i] ELSE b[i - Len(a)]
         /\ Then(a, <<>>) = a /\ Then(<<>>, b) = b
BY ConcatProperties, ConcatEmptySeq DEF Then

\* The first pieces put together.
Joined(f, s) == f = [n \in 0 .. Len(s) |-> IF n = 0 THEN <<>> ELSE Then(f[n - 1], s[n])]

\* A list has such a function of its first pieces.
LEMMA JoinedExists ==
  ASSUME NEW s \in Pieces
  PROVE  \E f : Joined(f, s)
<1> DEFINE Upto(f, m) == f = [n \in 0 .. m |-> IF n = 0 THEN <<>> ELSE Then(f[n - 1], s[n])]
           E == {m \in Nat : \E f : Upto(f, m)}
<1>1. 0 \in E
  <2>1. Upto([n \in 0 .. 0 |-> <<>>], 0)
    OBVIOUS
  <2>2. QED
    BY <2>1
<1>2. ASSUME NEW m \in Nat, m \in E PROVE m + 1 \in E
  <2>1. PICK f : Upto(f, m)
    BY <1>2
  <2> DEFINE g == [n \in 0 .. m + 1 |-> IF n = m + 1 THEN Then(f[m], s[m + 1]) ELSE f[n]]
  <2>2. ASSUME NEW n \in 0 .. m + 1 PROVE g[n] = IF n = 0 THEN <<>> ELSE Then(g[n - 1], s[n])
    <3>1. \A i \in 0 .. m : g[i] = f[i] /\ f[i] = IF i = 0 THEN <<>> ELSE Then(f[i - 1], s[i])
      BY <2>1
    <3>2. g[m + 1] = Then(f[m], s[m + 1])
      OBVIOUS
    <3>3. CASE n = m + 1
      BY <3>1, <3>2, <3>3
    <3>4. CASE n # m + 1
      <4>1. n \in 0 .. m /\ (n # 0 => n - 1 \in 0 .. m)
        BY <3>4
      <4>2. g[n] = f[n] /\ f[n] = (IF n = 0 THEN <<>> ELSE Then(f[n - 1], s[n]))
        BY <3>1, <4>1
      <4>3. n # 0 => g[n - 1] = f[n - 1]
        BY <3>1, <4>1
      <4>4. QED
        BY <4>2, <4>3
    <3>5. QED
      BY <3>3, <3>4
  <2>3. g = [n \in 0 .. m + 1 |-> g[n]]
    OBVIOUS
  <2> HIDE DEF g
  <2>4. Upto(g, m + 1)
    BY <2>2, <2>3
  <2> HIDE DEF Upto
  <2>5. QED
    BY <2>4
<1>3. Len(s) \in E
  <2>1. Len(s) \in Nat
    BY DEF Pieces
  <2> HIDE DEF E
  <2>2. QED
    BY <1>1, <1>2, <2>1, EveryNumber
<1>4. QED
  BY <1>3 DEF Joined

\* Each of them is a piece of the stream, and begins the next one.
LEMMA JoinedPieces ==
  ASSUME NEW s \in Pieces, NEW f, Joined(f, s)
  PROVE  \A n \in 0 .. Len(s) : f[n] \in Seq(Bytes)
<1> DEFINE G == {n \in Nat : n <= Len(s) => f[n] \in Seq(Bytes)}
<1>1. Len(s) \in Nat /\ \A n \in 1 .. Len(s) : s[n] \in Seq(Bytes)
  BY DEF Pieces
<1>2. 0 \in G
  BY <1>1 DEF Joined
<1>3. ASSUME NEW n \in Nat, n \in G PROVE n + 1 \in G
  <2> SUFFICES ASSUME n + 1 <= Len(s) PROVE f[n + 1] \in Seq(Bytes)
    OBVIOUS
  <2>1. f[n + 1] = Then(f[n], s[n + 1])
    BY <1>1 DEF Joined
  <2>2. f[n] \in Seq(Bytes) /\ s[n + 1] \in Seq(Bytes)
    BY <1>1, <1>3
  <2> DEFINE a == f[n]
             b == s[n + 1]
  <2>3. Then(a, b) \in Seq(Bytes)
    <3>1. a \in Seq(Bytes) /\ b \in Seq(Bytes)
      BY <2>2
    <3> HIDE DEF a, b
    <3>2. QED
      BY <3>1, ThenPiece
  <2>4. QED
    BY <2>1, <2>3
<1> HIDE DEF G
<1>4. \A n \in Nat : n \in G
  BY <1>2, <1>3, EveryNumber
<1>5. QED
  BY <1>4 DEF G

\* g puts the first k pieces of s together.
JoinsFirst(g, s, k) == g[0] = <<>> /\ \A n \in 1 .. k : g[n] = Then(g[n - 1], s[n])

\* Whatever puts the first k pieces together gives the same.
LEMMA JoinedOnce ==
  ASSUME NEW s \in Pieces, NEW f, Joined(f, s), NEW g,
         NEW k \in Nat, k <= Len(s), JoinsFirst(g, s, k)
  PROVE  \A n \in 0 .. k : f[n] = g[n]
<1> DEFINE G == {n \in Nat : n <= k => f[n] = g[n]}
<1>1. Len(s) \in Nat /\ g[0] = <<>> /\ \A n \in 1 .. k : g[n] = Then(g[n - 1], s[n])
  BY DEF Pieces, JoinsFirst
<1>2. 0 \in G
  BY <1>1 DEF Joined
<1>3. ASSUME NEW n \in Nat, n \in G PROVE n + 1 \in G
  <2>1. n + 1 <= k => f[n + 1] = Then(f[n], s[n + 1])
    BY <1>1 DEF Joined
  <2>2. n + 1 <= k => g[n + 1] = Then(g[n], s[n + 1])
    BY <1>1
  <2>3. QED
    BY <1>3, <2>1, <2>2
<1> HIDE DEF G
<1>4. \A n \in Nat : n \in G
  BY <1>2, <1>3, EveryNumber
<1>5. QED
  BY <1>4 DEF G

\* FlattenSeq puts all of them together.
LEMMA FlatIs ==
  ASSUME NEW s \in Pieces, NEW f, Joined(f, s)
  PROVE  FlattenSeq(s) = f[Len(s)] /\ FlattenSeq(s) \in Seq(Bytes)
<1>1. Len(s) \in Nat /\ \A n \in 1 .. Len(s) : s[n] \in Seq(Bytes)
  BY DEF Pieces
<1>2. \A n \in 0 .. Len(s) : f[n] \in Seq(Bytes)
  BY JoinedPieces
<1>3. /\ f[0] = <<>>
      /\ \A n \in 1 .. Len(s) : f[n] = Then(f[n - 1], s[n])
  BY <1>1 DEF Joined
<1>4. CASE Len(s) = 0
  <2>1. FlattenSeq(s) = s
    BY <1>4 DEF FlattenSeq
  <2>2. s = <<>>
    BY <1>4 DEF Pieces
  <2>3. QED
    BY <1>2, <1>3, <1>4, <2>1, <2>2
<1>5. CASE Len(s) # 0
  <2> DEFINE IsFlat(h) == h = [i \in 1 .. Len(s) |-> IF i = 1 THEN s[i] ELSE Then(h[i - 1], s[i])]
             h == CHOOSE h : IsFlat(h)
             e == [i \in 1 .. Len(s) |-> f[i]]
  <2>1. ASSUME NEW i \in 1 .. Len(s) PROVE e[i] = IF i = 1 THEN s[i] ELSE Then(e[i - 1], s[i])
    <3>1. f[i] = Then(f[i - 1], s[i]) /\ e[i] = f[i]
      BY <1>3
    <3>2. CASE i = 1
      <4>1. f[1] = Then(<<>>, s[1]) /\ s[1] \in Seq(Bytes)
        BY <1>1, <1>3, <3>1, <3>2
      <4>2. QED
        BY <3>1, <3>2, <4>1, ThenPiece
    <3>3. CASE i # 1
      <4>1. e[i - 1] = f[i - 1]
        BY <1>1, <3>3
      <4>2. QED
        BY <3>1, <3>3, <4>1
    <3>4. QED
      BY <3>2, <3>3
  <2>2. e = [i \in 1 .. Len(s) |-> e[i]]
    OBVIOUS
  <2> HIDE DEF e
  <2>3. IsFlat(e)
    BY <2>1, <2>2
  <2>4. IsFlat(h)
    <3> HIDE DEF IsFlat
    <3>1. QED
      BY <2>3
  <2>5. FlattenSeq(s) = h[Len(s)]
    BY <1>5, Zenon DEF FlattenSeq, Then
  <2> HIDE DEF h
  <2> DEFINE g == [n \in 0 .. Len(s) |-> IF n = 0 THEN <<>> ELSE h[n]]
  <2>6. ASSUME NEW n \in 1 .. Len(s) PROVE g[n] = Then(g[n - 1], s[n])
    <3>1. h[n] = IF n = 1 THEN s[n] ELSE Then(h[n - 1], s[n])
      BY <2>4
    <3>2. g[n] = h[n] /\ g[n - 1] = IF n = 1 THEN <<>> ELSE h[n - 1]
      BY <1>1
    <3>3. s[n] \in Seq(Bytes) /\ Then(<<>>, s[n]) = s[n]
      BY <1>1, ThenPiece
    <3>4. QED
      BY <3>1, <3>2, <3>3
  <2>7. g[0] = <<>> /\ g[Len(s)] = h[Len(s)]
    BY <1>1, <1>5
  <2> HIDE DEF g
  <2>8. f[Len(s)] = g[Len(s)]
    <3>1. JoinsFirst(g, s, Len(s))
      BY <2>6, <2>7 DEF JoinsFirst
    <3>2. QED
      BY <1>1, <3>1, JoinedOnce
  <2>9. QED
    BY <1>1, <1>2, <2>5, <2>7, <2>8
<1>6. QED
  BY <1>4, <1>5

\* A list, the pieces put together, and the steps from one to the next.
LEMMA FlatFound ==
  ASSUME NEW s \in Pieces
  PROVE  \E f : /\ FlattenSeq(s) = f[Len(s)] /\ f[0] = <<>>
                /\ \A n \in 0 .. Len(s) : f[n] \in Seq(Bytes)
                /\ \A n \in 0 .. Len(s) - 1 : f[n + 1] = Then(f[n], s[n + 1])
                /\ Joined(f, s)
<1>1. PICK f : Joined(f, s)
  BY JoinedExists
<1>2. Len(s) \in Nat
  BY DEF Pieces
<1>3. f[0] = <<>> /\ \A n \in 0 .. Len(s) - 1 : f[n + 1] = Then(f[n], s[n + 1])
  BY <1>1, <1>2 DEF Joined
<1>4. QED
  BY <1>1, <1>3, FlatIs, JoinedPieces

\* An empty list has no bytes.
LEMMA FlatEmpty ==
  ASSUME NEW s \in Pieces, Len(s) = 0
  PROVE  FlattenSeq(s) = <<>>
BY FlatFound

\* A piece at the end.
LEMMA FlatAppend ==
  ASSUME NEW s \in Pieces, NEW x \in Seq(Bytes)
  PROVE  /\ Append(s, x) \in Pieces /\ FlattenSeq(s) \in Seq(Bytes)
         /\ FlattenSeq(Append(s, x)) = Then(FlattenSeq(s), x)
<1> DEFINE t == Append(s, x)
<1>1. /\ Len(s) \in Nat /\ t \in Pieces /\ Len(t) = Len(s) + 1
      /\ t[Len(s) + 1] = x /\ \A n \in 1 .. Len(s) : t[n] = s[n]
  BY DEF Pieces
<1> HIDE DEF t
<1>2. PICK f : /\ FlattenSeq(s) = f[Len(s)] /\ f[0] = <<>>
               /\ \A n \in 0 .. Len(s) : f[n] \in Seq(Bytes)
               /\ \A n \in 0 .. Len(s) - 1 : f[n + 1] = Then(f[n], s[n + 1])
               /\ Joined(f, s)
  BY FlatFound
<1>3. PICK g : /\ FlattenSeq(t) = g[Len(t)] /\ g[0] = <<>>
               /\ \A n \in 0 .. Len(t) - 1 : g[n + 1] = Then(g[n], t[n + 1])
  BY <1>1, FlatFound
<1>4. \A n \in 1 .. Len(s) : g[n] = Then(g[n - 1], s[n])
  <2> SUFFICES ASSUME NEW n \in 1 .. Len(s) PROVE g[n] = Then(g[n - 1], s[n])
    OBVIOUS
  <2>1. n - 1 \in 0 .. Len(t) - 1 /\ (n - 1) + 1 = n
    BY <1>1
  <2>2. g[n] = Then(g[n - 1], t[n])
    BY <1>3, <2>1
  <2>3. QED
    BY <1>1, <2>2
<1>5. \A n \in 0 .. Len(s) : f[n] = g[n]
  <2>1. Joined(f, s) /\ g[0] = <<>> /\ Len(s) <= Len(s) /\ Len(s) \in Nat
    BY <1>1, <1>2, <1>3
  <2>2. JoinsFirst(g, s, Len(s))
    BY <1>4, <2>1 DEF JoinsFirst
  <2>3. QED
    BY <2>1, <2>2, JoinedOnce
<1>6. f[Len(s)] = g[Len(s)] /\ f[Len(s)] \in Seq(Bytes)
  BY <1>1, <1>2, <1>5
<1>7. g[Len(s) + 1] = Then(g[Len(s)], x)
  BY <1>1, <1>3
<1>8. QED
  BY <1>1, <1>2, <1>3, <1>6, <1>7 DEF t

\* Pieces can be put together in any grouping.
LEMMA ThenAssociative ==
  ASSUME NEW a \in Seq(Bytes), NEW b \in Seq(Bytes), NEW c \in Seq(Bytes)
  PROVE  Then(Then(a, b), c) = Then(a, Then(b, c))
BY ConcatAssociative DEF Then

\* A piece at the front.
LEMMA FlatHead ==
  ASSUME NEW s \in Pieces, s # <<>>
  PROVE  /\ Tail(s) \in Pieces /\ s[1] \in Seq(Bytes) /\ FlattenSeq(Tail(s)) \in Seq(Bytes)
         /\ FlattenSeq(s) = Then(s[1], FlattenSeq(Tail(s)))
<1> DEFINE t == Tail(s)
<1>1. /\ Len(s) \in Nat /\ Len(s) > 0 /\ t \in Pieces /\ Len(t) = Len(s) - 1
      /\ \A n \in 1 .. Len(t) : t[n] = s[n + 1]
      /\ \A n \in 1 .. Len(s) : s[n] \in Seq(Bytes)
  BY DEF Pieces
<1> HIDE DEF t
<1>2. PICK f : /\ FlattenSeq(s) = f[Len(s)] /\ f[0] = <<>>
               /\ \A n \in 0 .. Len(s) - 1 : f[n + 1] = Then(f[n], s[n + 1])
  BY FlatFound
<1>3. PICK g : /\ FlattenSeq(t) = g[Len(t)] /\ g[0] = <<>>
               /\ \A n \in 0 .. Len(t) : g[n] \in Seq(Bytes)
               /\ \A n \in 0 .. Len(t) - 1 : g[n + 1] = Then(g[n], t[n + 1])
  BY <1>1, FlatFound
<1>4. s[1] \in Seq(Bytes)
  BY <1>1
<1> DEFINE G == {n \in Nat : n <= Len(t) => f[n + 1] = Then(s[1], g[n])}
<1>5. 0 \in G
  <2>1. f[0 + 1] = Then(f[0], s[0 + 1])
    BY <1>1, <1>2
  <2>2. Then(<<>>, s[1]) = s[1] /\ Then(s[1], <<>>) = s[1]
    BY <1>4, ThenPiece
  <2>3. QED
    BY <1>2, <1>3, <2>1, <2>2
<1>6. ASSUME NEW n \in Nat, n \in G PROVE n + 1 \in G
  <2> SUFFICES ASSUME n + 1 <= Len(t) PROVE f[n + 1 + 1] = Then(s[1], g[n + 1])
    OBVIOUS
  <2>1. f[n + 1] = Then(s[1], g[n])
    BY <1>1, <1>6
  <2>2. f[n + 1 + 1] = Then(f[n + 1], s[n + 1 + 1])
    BY <1>1, <1>2
  <2>3. g[n + 1] = Then(g[n], t[n + 1]) /\ t[n + 1] = s[n + 1 + 1] /\ g[n] \in Seq(Bytes)
        /\ t[n + 1] \in Seq(Bytes)
    BY <1>1, <1>3
  <2> DEFINE a == s[1]
             b == g[n]
             c == t[n + 1]
  <2>4. Then(Then(a, b), c) = Then(a, Then(b, c))
    <3>1. a \in Seq(Bytes) /\ b \in Seq(Bytes) /\ c \in Seq(Bytes)
      BY <1>4, <2>3
    <3> HIDE DEF a, b, c
    <3>2. QED
      BY <3>1, ThenAssociative
  <2>5. QED
    BY <2>1, <2>2, <2>3, <2>4
<1> HIDE DEF G
<1>7. Len(t) \in G
  BY <1>1, <1>5, <1>6, EveryNumber
<1>8. f[Len(t) + 1] = Then(s[1], g[Len(t)])
  BY <1>1, <1>7 DEF G
<1>9. f[Len(s)] = Then(s[1], g[Len(t)]) /\ g[Len(t)] \in Seq(Bytes)
  BY <1>1, <1>3, <1>8
<1>10. QED
  BY <1>1, <1>2, <1>3, <1>9 DEF t

\* A piece that begins another one.
Begins(a, b) == Len(a) <= Len(b) /\ \A i \in 1 .. Len(a) : a[i] = b[i]

\* A list that was cut: empty pieces from some place on.
LEMMA FlatCut ==
  ASSUME NEW s \in Pieces, NEW t \in Pieces, NEW k \in Nat, k <= Len(s), k <= Len(t),
         \A n \in 1 .. k : t[n] = s[n],
         \A n \in k + 1 .. Len(t) : t[n] = <<>>
  PROVE  /\ FlattenSeq(s) \in Seq(Bytes) /\ FlattenSeq(t) \in Seq(Bytes)
         /\ Begins(FlattenSeq(t), FlattenSeq(s))
<1>1. Len(s) \in Nat /\ Len(t) \in Nat /\ \A n \in 1 .. Len(s) : s[n] \in Seq(Bytes)
  BY DEF Pieces
<1>2. PICK f : /\ FlattenSeq(s) = f[Len(s)] /\ f[0] = <<>>
               /\ \A n \in 0 .. Len(s) : f[n] \in Seq(Bytes)
               /\ \A n \in 0 .. Len(s) - 1 : f[n + 1] = Then(f[n], s[n + 1])
               /\ Joined(f, s)
  BY FlatFound
<1>3. PICK g : /\ FlattenSeq(t) = g[Len(t)] /\ g[0] = <<>>
               /\ \A n \in 0 .. Len(t) : g[n] \in Seq(Bytes)
               /\ \A n \in 0 .. Len(t) - 1 : g[n + 1] = Then(g[n], t[n + 1])
  BY FlatFound
<1>4. f[k] = g[k]
  <2>1. \A n \in 1 .. k : g[n] = Then(g[n - 1], s[n])
    <3> SUFFICES ASSUME NEW n \in 1 .. k PROVE g[n] = Then(g[n - 1], s[n])
      OBVIOUS
    <3>1. n - 1 \in 0 .. Len(t) - 1 /\ (n - 1) + 1 = n
      BY <1>1
    <3>2. g[n] = Then(g[n - 1], t[n])
      BY <1>3, <3>1
    <3>3. QED
      BY <3>2
  <2>2. \A n \in 0 .. k : f[n] = g[n]
    <3>1. Joined(f, s) /\ g[0] = <<>>
      BY <1>2, <1>3
    <3>2. JoinsFirst(g, s, k)
      BY <2>1, <3>1 DEF JoinsFirst
    <3>3. QED
      BY <3>1, <3>2, JoinedOnce
  <2>3. QED
    BY <2>2
<1>5. g[Len(t)] = g[k]
  <2> DEFINE G == {n \in Nat : n >= k /\ n <= Len(t) => g[n] = g[k]}
  <2>1. 0 \in G
    OBVIOUS
  <2>2. ASSUME NEW n \in Nat, n \in G PROVE n + 1 \in G
    <3> SUFFICES ASSUME n + 1 >= k, n + 1 <= Len(t), n + 1 # k PROVE g[n + 1] = g[k]
      OBVIOUS
    <3>1. g[n] = g[k] /\ g[n] \in Seq(Bytes)
      BY <1>1, <1>3, <2>2
    <3>2. t[n + 1] = <<>>
      BY <1>1
    <3>3. g[n + 1] = Then(g[n], <<>>)
      BY <1>1, <1>3, <3>2
    <3> DEFINE a == g[n]
    <3>4. Then(a, <<>>) = a
      <4>1. a \in Seq(Bytes)
        BY <3>1
      <4> HIDE DEF a
      <4>2. <<>> \in Seq(Bytes)
        OBVIOUS
      <4>3. QED
        BY <4>1, <4>2, ThenPiece
    <3>5. QED
      BY <3>1, <3>3, <3>4
  <2> HIDE DEF G
  <2>3. Len(t) \in G
    BY <1>1, <2>1, <2>2, EveryNumber
  <2>4. QED
    BY <1>1, <2>3 DEF G
<1>6. Begins(f[k], f[Len(s)])
  <2> DEFINE G == {n \in Nat : n >= k /\ n <= Len(s) => Begins(f[k], f[n])}
  <2>1. f[k] \in Seq(Bytes) /\ Begins(f[k], f[k])
    BY <1>1, <1>2 DEF Begins
  <2>2. 0 \in G
    BY <2>1
  <2>3. ASSUME NEW n \in Nat, n \in G PROVE n + 1 \in G
    <3> SUFFICES ASSUME n + 1 >= k, n + 1 <= Len(s), n + 1 # k PROVE Begins(f[k], f[n + 1])
      BY <2>1
    <3>1. Begins(f[k], f[n]) /\ f[n] \in Seq(Bytes) /\ s[n + 1] \in Seq(Bytes)
      BY <1>1, <1>2, <2>3
    <3>2. f[n + 1] = Then(f[n], s[n + 1])
      BY <1>1, <1>2
    <3> DEFINE a == f[n]
               b == s[n + 1]
               c == f[k]
    <3>3. Begins(c, Then(a, b))
      <4>1. a \in Seq(Bytes) /\ b \in Seq(Bytes) /\ c \in Seq(Bytes) /\ Begins(c, a)
        BY <2>1, <3>1
      <4> HIDE DEF a, b, c
      <4>2. /\ Len(Then(a, b)) = Len(a) + Len(b)
            /\ \A i \in 1 .. Len(a) + Len(b) :
                 Then(a, b)[i] = IF i <= Len(a) THEN a[i] ELSE b[i - Len(a)]
        BY <4>1, ThenPiece
      <4>3. Len(a) \in Nat /\ Len(b) \in Nat /\ Len(c) \in Nat
        BY <4>1
      <4>4. QED
        BY <4>1, <4>2, <4>3 DEF Begins
    <3>4. QED
      BY <3>2, <3>3
  <2> HIDE DEF G
  <2>4. Len(s) \in G
    BY <1>1, <2>2, <2>3, EveryNumber
  <2>5. QED
    BY <1>1, <2>4 DEF G
<1>7. f[Len(s)] \in Seq(Bytes)
  BY <1>1, <1>2
<1>8. g[Len(t)] \in Seq(Bytes)
  BY <1>1, <1>3
<1>9. QED
  BY <1>2, <1>3, <1>4, <1>5, <1>6, <1>7, <1>8

\* A list of pieces of a buffer's length at most.
LEMMA FlatLength ==
  ASSUME NEW s \in Pieces, \A n \in 1 .. Len(s) : Len(s[n]) <= Size
  PROVE  Len(FlattenSeq(s)) <= Size * Len(s)
<1>1. Len(s) \in Nat /\ Size \in Nat /\ \A n \in 1 .. Len(s) : s[n] \in Seq(Bytes)
  BY SizeFacts DEF Pieces
<1>2. PICK f : /\ FlattenSeq(s) = f[Len(s)] /\ f[0] = <<>>
               /\ \A n \in 0 .. Len(s) : f[n] \in Seq(Bytes)
               /\ \A n \in 0 .. Len(s) - 1 : f[n + 1] = Then(f[n], s[n + 1])
  BY FlatFound
<1> DEFINE G == {n \in Nat : n <= Len(s) => Len(f[n]) <= Size * n}
<1>3. 0 \in G
  <2>1. Len(f[0]) = 0 /\ Size * 0 = 0
    BY <1>1, <1>2
  <2>2. QED
    BY <2>1
<1>4. ASSUME NEW n \in Nat, n \in G PROVE n + 1 \in G
  <2> SUFFICES ASSUME n + 1 <= Len(s) PROVE Len(f[n + 1]) <= Size * (n + 1)
    OBVIOUS
  <2>1. Len(f[n]) <= Size * n /\ f[n] \in Seq(Bytes)
    BY <1>1, <1>2, <1>4
  <2>2. f[n + 1] = Then(f[n], s[n + 1]) /\ s[n + 1] \in Seq(Bytes) /\ Len(s[n + 1]) <= Size
    BY <1>1, <1>2
  <2> DEFINE a == f[n]
             b == s[n + 1]
  <2>3. Len(Then(a, b)) = Len(a) + Len(b) /\ Len(a) \in Nat /\ Len(b) \in Nat
    <3>1. a \in Seq(Bytes) /\ b \in Seq(Bytes)
      BY <2>1, <2>2
    <3> HIDE DEF a, b
    <3>2. Len(a) \in Nat /\ Len(b) \in Nat
      BY <3>1
    <3>3. Len(Then(a, b)) = Len(a) + Len(b)
      BY <3>1, ThenPiece
    <3>4. QED
      BY <3>2, <3>3
  <2>4. Size * (n + 1) = Size * n + Size /\ Size * n \in Nat
    BY <1>1
  <2>5. Len(f[n + 1]) = Len(a) + Len(b) /\ Len(a) <= Size * n /\ Len(b) <= Size
    BY <2>1, <2>2, <2>3
  <2> DEFINE x == Size * n
             y == Size * (n + 1)
  <2>6. y = x + Size /\ x \in Nat /\ Len(a) <= x
    BY <2>4, <2>5
  <2> HIDE DEF a, b, x, y
  <2>7. Len(f[n + 1]) <= y
    BY <1>1, <2>3, <2>5, <2>6
  <2>8. QED
    BY <2>7 DEF y
<1> HIDE DEF G
<1>5. Len(s) \in G
  BY <1>1, <1>3, <1>4, EveryNumber
<1>6. QED
  BY <1>1, <1>2, <1>5 DEF G

-----------------------------------------------------------------------------
(* The bytes of the queue                                                    *)

\* The queue as a list of pieces: empty ones from the end mark on.
OpenAt(c, t, i) == \A j \in 1 .. i : t[c[j]] = "DATA"
OpenList(c, d, t) == [i \in DOMAIN c |-> IF OpenAt(c, t, i) THEN d[c[i]] ELSE <<>>]
QueuedOf(c, d, t) == FlattenSeq(OpenList(c, d, t))

\* Queue, contents and types as the invariant describes them.
Lawful(c, d, t) ==
  /\ c \in Seq(Pointers) /\ d \in [Buffers -> Seq(Bytes)]
  /\ t \in [Pointers -> {"DATA", "CLOSED"}]
  /\ t[Wild] = "CLOSED" \/ c \in Seq(Buffers)

\* The queue of the model, before and after a step.
LEMMA QueuedIs ==
  /\ Queued = QueuedOf(chan, data, type)
  /\ Queued' = QueuedOf(chan', data', type')
BY DEF Queued, Open, QueuedOf, OpenList, OpenAt

\* What an unmarked pointer of the queue points to is a buffer.
LEMMA OpenPieces ==
  ASSUME NEW c, NEW d, NEW t, Lawful(c, d, t)
  PROVE  /\ OpenList(c, d, t) \in Pieces /\ Len(OpenList(c, d, t)) = Len(c)
         /\ Len(c) \in Nat
         /\ \A i \in 1 .. Len(c) : OpenAt(c, t, i) => c[i] \in Buffers
         /\ \A i \in 1 .. Len(c) :
              OpenList(c, d, t)[i] = IF OpenAt(c, t, i) THEN d[c[i]] ELSE <<>>
<1> DEFINE s == OpenList(c, d, t)
<1>1. Len(c) \in Nat /\ DOMAIN c = 1 .. Len(c) /\ \A i \in 1 .. Len(c) : c[i] \in Pointers
  BY DEF Lawful
<1>2. ASSUME NEW i \in 1 .. Len(c), OpenAt(c, t, i) PROVE c[i] \in Buffers
  <2>1. t[c[i]] = "DATA"
    BY <1>1, <1>2 DEF OpenAt
  <2>2. QED
    BY <1>1, <2>1 DEF Lawful, Pointers
<1>3. \A i \in 1 .. Len(c) : s[i] = IF OpenAt(c, t, i) THEN d[c[i]] ELSE <<>>
  BY <1>1 DEF OpenList
<1>4. s \in [1 .. Len(c) -> Seq(Bytes)]
  <2>1. \A i \in 1 .. Len(c) : s[i] \in Seq(Bytes)
    <3> SUFFICES ASSUME NEW i \in 1 .. Len(c) PROVE s[i] \in Seq(Bytes)
      OBVIOUS
    <3>1. CASE OpenAt(c, t, i)
      BY <1>2, <1>3, <3>1 DEF Lawful
    <3>2. CASE ~OpenAt(c, t, i)
      <4>1. s[i] = <<>> /\ <<>> \in Seq(Bytes)
        BY <1>3, <3>2
      <4>2. QED
        BY <4>1
    <3>3. QED
      BY <3>1, <3>2
  <2>2. s = [i \in 1 .. Len(c) |-> s[i]]
    BY <1>1 DEF OpenList
  <2> HIDE DEF s
  <2>3. QED
    BY <2>1, <2>2
<1>5. s \in Pieces /\ Len(s) = Len(c)
  <2> HIDE DEF s
  <2>1. s \in Seq(Seq(Bytes))
    BY <1>1, <1>4, SeqDef
  <2>2. Len(s) = Len(c)
    BY <1>1, <1>4, <2>1, LenProperties
  <2>3. QED
    BY <2>1, <2>2 DEF Pieces
<1>6. QED
  BY <1>1, <1>2, <1>3, <1>5

\* The bytes of the queue are bytes of the stream, and not too many.
LEMMA QueuedBytes ==
  ASSUME NEW c, NEW d, NEW t, Lawful(c, d, t)
  PROVE  /\ QueuedOf(c, d, t) \in Seq(Bytes)
         /\ (\A b \in Buffers : Len(d[b]) <= Size) => Len(QueuedOf(c, d, t)) <= Size * Len(c)
<1> DEFINE s == OpenList(c, d, t)
<1>1. /\ s \in Pieces /\ Len(s) = Len(c)
      /\ \A i \in 1 .. Len(c) : OpenAt(c, t, i) => c[i] \in Buffers
      /\ \A i \in 1 .. Len(c) : s[i] = IF OpenAt(c, t, i) THEN d[c[i]] ELSE <<>>
  BY OpenPieces
<1>2. ASSUME \A b \in Buffers : Len(d[b]) <= Size PROVE \A i \in 1 .. Len(s) : Len(s[i]) <= Size
  <2>1. Len(<<>>) <= Size
    BY SizeFacts
  <2> HIDE DEF s
  <2>2. QED
    BY <1>1, <1>2, <2>1
<1> HIDE DEF s
<1>3. FlattenSeq(s) \in Seq(Bytes)
  BY <1>1, FlatFound, FlatIs
<1>4. ASSUME \A b \in Buffers : Len(d[b]) <= Size PROVE Len(FlattenSeq(s)) <= Size * Len(s)
  BY <1>1, <1>2, <1>4, FlatLength
<1>5. QED
  BY <1>1, <1>3, <1>4 DEF QueuedOf, s

\* A buffer that is not in the queue does not matter.
LEMMA QueuedSame ==
  ASSUME NEW c, NEW d, NEW t, NEW e, \A i \in DOMAIN c : e[c[i]] = d[c[i]]
  PROVE  QueuedOf(c, e, t) = QueuedOf(c, d, t)
<1>1. OpenList(c, e, t) = OpenList(c, d, t)
  BY DEF OpenList
<1>2. QED
  BY <1>1 DEF QueuedOf

\* A buffer is put into the queue.
LEMMA QueuedPut ==
  ASSUME NEW c \in Seq(Buffers), NEW d, NEW t, Lawful(c, d, t), NEW b \in Buffers,
         \A p \in Pointers : t[p] = "DATA"
  PROVE  /\ QueuedOf(c, d, t) \in Seq(Bytes)
         /\ QueuedOf(Append(c, b), d, t) = Then(QueuedOf(c, d, t), d[b])
<1> DEFINE s == OpenList(c, d, t)
           c2 == Append(c, b)
           s2 == OpenList(c2, d, t)
<1>1. /\ Len(c) \in Nat /\ c2 \in Seq(Buffers) /\ Len(c2) = Len(c) + 1
      /\ c2[Len(c) + 1] = b /\ \A i \in 1 .. Len(c) : c2[i] = c[i] /\ c[i] \in Buffers
      /\ DOMAIN c = 1 .. Len(c) /\ DOMAIN c2 = 1 .. Len(c) + 1
  OBVIOUS
<1>2. Lawful(c2, d, t)
  <2>1. c2 \in Seq(Pointers)
    BY <1>1 DEF Pointers
  <2>2. QED
    BY <1>1, <2>1 DEF Lawful
<1>3. s \in Pieces /\ s2 \in Pieces /\ Len(s) = Len(c) /\ Len(s2) = Len(c) + 1
  BY <1>1, <1>2, OpenPieces
<1>4. d[b] \in Seq(Bytes)
  BY DEF Lawful
<1>5. \A i \in 1 .. Len(c) : OpenAt(c, t, i)
  BY <1>1 DEF OpenAt, Pointers
<1>6. \A i \in 1 .. Len(c) + 1 : OpenAt(c2, t, i)
  BY <1>1 DEF OpenAt, Pointers
<1>7. \A i \in 1 .. Len(c) : s2[i] = d[c[i]] /\ s[i] = d[c[i]]
  BY <1>1, <1>5, <1>6 DEF OpenList
<1>8. s2[Len(c) + 1] = d[b]
  BY <1>1, <1>6 DEF OpenList
<1> HIDE DEF s, s2
<1>9. s2 = Append(s, d[b])
  <2> DEFINE x == d[b]
  <2>1. x \in Seq(Bytes)
    BY <1>4
  <2> HIDE DEF x
  <2>2. s \in Seq(Seq(Bytes)) /\ s2 \in Seq(Seq(Bytes))
    BY <1>3 DEF Pieces
  <2> DEFINE T == Seq(Bytes)
  <2> HIDE DEF T
  <2>3. /\ Append(s, x) \in Seq(T) /\ Len(Append(s, x)) = Len(s) + 1
        /\ Append(s, x)[Len(s) + 1] = x
        /\ \A i \in 1 .. Len(s) : Append(s, x)[i] = s[i]
    BY <2>1, <2>2, AppendProperties DEF T
  <2>4. \A i \in 1 .. Len(s2) : s2[i] = Append(s, x)[i]
    BY <1>1, <1>3, <1>7, <1>8, <2>3 DEF x
  <2>5. s2 \in Seq(T)
    BY <2>2 DEF T
  <2>6. s2 = Append(s, x)
    BY <1>3, <2>3, <2>4, <2>5, SeqEqual
  <2>7. QED
    BY <2>6 DEF x
<1>10. FlattenSeq(s) \in Seq(Bytes) /\ FlattenSeq(Append(s, d[b])) = Then(FlattenSeq(s), d[b])
  <2> DEFINE x == d[b]
  <2>1. x \in Seq(Bytes)
    BY <1>4
  <2> HIDE DEF x
  <2>2. FlattenSeq(s) \in Seq(Bytes) /\ FlattenSeq(Append(s, x)) = Then(FlattenSeq(s), x)
    BY <1>3, <2>1, FlatAppend
  <2>3. QED
    BY <2>2 DEF x
<1>11. QED
  BY <1>9, <1>10, Zenon DEF QueuedOf, s, s2

\* The sender takes a buffer with data from the queue.
LEMMA QueuedTaken ==
  ASSUME NEW c, NEW d, NEW t, Lawful(c, d, t), c # <<>>, t[c[1]] = "DATA"
  PROVE  /\ QueuedOf(Tail(c), d, t) \in Seq(Bytes) /\ c[1] \in Buffers
         /\ QueuedOf(c, d, t) = Then(d[c[1]], QueuedOf(Tail(c), d, t))
<1> DEFINE s == OpenList(c, d, t)
           c2 == Tail(c)
           s2 == OpenList(c2, d, t)
<1>1. /\ Len(c) \in Nat /\ Len(c) > 0 /\ Len(c2) = Len(c) - 1 /\ c2 \in Seq(Pointers)
      /\ \A i \in 1 .. Len(c2) : c2[i] = c[i + 1]
      /\ DOMAIN c = 1 .. Len(c) /\ DOMAIN c2 = 1 .. Len(c) - 1
  BY DEF Lawful
<1>2. Lawful(c2, d, t)
  <2>1. c \in Seq(Buffers) => c2 \in Seq(Buffers)
    OBVIOUS
  <2>2. QED
    BY <1>1, <2>1 DEF Lawful
<1>3. /\ s \in Pieces /\ s2 \in Pieces /\ Len(s) = Len(c) /\ Len(s2) = Len(c2)
      /\ \A i \in 1 .. Len(c) : OpenAt(c, t, i) => c[i] \in Buffers
      /\ \A i \in 1 .. Len(c) : s[i] = IF OpenAt(c, t, i) THEN d[c[i]] ELSE <<>>
      /\ \A i \in 1 .. Len(c2) : s2[i] = IF OpenAt(c2, t, i) THEN d[c2[i]] ELSE <<>>
  BY <1>2, OpenPieces
<1>4. OpenAt(c, t, 1)
  BY DEF OpenAt
<1>5. \A i \in 1 .. Len(c2) : OpenAt(c2, t, i) <=> OpenAt(c, t, i + 1)
  <2> SUFFICES ASSUME NEW i \in 1 .. Len(c2) PROVE OpenAt(c2, t, i) <=> OpenAt(c, t, i + 1)
    OBVIOUS
  <2>1. ASSUME OpenAt(c2, t, i), NEW j \in 1 .. i + 1 PROVE t[c[j]] = "DATA"
    <3>1. CASE j = 1
      BY <3>1
    <3>2. CASE j # 1
      <4>1. j - 1 \in 1 .. i /\ j - 1 \in 1 .. Len(c2) /\ (j - 1) + 1 = j
        BY <1>1, <3>2
      <4>2. t[c2[j - 1]] = "DATA" /\ c2[j - 1] = c[j]
        BY <1>1, <2>1, <4>1 DEF OpenAt
      <4>3. QED
        BY <4>2
    <3>3. QED
      BY <3>1, <3>2
  <2>2. ASSUME OpenAt(c, t, i + 1), NEW j \in 1 .. i PROVE t[c2[j]] = "DATA"
    BY <1>1, <2>2 DEF OpenAt
  <2>3. QED
    BY <2>1, <2>2 DEF OpenAt
<1>6. s[1] = d[c[1]] /\ c[1] \in Buffers
  BY <1>1, <1>3, <1>4
<1>7. \A i \in 1 .. Len(c2) : s2[i] = s[i + 1]
  BY <1>1, <1>3, <1>5
<1> HIDE DEF s, s2, c2
<1>8. s # <<>>
  BY <1>1, <1>3
<1>9. s2 = Tail(s)
  <2> DEFINE T == Seq(Bytes)
  <2> HIDE DEF T
  <2>1. s \in Seq(T) /\ s2 \in Seq(T)
    BY <1>3 DEF Pieces, T
  <2>2. /\ Tail(s) \in Seq(T) /\ Len(Tail(s)) = Len(s) - 1
        /\ \A i \in 1 .. Len(Tail(s)) : Tail(s)[i] = s[i + 1]
    BY <2>1, <1>8
  <2>3. Len(s2) = Len(Tail(s)) /\ \A i \in 1 .. Len(s2) : s2[i] = Tail(s)[i]
    BY <1>1, <1>3, <1>7, <2>2
  <2> DEFINE u == Tail(s)
  <2>4. u \in Seq(T) /\ Len(s2) = Len(u) /\ \A i \in 1 .. Len(s2) : s2[i] = u[i]
    BY <2>2, <2>3
  <2> HIDE DEF u
  <2>5. s2 = u
    BY <2>1, <2>4, SeqEqual
  <2>6. QED
    BY <2>5 DEF u
<1>10. FlattenSeq(Tail(s)) \in Seq(Bytes) /\ FlattenSeq(s) = Then(s[1], FlattenSeq(Tail(s)))
  BY <1>3, <1>8, FlatHead
<1>11. QED
  BY <1>6, <1>9, <1>10, Zenon DEF QueuedOf, s, s2, c2

\* Behind an end mark nothing is sent.
LEMMA QueuedEnd ==
  ASSUME NEW c, NEW d, NEW t, Lawful(c, d, t), c # <<>> => t[c[1]] # "DATA"
  PROVE  QueuedOf(c, d, t) = <<>>
<1> DEFINE s == OpenList(c, d, t)
<1>1. /\ s \in Pieces /\ Len(s) = Len(c) /\ Len(c) \in Nat
      /\ \A i \in 1 .. Len(c) : s[i] = IF OpenAt(c, t, i) THEN d[c[i]] ELSE <<>>
  BY OpenPieces
<1>2. \A i \in 1 .. Len(c) : ~OpenAt(c, t, i)
  <2> SUFFICES ASSUME NEW i \in 1 .. Len(c), OpenAt(c, t, i) PROVE FALSE
    OBVIOUS
  <2>1. 1 \in 1 .. i /\ c # <<>>
    BY <1>1
  <2>2. QED
    BY <2>1 DEF OpenAt
<1>3. \A i \in 1 .. Len(c) : s[i] = <<>>
  BY <1>1, <1>2
<1> HIDE DEF s
<1> DEFINE e == <<>>
<1>4. e \in Pieces /\ Len(e) = 0
  BY DEF Pieces
<1>5. FlattenSeq(e) = <<>>
  BY <1>4, FlatEmpty
<1> HIDE DEF e
<1>6. FlattenSeq(s) \in Seq(Bytes) /\ Begins(FlattenSeq(s), FlattenSeq(e))
  <2>1. \A n \in 0 + 1 .. Len(s) : s[n] = <<>>
    BY <1>1, <1>3
  <2>2. \A n \in 1 .. 0 : s[n] = e[n]
    OBVIOUS
  <2>3. 0 <= Len(s) /\ 0 <= Len(e) /\ 0 \in Nat
    BY <1>1, <1>4
  <2>4. QED
    BY <1>1, <1>4, <2>1, <2>2, <2>3, FlatCut
<1>7. Len(FlattenSeq(s)) <= 0
  BY <1>5, <1>6 DEF Begins
<1>8. QED
  BY <1>6, <1>7 DEF QueuedOf, s

\* A pointer is marked and put into the queue: what is left begins what there was.
LEMMA QueuedMarked ==
  ASSUME NEW c \in Seq(Buffers), NEW d, NEW t, Lawful(c, d, t), NEW p \in Pointers,
         \A q \in Pointers : t[q] = "DATA"
  PROVE  LET c2 == Append(c, p)
             t2 == [t EXCEPT ![p] = "CLOSED"]
         IN  /\ QueuedOf(c, d, t) \in Seq(Bytes)
             /\ Lawful(c2, d, t2) =>
                  /\ QueuedOf(c2, d, t2) \in Seq(Bytes)
                  /\ Begins(QueuedOf(c2, d, t2), QueuedOf(c, d, t))
<1> DEFINE c2 == Append(c, p)
           t2 == [t EXCEPT ![p] = "CLOSED"]
           s == OpenList(c, d, t)
           s2 == OpenList(c2, d, t2)
<1>0. QueuedOf(c, d, t) \in Seq(Bytes)
  BY QueuedBytes
<1> SUFFICES ASSUME Lawful(c2, d, t2)
             PROVE  /\ QueuedOf(c2, d, t2) \in Seq(Bytes)
                    /\ Begins(QueuedOf(c2, d, t2), QueuedOf(c, d, t))
  BY <1>0
<1>1. /\ Len(c) \in Nat /\ c2 \in Seq(Pointers) /\ Len(c2) = Len(c) + 1
      /\ c2[Len(c) + 1] = p /\ \A i \in 1 .. Len(c) : c2[i] = c[i] /\ c[i] \in Pointers
  BY DEF Pointers
<1>2. \A q \in Pointers : t2[q] = IF q = p THEN "CLOSED" ELSE "DATA"
  BY DEF Lawful
<1>3. /\ s \in Pieces /\ s2 \in Pieces /\ Len(s) = Len(c) /\ Len(s2) = Len(c) + 1
      /\ \A i \in 1 .. Len(c) : s[i] = IF OpenAt(c, t, i) THEN d[c[i]] ELSE <<>>
      /\ \A i \in 1 .. Len(c) + 1 : s2[i] = IF OpenAt(c2, t2, i) THEN d[c2[i]] ELSE <<>>
  <2>1. /\ s \in Pieces /\ Len(s) = Len(c)
        /\ \A i \in 1 .. Len(c) : s[i] = IF OpenAt(c, t, i) THEN d[c[i]] ELSE <<>>
    BY OpenPieces
  <2> HIDE DEF c2, t2
  <2>2. /\ s2 \in Pieces /\ Len(s2) = Len(c2)
        /\ \A i \in 1 .. Len(c2) : s2[i] = IF OpenAt(c2, t2, i) THEN d[c2[i]] ELSE <<>>
    BY OpenPieces
  <2>3. QED
    BY <1>1, <2>1, <2>2
<1>4. \A i \in 1 .. Len(c) : OpenAt(c, t, i)
  BY <1>1 DEF OpenAt
<1> DEFINE I == {i \in 1 .. Len(c) + 1 : c2[i] = p}
<1>5. PICK m \in I : \A i \in I : m <= i
  <2>1. I \subseteq Nat /\ I # {}
    BY <1>1
  <2> HIDE DEF I
  <2>2. QED
    BY <2>1, LeastNumber
<1>6. m \in 1 .. Len(c) + 1 /\ c2[m] = p /\ \A i \in 1 .. m - 1 : c2[i] # p
  BY <1>1, <1>5
<1> HIDE DEF c2, t2, s, s2, I
<1>7. \A i \in 1 .. m - 1 : OpenAt(c2, t2, i) /\ c2[i] = c[i]
  <2> SUFFICES ASSUME NEW i \in 1 .. m - 1 PROVE OpenAt(c2, t2, i) /\ c2[i] = c[i]
    OBVIOUS
  <2>1. \A j \in 1 .. i : c2[j] # p /\ c2[j] \in Pointers
    BY <1>1, <1>6
  <2>2. QED
    BY <1>1, <1>2, <1>6, <2>1 DEF OpenAt
<1>8. \A i \in m .. Len(c) + 1 : ~OpenAt(c2, t2, i)
  <2> SUFFICES ASSUME NEW i \in m .. Len(c) + 1, OpenAt(c2, t2, i) PROVE FALSE
    OBVIOUS
  <2>1. m \in 1 .. i
    BY <1>1, <1>6
  <2>2. t2[c2[m]] = "DATA"
    BY <2>1 DEF OpenAt
  <2>3. QED
    BY <1>2, <1>6, <2>2
<1>9. \A i \in 1 .. m - 1 : s2[i] = s[i]
  BY <1>1, <1>3, <1>4, <1>6, <1>7
<1>10. \A i \in (m - 1) + 1 .. Len(s2) : s2[i] = <<>>
  BY <1>1, <1>3, <1>6, <1>8
<1>11. m - 1 \in Nat /\ m - 1 <= Len(s) /\ m - 1 <= Len(s2)
  BY <1>1, <1>3, <1>6
<1>12. FlattenSeq(s2) \in Seq(Bytes) /\ Begins(FlattenSeq(s2), FlattenSeq(s))
  BY <1>3, <1>9, <1>10, <1>11, FlatCut
<1>13. QED
  BY <1>12 DEF QueuedOf, s, s2

-----------------------------------------------------------------------------
(* The backlog: rest of the sender, queue, buffer being filled               *)

\* The three parts put together.
Whole(r, q, f) == Then(Then(r, q), f)

\* Length and first bytes of a backlog.
LEMMA WholeBytes ==
  ASSUME NEW r \in Seq(Bytes), NEW q \in Seq(Bytes), NEW f \in Seq(Bytes)
  PROVE  /\ Whole(r, q, f) \in Seq(Bytes)
         /\ Len(Whole(r, q, f)) = Len(r) + Len(q) + Len(f)
         /\ \A i \in 1 .. Len(r) : Whole(r, q, f)[i] = r[i]
<1> DEFINE a == Then(r, q)
<1>1. /\ a \in Seq(Bytes) /\ Len(a) = Len(r) + Len(q)
      /\ \A i \in 1 .. Len(r) + Len(q) : a[i] = IF i <= Len(r) THEN r[i] ELSE q[i - Len(r)]
  BY ThenPiece
<1> HIDE DEF a
<1>2. /\ Then(a, f) \in Seq(Bytes) /\ Len(Then(a, f)) = Len(a) + Len(f)
      /\ \A i \in 1 .. Len(a) + Len(f) : Then(a, f)[i] = IF i <= Len(a) THEN a[i] ELSE f[i - Len(a)]
  BY <1>1, ThenPiece
<1>3. Len(r) \in Nat /\ Len(q) \in Nat /\ Len(f) \in Nat
  OBVIOUS
<1> DEFINE w == Then(a, f)
<1> HIDE DEF w
<1>4. /\ w \in Seq(Bytes) /\ Len(w) = Len(a) + Len(f)
      /\ \A i \in 1 .. Len(a) + Len(f) : w[i] = IF i <= Len(a) THEN a[i] ELSE f[i - Len(a)]
  BY <1>2 DEF w
<1>5. Len(w) = Len(r) + Len(q) + Len(f)
  BY <1>1, <1>3, <1>4
<1>6. \A i \in 1 .. Len(r) : w[i] = r[i]
  BY <1>1, <1>3, <1>4
<1>7. QED
  BY <1>4, <1>5, <1>6 DEF w, a, Whole

\* A read: the bytes lie behind the backlog, in the buffer or at the end of the queue.
LEMMA WholeRead ==
  ASSUME NEW r \in Seq(Bytes), NEW q \in Seq(Bytes), NEW f \in Seq(Bytes), NEW k \in Seq(Bytes)
  PROVE  /\ Whole(r, q, Then(f, k)) = Then(Whole(r, q, f), k)
         /\ Whole(r, Then(q, Then(f, k)), <<>>) = Then(Whole(r, q, f), k)
<1> DEFINE a == Then(r, q)
           g == Then(f, k)
<1>1. a \in Seq(Bytes) /\ g \in Seq(Bytes)
  BY ThenPiece
<1>2. Then(Then(a, f), k) = Then(a, g)
  <2>1. \A x \in Seq(Bytes) : Then(Then(x, f), k) = Then(x, Then(f, k))
    BY ThenAssociative
  <2> HIDE DEF a
  <2>2. QED
    BY <1>1, <2>1
<1>3. Then(r, Then(q, g)) = Then(a, g)
  <2>1. \A x \in Seq(Bytes) : Then(Then(r, q), x) = Then(r, Then(q, x))
    BY ThenAssociative
  <2> HIDE DEF g
  <2>2. QED
    BY <1>1, <2>1
<1>4. Then(Then(a, g), <<>>) = Then(a, g)
  <2>1. \A x, y \in Seq(Bytes) : Then(x, y) \in Seq(Bytes) /\ Then(x, <<>>) = x
    BY ThenPiece
  <2> HIDE DEF a, g
  <2>2. QED
    BY <1>1, <2>1
<1>5. QED
  BY <1>2, <1>3, <1>4, Zenon DEF Whole

\* A take: the head of the queue becomes the rest of the sender.
LEMMA WholeTaken ==
  ASSUME NEW h \in Seq(Bytes), NEW q \in Seq(Bytes), NEW f \in Seq(Bytes)
  PROVE  Whole(<<>>, Then(h, q), f) = Whole(h, q, f)
<1>1. Then(h, q) \in Seq(Bytes) /\ \A x \in Seq(Bytes) : Then(<<>>, x) = x
  BY ThenPiece
<1>2. Then(<<>>, Then(h, q)) = Then(h, q)
  BY <1>1
<1>3. QED
  BY <1>2, Zenon DEF Whole

\* One list of bytes begins another: it is what an abandoned stream keeps.
LEMMA BeginsCut ==
  ASSUME NEW a \in Seq(Bytes), NEW b \in Seq(Bytes), Begins(a, b)
  PROVE  Len(a) \in Nat /\ Len(a) <= Len(b) /\ a = SubSeq(b, 1, Len(a))
<1>1. Len(a) \in Nat /\ Len(b) \in Nat /\ Len(a) <= Len(b)
  BY DEF Begins
<1> DEFINE c == SubSeq(b, 1, Len(a))
<1>2. c \in Seq(Bytes) /\ Len(c) = Len(a) /\ \A i \in 1 .. Len(a) : c[i] = b[i]
  BY <1>1
<1> HIDE DEF c
<1>3. \A i \in 1 .. Len(a) : a[i] = c[i]
  BY <1>2 DEF Begins
<1>4. a = c
  BY <1>2, <1>3, SeqEqual
<1>5. QED
  BY <1>1, <1>4 DEF c

\* A piece before the rest of the sender.
LEMMA WholeBehind ==
  ASSUME NEW e \in Seq(Bytes), NEW r \in Seq(Bytes), NEW q \in Seq(Bytes), NEW f \in Seq(Bytes)
  PROVE  Whole(Then(e, r), q, f) = Then(e, Whole(r, q, f))
<1> DEFINE x == Then(r, q)
<1>1. x \in Seq(Bytes)
  BY ThenPiece
<1>2. Then(Then(e, r), q) = Then(e, x)
  BY ThenAssociative
<1> HIDE DEF x
<1>3. Then(Then(e, x), f) = Then(e, Then(x, f))
  BY <1>1, ThenAssociative
<1>4. QED
  BY <1>2, <1>3, Zenon DEF Whole, x

\* The first bytes of the rest of the sender are written.
LEMMA WholeEchoed ==
  ASSUME NEW r \in Seq(Bytes), NEW q \in Seq(Bytes), NEW f \in Seq(Bytes),
         NEW k \in 1 .. Len(r), NEW s \in Seq(Bytes), s = SubSeq(r, k + 1, Len(r))
  PROVE  /\ k <= Len(Whole(r, q, f)) /\ Whole(r, q, f)[k] = r[k]
         /\ Whole(s, q, f) = SubSeq(Whole(r, q, f), k + 1, Len(Whole(r, q, f)))
<1> DEFINE e == SubSeq(r, 1, k)
<1>1. /\ e \in Seq(Bytes) /\ Len(e) = k /\ Len(s) = Len(r) - k /\ Len(r) \in Nat
      /\ \A i \in 1 .. k : e[i] = r[i]
      /\ \A i \in 1 .. Len(s) : s[i] = r[k + i]
  OBVIOUS
<1> HIDE DEF e
<1>2. /\ Then(e, s) \in Seq(Bytes) /\ Len(Then(e, s)) = Len(e) + Len(s)
      /\ \A i \in 1 .. Len(e) + Len(s) :
           Then(e, s)[i] = IF i <= Len(e) THEN e[i] ELSE s[i - Len(e)]
  BY <1>1, ThenPiece
<1>3. r = Then(e, s)
  <2> DEFINE t == Then(e, s)
  <2> HIDE DEF t
  <2>1. t \in Seq(Bytes) /\ Len(t) = Len(r)
    BY <1>1, <1>2 DEF t
  <2>2. \A i \in 1 .. Len(r) : r[i] = t[i]
    <3> SUFFICES ASSUME NEW i \in 1 .. Len(r) PROVE r[i] = t[i]
      OBVIOUS
    <3>1. CASE i <= k
      BY <1>1, <1>2, <3>1 DEF t
    <3>2. CASE ~(i <= k)
      <4>1. i - k \in 1 .. Len(s) /\ k + (i - k) = i
        BY <1>1, <3>2
      <4>2. t[i] = s[i - k] /\ s[i - k] = r[i]
        BY <1>1, <1>2, <3>2, <4>1 DEF t
      <4>3. QED
        BY <4>2
    <3>3. QED
      BY <3>1, <3>2
  <2>3. r = t
    BY <2>1, <2>2, SeqEqual
  <2>4. QED
    BY <2>3 DEF t
<1> DEFINE w == Whole(r, q, f)
           v == Whole(s, q, f)
<1>4. w = Then(e, v)
  <2>1. \A x, y \in Seq(Bytes) : Whole(Then(x, y), q, f) = Then(x, Whole(y, q, f))
    BY WholeBehind
  <2>2. Whole(Then(e, s), q, f) = Then(e, v)
    BY <1>1, <2>1, Zenon
  <2>3. QED
    BY <1>3, <2>2, Zenon
<1>5. v \in Seq(Bytes) /\ w \in Seq(Bytes) /\ w[k] = r[k] /\ Len(w) = Len(r) + Len(q) + Len(f)
  <2>1. v \in Seq(Bytes)
    BY WholeBytes
  <2>2. /\ w \in Seq(Bytes) /\ Len(w) = Len(r) + Len(q) + Len(f)
        /\ \A i \in 1 .. Len(r) : w[i] = r[i]
    BY WholeBytes
  <2>3. QED
    BY <2>1, <2>2
<1> HIDE DEF w, v
<1>6. /\ Len(w) = Len(e) + Len(v) /\ Len(v) \in Nat /\ Len(w) \in Nat
      /\ \A i \in 1 .. Len(e) + Len(v) : w[i] = IF i <= Len(e) THEN e[i] ELSE v[i - Len(e)]
  <2>1. /\ Len(Then(e, v)) = Len(e) + Len(v)
        /\ \A i \in 1 .. Len(e) + Len(v) :
             Then(e, v)[i] = IF i <= Len(e) THEN e[i] ELSE v[i - Len(e)]
    BY <1>1, <1>5, ThenPiece
  <2>2. Len(v) \in Nat /\ Len(w) \in Nat
    BY <1>5
  <2>3. QED
    BY <1>4, <2>1, <2>2
<1> DEFINE u == SubSeq(w, k + 1, Len(w))
<1>7. /\ u \in Seq(Bytes) /\ Len(u) = Len(w) - k
      /\ \A i \in 1 .. Len(u) : u[i] = w[k + i]
  BY <1>1, <1>5, <1>6
<1> HIDE DEF u
<1>8. \A i \in 1 .. Len(v) : v[i] = u[i]
  <2> SUFFICES ASSUME NEW i \in 1 .. Len(v) PROVE v[i] = u[i]
    OBVIOUS
  <2>1. k + i \in 1 .. Len(e) + Len(v) /\ k + i > Len(e) /\ (k + i) - Len(e) = i
    BY <1>1, <1>6
  <2>2. w[k + i] = v[i]
    BY <1>6, <2>1
  <2>3. i \in 1 .. Len(u)
    BY <1>1, <1>6, <1>7
  <2>4. QED
    BY <1>7, <2>2, <2>3
<1>9. v = u
  BY <1>1, <1>5, <1>6, <1>7, <1>8, SeqEqual
<1>10. k <= Len(w)
  BY <1>1, <1>6
<1>11. QED
  BY <1>5, <1>9, <1>10 DEF w, v, u

\* The end of a session: the buffer being filled is dropped, the queue is cut.
LEMMA WholeCut ==
  ASSUME NEW r \in Seq(Bytes), NEW q \in Seq(Bytes), NEW f \in Seq(Bytes),
         NEW p \in Seq(Bytes), Begins(p, q)
  PROVE  Begins(Whole(r, p, <<>>), Whole(r, q, f))
<1> DEFINE a == Then(r, q)
           b == Then(r, p)
           e == <<>>
<1>1. \A x, y \in Seq(Bytes) :
        /\ Then(x, y) \in Seq(Bytes) /\ Len(Then(x, y)) = Len(x) + Len(y)
        /\ \A i \in 1 .. Len(x) + Len(y) :
             Then(x, y)[i] = IF i <= Len(x) THEN x[i] ELSE y[i - Len(x)]
  BY ThenPiece
<1>2. a \in Seq(Bytes) /\ b \in Seq(Bytes) /\ Then(b, e) = b
  BY <1>1, ThenPiece
<1>3. Begins(b, a)
  <2>1. Len(r) \in Nat /\ Len(q) \in Nat /\ Len(p) \in Nat /\ Len(p) <= Len(q)
    BY DEF Begins
  <2>2. Len(a) = Len(r) + Len(q) /\ Len(b) = Len(r) + Len(p)
    BY <1>1
  <2>3. ASSUME NEW i \in 1 .. Len(r) + Len(p) PROVE b[i] = a[i]
    <3>1. /\ b[i] = IF i <= Len(r) THEN r[i] ELSE p[i - Len(r)]
          /\ a[i] = IF i <= Len(r) THEN r[i] ELSE q[i - Len(r)]
      BY <1>1, <2>1
    <3>2. i > Len(r) => p[i - Len(r)] = q[i - Len(r)]
      BY <2>1 DEF Begins
    <3>3. QED
      BY <2>1, <3>1, <3>2
  <2> HIDE DEF a, b
  <2>4. QED
    BY <2>1, <2>2, <2>3 DEF Begins
<1> HIDE DEF a, b, e
<1>4. Begins(b, Then(a, f))
  <2>1. Len(a) \in Nat /\ Len(b) \in Nat /\ Len(f) \in Nat /\ Len(b) <= Len(a)
    BY <1>2, <1>3 DEF Begins
  <2> DEFINE g == Then(a, f)
  <2>2. /\ Len(g) = Len(a) + Len(f)
        /\ \A i \in 1 .. Len(a) + Len(f) : g[i] = IF i <= Len(a) THEN a[i] ELSE f[i - Len(a)]
    BY <1>2, ThenPiece
  <2> HIDE DEF g
  <2>3. \A i \in 1 .. Len(a) : g[i] = a[i]
    BY <2>1, <2>2
  <2>4. Begins(b, g)
    BY <1>3, <2>1, <2>2, <2>3 DEF Begins
  <2>5. QED
    BY <2>4 DEF g
<1>5. QED
  BY <1>2, <1>4, Zenon DEF Whole, a, b, e

-----------------------------------------------------------------------------
(* The steps of the two tasks are steps of the loopback                      *)

\* The backlog as a whole, before and after a step.
LEMMA BacklogIs ==
  /\ Backlog = IF txPc = "exited" /\ ~InSession THEN <<>>
               ELSE Whole(RestOfSender, QueuedOf(chan, data, type), Filling)
  /\ Backlog' = IF txPc' = "exited" /\ ~InSession' THEN <<>>
                ELSE Whole(RestOfSender', QueuedOf(chan', data', type'), Filling')
BY QueuedIs, Zenon DEF Backlog, Whole, Then

\* The invariant bounds the parts of the backlog, and outside a read the whole of it.
LEMMA BacklogParts ==
  TcpInv => /\ Lawful(chan, data, type)
            /\ QueuedOf(chan, data, type) \in Seq(Bytes)
            /\ RestOfSender \in Seq(Bytes) /\ Len(RestOfSender) <= Size
            /\ Filling \in Seq(Bytes) /\ Len(Filling) <= Size
            /\ Backlog \in Seq(Bytes)
            /\ rxPc # "read" => Len(Backlog) <= Numbers
<1> SUFFICES ASSUME TcpInv
             PROVE  /\ Lawful(chan, data, type)
                    /\ QueuedOf(chan, data, type) \in Seq(Bytes)
                    /\ RestOfSender \in Seq(Bytes) /\ Len(RestOfSender) <= Size
                    /\ Filling \in Seq(Bytes) /\ Len(Filling) <= Size
                    /\ Backlog \in Seq(Bytes)
                    /\ rxPc # "read" => Len(Backlog) <= Numbers
  OBVIOUS
<1> DEFINE q == QueuedOf(chan, data, type)
           none == <<>>
<1>1. Lawful(chan, data, type) /\ \A b \in Buffers : Len(data[b]) <= Size
  BY DEF TcpInv, Shapes, Owners, Lawful
<1>2. q \in Seq(Bytes) /\ Len(q) <= Size * Len(chan)
  BY <1>1, QueuedBytes
<1>3. none \in Seq(Bytes) /\ Len(none) = 0
  OBVIOUS
<1>4. RestOfSender \in Seq(Bytes) /\ Len(RestOfSender) <= Size
  <2>1. CASE txPc = "write" \/ (txPc = "exited" /\ InSession)
    <3>1. txBuf \in Buffers /\ sent \in 0 .. Size
      BY <2>1 DEF TcpInv, Owners, Session, Shapes
    <3> DEFINE d == data[txBuf]
    <3>2. d \in Seq(Bytes) /\ Len(d) <= Size /\ Len(d) \in Nat
      BY <1>1, <3>1 DEF Lawful
    <3> HIDE DEF d
    <3>3. SubSeq(d, sent + 1, Len(d)) \in Seq(Bytes) /\ Len(SubSeq(d, sent + 1, Len(d))) <= Size
      <4>1. sent + 1 \in Int /\ Len(d) \in Int /\ \A i \in sent + 1 .. Len(d) : d[i] \in Bytes
        BY <3>1, <3>2, SizeFacts
      <4>2. /\ SubSeq(d, sent + 1, Len(d)) \in Seq(Bytes)
            /\ Len(SubSeq(d, sent + 1, Len(d)))
                 = IF sent + 1 <= Len(d) THEN Len(d) - (sent + 1) + 1 ELSE 0
        BY <4>1, SubSeqProperties
      <4>3. QED
        BY <3>1, <3>2, <4>2, SizeFacts
    <3>4. RestOfSender = SubSeq(d, sent + 1, Len(d))
      BY <2>1 DEF RestOfSender, d
    <3>5. QED
      BY <3>3, <3>4
  <2>2. CASE ~(txPc = "write" \/ (txPc = "exited" /\ InSession))
    <3>1. RestOfSender = none
      BY <2>2 DEF RestOfSender
    <3>2. QED
      BY <1>3, <3>1, SizeFacts
  <2>3. QED
    BY <2>1, <2>2
<1>5. Filling \in Seq(Bytes) /\ Len(Filling) <= Size /\ (rxPc # "read" => Len(Filling) = 0)
  <2>1. CASE rxPc = "read"
    <3>1. rxBuf \in Buffers /\ Filling = data[rxBuf]
      BY <2>1 DEF TcpInv, Owners, Filling
    <3>2. QED
      BY <1>1, <2>1, <3>1 DEF Lawful
  <2>2. CASE rxPc # "read"
    <3>1. Filling = none
      BY <2>2 DEF Filling
    <3>2. QED
      BY <1>3, <2>2, <3>1, SizeFacts
  <2>3. QED
    BY <2>1, <2>2
<1> DEFINE r == RestOfSender
           f == Filling
<1> HIDE DEF q, none, r, f
<1>6. Whole(r, q, f) \in Seq(Bytes) /\ Len(Whole(r, q, f)) = Len(r) + Len(q) + Len(f)
  BY <1>2, <1>4, <1>5, WholeBytes DEF r, f
<1>7. Backlog = none \/ Backlog = Whole(r, q, f)
  BY BacklogIs, Zenon DEF none, r, q, f
<1>8. rxPc # "read" => Len(Backlog) <= Numbers
  <2> SUFFICES ASSUME rxPc # "read" PROVE Len(Backlog) <= Numbers
    OBVIOUS
  <2> DEFINE n == Cardinality(Buffers)
             m == Len(chan)
             l == Len(q)
             x == Len(r)
  <2>1. n \in Nat /\ Size \in Nat /\ Numbers \in Nat
    BY SizeFacts
  <2>2. Numbers > Size * (n + 1)
    BY SuiteAssumption DEF SuiteAssumption, SizeAssumption
  <2>3. m <= n /\ m \in Nat
    BY <1>1 DEF TcpInv, Lawful
  <2>4. l \in Nat /\ l <= Size * m /\ x \in Nat /\ x <= Size
    BY <1>2, <1>4 DEF r
  <2>5. Len(Backlog) = 0 \/ Len(Backlog) = x + l
    BY <1>3, <1>5, <1>6, <1>7, <2>4 DEF f
  <2> HIDE DEF n, m, l, x
  <2>6. Size * m <= Size * n
    BY <2>1, <2>3
  <2>7. Size * (n + 1) = Size * n + Size
    BY <2>1
  <2> DEFINE y == Size * m
             z == Size * n
  <2>8. y \in Nat /\ z \in Nat /\ y <= z /\ l <= y /\ Numbers > z + Size
    BY <2>1, <2>2, <2>3, <2>4, <2>6, <2>7
  <2> HIDE DEF y, z
  <2>9. QED
    BY <2>1, <2>4, <2>5, <2>8
<1>9. Backlog \in Seq(Bytes)
  BY <1>3, <1>6, <1>7
<1>10. QED
  BY <1>1, <1>2, <1>4, <1>5, <1>8, <1>9 DEF q

\* The same after a step.
LEMMA BacklogNext ==
  TcpInv' => /\ Lawful(chan', data', type')
             /\ Backlog' \in Seq(Bytes)
             /\ rxPc' # "read" => Len(Backlog') <= Numbers
<1>2. TcpInv => /\ Lawful(chan, data, type)
                /\ Backlog \in Seq(Bytes)
                /\ rxPc # "read" => Len(Backlog) <= Numbers
  BY BacklogParts
<1>3. (TcpInv => /\ Lawful(chan, data, type)
                 /\ Backlog \in Seq(Bytes)
                 /\ rxPc # "read" => Len(Backlog) <= Numbers)'
  BY <1>2, PTL
<1>4. QED
  BY <1>3

\* What a step of the tasks is to the loopback.
Looped == LoopbackOf!Next \/ UNCHANGED <<input, Backlog, echoed, InSession>>

\* A step that ends the session, or comes after it, and keeps a beginning of the backlog.
LEMMA Abandoned ==
  ASSUME TcpInv, TcpInv', ~InSession', rxPc' # "read", UNCHANGED <<input, echoed>>,
         Begins(Backlog', Backlog)
  PROVE  Looped
<1> DEFINE k == Len(Backlog')
<1>1. Backlog \in Seq(Bytes)
  BY BacklogParts
<1>2. Backlog' \in Seq(Bytes) /\ k <= Numbers
  BY BacklogNext
<1>3. k \in Nat /\ k <= Len(Backlog) /\ Backlog' = SubSeq(Backlog, 1, k)
  BY <1>1, <1>2, BeginsCut
<1>4. k \in 0 .. Numbers
  BY <1>2, <1>3, SizeFacts
<1>5. LoopbackOf!Abandon(k)
  BY <1>3, Zenon DEF LoopbackOf!Abandon
<1>6. QED
  BY <1>4, <1>5, Zenon DEF Looped, LoopbackOf!Next

\* Nothing is kept.
LEMMA NothingKept ==
  ASSUME TcpInv, TcpInv', ~InSession', rxPc' # "read", UNCHANGED <<input, echoed>>,
         Backlog' = <<>>
  PROVE  Looped
<1>1. Backlog \in Seq(Bytes)
  BY BacklogParts
<1>2. Begins(Backlog', Backlog)
  BY <1>1 DEF Begins
<1>3. QED
  BY <1>2, Abandoned

\* The end mark cuts the queue, and the buffer being filled is dropped.
LEMMA LoopedClosed ==
  ASSUME TcpInv, TcpInv', InSession, SendClosed,
         UNCHANGED <<data, rxBuf, txPc, txBuf, sent, input, echoed>>
  PROVE  Looped
<1>1. ~InSession' /\ rxPc' # "read" /\ rxPc' = "destroy"
  BY DEF SendClosed, InSession
<1>2. CASE txPc = "exited"
  <2>1. Backlog' = <<>>
    BY <1>1, <1>2, BacklogIs
  <2>2. QED
    BY <1>1, <2>1, NothingKept
<1>3. CASE txPc # "exited"
  <2> DEFINE r == RestOfSender
             q == QueuedOf(chan, data, type)
             f == Filling
             p == QueuedOf(chan', data', type')
  <2>1. Backlog = Whole(r, q, f)
    BY <1>3, BacklogIs
  <2>2. Backlog' = Whole(RestOfSender', p, Filling')
    BY <1>3, BacklogIs
  <2>3. RestOfSender' = r
    BY <1>3 DEF RestOfSender
  <2>4. Filling' = <<>>
    BY <1>1 DEF Filling
  <2>5. r \in Seq(Bytes) /\ q \in Seq(Bytes) /\ f \in Seq(Bytes) /\ Lawful(chan, data, type)
    BY BacklogParts
  <2>6. Lawful(chan', data', type')
    BY BacklogNext
  <2>7. p \in Seq(Bytes) /\ Begins(p, q)
    <3>1. /\ chan \in Seq(Buffers) /\ rxBuf \in Pointers
          /\ \A b \in Pointers : type[b] = "DATA"
      BY DEF TcpInv, Session, Shapes
    <3>2. chan' = Append(chan, rxBuf) /\ type' = [type EXCEPT ![rxBuf] = "CLOSED"] /\ data' = data
      BY DEF SendClosed, Marked
    <3>3. Lawful(Append(chan, rxBuf), data, [type EXCEPT ![rxBuf] = "CLOSED"])
      BY <2>6, <3>2
    <3>4. LET c2 == Append(chan, rxBuf)
              t2 == [type EXCEPT ![rxBuf] = "CLOSED"]
          IN  QueuedOf(c2, data, t2) \in Seq(Bytes) /\ Begins(QueuedOf(c2, data, t2), q)
      BY <2>5, <3>1, <3>3, QueuedMarked
    <3>5. QED
      BY <3>2, <3>4
  <2> HIDE DEF r, q, f, p
  <2>8. Begins(Whole(r, p, <<>>), Whole(r, q, f))
    BY <2>5, <2>7, WholeCut
  <2>9. Begins(Backlog', Backlog)
    BY <2>1, <2>2, <2>3, <2>4, <2>8
  <2>10. QED
    BY <1>1, <2>9, Abandoned
<1>4. QED
  BY <1>2, <1>3

\* A step that leaves the three parts of the backlog alone.
LEMMA Unlooped ==
  ASSUME UNCHANGED <<data, type, chan, rxPc, rxBuf, txPc, txBuf, sent, input, echoed>>
  PROVE  Looped
<1>1. InSession' = InSession
  BY DEF InSession
<1>2. QueuedOf(chan', data', type') = QueuedOf(chan, data, type)
  OBVIOUS
<1>3. Filling' = Filling
  BY DEF Filling
<1>4. RestOfSender' = RestOfSender
  BY <1>1 DEF RestOfSender
<1>5. Backlog' = Backlog
  BY <1>1, <1>2, <1>3, <1>4, BacklogIs
<1>6. QED
  BY <1>1, <1>5, Zenon DEF Looped

\* A step of the Ethernet task in a session or after one that moves no byte.
LEMMA Moved ==
  ASSUME UNCHANGED <<data, type, chan, txPc, txBuf, sent, input, echoed>>,
         rxPc # "read", rxPc' # "read", InSession' <=> InSession
  PROVE  Looped
<1>1. InSession' = InSession
  BY DEF InSession
<1>2. QueuedOf(chan', data', type') = QueuedOf(chan, data, type)
  OBVIOUS
<1>3. Filling' = Filling
  BY DEF Filling
<1>4. RestOfSender' = RestOfSender
  BY <1>1 DEF RestOfSender
<1>5. Backlog' = Backlog
  BY <1>1, <1>2, <1>3, <1>4, BacklogIs
<1>6. QED
  BY <1>1, <1>5, Zenon DEF Looped

\* With nothing in the three parts the backlog is empty.
LEMMA EmptyNext ==
  ASSUME TcpInv', chan' = <<>>, RestOfSender' = <<>>, Filling' = <<>>
  PROVE  Backlog' = <<>>
<1>1. Lawful(chan', data', type')
  BY DEF TcpInv, Shapes, Owners, Lawful
<1>2. QueuedOf(chan', data', type') = <<>>
  BY <1>1, QueuedEnd
<1>3. Whole(<<>>, <<>>, <<>>) = <<>>
  <2>1. <<>> \in Seq(Bytes)
    OBVIOUS
  <2>2. Then(<<>>, <<>>) = <<>>
    BY <2>1, ThenPiece
  <2>3. QED
    BY <2>2 DEF Whole
<1>4. QED
  BY <1>2, <1>3, BacklogIs

\* SetUp gives up what an earlier session left.
LEMMA LoopedSetUp == ASSUME TcpInv, TcpInv', SetUp PROVE Looped
<1>1. /\ rxPc' = "connect" /\ chan' = <<>> /\ UNCHANGED <<txPc, input, echoed>>
      /\ txPc \in {"none", "exited"}
  BY DEF SetUp, txVars, netVars, TcpInv, Ends
<1>2. ~InSession'
  BY <1>1 DEF InSession
<1>3. Filling' = <<>>
  BY <1>1 DEF Filling
<1>4. RestOfSender' = <<>>
  BY <1>1, <1>2 DEF RestOfSender
<1>5. Backlog' = <<>>
  BY <1>1, <1>2, <1>3, <1>4, EmptyNext
<1>6. QED
  BY <1>1, <1>2, <1>5, NothingKept

\* Connect is a Restart.
LEMMA LoopedConnect == ASSUME TcpInv, TcpInv', Connect PROVE Looped
<1>1. /\ rxPc = "connect" /\ rxPc' = "check" /\ input' = 0 /\ echoed' = -1
      /\ chan' = chan /\ txPc' = "get"
  BY DEF Connect, queueVars
<1>2. ~InSession /\ InSession'
  BY <1>1 DEF InSession
<1>3. chan' = <<>>
  BY <1>1 DEF TcpInv, Session
<1>4. RestOfSender' = <<>>
  BY <1>1 DEF RestOfSender
<1>5. Filling' = <<>>
  BY <1>1 DEF Filling
<1>6. Backlog' = <<>>
  BY <1>3, <1>4, <1>5, EmptyNext
<1>7. LoopbackOf!Restart
  BY <1>1, <1>2, <1>6, Zenon DEF LoopbackOf!Restart
<1>8. QED
  BY <1>7, Zenon DEF Looped, LoopbackOf!Next

\* CheckStop moves no byte, or ends the session: behind its mark, or in a fault.
LEMMA LoopedCheck == ASSUME TcpInv, TcpInv', CheckStop PROVE Looped
<1>1. /\ rxPc = "check" /\ InSession
      /\ UNCHANGED <<data, rxBuf, txPc, txBuf, sent, input, echoed>>
  BY DEF CheckStop, InSession, txVars, netVars
<1>2. \/ rxPc' = "get" /\ UNCHANGED <<type, chan>>
      \/ SendClosed
      \/ rxPc' = "fault" /\ UNCHANGED <<type, chan>>
  BY DEF CheckStop
<1>3. CASE rxPc' = "get" /\ UNCHANGED <<type, chan>>
  BY <1>1, <1>3, Moved DEF InSession
<1>4. CASE SendClosed
  BY <1>1, <1>4, LoopedClosed
<1>5. CASE rxPc' = "fault" /\ UNCHANGED <<type, chan>>
  <2>1. ~InSession' /\ rxPc' # "read"
    BY <1>5 DEF InSession
  <2>2. CASE txPc = "exited"
    <3>1. Backlog' = <<>>
      BY <1>1, <2>1, <2>2, BacklogIs
    <3>2. QED
      BY <1>1, <2>1, <3>1, NothingKept
  <2>3. CASE txPc # "exited"
    <3>1. RestOfSender' = RestOfSender /\ Filling' = Filling
      BY <1>1, <1>5, <2>3 DEF RestOfSender, Filling
    <3>2. Backlog' = Backlog
      BY <1>1, <1>5, <2>3, <3>1, BacklogIs
    <3>3. Backlog \in Seq(Bytes)
      BY BacklogParts
    <3>4. Begins(Backlog', Backlog)
      BY <3>2, <3>3 DEF Begins
    <3>5. QED
      BY <1>1, <2>1, <3>4, Abandoned
  <2>4. QED
    BY <2>2, <2>3
<1>6. QED
  BY <1>2, <1>3, <1>4, <1>5

\* ReadFails ends the session: the buffer being filled is abandoned.
LEMMA LoopedReadFails == ASSUME TcpInv, TcpInv', ReadFails PROVE Looped
<1>1. /\ InSession /\ SendClosed
      /\ UNCHANGED <<data, rxBuf, txPc, txBuf, sent, input, echoed>>
  BY DEF ReadFails, InSession, txVars, netVars
<1>2. QED
  BY <1>1, LoopedClosed

\* CloseSocket and TearDown come after the session.
LEMMA LoopedClose == ASSUME CloseSocket \/ TearDown PROVE Looped
<1>1. /\ UNCHANGED <<data, type, chan, txPc, txBuf, sent, input, echoed>>
      /\ rxPc \in {"destroy", "wait"} /\ rxPc' \in {"wait", "assert", "idle"}
  BY DEF CloseSocket, TearDown, queueVars, bufVars, txVars, netVars
<1>2. QED
  BY <1>1, Moved DEF InSession

\* The user and the server move no byte.
LEMMA LoopedOther == ASSUME IgnoreStop \/ StopCommand \/ ServerEnds PROVE Looped
<1>1. UNCHANGED <<data, type, chan, rxPc, rxBuf, txPc, txBuf, sent, input, echoed>>
  BY DEF IgnoreStop, StopCommand, ServerEnds, queueVars, bufVars, rxVars, txVars, netVars
<1>2. QED
  BY <1>1, Unlooped

\* A buffer in the hands of the receiver is neither queued nor being sent.
LEMMA Untouched ==
  ASSUME TcpInv, InSession, InSession', NEW b \in Buffers, NEW x, Count(chan, b) = 0,
         txPc \in {"write", "exited"} => txBuf # b,
         data' = [data EXCEPT ![b] = x], UNCHANGED <<txPc, txBuf, sent>>
  PROVE  /\ QueuedOf(chan, data', type) = QueuedOf(chan, data, type)
         /\ RestOfSender' = RestOfSender
<1>1. chan \in Seq(Buffers) /\ data \in [Buffers -> Seq(Bytes)]
      /\ (txPc = "exited" => txBuf \in Buffers) /\ (txPc = "write" => txBuf \in Buffers)
  BY DEF TcpInv, Shapes, Session, Owners
<1>2. \A i \in DOMAIN chan : chan[i] # b /\ chan[i] \in Buffers
  BY <1>1, CountNone
<1>3. \A i \in DOMAIN chan : data'[chan[i]] = data[chan[i]]
  BY <1>1, <1>2
<1>4. QueuedOf(chan, data', type) = QueuedOf(chan, data, type)
  BY <1>3, QueuedSame
<1>5. txPc \in {"write", "exited"} => data'[txBuf] = data[txBuf]
  BY <1>1
<1>6. RestOfSender' = RestOfSender
  BY <1>5 DEF RestOfSender
<1>7. QED
  BY <1>4, <1>6

\* GetFree takes a buffer that is nowhere in the backlog.
LEMMA LoopedGetFree == ASSUME TcpInv, GetFree PROVE Looped
<1> DEFINE h == Head(free)
<1>1. /\ rxPc = "get" /\ rxPc' = "read" /\ rxBuf' = h /\ free # <<>>
      /\ data' = [data EXCEPT ![h] = <<>>]
      /\ UNCHANGED <<chan, type, txPc, txBuf, sent, input, echoed>>
  BY DEF GetFree, txVars, netVars
<1>2. InSession /\ InSession'
  BY <1>1 DEF InSession
<1>3. free \in Seq(Buffers) /\ data \in [Buffers -> Seq(Bytes)]
  BY DEF TcpInv, Shapes
<1>4. h \in Buffers /\ Tail(free) \in Seq(Buffers)
  BY <1>1, <1>3
<1>5. Count(free, h) = Count(Tail(free), h) + 1 /\ Count(Tail(free), h) \in Nat
  <2>1. Count(free, h) = Count(Tail(free), h) + (IF Head(free) = h THEN 1 ELSE 0)
    BY <1>1, <1>3, CountTail
  <2>2. Count(Tail(free), h) \in Nat
    BY <1>4, CountNat
  <2>3. QED
    BY <2>1, <2>2
<1>6. Has(h) = 1
  BY <1>2, <1>4 DEF TcpInv, Session
<1>7. Count(chan, h) = 0 /\ (txPc \in {"write", "exited"} => txBuf # h)
  BY <1>1, <1>5, <1>6, Counts DEF Has
<1>8. data'[h] = <<>>
  BY <1>1, <1>3, <1>4
<1> HIDE DEF h
<1>9. QueuedOf(chan, data', type) = QueuedOf(chan, data, type) /\ RestOfSender' = RestOfSender
  BY <1>1, <1>2, <1>4, <1>7, Untouched
<1>10. Filling' = Filling
  BY <1>1, <1>8 DEF Filling
<1>11. Backlog' = Backlog
  BY <1>1, <1>2, <1>9, <1>10, BacklogIs
<1>12. InSession' = InSession
  BY <1>1 DEF InSession
<1>13. QED
  BY <1>1, <1>11, <1>12, Zenon DEF Looped

\* A buffer is shorter than the numbers are many.
LEMMA SizeBelow == Size <= Numbers
<1>1. Size \in Nat /\ Cardinality(Buffers) \in Nat /\ Numbers \in Nat
  BY SizeFacts
<1>2. Numbers > Size * (Cardinality(Buffers) + 1)
  BY SuiteAssumption DEF SuiteAssumption, SizeAssumption
<1> DEFINE n == Cardinality(Buffers)
<1> HIDE DEF n
<1>3. Size * (n + 1) = Size * n + Size /\ Size * n >= 0
  BY <1>1 DEF n
<1>4. QED
  BY <1>1, <1>2, <1>3 DEF n

\* ReadSome is a Read: the bytes come behind the backlog, also when the full buffer is queued.
LEMMA LoopedRead == ASSUME TcpInv, ReadSome PROVE Looped
<1> DEFINE b == rxBuf
<1>1. /\ rxPc = "read" /\ b \in Buffers /\ rxBuf' = b
      /\ UNCHANGED <<txPc, txBuf, sent, echoed>>
  BY DEF ReadSome, txVars, TcpInv, Owners
<1>2. InSession /\ data \in [Buffers -> Seq(Bytes)] /\ input \in Bytes
  BY <1>1 DEF InSession, TcpInv, Shapes
<1>3. PICK k \in 1 .. Room(b) :
        data' = [data EXCEPT ![b] = Filled(b, k)] /\ input' = (input + k) % Numbers
  BY DEF ReadSome
<1>4. k \in Nat /\ k >= 1 /\ k <= Numbers
  <2>1. Room(b) <= Size /\ Room(b) \in Int
    <3>1. Len(data[b]) \in Nat
      BY <1>1, <1>2
    <3>2. QED
      BY <3>1, SizeFacts DEF Room
  <2>2. QED
    BY <2>1, SizeBelow, SizeFacts
<1> DEFINE K == [i \in 1 .. k |-> (input + i - 1) % Numbers]
<1>5. K \in Seq(Bytes)
  <2>1. \A i \in 1 .. k : (input + i - 1) % Numbers \in Bytes
    BY <1>2, SizeFacts DEF Bytes
  <2>2. K \in [1 .. k -> Bytes]
    BY <2>1
  <2>3. QED
    BY <1>4, <2>2, SeqDef
<1>6. K = LoopbackOf!Stream(input, k)
  BY DEF LoopbackOf!Stream
<1>7. Filled(b, k) = Then(data[b], K)
  BY DEF Filled, Then
<1> HIDE DEF K
<1>8. Has(b) = 1
  BY <1>1, <1>2 DEF TcpInv, Session
<1>9. Count(chan, b) = 0 /\ (txPc \in {"write", "exited"} => txBuf # b)
  BY <1>1, <1>8, Counts DEF Has
<1> DEFINE r == RestOfSender
           q == QueuedOf(chan, data, type)
           f == Filling
<1>10. f = data[b] /\ data'[b] = Then(f, K)
  BY <1>1, <1>2, <1>3, <1>7 DEF Filling
<1>11. r \in Seq(Bytes) /\ q \in Seq(Bytes) /\ f \in Seq(Bytes) /\ Lawful(chan, data, type)
  BY BacklogParts
<1>12. Backlog = Whole(r, q, f)
  BY <1>2, BacklogIs
<1>13. InSession' /\ InSession' = InSession
  <2>1. rxPc' \in {"read", "check", "get"}
    BY <1>1 DEF ReadSome
  <2>2. InSession' = TRUE /\ InSession = TRUE
    BY <1>1, <2>1 DEF InSession
  <2>3. QED
    BY <2>2
<1>14. QueuedOf(chan, data', type) = q /\ RestOfSender' = r
  BY <1>1, <1>2, <1>3, <1>9, <1>13, Untouched
<1>15. Backlog' = Whole(r, QueuedOf(chan', data', type'), Filling')
  BY <1>13, <1>14, BacklogIs
<1> HIDE DEF r, q, f
<1>16. Backlog' = Then(Backlog, K)
  <2>1. CASE UNCHANGED <<chan, type, rxPc>>
    <3>1. Filling' = Then(f, K)
      BY <1>1, <1>10, <2>1 DEF Filling
    <3>2. Backlog' = Whole(r, q, Then(f, K))
      BY <1>14, <1>15, <2>1, <3>1
    <3>3. QED
      BY <1>5, <1>11, <1>12, <3>2, WholeRead
  <2>2. CASE /\ type' = [type EXCEPT ![b] = "DATA"] /\ chan' = Append(chan, b)
             /\ rxPc' \in {"check", "get"}
    <3>1. chan \in Seq(Buffers) /\ \A p \in Pointers : type[p] = "DATA"
      BY <1>2 DEF TcpInv, Session
    <3>2. type' = type
      BY <1>1, <1>11, <2>2, <3>1 DEF Lawful, Pointers
    <3>3. Filling' = <<>>
      BY <2>2 DEF Filling
    <3>4. data' \in [Buffers -> Seq(Bytes)]
      <4>1. Then(f, K) \in Seq(Bytes)
        BY <1>5, <1>11, ThenPiece
      <4>2. QED
        BY <1>2, <1>3, <1>7, <1>10, <4>1
    <3>5. Lawful(chan, data', type)
      BY <1>11, <3>4 DEF Lawful
    <3>6. QueuedOf(Append(chan, b), data', type) = Then(QueuedOf(chan, data', type), data'[b])
      BY <1>1, <3>1, <3>5, QueuedPut
    <3>7. Backlog' = Whole(r, Then(q, Then(f, K)), <<>>)
      BY <1>10, <1>14, <1>15, <2>2, <3>2, <3>3, <3>6
    <3>8. QED
      BY <1>5, <1>11, <1>12, <3>7, WholeRead
  <2>3. QED
    BY <2>1, <2>2 DEF ReadSome
<1>17. LoopbackOf!Read(k)
  BY <1>1, <1>2, <1>3, <1>6, <1>13, <1>16, Zenon DEF LoopbackOf!Read, Then
<1>18. k \in 1 .. Numbers
  BY <1>4, SizeFacts
<1>19. QED
  BY <1>17, <1>18, Zenon DEF Looped, LoopbackOf!Next

\* TakeMessage moves the head of the queue to the sender; an end mark has nothing behind it.
LEMMA LoopedTake == ASSUME TcpInv, TakeMessage PROVE Looped
<1> DEFINE h == chan[1]
           q == QueuedOf(chan, data, type)
           f == Filling
<1>1. /\ txPc = "get" /\ chan # <<>> /\ txBuf' = h /\ chan' = Tail(chan) /\ sent' = 0
      /\ UNCHANGED <<data, type, rxPc, rxBuf, input, echoed>>
  BY DEF TakeMessage, bufVars, rxVars, netVars
<1>2. \/ type[h] = "CLOSED" /\ txPc' = "exited"
      \/ type[h] # "CLOSED" /\ txPc' = "write"
  <2>1. \/ type[Head(chan)] = "CLOSED" /\ txPc' = "exited"
        \/ type[Head(chan)] # "CLOSED" /\ txPc' = "write"
    BY Zenon DEF TakeMessage, Exit
  <2>2. Head(chan) = h
    OBVIOUS
  <2>3. QED
    BY <2>1, <2>2
<1>3. InSession' = InSession /\ Filling' = f
  BY <1>1 DEF InSession, Filling
<1>4. /\ Lawful(chan, data, type) /\ q \in Seq(Bytes) /\ f \in Seq(Bytes)
      /\ type \in [Pointers -> {"DATA", "CLOSED"}] /\ h \in Pointers
  <2>1. Lawful(chan, data, type) /\ q \in Seq(Bytes) /\ f \in Seq(Bytes)
    BY BacklogParts
  <2>2. QED
    BY <1>1, <2>1 DEF Lawful
<1>5. RestOfSender = <<>>
  BY <1>1 DEF RestOfSender
<1>6. Backlog = Whole(<<>>, q, f)
  BY <1>1, <1>5, BacklogIs
<1> HIDE DEF q, f
<1>7. Backlog' = Backlog
  <2>1. CASE type[h] = "CLOSED" /\ txPc' = "exited"
    <3>1. ~InSession
      BY <1>4, <2>1 DEF TcpInv, Session
    <3>2. Backlog' = <<>>
      BY <1>3, <2>1, <3>1, BacklogIs
    <3>3. q = <<>>
      BY <1>4, <2>1, QueuedEnd DEF q
    <3>4. f = <<>>
      BY <3>1 DEF f, Filling, InSession
    <3>5. Then(<<>>, <<>>) = <<>>
      <4>1. <<>> \in Seq(Bytes)
        OBVIOUS
      <4>2. QED
        BY <4>1, ThenPiece
    <3>6. QED
      BY <1>6, <3>2, <3>3, <3>4, <3>5 DEF Whole
  <2>2. CASE type[h] # "CLOSED" /\ txPc' = "write"
    <3> DEFINE t == QueuedOf(Tail(chan), data, type)
    <3>1. type[h] = "DATA"
      BY <1>4, <2>2
    <3>2. t \in Seq(Bytes) /\ h \in Buffers /\ q = Then(data[h], t)
      BY <1>1, <1>4, <3>1, QueuedTaken DEF q
    <3> DEFINE d == data[h]
    <3>3. d \in Seq(Bytes)
      BY <1>4, <3>2 DEF Lawful
    <3>4. RestOfSender' = SubSeq(d, 0 + 1, Len(d))
      BY <1>1, <2>2 DEF RestOfSender
    <3>5. QueuedOf(chan', data', type') = t
      BY <1>1
    <3>6. Backlog' = Whole(RestOfSender', t, f)
      BY <1>3, <2>2, <3>5, BacklogIs
    <3> HIDE DEF d, t
    <3>7. SubSeq(d, 0 + 1, Len(d)) = d
      BY <3>3, SubSeqFull
    <3>8. Whole(<<>>, Then(d, t), f) = Whole(d, t, f)
      BY <1>4, <3>2, <3>3, WholeTaken
    <3>9. QED
      BY <1>6, <3>2, <3>4, <3>6, <3>7, <3>8, Zenon DEF d
  <2>3. QED
    BY <1>2, <2>1, <2>2
<1>8. QED
  BY <1>1, <1>3, <1>7, Zenon DEF Looped

\* Bytes cut off in two steps.
LEMMA CutTwice ==
  ASSUME NEW d \in Seq(Bytes), NEW n \in Nat, NEW k \in Nat, n + k <= Len(d)
  PROVE  LET r == SubSeq(d, n + 1, Len(d))
         IN  /\ r \in Seq(Bytes) /\ Len(r) = Len(d) - n
             /\ \A i \in 1 .. Len(r) : r[i] = d[n + i]
             /\ SubSeq(r, k + 1, Len(r)) = SubSeq(d, n + k + 1, Len(d))
             /\ SubSeq(r, k + 1, Len(r)) \in Seq(Bytes)
<1> DEFINE r == SubSeq(d, n + 1, Len(d))
           a == SubSeq(r, k + 1, Len(r))
           b == SubSeq(d, n + k + 1, Len(d))
<1>1. /\ r \in Seq(Bytes) /\ Len(r) = Len(d) - n /\ Len(d) \in Nat
      /\ \A i \in 1 .. Len(d) - n : r[i] = d[n + i]
  OBVIOUS
<1>2. /\ b \in Seq(Bytes) /\ Len(b) = Len(d) - n - k
      /\ \A i \in 1 .. Len(d) - n - k : b[i] = d[n + k + i]
  BY <1>1
<1> HIDE DEF r, b
<1>3. /\ a \in Seq(Bytes) /\ Len(a) = Len(r) - k
      /\ \A i \in 1 .. Len(r) - k : a[i] = r[k + i]
  BY <1>1
<1> HIDE DEF a
<1>4. \A i \in 1 .. Len(a) : a[i] = b[i]
  <2> SUFFICES ASSUME NEW i \in 1 .. Len(a) PROVE a[i] = b[i]
    OBVIOUS
  <2>1. k + i \in 1 .. Len(d) - n /\ n + (k + i) = n + k + i
    BY <1>1, <1>3
  <2>2. i \in 1 .. Len(r) - k /\ i \in 1 .. Len(d) - n - k
    BY <1>1, <1>3
  <2>3. a[i] = r[k + i]
    BY <1>3, <2>2
  <2>4. r[k + i] = d[n + k + i]
    BY <1>1, <2>1
  <2>5. b[i] = d[n + k + i]
    BY <1>2, <2>2
  <2>6. QED
    BY <2>3, <2>4, <2>5
<1>5. a = b
  BY <1>1, <1>2, <1>3, <1>4, SeqEqual
<1>6. QED
  BY <1>1, <1>3, <1>5 DEF r, a, b

\* WriteData is an Echo of its bytes.
LEMMA LoopedWrite == ASSUME TcpInv, WriteData PROVE Looped
<1> DEFINE d == data[txBuf]
           r == RestOfSender
           q == QueuedOf(chan, data, type)
           f == Filling
<1>1. /\ txPc = "write" /\ txBuf \in Buffers
      /\ UNCHANGED <<chan, data, type, rxPc, rxBuf, txBuf, input>>
  BY DEF WriteData, bufVars, rxVars, TcpInv, Owners
<1>2. PICK k \in 1 .. Len(d) - sent :
        /\ echoed' = d[sent + k]
        /\ \/ sent + k < Len(d) /\ sent' = sent + k /\ txPc' = txPc
           \/ ~(sent + k < Len(d)) /\ txPc' = "get"
  BY DEF WriteData, SentByte
<1>3. d \in Seq(Bytes) /\ Len(d) \in Nat /\ Len(d) <= Size /\ sent \in Nat
  BY <1>1 DEF TcpInv, Shapes
<1>4. k \in Nat /\ k >= 1 /\ sent + k <= Len(d) /\ k <= Numbers
  BY <1>3, SizeBelow, SizeFacts
<1>5. r = SubSeq(d, sent + 1, Len(d))
  BY <1>1 DEF RestOfSender
<1>6. q \in Seq(Bytes) /\ f \in Seq(Bytes)
  BY BacklogParts
<1>7. Filling' = f /\ InSession' = InSession
  BY <1>1 DEF Filling, InSession
<1>8. QueuedOf(chan', data', type') = q
  BY <1>1
<1>9. Backlog = Whole(r, q, f) /\ Backlog' = Whole(RestOfSender', q, f)
  BY <1>1, <1>2, <1>7, <1>8, BacklogIs
<1> HIDE DEF r, q, f
<1>10. RestOfSender' = SubSeq(d, sent + k + 1, Len(d))
  <2>1. CASE sent + k < Len(d) /\ sent' = sent + k /\ txPc' = txPc
    BY <1>1, <2>1 DEF RestOfSender
  <2>2. CASE ~(sent + k < Len(d)) /\ txPc' = "get"
    <3>1. RestOfSender' = <<>>
      BY <2>2 DEF RestOfSender
    <3>2. sent + k + 1 \in Int /\ Len(d) \in Int /\ Len(d) < sent + k + 1
      BY <1>3, <1>4, <2>2
    <3>3. SubSeq(d, sent + k + 1, Len(d)) = <<>>
      BY <3>2, SubSeqEmpty
    <3>4. QED
      BY <3>1, <3>3
  <2>3. QED
    BY <1>2, <2>1, <2>2
<1> HIDE DEF d
<1>11. /\ r \in Seq(Bytes) /\ Len(r) = Len(d) - sent
       /\ \A i \in 1 .. Len(r) : r[i] = d[sent + i]
       /\ RestOfSender' = SubSeq(r, k + 1, Len(r)) /\ RestOfSender' \in Seq(Bytes)
  BY <1>3, <1>4, <1>5, <1>10, CutTwice
<1>12. k \in 1 .. Len(r) /\ r[k] = echoed'
  BY <1>2, <1>3, <1>4, <1>11
<1> DEFINE s == RestOfSender'
<1>13. s \in Seq(Bytes) /\ s = SubSeq(r, k + 1, Len(r))
  BY <1>11
<1> HIDE DEF s
<1>14. /\ k <= Len(Whole(r, q, f)) /\ Whole(r, q, f)[k] = r[k]
       /\ Whole(s, q, f) = SubSeq(Whole(r, q, f), k + 1, Len(Whole(r, q, f)))
  <2>1. r \in Seq(Bytes) /\ k \in 1 .. Len(r)
    BY <1>11, <1>12
  <2>2. \A x \in Seq(Bytes) : \A i \in 1 .. Len(x), y \in Seq(Bytes) :
          y = SubSeq(x, i + 1, Len(x)) =>
            /\ i <= Len(Whole(x, q, f)) /\ Whole(x, q, f)[i] = x[i]
            /\ Whole(y, q, f) = SubSeq(Whole(x, q, f), i + 1, Len(Whole(x, q, f)))
    BY <1>6, WholeEchoed
  <2>3. QED
    BY <1>13, <2>1, <2>2, Zenon
<1>15. /\ k <= Len(Backlog) /\ echoed' = Backlog[k]
       /\ Backlog' = SubSeq(Backlog, k + 1, Len(Backlog))
  BY <1>9, <1>12, <1>14 DEF s
<1>16. LoopbackOf!Echo(k)
  BY <1>1, <1>7, <1>15, Zenon DEF LoopbackOf!Echo
<1>17. k \in 1 .. Numbers
  BY <1>4, SizeFacts
<1>18. QED
  BY <1>16, <1>17, Zenon DEF Looped, LoopbackOf!Next

\* WriteFails abandons what is left, at once or when the session ends.
LEMMA LoopedWriteFails == ASSUME TcpInv, TcpInv', WriteFails PROVE Looped
<1>1. /\ txPc = "write" /\ txPc' = "exited"
      /\ UNCHANGED <<chan, data, type, rxPc, rxBuf, txBuf, sent, input, echoed>>
  BY DEF WriteFails, Exit, queueVars, bufVars, rxVars, netVars
<1>2. InSession' = InSession
  BY <1>1 DEF InSession
<1>3. CASE InSession
  <2>1. RestOfSender' = RestOfSender /\ Filling' = Filling
    BY <1>1, <1>2, <1>3 DEF RestOfSender, Filling
  <2>2. Backlog' = Backlog
    BY <1>1, <1>2, <1>3, <2>1, BacklogIs
  <2>3. QED
    BY <1>1, <1>2, <2>2, Zenon DEF Looped
<1>4. CASE ~InSession
  <2>1. rxPc' # "read"
    BY <1>1, <1>4 DEF InSession
  <2>2. Backlog' = <<>>
    BY <1>1, <1>2, <1>4, BacklogIs
  <2>3. QED
    BY <1>1, <1>2, <1>4, <2>1, <2>2, NothingKept
<1>5. QED
  BY <1>3, <1>4

\* Every step of the test with two tasks is one of the loopback, or changes nothing there.
LEMMA LoopedStep ==
  ASSUME TcpInv, TcpInv', TcpStep \/ UNCHANGED vars
  PROVE  Looped
<1>1. CASE UNCHANGED vars
  <2>1. UNCHANGED <<data, type, chan, rxPc, rxBuf, txPc, txBuf, sent, input, echoed>>
    BY <1>1 DEF vars, queueVars, bufVars, rxVars, txVars, netVars
  <2>2. QED
    BY <2>1, Unlooped
<1>2. CASE TcpStep
  BY <1>2, LoopedSetUp, LoopedConnect, LoopedOther, LoopedCheck, LoopedGetFree, LoopedRead,
     LoopedReadFails, LoopedClose, LoopedTake, LoopedWrite, LoopedWriteFails DEF TcpStep, TxStep
<1>3. QED
  BY <1>1, <1>2

\* Bytes that are read come back in order, without gaps and none twice, up to the end of
\* the session or of the connection: the two tasks implement the loopback, with the rest
\* of the sender, the queue and the buffer being filled as its backlog.
THEOREM LoopbackImplemented == SuiteSpec => ImplementsLoopback
<1> DEFINE Inv == TcpInv /\ OneInv /\ part \in {"multi", "steady", "single"}
<1>1. SuiteInit => Inv
  BY TcpInit, OneInit DEF SuiteInit
<1>2. Inv /\ [SuiteNext]_allVars => Inv' /\ Looped
  <2> SUFFICES ASSUME Inv, [SuiteNext]_allVars PROVE Inv' /\ Looped
    OBVIOUS
  <2>1. part' = part
    BY DEF SuiteNext, Multi, Calm, One, allVars
  <2>2. TcpStep \/ UNCHANGED vars
    BY Steps DEF SuiteNext, Multi, Calm, One, allVars
  <2>3. Single!Next \/ UNCHANGED singleVars
    BY DEF SuiteNext, Multi, Calm, One, allVars
  <2>4. Inv'
    BY <2>1, <2>2, <2>3, TcpKept, OneKept
  <2>5. Looped
    BY <2>2, <2>4, LoopedStep
  <2>6. QED
    BY <2>4, <2>5
<1>3. SuiteInit => LoopbackOf!Init
  <2> SUFFICES ASSUME SuiteInit PROVE LoopbackOf!Init
    OBVIOUS
  <2>1. Init /\ TcpInv
    BY TcpInit DEF SuiteInit
  <2>2. /\ rxPc = "idle" /\ txPc = "none" /\ chan = <<>> /\ input = 0 /\ echoed = -1
    BY <2>1 DEF Init
  <2>3. ~InSession /\ RestOfSender = <<>> /\ Filling = <<>>
    BY <2>2 DEF InSession, RestOfSender, Filling
  <2>4. QueuedOf(chan, data, type) = <<>>
    <3>1. Lawful(chan, data, type)
      BY <2>1, BacklogParts
    <3>2. QED
      BY <2>2, <3>1, QueuedEnd
  <2>5. Then(<<>>, <<>>) = <<>>
    <3>1. <<>> \in Seq(Bytes)
      OBVIOUS
    <3>2. QED
      BY <3>1, ThenPiece
  <2>6. Backlog = <<>>
    BY <2>2, <2>3, <2>4, <2>5, BacklogIs DEF Whole
  <2>7. QED
    BY <2>2, <2>3, <2>6, Zenon DEF LoopbackOf!Init
<1>4. Looped => [LoopbackOf!Next]_<<input, Backlog, echoed, ~InSession>>
  <2>1. InSession' = InSession => UNCHANGED (~InSession)
    OBVIOUS
  <2>2. QED
    BY <2>1 DEF Looped
<1> HIDE DEF Inv
<1>5. QED
  BY <1>1, <1>2, <1>3, <1>4, PTL DEF SuiteSpec, ImplementsLoopback, LoopbackOf!Spec
=================================================================================
