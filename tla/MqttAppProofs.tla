----------------------------- MODULE MqttAppProofs -----------------------------
(***************************************************************************)
(* Proofs about lwIP's MQTT client.  About a connection, for every         *)
(* interval, every timeout and every keep-alive time: one timer runs on a  *)
(* live connection and none on any other, the application is told once,    *)
(* and the watchdog spares a server that answers, if the timer is fast     *)
(* enough.  About the output: the ring, for every size of the ring and the *)
(* send buffer and for messages of any lengths, and the list of requests,  *)
(* for every limit on them and every timeout.                              *)
(*                                                                         *)
(* The ring is read as the piece of the stream from NextByte, the number   *)
(* of the next byte for TCP; a message is a piece behind it, and sending   *)
(* takes a piece off its front.  The list is read from each request to the *)
(* one before it, from which its relative time counts.                     *)
(***************************************************************************)
EXTENDS MCMqttApp, NumberInduction, FiniteSetTheorems, SequenceTheorems, TLAPS

-----------------------------------------------------------------------------
(* The connection                                                            *)

\* The types, but for the counters and the Boolean variables.
Shapes ==
  /\ state \in States /\ verdict \in Verdicts /\ keepAlive \in KeepAlives
  /\ idle \in 0 .. IdleBound
  /\ timers \in Seq(0 .. Interval)
  /\ told \in Seq(Statuses) /\ Len(told) <= 2

Flags ==
  unsent \in BOOLEAN /\ flight \in BOOLEAN /\ greeted \in BOOLEAN /\ alive \in BOOLEAN

\* The watchdog is bounded while it is counted, for the handler tests it first, and grows
\* by one where it ends the connection; so do the ticks of an attempt.
Counters ==
  /\ cyclic \in Nat /\ watchdog \in Nat
  /\ state = "MQTT_CONNECTING" => cyclic * Interval < ConnectTimeout
  /\ state \in {"TCP_CONNECTING", "MQTT_CONNECTING"} => watchdog = 0
  /\ state = "MQTT_CONNECTED" => watchdog * Interval <= Patience
  /\ watchdog <= IdleBound

LinkInv == Shapes /\ Flags /\ Counters /\ OneTimer /\ Reported

\* The keep-alive time of a connection.
LEMMA BoundNat == keepAlive' \in KeepAlives => IdleBound' \in Nat
<1> SUFFICES ASSUME keepAlive' \in KeepAlives PROVE IdleBound' \in Nat
  OBVIOUS
<1>1. PICK k \in Nat : k = keepAlive'
  BY LinkAssumption DEF LinkAssumption
<1>2. IdleBound' = k + k \div 2 + 2 * Interval
  BY <1>1 DEF IdleBound, Patience
<1>3. Interval \in Nat
  BY LinkAssumption DEF LinkAssumption
<1>4. k + k \div 2 + 2 * Interval \in Nat
  BY <1>3
<1>5. QED
  BY <1>2, <1>4

LEMMA KeepAliveNat == LinkInv => keepAlive \in Nat /\ Patience \in Nat /\ IdleBound \in Nat
BY LinkAssumption DEF LinkAssumption, LinkInv, Shapes, Patience, IdleBound

-----------------------------------------------------------------------------
(* Arithmetic *)

\* An interval takes a second at least.
LEMMA TicksSeconds ==
  ASSUME NEW n \in Nat, NEW i \in Nat \ {0}, NEW x \in Nat, n * i <= x
  PROVE  n <= x
<1>1. n * (i - 1) >= 0
  OBVIOUS
<1>2. QED
  BY <1>1
-----------------------------------------------------------------------------
(* Sequences *)

LEMMA AppendToOne ==
  ASSUME NEW S, NEW q \in Seq(S), Len(q) = 1, NEW s \in S
  PROVE  Append(q, s) = <<q[1], s>>
<1>1. Append(q, s) \in Seq(S) /\ q[1] \in S
  BY ElementOfSeq
<1>2. Len(Append(q, s)) = Len(q) + 1
  BY AppendProperties, Zenon
<1>3. Append(q, s)[1] = q[1]
  OBVIOUS
<1>4. Append(q, s)[2] = s
  <2>1. Append(q, s)[Len(q) + 1] = s
    BY AppendProperties
  <2>2. QED
    BY <2>1
<1>5. /\ <<q[1], s>> \in Seq(S) /\ Len(<<q[1], s>>) = 2
      /\ <<q[1], s>>[1] = q[1] /\ <<q[1], s>>[2] = s
  BY <1>1
<1>6. \A i \in 1 .. 2 : Append(q, s)[i] = <<q[1], s>>[i]
  <2>1. \A i \in 1 .. 2 : i = 1 \/ i = 2
    OBVIOUS
  <2>2. QED
    BY <1>3, <1>4, <1>5, <2>1
<1>7. Len(Append(q, s)) = 2
  BY <1>2
<1>8. QED
  BY <1>1, <1>5, <1>6, <1>7, SeqEqual

-----------------------------------------------------------------------------
(* Each step keeps the invariant *)

LEMMA LinkInit == Init => LinkInv
<1> SUFFICES ASSUME Init PROVE LinkInv
  OBVIOUS
<1> USE LinkAssumption DEF LinkAssumption, Init
<1>1. Flags
  BY Zenon DEF Flags
<1>2. Shapes
  BY DEF Shapes, States, Verdicts, Statuses, IdleBound, Patience
<1>3. Counters
  <2>1. keepAlive \in Nat
    OBVIOUS
  <2>2. QED
    BY <2>1 DEF Counters, IdleBound, Patience
<1>4. OneTimer /\ Reported
  BY DEF OneTimer, Reported
<1>5. QED
  BY <1>1, <1>2, <1>3, <1>4 DEF LinkInv

\* What the end of a connection does to what the application was told.
LEMMA ClosedReported ==
  ASSUME LinkInv, NEW answer \in Statuses \ {"ACCEPTED"},
         NEW why \in Verdicts \ {"none", "user"},
         state # "TCP_DISCONNECTED", Close(answer, why)
  PROVE  /\ state' = "TCP_DISCONNECTED" /\ verdict' \in Verdicts
         /\ told' \in Seq(Statuses) /\ Len(told') <= 2
         /\ Reported'
<1>1. told = <<>> \/ told = <<"ACCEPTED">>
  BY DEF LinkInv, Shapes, States, Reported
<1>2. told' = Append(told, answer) /\ state' = "TCP_DISCONNECTED" /\ verdict' = why
  BY DEF Close
<1>3. told' = <<answer>> \/ told' = <<"ACCEPTED", answer>>
  <2>1. CASE told = <<>>
    BY <1>2, <2>1
  <2>2. CASE told = <<"ACCEPTED">>
    <3>1. told \in Seq(Statuses) /\ Len(told) = 1 /\ told[1] = "ACCEPTED"
      BY <2>2 DEF LinkInv, Shapes
    <3>2. Append(told, answer) = <<told[1], answer>>
      BY <3>1, AppendToOne
    <3>3. QED
      BY <1>2, <3>1, <3>2
  <2>3. QED
    BY <1>1, <2>1, <2>2
<1>4. told' \in Seq(Statuses) /\ Len(told') <= 2
  <2>1. answer \in Statuses /\ "ACCEPTED" \in Statuses
    BY DEF Statuses
  <2>2. CASE told' = <<answer>>
    BY <2>1, <2>2
  <2>3. CASE told' = <<"ACCEPTED", answer>>
    BY <2>1, <2>3
  <2>4. QED
    BY <1>3, <2>2, <2>3
<1>5. Reported'
  BY <1>2, <1>3 DEF Reported, Statuses
<1>6. QED
  BY <1>2, <1>4, <1>5

\* The first timer is taken off, and none is left.
LEMMA Untimed ==
  ASSUME LinkInv
  PROVE  Untimeout = <<>> /\ (timers # <<>> => Tail(timers) = <<>>)
<1>1. Len(timers) \in {0, 1} /\ timers \in Seq(0 .. Interval)
  BY DEF LinkInv, OneTimer, Shapes
<1>2. timers # <<>> => Len(Tail(timers)) = 0 /\ Tail(timers) \in Seq(0 .. Interval)
  BY <1>1, HeadTailProperties, EmptySeq
<1>3. timers # <<>> => Tail(timers) = <<>>
  BY <1>2, EmptySeq
<1>4. QED
  BY <1>3 DEF Untimeout

\* A timer that is started when none runs is the only one.
LEMMA Alone ==
  /\ <<>> \in Seq(0 .. Interval) /\ Len(<<>>) = 0
  /\ Append(<<>>, Interval) \in Seq(0 .. Interval)
  /\ Len(Append(<<>>, Interval)) = 1
<1>1. Interval \in 0 .. Interval
  BY LinkAssumption DEF LinkAssumption
<1>2. Append(<<>>, Interval) = <<Interval>>
  OBVIOUS
<1>3. QED
  BY <1>1, <1>2

\* A second passes for a timer that is not due.
LEMMA SecondLater ==
  ASSUME LinkInv, ~Due
  PROVE  /\ [i \in DOMAIN timers |-> timers[i] - 1] \in Seq(0 .. Interval)
         /\ Len([i \in DOMAIN timers |-> timers[i] - 1]) = Len(timers)
<1> DEFINE later == [i \in DOMAIN timers |-> timers[i] - 1]
<1>1. timers \in Seq(0 .. Interval) /\ Len(timers) \in Nat /\ DOMAIN timers = 1 .. Len(timers)
  BY LenProperties DEF LinkInv, Shapes
<1>2. \A i \in 1 .. Len(timers) : timers[i] \in 0 .. Interval /\ timers[i] # 0
  BY <1>1, ElementOfSeq DEF Due
<1>3. later \in [1 .. Len(timers) -> 0 .. Interval]
  BY <1>1, <1>2, LinkAssumption DEF LinkAssumption
<1>4. later \in Seq(0 .. Interval)
  BY <1>1, <1>3, SeqDef
<1>5. DOMAIN later = 1 .. Len(later) /\ Len(later) \in Nat
  BY <1>4, LenProperties
<1>6. Len(later) = Len(timers)
  BY <1>1, <1>3, <1>5
<1>7. QED
  BY <1>4, <1>6

Life == Shapes /\ OneTimer /\ Reported

\* The API: connections begin and end on demand.
LEMMA LifeOfCalls ==
  ASSUME LinkInv, Connect \/ ConnectFails \/ Disconnect \/ Publish
  PROVE  Life'
<1> USE Untimed, Alone DEF LinkInv, Life, Shapes, States, Verdicts, OneTimer, Reported
<1>1. CASE Connect \/ ConnectFails
  <2>1. keepAlive' \in KeepAlives /\ idle' = 0
    BY <1>1 DEF Connect, ConnectFails
  <2>2. 0 \in 0 .. IdleBound'
    BY <2>1, BoundNat
  <2>3. QED
    BY <1>1, <2>1, <2>2 DEF Connect, ConnectFails
<1>2. ASSUME keepAlive' = keepAlive PROVE IdleBound' = IdleBound
  BY <1>2 DEF IdleBound, Patience
<1>3. CASE Disconnect
  <2>1. Shapes'
    BY <1>2, <1>3 DEF Disconnect
  <2>2. OneTimer'
    BY <1>3 DEF Disconnect
  <2>3. Reported'
    BY <1>3 DEF Disconnect
  <2>4. QED
    BY <2>1, <2>2, <2>3
<1>4. CASE Publish
  BY <1>2, <1>4 DEF Publish
<1>5. QED
  BY <1>1, <1>2, <1>3, <1>4

\* The callbacks of TCP that keep the connection, and the passing of time.
LEMMA LifeOfCallbacks ==
  ASSUME LinkInv, TcpConnected \/ TcpSent \/ Accepted \/ Message \/ ServerDies \/ Second
  PROVE  Life'
<1>0. IdleBound' = IdleBound /\ IdleBound \in Nat /\ keepAlive' = keepAlive
  BY KeepAliveNat DEF IdleBound, Patience, TcpConnected, TcpSent, Accepted, Message, ServerDies,
     Second
<1> USE <1>0, Alone DEF LinkInv, Life, Shapes, States, Verdicts, OneTimer, Reported
<1>1. CASE TcpConnected
  <2>1. timers = <<>>
    BY <1>1, EmptySeq DEF TcpConnected
  <2>2. QED
    BY <1>1, <2>1 DEF TcpConnected
<1>2. CASE TcpSent
  BY <1>2 DEF TcpSent
<1>3. CASE Accepted
  <2>1. told' = <<"ACCEPTED">>
    BY <1>3 DEF Accepted
  <2>2. told' \in Seq(Statuses) /\ Len(told') = 1
    BY <2>1 DEF Statuses
  <2>3. QED
    BY <1>3, <2>1, <2>2 DEF Accepted, Received
<1>4. CASE Message
  BY <1>4 DEF Message, Received
<1>5. CASE ServerDies
  BY <1>5 DEF ServerDies
<1>6. CASE Second
  <2>1. timers' \in Seq(0 .. Interval) /\ Len(timers') = Len(timers)
    BY <1>6, SecondLater DEF Second
  <2>2. idle' \in 0 .. IdleBound
    BY <1>6 DEF Second
  <2>3. QED
    BY <1>6, <2>1, <2>2 DEF Second
<1>7. QED
  BY <1>1, <1>2, <1>3, <1>4, <1>5, <1>6

\* A connection that is closed in a callback, with its timer.
LEMMA LifeOfClosing ==
  ASSUME LinkInv,
         RemoteClosed \/ TcpError \/ \E s \in {"REFUSED", "DISCONNECTED"} : Refused(s)
  PROVE  Life'
<1>1. PICK answer \in Statuses \ {"ACCEPTED"}, why \in Verdicts \ {"none", "user"} :
        /\ state # "TCP_DISCONNECTED" /\ Close(answer, why)
        /\ timers' = Untimeout /\ idle' \in {idle, 0} /\ keepAlive' = keepAlive
  BY DEF RemoteClosed, TcpError, Refused, Received, Statuses, Verdicts
<1>2. timers' = <<>>
  BY <1>1, Untimed
<1>3. /\ state' = "TCP_DISCONNECTED" /\ verdict' \in Verdicts
      /\ told' \in Seq(Statuses) /\ Len(told') <= 2 /\ Reported'
  BY <1>1, ClosedReported
<1>4. idle' \in 0 .. IdleBound' /\ keepAlive' \in KeepAlives
  <2>1. IdleBound' = IdleBound
    BY <1>1 DEF IdleBound, Patience
  <2>2. QED
    BY <1>1, <2>1, KeepAliveNat DEF LinkInv, Shapes
<1>5. QED
  BY <1>2, <1>3, <1>4, Alone DEF Life, Shapes, States, OneTimer

\* The handler of the timer starts it again or closes the connection.
LEMMA LifeOfTimer ==
  ASSUME LinkInv, CyclicTimer
  PROVE  Life'
<1>1. timers # <<>> /\ Rest = <<>> /\ idle' = idle /\ keepAlive' = keepAlive
  BY Untimed DEF CyclicTimer, Rest
<1>0. IdleBound' = IdleBound
  BY <1>1 DEF IdleBound, Patience
<1>2. state \in {"MQTT_CONNECTING", "MQTT_CONNECTED"}
  BY <1>1, EmptySeq DEF LinkInv, OneTimer, Shapes
<1>3. CASE /\ timers' = Restarted
           /\ UNCHANGED <<state, told, verdict>>
  BY <1>0, <1>1, <1>2, <1>3, Alone DEF LinkInv, Life, Shapes, OneTimer, Reported, Restarted
<1>4. CASE /\ timers' = Rest
           /\ \E why \in {"late", "silent"} : Close("TIMEOUT", why)
  <2>1. /\ state' = "TCP_DISCONNECTED" /\ verdict' \in Verdicts
        /\ told' \in Seq(Statuses) /\ Len(told') <= 2 /\ Reported'
    <3>1. PICK why \in {"late", "silent"} : Close("TIMEOUT", why)
      BY <1>4
    <3>2. "TIMEOUT" \in Statuses \ {"ACCEPTED"} /\ why \in Verdicts \ {"none", "user"}
      BY DEF Statuses, Verdicts
    <3>3. QED
      BY <1>2, <3>1, <3>2, ClosedReported
  <2>2. QED
    BY <1>0, <1>1, <1>4, <2>1, Alone DEF LinkInv, Life, Shapes, States, OneTimer
<1>5. QED
  <2>1. CASE state = "MQTT_CONNECTING"
    BY <1>3, <1>4, <2>1 DEF CyclicTimer, Late, Waiting
  <2>2. CASE state = "MQTT_CONNECTED"
    BY <1>3, <1>4, <2>2 DEF CyclicTimer, Watching
  <2>3. QED
    BY <1>2, <2>1, <2>2

LEMMA FlagsKept ==
  ASSUME LinkInv, [Next]_vars
  PROVE  Flags'
<1> USE DEF LinkInv, Flags
<1>1. CASE Connect \/ ConnectFails \/ Disconnect \/ Publish
  BY <1>1, Zenon DEF Connect, ConnectFails, Disconnect, Publish
<1>2. CASE TcpConnected \/ TcpSent \/ Accepted \/ Message \/ ServerDies
  BY <1>2, Zenon DEF TcpConnected, Send, TcpSent, Accepted, Message, ServerDies
<1>3. CASE Second
  BY <1>3, Zenon DEF Second
<1>4. CASE RemoteClosed \/ TcpError \/ \E s \in {"REFUSED", "DISCONNECTED"} : Refused(s)
  BY <1>4, Zenon DEF RemoteClosed, TcpError, Refused, Close
<1>5. CASE CyclicTimer
  BY <1>5, Zenon DEF CyclicTimer, Late, Waiting, Watching, Ping, Stray, Close
<1>6. CASE UNCHANGED vars
  BY <1>6, Zenon DEF vars
<1>7. QED
  BY <1>1, <1>2, <1>3, <1>4, <1>5, <1>6 DEF Next

\* A tick that was allowed for is counted within the bound.
LEMMA Counted == LinkInv /\ state = "MQTT_CONNECTED" => watchdog + 1 <= IdleBound
<1> SUFFICES ASSUME LinkInv, state = "MQTT_CONNECTED" PROVE watchdog + 1 <= IdleBound
  OBVIOUS
<1>1. Interval \in Nat \ {0} /\ Patience \in Nat /\ watchdog \in Nat
      /\ watchdog * Interval <= Patience
  BY KeepAliveNat, LinkAssumption DEF LinkAssumption, LinkInv, Counters
<1>2. watchdog <= Patience
  BY <1>1, TicksSeconds
<1>3. QED
  BY <1>1, <1>2 DEF IdleBound

LEMMA TicksKept ==
  ASSUME LinkInv, [Next]_vars
  PROVE  Counters'
<1>1. Patience \in Nat /\ IdleBound \in Nat
  BY KeepAliveNat
<1>2. 0 * Interval = 0 /\ 0 < ConnectTimeout
  BY LinkAssumption DEF LinkAssumption
<1>3. state = "MQTT_CONNECTED" => watchdog + 1 <= IdleBound
  BY Counted
<1>0. keepAlive' = keepAlive => Patience' = Patience /\ IdleBound' = IdleBound
  BY DEF Patience, IdleBound
<1>4. CASE Connect \/ ConnectFails
  <2>1. /\ watchdog' = 0 /\ cyclic' = 0 /\ state' \notin {"MQTT_CONNECTING", "MQTT_CONNECTED"}
        /\ keepAlive' \in KeepAlives
    BY <1>4 DEF Connect, ConnectFails
  <2>3. 0 <= IdleBound'
    BY <2>1, BoundNat
  <2>4. QED
    BY <2>1, <2>3 DEF Counters
<1>10. CASE Disconnect \/ Publish
  BY <1>0, <1>1, <1>2, <1>10 DEF LinkInv, Counters, Disconnect, Publish
<1>5. CASE TcpConnected \/ TcpSent \/ Accepted \/ Message
  BY <1>0, <1>1, <1>2, <1>5
     DEF LinkInv, Counters, TcpConnected, TcpSent, Accepted, Message, Received
<1>6. CASE ServerDies \/ Second \/ UNCHANGED vars
  BY <1>0, <1>6 DEF LinkInv, Counters, ServerDies, Second, vars
<1>7. CASE RemoteClosed \/ TcpError \/ \E s \in {"REFUSED", "DISCONNECTED"} : Refused(s)
  BY <1>0, <1>1, <1>7 DEF LinkInv, Counters, RemoteClosed, TcpError, Refused, Received, Close
<1>8. CASE CyclicTimer
  <2>0. keepAlive' = keepAlive
    BY <1>8 DEF CyclicTimer
  <2>1. CASE state = "MQTT_CONNECTING"
    BY <1>0, <1>1, <1>3, <1>8, <2>0, <2>1
       DEF LinkInv, Counters, CyclicTimer, Late, Waiting, Close
  <2>2. CASE state = "MQTT_CONNECTED"
    <3>1. Watching /\ cyclic \in Nat /\ watchdog \in Nat
      BY <1>8, <2>2 DEF CyclicTimer, LinkInv, Counters
    <3>2. CASE keepAlive = 0
      BY <1>0, <2>0, <2>2, <3>1, <3>2 DEF LinkInv, Counters, Watching
    <3>3. CASE keepAlive # 0
      <4>1. /\ watchdog' = watchdog + 1 /\ watchdog' \in Nat /\ watchdog' <= IdleBound'
            /\ cyclic' \in Nat
        BY <1>0, <1>1, <1>3, <2>0, <2>2, <3>1, <3>3 DEF Watching, Ping
      <4>2. CASE Silent
        <5>1. state' = "TCP_DISCONNECTED"
          BY <3>1, <3>3, <4>2 DEF Watching, Close
        <5>2. QED
          BY <4>1, <5>1 DEF Counters
      <4>3. CASE ~Silent
        <5>1. watchdog' * Interval <= Patience'
          BY <1>0, <1>1, <2>0, <3>1, <4>1, <4>3, LinkAssumption DEF LinkAssumption, Silent
        <5>2. state' = state
          BY <3>1, <3>3, <4>3 DEF Watching
        <5>3. QED
          BY <2>2, <4>1, <5>1, <5>2 DEF Counters
      <4>4. QED
        BY <4>2, <4>3
    <3>4. QED
      BY <3>2, <3>3
  <2>3. CASE state \notin {"MQTT_CONNECTING", "MQTT_CONNECTED"}
    BY <1>0, <1>8, <2>0, <2>3 DEF LinkInv, Counters, CyclicTimer, Stray
  <2>4. QED
    BY <2>1, <2>2, <2>3
<1>9. QED
  BY <1>4, <1>5, <1>6, <1>7, <1>8, <1>10 DEF Next

-----------------------------------------------------------------------------
(* Theorems *)

\* The invariant of a connection.
LEMMA LinkAlways == Spec => []LinkInv
<1>1. Init => LinkInv
  BY LinkInit
<1>2. LinkInv /\ [Next]_vars => LinkInv'
  <2> SUFFICES ASSUME LinkInv, [Next]_vars PROVE LinkInv'
    OBVIOUS
  <2>1. Flags' /\ Counters'
    BY FlagsKept, TicksKept
  <2>2. Life'
    <3>1. CASE UNCHANGED vars
      BY <3>1 DEF vars, LinkInv, Life, Shapes, OneTimer, Reported, IdleBound, Patience
    <3>2. QED
      BY <3>1, LifeOfCalls, LifeOfCallbacks, LifeOfClosing, LifeOfTimer DEF Next
  <2>3. QED
    BY <2>1, <2>2 DEF LinkInv, Life
<1>3. QED
  BY <1>1, <1>2, PTL DEF Spec

\* For every interval and timeout and all keep-alive times one cyclic timer runs on a live
\* connection and none on any other, and the application of mqtt_client_connect is told
\* once when the connection is accepted and once when it ends.
THEOREM LinkKept == Spec => []LinkSafe
<1>1. LinkInv => LinkSafe
  <2> SUFFICES ASSUME LinkInv PROVE LinkSafe
    OBVIOUS
  <2>1. TypeOK
    <3>1. Len(timers) <= MaxTimers
      BY DEF LinkInv, OneTimer, MaxTimers
    <3>2. cyclic \in Nat /\ watchdog \in 0 .. IdleBound
      BY KeepAliveNat DEF LinkInv, Counters
    <3>3. QED
      BY <3>1, <3>2 DEF LinkInv, Shapes, Flags, TypeOK
  <2>2. QED
    BY <2>1 DEF LinkInv, LinkSafe
<1>2. QED
  BY <1>1, LinkAlways, PTL

-----------------------------------------------------------------------------
(* A server that answers                                                     *)

\* For every keep-alive time the first tick from it on is within the patience, and more than
\* a second passes between two ticks.
Patient ==
  \A k \in KeepAlives \ {0} :
    /\ Interval >= 2
    /\ \A n \in Nat : n * Interval < k => (n + 1) * Interval <= k + k \div 2

\* A keep-alive message waits to be sent or to be acknowledged, since the last tick.
Pinged ==
  \/ timers[1] = Interval /\ (unsent \/ flight)
  \/ timers[1] = Interval - 1 /\ flight

\* On a live connection the watchdog is not ahead of the keep-alive, and that is not due
\* yet, but for a message on its way: the PINGREQ, or what left it no room.
InTime == watchdog <= cyclic /\ (cyclic = 0 \/ cyclic * Interval < keepAlive)
Guarded == InTime \/ Pinged
Health ==
  /\ verdict = "silent" => ~alive
  /\ (alive /\ state = "MQTT_CONNECTED" /\ keepAlive # 0) => Guarded

\* The tick before the end of the patience has sent the keep-alive message.
LEMMA NotSilent ==
  ASSUME Patient, keepAlive # 0, LinkInv, InTime
  PROVE  ~Silent
<1>1. /\ Interval \in Nat \ {0} /\ keepAlive \in Nat \ {0} /\ keepAlive \in KeepAlives \ {0}
      /\ cyclic \in Nat /\ watchdog \in Nat
      /\ cyclic = 0 \/ cyclic * Interval < keepAlive
      /\ watchdog <= cyclic
  BY LinkAssumption DEF LinkAssumption, LinkInv, Shapes, Counters, InTime
<1>2. cyclic * Interval < keepAlive
  <2>1. 0 * Interval = 0
    BY <1>1
  <2>2. QED
    BY <1>1, <2>1
<1>3. (cyclic + 1) * Interval <= Patience
  BY <1>1, <1>2 DEF Patient, Patience
<1>4. (watchdog + 1) * Interval <= (cyclic + 1) * Interval
  <2>1. (cyclic - watchdog) * Interval >= 0
    BY <1>1
  <2>2. QED
    BY <1>1, <2>1
<1>5. (watchdog + 1) * Interval \in Int /\ (cyclic + 1) * Interval \in Int /\ Patience \in Int
  BY <1>1 DEF Patience
<1>6. QED
  BY <1>3, <1>4, <1>5 DEF Silent

\* It is enough that the interval is no longer than half the keep-alive time and a second.
LEMMA PatientEnough ==
  ASSUME Interval >= 2, \A k \in KeepAlives \ {0} : Interval <= k \div 2 + 1
  PROVE  Patient
<1> SUFFICES ASSUME NEW k \in KeepAlives \ {0}, NEW n \in Nat, n * Interval < k
             PROVE  (n + 1) * Interval <= k + k \div 2
  BY DEF Patient
<1>1. /\ Interval \in Nat /\ k \in Nat /\ k \div 2 \in Nat /\ n * Interval \in Nat
      /\ Interval <= k \div 2 + 1
  BY LinkAssumption DEF LinkAssumption
<1>2. (n + 1) * Interval = n * Interval + Interval
  BY <1>1
<1>3. QED
  BY <1>1, <1>2

\* The handler of the timer closes no connection to a live server.
LEMMA TimerHealthy ==
  ASSUME Patient, LinkInv, Health, CyclicTimer
  PROVE  Health'
<1>1. alive' = alive /\ timers # <<>> /\ Head(timers) = 0
  BY DEF CyclicTimer
<1>2. CASE state = "MQTT_CONNECTED"
  <2>1. Watching
    BY <1>1, <1>2 DEF CyclicTimer
  <2>2. CASE keepAlive = 0
    <3>1. UNCHANGED <<keepAlive, state, verdict>>
      BY <2>1, <2>2, <1>2 DEF CyclicTimer, Watching
    <3>2. QED
      BY <1>1, <2>2, <3>1, Zenon DEF Health
  <2>3. CASE keepAlive # 0 /\ alive
    <3>1. Interval >= 2 /\ Interval \in Nat
      BY <2>3, LinkAssumption DEF Patient, LinkAssumption, LinkInv, Shapes
    <3>2. timers[1] = 0
      BY <1>1 DEF LinkInv, Shapes
    <3>3. InTime
      BY <1>2, <2>3, <3>1, <3>2 DEF Health, Guarded, Pinged
    <3>4. ~Silent
      BY <1>2, <2>3, <3>3, NotSilent
    <3>5. /\ watchdog' = watchdog + 1 /\ timers' = Restarted /\ Ping
          /\ UNCHANGED <<state, flight, verdict>>
      BY <2>1, <2>3, <3>4 DEF Watching
    <3>6. timers'[1] = Interval
      <4>1. timers' = Append(<<>>, Interval)
        BY <1>1, <3>5, Untimed DEF Restarted, Rest
      <4>2. QED
        BY <4>1
    <3>7. cyclic \in Nat /\ watchdog \in Nat /\ keepAlive \in Nat
      BY KeepAliveNat DEF LinkInv, Counters
    <3>8. Guarded'
      <4>1. CASE (cyclic + 1) * Interval >= keepAlive
        <5>1. \/ cyclic' = 0 /\ unsent' = TRUE
              \/ unsent /\ cyclic' = cyclic + 1 /\ UNCHANGED unsent
          BY <3>5, <4>1, Zenon DEF Ping
        <5>2. unsent => unsent = TRUE
          BY Zenon DEF LinkInv, Flags
        <5>3. unsent' = TRUE
          BY <5>1, <5>2
        <5>4. unsent'
          BY <5>3
        <5>5. QED
          BY <3>6, <5>4, Zenon DEF Guarded, Pinged
      <4>2. CASE ~((cyclic + 1) * Interval >= keepAlive)
        <5>1. cyclic' = cyclic + 1 /\ keepAlive' = keepAlive
          BY <1>1, <3>5, <4>2 DEF Ping, CyclicTimer
        <5>2. (cyclic + 1) * Interval < keepAlive
          BY <3>1, <3>7, <4>2
        <5>3. watchdog' <= cyclic'
          BY <3>3, <3>5, <3>7, <5>1 DEF InTime
        <5>4. cyclic' * Interval < keepAlive'
          BY <5>1, <5>2
        <5>5. QED
          BY <5>3, <5>4, Zenon DEF Guarded, InTime
      <4>3. QED
        BY <4>1, <4>2
    <3>9. QED
      BY <1>1, <3>5, <3>8, Zenon DEF Health
  <2>4. CASE ~alive
    BY <1>1, <2>4, Zenon DEF Health
  <2>5. QED
    BY <2>2, <2>3, <2>4
<1>3. CASE state # "MQTT_CONNECTED"
  <2>1. state' # "MQTT_CONNECTED" /\ (verdict' = verdict \/ verdict' = "late")
    BY <1>3 DEF CyclicTimer, Late, Waiting, Stray, Close
  <2>2. verdict' = "silent" => verdict = "silent"
    BY <2>1
  <2>3. QED
    BY <1>1, <2>1, <2>2, Zenon DEF Health
<1>4. QED
  BY <1>2, <1>3

\* Within the second after the tick the message is sent, and within the next one it is
\* acknowledged.
LEMMA SecondHealthy ==
  ASSUME LinkInv, Health, Second
  PROVE  Health'
<1>1. /\ UNCHANGED <<state, keepAlive, cyclic, watchdog, alive, verdict>>
      /\ alive /\ flight => state = "TCP_CONNECTING"
      /\ timers' = [i \in DOMAIN timers |-> timers[i] - 1]
  BY DEF Second
<1>2. ASSUME alive, state = "MQTT_CONNECTED", keepAlive # 0, ~InTime
      PROVE  Guarded'
  <2>1. ~flight
    BY <1>1, <1>2
  <2>2. timers[1] = Interval /\ unsent
    BY <1>2, <2>1, Zenon DEF Health, Guarded, Pinged
  <2>3. 1 \in DOMAIN timers
    <3>1. timers \in Seq(0 .. Interval) /\ Len(timers) = 1
      BY <1>2 DEF LinkInv, Shapes, OneTimer
    <3>2. QED
      BY <3>1
  <2>4. timers'[1] = Interval - 1
    BY <1>1, <2>2, <2>3
  <2>5. flight' = (flight \/ unsent)
    BY <1>2, Zenon DEF Second
  <2>6. flight'
    BY <2>2, <2>5, Zenon
  <2>7. QED
    BY <2>4, <2>6, Zenon DEF Guarded, Pinged
<1>3. ASSUME alive', state' = "MQTT_CONNECTED", keepAlive # 0 PROVE Guarded'
  <2>1. CASE InTime
    <3>1. InTime'
      BY <1>1, <2>1 DEF InTime
    <3>2. QED
      BY <3>1, Zenon DEF Guarded
  <2>2. CASE ~InTime
    BY <1>1, <1>2, <1>3, <2>2, Zenon
  <2>3. QED
    BY <2>1, <2>2
<1>4. QED
  BY <1>1, <1>3, Zenon DEF Health

LEMMA HealthKept ==
  ASSUME Patient, LinkInv, Health, [Next]_vars
  PROVE  Health'
<1>0. cyclic \in Nat /\ watchdog \in Nat
  BY DEF LinkInv, Counters
<1>1. CASE state' # "MQTT_CONNECTED" /\ alive' = alive
           /\ (verdict' = "silent" => verdict = "silent")
  BY <1>1, Zenon DEF Health
<1>2. CASE Connect \/ ConnectFails \/ Disconnect \/ TcpConnected \/ RemoteClosed \/ TcpError
           \/ \E s \in {"REFUSED", "DISCONNECTED"} : Refused(s)
  <2>1. state' # "MQTT_CONNECTED" /\ alive' = alive /\ (verdict' = "silent" => verdict = "silent")
    BY <1>2 DEF Connect, ConnectFails, Disconnect, TcpConnected, RemoteClosed, TcpError,
       Refused, Close
  <2>2. QED
    BY <1>1, <2>1
<1>3. CASE TcpSent
  <2>1. alive' = alive /\ verdict' = verdict /\ state' = state
    BY <1>3 DEF TcpSent
  <2>2. state = "MQTT_CONNECTED" => InTime'
    BY <1>3 DEF TcpSent, InTime
  <2>3. QED
    BY <2>1, <2>2, Zenon DEF Health, Guarded
<1>4. CASE Accepted
  <2>1. alive' = alive /\ verdict' = verdict /\ keepAlive' = keepAlive
    BY <1>4 DEF Accepted
  <2>2. keepAlive # 0 => InTime'
    BY <1>4 DEF Accepted, Received, InTime
  <2>3. QED
    BY <2>1, <2>2, Zenon DEF Health, Guarded
<1>9. CASE Message
  <2>1. UNCHANGED <<alive, verdict, state, keepAlive, cyclic, timers, unsent, flight>>
    BY <1>9 DEF Message
  <2>2. keepAlive # 0 => watchdog' = 0
    BY <1>9 DEF Message, Received
  <2>3. keepAlive # 0 /\ InTime => InTime'
    BY <1>0, <2>1, <2>2 DEF InTime
  <2>4. Pinged => Pinged'
    BY <2>1, Zenon DEF Pinged
  <2>5. QED
    BY <2>1, <2>3, <2>4, Zenon DEF Health, Guarded
<1>5. CASE Publish
  <2>1. UNCHANGED <<alive, verdict, state, keepAlive, cyclic, watchdog, timers>>
    BY <1>5 DEF Publish
  <2>2. flight' = TRUE \/ (unsent' = TRUE /\ flight' = flight)
    BY <1>5 DEF Publish
  <2>3. Guarded => Guarded'
    BY <2>1, <2>2, Zenon DEF Guarded, InTime, Pinged
  <2>4. QED
    BY <2>1, <2>3, Zenon DEF Health
<1>6. CASE ServerDies
  BY <1>6, Zenon DEF ServerDies, Health
<1>7. CASE UNCHANGED vars
  BY <1>7, Zenon DEF vars, Health, Guarded, InTime, Pinged
<1>8. QED
  BY <1>2, <1>3, <1>4, <1>5, <1>6, <1>7, <1>9, TimerHealthy, SecondHealthy DEF Next

\* A server that answers is not given up (mqtt_cyclic_timer), also when the ring has no room
\* for a PINGREQ: for every interval of two seconds at least whose first tick from each
\* keep-alive time on is within the patience (PatientEnough), and without keep-alive, which
\* is what mqtt_init asks for.
THEOREM LiveServerKept ==
  ASSUME Patient
  PROVE  Spec => []HealthyKept
<1>1. Init => Health
  BY DEF Init, Health
<1>2. LinkInv /\ Health /\ [Next]_vars => Health'
  BY HealthKept
<1>3. Health => HealthyKept
  BY Zenon DEF Health, HealthyKept
<1>4. QED
  BY <1>1, <1>2, <1>3, LinkAlways, PTL DEF Spec

-----------------------------------------------------------------------------
(* Numbers of bytes, places in the ring                                      *)

\* The assumptions on the constants.
LEMMA RingFacts ==
  /\ RingSize \in Nat /\ RingSize > 0 /\ SndBuf \in Nat /\ SndBuf > 0
  /\ RingLengths \subseteq Nat \ {0} /\ Numbers \in Nat /\ Numbers > RingSize
BY SuiteAssumption DEF SuiteAssumption, Ring!RingAssumption

\* A number that passes the modulus once at most.
LEMMA Once ==
  ASSUME NEW m \in Nat, m > 0, NEW x \in 0 .. 2 * m - 1
  PROVE  x % m = IF x < m THEN x ELSE x - m
<1>1. CASE x < m
  BY <1>1
<1>2. CASE x >= m
  <2>1. x = m * 1 + (x - m) /\ x - m \in 0 .. m - 1
    BY <1>2
  <2>2. QED
    BY <1>2, <2>1
<1>3. QED
  BY <1>1, <1>2

\* Numbers of bytes add up in two steps as in one.
LEMMA Shift ==
  ASSUME NEW a \in 0 .. Numbers - 1, NEW n \in Nat, NEW i \in Nat, n + i < Numbers
  PROVE  (((a + n) % Numbers) + i) % Numbers = (a + (n + i)) % Numbers
<1>1. /\ a + n \in 0 .. 2 * Numbers - 1 /\ a + (n + i) \in 0 .. 2 * Numbers - 1
      /\ i \in 0 .. Numbers - 1
  BY RingFacts
<1>2. (a + n) % Numbers = IF a + n < Numbers THEN a + n ELSE a + n - Numbers
  BY <1>1, RingFacts, Once
<1>3. (a + (n + i)) % Numbers
        = IF a + (n + i) < Numbers THEN a + (n + i) ELSE a + (n + i) - Numbers
  BY <1>1, RingFacts, Once
<1>4. ((a + n) % Numbers) + i \in 0 .. 2 * Numbers - 1
  BY <1>1, <1>2, RingFacts
<1>5. (((a + n) % Numbers) + i) % Numbers
        = IF ((a + n) % Numbers) + i < Numbers THEN ((a + n) % Numbers) + i
          ELSE ((a + n) % Numbers) + i - Numbers
  BY <1>4, RingFacts, Once
<1>6. QED
  BY <1>1, <1>2, <1>3, <1>5, RingFacts

\* Bytes of a piece of the ring with m bytes from place g, the first one with number a.
Holds(b, g, m, a) == \A i \in 0 .. m - 1 : b[Ring!Wrapped(g + i)] = (a + i) % Numbers

\* The bytes of the ring are from get to put, and one place is free.
LEMMA LengthRange ==
  ASSUME NEW g \in Ring!Positions, NEW p \in Ring!Positions
  PROVE  /\ Ring!Length(g, p) \in 0 .. RingSize - 1
         /\ Ring!Wrapped(g + Ring!Length(g, p)) = p
BY RingFacts DEF Ring!Positions, Ring!Length, Ring!Wrapped

\* The numbers of bytes that are handed to TCP at once.
LEMMA SendableRange ==
  ASSUME NEW g \in Ring!Positions, NEW p \in Ring!Positions, NEW r \in 0 .. SndBuf,
         NEW n \in Ring!Sendable(g, p, r)
  PROVE  n \in Nat /\ n <= Ring!Length(g, p) /\ n <= r
<1> DEFINE len == Ring!Length(g, p)
           linear == Ring!Linear(g, p)
<1>1. len \in Nat /\ r \in Nat
  BY LengthRange, RingFacts
<1>2. linear \in Nat /\ linear <= len
  BY <1>1, RingFacts DEF Ring!Linear, Ring!Least, Ring!Positions
<1>3. \/ n = 0 \/ n = Ring!Least(r, linear)
      \/ r > linear /\ n = linear + Ring!Least(r - linear, len - linear)
  BY DEF Ring!Sendable
<1> HIDE DEF len, linear
<1>4. n \in Nat /\ n <= len /\ n <= r
  BY <1>1, <1>2, <1>3 DEF Ring!Least
<1>5. QED
  BY <1>4 DEF len

\* Taking n of the bytes leaves the others in their order.
LEMMA Taken ==
  ASSUME NEW b, NEW g \in Ring!Positions, NEW p \in Ring!Positions, NEW a \in 0 .. Numbers - 1,
         NEW n \in Nat, n <= Ring!Length(g, p), Holds(b, g, Ring!Length(g, p), a)
  PROVE  /\ Ring!Wrapped(g + n) \in Ring!Positions
         /\ Ring!Length(Ring!Wrapped(g + n), p) = Ring!Length(g, p) - n
         /\ Holds(b, Ring!Wrapped(g + n), Ring!Length(g, p) - n, (a + n) % Numbers)
         /\ n > 0 => b[Ring!Wrapped(g + n - 1)] = (a + n - 1) % Numbers
<1> DEFINE len == Ring!Length(g, p)
<1>1. len \in 0 .. RingSize - 1 /\ g \in 0 .. RingSize - 1
  BY LengthRange DEF Ring!Positions
<1>2. Ring!Wrapped(g + n) \in Ring!Positions
  BY <1>1, RingFacts DEF Ring!Wrapped, Ring!Positions
<1>3. Ring!Length(Ring!Wrapped(g + n), p) = len - n
  BY <1>1, RingFacts DEF Ring!Wrapped, Ring!Length, Ring!Positions
<1>4. ASSUME NEW i \in 0 .. len - n - 1
      PROVE  b[Ring!Wrapped(Ring!Wrapped(g + n) + i)] = (((a + n) % Numbers) + i) % Numbers
  <2>1. Ring!Wrapped(Ring!Wrapped(g + n) + i) = Ring!Wrapped(g + (n + i))
    BY <1>1, RingFacts DEF Ring!Wrapped
  <2>2. b[Ring!Wrapped(g + (n + i))] = (a + (n + i)) % Numbers
    <3>1. n + i \in 0 .. len - 1
      BY <1>1
    <3>2. QED
      BY <3>1, Zenon DEF Holds
  <2>3. (((a + n) % Numbers) + i) % Numbers = (a + (n + i)) % Numbers
    <3>1. i \in Nat /\ n + i < Numbers
      BY <1>1, RingFacts
    <3>2. QED
      BY <3>1, Shift
  <2>4. QED
    BY <2>1, <2>2, <2>3
<1>5. n > 0 => b[Ring!Wrapped(g + n - 1)] = (a + n - 1) % Numbers
  <2>1. n > 0 => n - 1 \in 0 .. len - 1
    BY <1>1
  <2>2. g + (n - 1) = g + n - 1 /\ a + (n - 1) = a + n - 1
    BY <1>1
  <2>3. QED
    BY <2>1, <2>2 DEF Holds
<1>6. QED
  BY <1>2, <1>3, <1>4, <1>5 DEF Holds

\* A message behind the bytes of the ring.
LEMMA Added ==
  ASSUME Ring!RingTypeOK, NEW k \in Nat \ {0}, Ring!CheckSpace(k),
         NEW b, b = Ring!WithBytes(k),
         NEW a \in 0 .. Numbers - 1, accepted = (a + Ring!Length(get, put)) % Numbers,
         Holds(buf, get, Ring!Length(get, put), a), (put + k) % RingSize # get
  PROVE  /\ (put + k) % RingSize \in Ring!Positions
         /\ Ring!Length(get, (put + k) % RingSize) = Ring!Length(get, put) + k
         /\ Holds(b, get, Ring!Length(get, put) + k, a)
         /\ (accepted + k) % Numbers = (a + (Ring!Length(get, put) + k)) % Numbers
<1> DEFINE len == Ring!Length(get, put)
           p == (put + k) % RingSize
<1>1. /\ len \in 0 .. RingSize - 1 /\ get \in 0 .. RingSize - 1 /\ put \in 0 .. RingSize - 1
      /\ k <= RingSize - len /\ accepted \in 0 .. Numbers - 1
  BY LengthRange DEF Ring!Positions, Ring!RingTypeOK, Ring!CheckSpace
<1>2. p = Ring!Wrapped(put + k)
  <2>1. put + k \in 0 .. 2 * RingSize - 1
    BY <1>1, RingFacts
  <2>2. QED
    BY <2>1, RingFacts, Once DEF Ring!Wrapped
<1>3. p \in Ring!Positions
  BY <1>1, <1>2, RingFacts DEF Ring!Wrapped, Ring!Positions
<1>4. len + k < RingSize /\ Ring!Length(get, p) = len + k
  BY <1>1, <1>2, RingFacts DEF Ring!Length, Ring!Wrapped
<1>5. ASSUME NEW i \in 0 .. (len + k) - 1
      PROVE  b[Ring!Wrapped(get + i)] = (a + i) % Numbers
  <2> DEFINE at == Ring!Wrapped(get + i)
             j == Ring!Wrapped(at + RingSize - put)
  <2>1. at \in Ring!Positions
    BY <1>1, <1>4, RingFacts DEF Ring!Wrapped, Ring!Positions
  <2>2. b[at] = IF j < k THEN (accepted + j) % Numbers ELSE buf[at]
    BY <2>1 DEF Ring!WithBytes
  <2>3. CASE i < len
    <3>1. ~(j < k)
      BY <1>1, <1>4, <2>3, RingFacts DEF Ring!Wrapped, Ring!Length
    <3>2. buf[at] = (a + i) % Numbers
      <4>1. i \in 0 .. len - 1
        BY <1>1, <2>3
      <4>2. QED
        BY <4>1, Zenon DEF Holds
    <3>3. QED
      BY <2>2, <3>1, <3>2
  <2>4. CASE i >= len
    <3>1. j = i - len /\ j < k
      BY <1>1, <1>4, <2>4, RingFacts DEF Ring!Wrapped, Ring!Length
    <3>2. (accepted + (i - len)) % Numbers = (a + (len + (i - len))) % Numbers
      <4>1. len \in Nat /\ i - len \in Nat /\ len + (i - len) < Numbers
        BY <1>1, <1>4, <2>4, RingFacts
      <4>2. QED
        BY <4>1, Shift
    <3>3. len + (i - len) = i
      BY <1>1
    <3>4. QED
      BY <2>2, <3>1, <3>2, <3>3
  <2>5. QED
    BY <1>1, <2>3, <2>4
<1>6. (accepted + k) % Numbers = (a + (len + k)) % Numbers
  <2>1. len \in Nat /\ len + k < Numbers
    BY <1>1, <1>4, RingFacts
  <2>2. QED
    BY <2>1, Shift
<1>7. Holds(b, get, len + k, a)
  BY <1>5 DEF Holds
<1>8. QED
  BY <1>3, <1>4, <1>6, <1>7

-----------------------------------------------------------------------------
(* The invariant                                                             *)

\* The number of the next byte for TCP.
NextByte == (written + 1) % Numbers

\* The ring holds the bytes from the next one for TCP up to the last one accepted.
Whole ==
  /\ accepted = (NextByte + Ring!Length(get, put)) % Numbers
  /\ Holds(buf, get, Ring!Length(get, put), NextByte)

RingInv == Ring!RingTypeOK /\ (~full => Whole)

\* The ring begins empty.
LEMMA RingStart == Ring!RingInit => RingInv
<1> SUFFICES ASSUME Ring!RingInit PROVE RingInv
  OBVIOUS
<1> USE RingFacts
<1>1. /\ buf = [i \in Ring!Positions |-> 0] /\ put = 0 /\ get = 0 /\ room = SndBuf
      /\ accepted = 0 /\ written = Numbers - 1
  BY DEF Ring!RingInit, Ring!None
<1>2. full \in BOOLEAN
  BY Zenon DEF Ring!RingInit
<1>3. Ring!RingTypeOK
  BY <1>1, <1>2 DEF Ring!RingTypeOK, Ring!Positions
<1>4. Ring!Length(get, put) = 0
  BY <1>1 DEF Ring!Length
<1>5. NextByte = 0
  <2>1. Numbers % Numbers = 0
    BY Once
  <2>2. QED
    BY <1>1, <2>1 DEF NextByte
<1>6. Whole
  <2>1. 0 % Numbers = 0
    BY Once
  <2>2. QED
    BY <1>1, <1>4, <1>5, <2>1 DEF Whole, Holds
<1>7. QED
  BY <1>3, <1>6 DEF RingInv

\* What the invariant says is that the stream is intact.
LEMMA RingIntact == RingInv => Ring!RingTypeOK /\ Ring!StreamIntact
<1> SUFFICES ASSUME RingInv, ~full PROVE Ring!Intact
  BY DEF RingInv, Ring!StreamIntact
<1> DEFINE len == Ring!Length(get, put)
<1>1. len \in 0 .. RingSize - 1 /\ written \in 0 .. Numbers - 1
  BY LengthRange DEF RingInv, Ring!RingTypeOK
<1>2. \A i \in 0 .. RingSize - 1 : (NextByte + i) % Numbers = (written + (1 + i)) % Numbers
  <2> SUFFICES ASSUME NEW i \in 0 .. RingSize - 1
               PROVE  (NextByte + i) % Numbers = (written + (1 + i)) % Numbers
    OBVIOUS
  <2>1. i \in Nat /\ 1 + i < Numbers
    BY RingFacts
  <2>2. QED
    BY <1>1, <2>1, Shift DEF NextByte
<1>3. accepted = (written + (1 + len)) % Numbers
  BY <1>1, <1>2 DEF RingInv, Whole
<1>4. \A i \in 0 .. len - 1 : buf[Ring!Wrapped(get + i)] = (written + (1 + i)) % Numbers
  <2> SUFFICES ASSUME NEW i \in 0 .. len - 1
               PROVE  buf[Ring!Wrapped(get + i)] = (written + (1 + i)) % Numbers
    OBVIOUS
  <2>1. i \in 0 .. RingSize - 1
    BY <1>1, RingFacts
  <2>2. buf[Ring!Wrapped(get + i)] = (NextByte + i) % Numbers
    BY Zenon DEF RingInv, Whole, Holds
  <2>3. QED
    BY <1>2, <2>1, <2>2
<1>5. QED
  <2>1. written + (1 + len) = written + len + 1
    BY <1>1
  <2>2. \A i \in 0 .. len - 1 : written + (1 + i) = written + 1 + i
    BY <1>1
  <2>3. (written + len + 1) % Numbers = accepted
    BY <1>3, <2>1
  <2>4. \A i \in 0 .. len - 1 : buf[Ring!Wrapped(get + i)] = (written + 1 + i) % Numbers
    BY <1>4, <2>2
  <2>5. QED
    BY <2>3, <2>4 DEF Ring!Intact

\* Bytes handed to TCP are the next ones, and the ring keeps the others.
LEMMA SendKept ==
  ASSUME get \in Ring!Positions, written \in 0 .. Numbers - 1,
         NEW b \in [Ring!Positions -> 0 .. Numbers - 1], NEW p \in Ring!Positions,
         NEW r \in 0 .. SndBuf, Ring!Send(b, p, r)
  PROVE  /\ get' \in Ring!Positions /\ room' \in 0 .. SndBuf /\ written' \in 0 .. Numbers - 1
         /\ \A acc : /\ acc = (NextByte + Ring!Length(get, p)) % Numbers
                     /\ Holds(b, get, Ring!Length(get, p), NextByte)
                     => /\ acc = (((written' + 1) % Numbers) + Ring!Length(get', p)) % Numbers
                        /\ Holds(b, get', Ring!Length(get', p), (written' + 1) % Numbers)
<1> DEFINE len == Ring!Length(get, p)
<1>1. PICK n \in Ring!Sendable(get, p, r) :
        /\ get' = Ring!Wrapped(get + n) /\ room' = r - n
        /\ written' = IF n = 0 THEN written ELSE b[Ring!Wrapped(get + n - 1)]
  BY DEF Ring!Send
<1>2. /\ n \in Nat /\ n <= len /\ n <= r /\ len \in 0 .. RingSize - 1
      /\ get \in 0 .. RingSize - 1
  BY SendableRange, LengthRange DEF Ring!Positions
<1>3. get' \in Ring!Positions /\ room' \in 0 .. SndBuf
  BY <1>1, <1>2, RingFacts DEF Ring!Wrapped, Ring!Positions
<1>4. written' \in 0 .. Numbers - 1
  <2>1. CASE n = 0
    BY <1>1, <2>1
  <2>2. CASE n # 0
    <3>1. Ring!Wrapped(get + n - 1) \in Ring!Positions
      BY <1>2, <2>2, RingFacts DEF Ring!Wrapped, Ring!Positions
    <3>2. QED
      BY <1>1, <2>2, <3>1
  <2>3. QED
    BY <2>1, <2>2
<1>5. NextByte \in 0 .. Numbers - 1
  BY RingFacts, Once DEF NextByte
<1>6. ASSUME NEW acc, acc = (NextByte + len) % Numbers, Holds(b, get, len, NextByte)
      PROVE  /\ acc = (((written' + 1) % Numbers) + Ring!Length(get', p)) % Numbers
             /\ Holds(b, get', Ring!Length(get', p), (written' + 1) % Numbers)
  <2>1. /\ Ring!Length(get', p) = len - n
        /\ Holds(b, get', len - n, (NextByte + n) % Numbers)
        /\ n > 0 => b[Ring!Wrapped(get + n - 1)] = (NextByte + n - 1) % Numbers
    BY <1>1, <1>2, <1>5, <1>6, Taken
  <2>2. (written' + 1) % Numbers = (NextByte + n) % Numbers
    <3>1. CASE n = 0
      <4>1. NextByte % Numbers = NextByte /\ NextByte + 0 = NextByte
        BY <1>5, RingFacts, Once
      <4>2. QED
        BY <1>1, <3>1, <4>1 DEF NextByte
    <3>2. CASE n # 0
      <4>1. written' = (NextByte + (n - 1)) % Numbers
        <5>1. NextByte + (n - 1) = NextByte + n - 1
          BY <1>2, <1>5
        <5>2. QED
          BY <1>1, <1>2, <2>1, <3>2, <5>1
      <4>2. (((NextByte + (n - 1)) % Numbers) + 1) % Numbers = (NextByte + ((n - 1) + 1)) % Numbers
        <5>1. n - 1 \in Nat /\ (n - 1) + 1 < Numbers
          BY <1>2, <3>2, RingFacts
        <5>2. QED
          BY <1>5, <5>1, Shift
      <4>3. (n - 1) + 1 = n
        BY <1>2
      <4>4. QED
        BY <4>1, <4>2, <4>3
    <3>3. QED
      BY <3>1, <3>2
  <2>3. (((NextByte + n) % Numbers) + (len - n)) % Numbers = (NextByte + (n + (len - n))) % Numbers
    <3>1. len - n \in Nat /\ n + (len - n) < Numbers
      BY <1>2, RingFacts
    <3>2. QED
      BY <1>2, <1>5, <3>1, Shift
  <2>4. n + (len - n) = len
    BY <1>2
  <2>5. QED
    BY <1>6, <2>1, <2>2, <2>3, <2>4
<1>7. QED
  BY <1>3, <1>4, <1>6

\* A message in the ring, before anything of it is sent.
LEMMA EnqueueKept ==
  ASSUME RingInv, NEW k \in RingLengths, Ring!Enqueue(k)
  PROVE  /\ buf' \in [Ring!Positions -> 0 .. Numbers - 1] /\ put' \in Ring!Positions
         /\ accepted' \in 0 .. Numbers - 1 /\ full' \in BOOLEAN
         /\ ~full' => /\ accepted' = (NextByte + Ring!Length(get, put')) % Numbers
                      /\ Holds(buf', get, Ring!Length(get, put'), NextByte)
<1>1. /\ Ring!CheckSpace(k) /\ buf' = Ring!WithBytes(k) /\ put' = (put + k) % RingSize
      /\ accepted' = (accepted + k) % Numbers /\ k \in Nat \ {0}
  BY RingFacts DEF Ring!Enqueue
<1>2. /\ get \in 0 .. RingSize - 1 /\ put \in 0 .. RingSize - 1 /\ accepted \in 0 .. Numbers - 1
      /\ k \in 1 .. RingSize
  <2>1. get \in Ring!Positions /\ put \in Ring!Positions /\ accepted \in 0 .. Numbers - 1
    BY DEF RingInv, Ring!RingTypeOK
  <2>2. Ring!Length(get, put) \in 0 .. RingSize - 1
    BY <2>1, LengthRange
  <2>3. k <= RingSize - Ring!Length(get, put)
    BY <1>1 DEF Ring!CheckSpace
  <2>4. k \in 1 .. RingSize
    BY <1>1, <2>2, <2>3, RingFacts
  <2>5. QED
    BY <2>1, <2>4 DEF Ring!Positions
<1>3. put' \in Ring!Positions /\ accepted' \in 0 .. Numbers - 1
  <2>1. put + k \in 0 .. 2 * RingSize - 1 /\ accepted + k \in 0 .. 2 * Numbers - 1
    BY <1>2, RingFacts
  <2>2. QED
    BY <1>1, <2>1, Once, RingFacts DEF Ring!Positions
<1>4. buf' \in [Ring!Positions -> 0 .. Numbers - 1]
  <2>1. \A j \in Int : (accepted + j) % Numbers \in 0 .. Numbers - 1
    BY <1>2, RingFacts
  <2>2. \A i \in Ring!Positions : Ring!Wrapped(i + RingSize - put) \in Int
    BY <1>2, RingFacts DEF Ring!Positions, Ring!Wrapped
  <2>3. \A i \in Ring!Positions : buf[i] \in 0 .. Numbers - 1
    BY DEF RingInv, Ring!RingTypeOK
  <2>4. QED
    BY <1>1, <2>1, <2>2, <2>3 DEF Ring!WithBytes
<1>5. full' = (full \/ put' = get)
  BY DEF Ring!Enqueue
<1>6. full \in BOOLEAN /\ full' \in BOOLEAN
  <2>1. full \in BOOLEAN
    BY Zenon DEF RingInv, Ring!RingTypeOK
  <2>2. QED
    BY <1>5, <2>1, Zenon
<1>7. ASSUME ~full'
      PROVE  /\ accepted' = (NextByte + Ring!Length(get, put')) % Numbers
             /\ Holds(buf', get, Ring!Length(get, put'), NextByte)
  <2>1. ~full /\ put' # get
    BY <1>5, <1>6, <1>7, Zenon
  <2>2. Ring!RingTypeOK /\ Whole /\ NextByte \in 0 .. Numbers - 1
    <3>1. NextByte \in 0 .. Numbers - 1
      BY RingFacts DEF NextByte, RingInv, Ring!RingTypeOK
    <3>2. QED
      BY <2>1, <3>1 DEF RingInv
  <2>3. QED
    BY <1>1, <2>1, <2>2, Added DEF Whole
<1>8. QED
  BY <1>3, <1>4, <1>6, <1>7

\* Every step of the client and of TCP keeps the invariant.
LEMMA RingKept ==
  ASSUME RingInv, Ring!RingNext \/ UNCHANGED Ring!ringVars
  PROVE  RingInv'
<1>1. /\ buf \in [Ring!Positions -> 0 .. Numbers - 1]
      /\ put \in Ring!Positions /\ get \in Ring!Positions
      /\ room \in 0 .. SndBuf
      /\ accepted \in 0 .. Numbers - 1 /\ written \in 0 .. Numbers - 1
  BY DEF RingInv, Ring!RingTypeOK
<1>2. full \in BOOLEAN /\ (~full => Whole)
  BY Zenon DEF RingInv, Ring!RingTypeOK
<1>3. ASSUME NEW k \in RingLengths, Ring!Message(k) PROVE RingInv'
  <2>1. /\ buf' \in [Ring!Positions -> 0 .. Numbers - 1] /\ put' \in Ring!Positions
        /\ accepted' \in 0 .. Numbers - 1 /\ full' \in BOOLEAN
        /\ ~full' => /\ accepted' = (NextByte + Ring!Length(get, put')) % Numbers
                     /\ Holds(buf', get, Ring!Length(get, put'), NextByte)
    BY <1>3, EnqueueKept, Zenon DEF Ring!Message
  <2>2. Ring!Send(buf', put', room)
    BY <1>3 DEF Ring!Message
  <2>3. /\ get' \in Ring!Positions /\ room' \in 0 .. SndBuf /\ written' \in 0 .. Numbers - 1
        /\ \A acc : /\ acc = (NextByte + Ring!Length(get, put')) % Numbers
                    /\ Holds(buf', get, Ring!Length(get, put'), NextByte)
                    => /\ acc = (((written' + 1) % Numbers) + Ring!Length(get', put')) % Numbers
                       /\ Holds(buf', get', Ring!Length(get', put'), (written' + 1) % Numbers)
    BY <1>1, <2>1, <2>2, SendKept, Zenon
  <2>4. ~full' => Whole'
    BY <2>1, <2>3, Zenon DEF Whole, NextByte
  <2>5. Ring!RingTypeOK'
    BY <2>1, <2>3, Zenon DEF Ring!RingTypeOK
  <2>6. QED
    BY <2>4, <2>5, Zenon DEF RingInv
<1>4. ASSUME NEW k \in RingLengths, Ring!Ping(k) PROVE RingInv'
  <2>1. /\ buf' \in [Ring!Positions -> 0 .. Numbers - 1] /\ put' \in Ring!Positions
        /\ accepted' \in 0 .. Numbers - 1 /\ full' \in BOOLEAN
        /\ ~full' => /\ accepted' = (NextByte + Ring!Length(get, put')) % Numbers
                     /\ Holds(buf', get, Ring!Length(get, put'), NextByte)
    BY <1>4, EnqueueKept, Zenon DEF Ring!Ping
  <2>2. get' = get /\ room' = room /\ written' = written
    BY <1>4 DEF Ring!Ping
  <2>3. ~full' => Whole'
    BY <2>1, <2>2, Zenon DEF Whole, NextByte
  <2>4. Ring!RingTypeOK'
    BY <1>1, <2>1, <2>2, Zenon DEF Ring!RingTypeOK
  <2>5. QED
    BY <2>3, <2>4, Zenon DEF RingInv
<1>5. ASSUME NEW r \in 0 .. SndBuf, Ring!Send(buf, put, r),
             UNCHANGED <<buf, put, accepted, full>>
      PROVE  RingInv'
  <2>1. /\ get' \in Ring!Positions /\ room' \in 0 .. SndBuf /\ written' \in 0 .. Numbers - 1
        /\ \A acc : /\ acc = (NextByte + Ring!Length(get, put)) % Numbers
                    /\ Holds(buf, get, Ring!Length(get, put), NextByte)
                    => /\ acc = (((written' + 1) % Numbers) + Ring!Length(get', put)) % Numbers
                       /\ Holds(buf, get', Ring!Length(get', put), (written' + 1) % Numbers)
    BY <1>1, <1>5, SendKept, Zenon
  <2>2. buf' = buf /\ put' = put /\ accepted' = accepted /\ full' = full
    BY <1>5
  <2>3. ~full' => Whole'
    BY <1>2, <2>1, <2>2, Zenon DEF Whole, NextByte
  <2>4. Ring!RingTypeOK'
    BY <1>1, <1>2, <2>1, <2>2, Zenon DEF Ring!RingTypeOK
  <2>5. QED
    BY <2>3, <2>4, Zenon DEF RingInv
<1>6. CASE UNCHANGED Ring!ringVars
  BY <1>6, Zenon DEF Ring!ringVars, RingInv, Ring!RingTypeOK, Whole, NextByte
<1>7. CASE Ring!Poll
  BY <1>1, <1>5, <1>7 DEF Ring!Poll
<1>8. ASSUME NEW k \in 1 .. SndBuf, Ring!Acked(k) PROVE RingInv'
  <2>1. room + k \in 0 .. SndBuf
    BY <1>1, <1>8, RingFacts DEF Ring!Acked
  <2>2. QED
    BY <1>5, <1>8, <2>1 DEF Ring!Acked
<1>9. QED
  BY <1>3, <1>4, <1>6, <1>7, <1>8 DEF Ring!RingNext

\* The output ring of mqtt.c, for every size of the ring and of the send buffer and for
\* messages of any lengths: bytes go to TCP in the order in which they were accepted,
\* without gap or repetition, as long as no message fills the ring to the last byte.
THEOREM StreamKept == SuiteSpec => []RingSafe
<1> DEFINE Inv == part = "ring" => RingInv
<1>1. SuiteInit => Inv
  BY RingStart DEF SuiteInit
<1>2. Inv /\ [SuiteNext]_allVars => Inv'
  <2> SUFFICES ASSUME part = "ring", RingInv, [SuiteNext]_allVars PROVE RingInv'
    BY DEF SuiteNext, LinkPart, RingPart, RequestPart, ParserPart, allVars
  <2>1. Ring!RingNext \/ UNCHANGED Ring!ringVars
    BY DEF SuiteNext, LinkPart, RingPart, RequestPart, ParserPart, allVars, outVars,
       Ring!ringVars
  <2>2. QED
    BY <2>1, RingKept
<1>3. Inv => RingSafe
  BY RingIntact DEF RingSafe
<1> HIDE DEF Inv
<1>4. QED
  BY <1>1, <1>2, <1>3, PTL DEF SuiteSpec

-----------------------------------------------------------------------------
(* Induction over numbers                                                    *)

-----------------------------------------------------------------------------
(* The list of requests                                                      *)

\* The assumptions on the constants.
LEMMA RequestFacts ==
  /\ Interval \in Nat /\ Interval > 0 /\ Timeout \in Nat /\ Timeout > 0
  /\ Timeout % Interval = 0 /\ MaxRequests \in Nat
  /\ PacketIds \subseteq Nat \ {0}
  /\ ListRing \in Nat /\ ListRing > 0 /\ ListSndBuf \in Nat /\ ListSndBuf > 0
  /\ ListLengths \subseteq Nat \ {0} /\ ListNumbers \in Nat /\ ListNumbers > ListRing
BY SuiteAssumption
   DEF SuiteAssumption, Requests!RingAssumption, Requests!RequestAssumption

\* The ticks of the timer that a request lives, and the time it has left after some.
Ticks == Timeout \div Interval
TimeLeft(a) == Requests!Positive(Timeout - Interval * a)

\* The timeout is a whole number of ticks.
LEMMA WholeTicks == Ticks \in Nat /\ Timeout = Interval * Ticks
BY RequestFacts DEF Ticks

\* A tick takes the interval off what is left.
LEMMA TimeTick ==
  ASSUME NEW a \in Nat
  PROVE  /\ TimeLeft(a) \in 0 .. Timeout /\ TimeLeft(0) = Timeout
         /\ TimeLeft(a + 1) = Requests!Positive(TimeLeft(a) - Interval)
         /\ TimeLeft(a) > 0 => a < Ticks
         /\ a <= Ticks => a * Interval <= Timeout
<1>1. Interval \in Nat /\ Interval > 0 /\ Timeout \in Nat /\ Ticks \in Nat
      /\ Timeout = Interval * Ticks
  BY RequestFacts, WholeTicks
<1>2. Interval * a \in Nat /\ Interval * (a + 1) = Interval * a + Interval /\ Interval * 0 = 0
  BY <1>1
<1>3. a >= Ticks => Interval * a >= Interval * Ticks
  BY <1>1
<1>4. a <= Ticks => a * Interval <= Interval * Ticks
  BY <1>1
<1> DEFINE x == Interval * a
           y == Interval * (a + 1)
<1>5. x \in Nat /\ y = x + Interval
  BY <1>2
<1>6. TimeLeft(a) = Requests!Positive(Timeout - x) /\ TimeLeft(a + 1) = Requests!Positive(Timeout - y)
      /\ TimeLeft(0) = Requests!Positive(Timeout - 0)
  BY <1>2 DEF TimeLeft
<1>7. TimeLeft(a) > 0 => a < Ticks
  <2>1. ~ (a < Ticks) => x >= Timeout
    BY <1>1, <1>3
  <2> HIDE DEF x
  <2>2. QED
    BY <1>1, <1>5, <1>6, <2>1 DEF Requests!Positive
<1> HIDE DEF x, y
<1>8. QED
  BY <1>1, <1>4, <1>5, <1>6, <1>7 DEF Requests!Positive

Item == [id : PacketIds \cup {0}, diff : 0 .. Timeout, age : 0 .. Ticks, left : 0 .. ListRing]

\* The time left to the k-th request of a list, and none before the first one.
Left(q, k) == IF k = 0 THEN 0 ELSE TimeLeft(q[k].age)

\* Between neighbours: a relative time is what a request has left beyond the one before
\* it, and who comes later has no less time left.
Timed(q) ==
  /\ \A k \in 1 .. Len(q) : q[k].diff = Left(q, k) - Left(q, k - 1)
  /\ \A j, k \in 0 .. Len(q) : j <= k => Left(q, j) <= Left(q, k)

LEMMA LeftRange ==
  ASSUME NEW q \in Seq(Item), NEW k \in 0 .. Len(q)
  PROVE  Left(q, k) \in 0 .. Timeout
<1>1. k # 0 => q[k].age \in Nat
  <2>1. k # 0 => q[k] \in Item
    OBVIOUS
  <2>2. QED
    BY <2>1, WholeTicks DEF Item
<1>2. k # 0 => TimeLeft(q[k].age) \in 0 .. Timeout
  BY <1>1, TimeTick
<1>3. QED
  BY <1>2, RequestFacts DEF Left

\* The relative times up to a request add up to the time it has left.
LEMMA SumOfTimes ==
  ASSUME NEW q \in Seq(Item), Timed(q), NEW k \in 0 .. Len(q)
  PROVE  Requests!TimeBefore(q, k) = Left(q, k)
<1> DEFINE IsSum(f) == f = [n \in 0 .. k |-> IF n = 0 THEN 0 ELSE f[n - 1] + q[n].diff]
           sum == CHOOSE f : IsSum(f)
           left == [n \in 0 .. k |-> Left(q, n)]
<1>1. Requests!TimeBefore(q, k) = sum[k]
  BY DEF Requests!TimeBefore
<1>2. ASSUME NEW n \in 1 .. k
      PROVE  Left(q, n) = Left(q, n - 1) + q[n].diff
  <2>1. n \in 1 .. Len(q) /\ n \in 0 .. Len(q) /\ n - 1 \in 0 .. Len(q)
    OBVIOUS
  <2>2. Left(q, n) \in Int /\ Left(q, n - 1) \in Int
    BY <2>1, LeftRange, RequestFacts
  <2>3. q[n].diff = Left(q, n) - Left(q, n - 1)
    BY <2>1 DEF Timed
  <2>4. QED
    BY <2>2, <2>3
<1>3. Left(q, 0) = 0
  BY DEF Left
<1>4. IsSum(left)
  <2>1. \A n \in 0 .. k : left[n] = IF n = 0 THEN 0 ELSE left[n - 1] + q[n].diff
    BY <1>2, <1>3
  <2> HIDE DEF left
  <2>2. left = [n \in 0 .. k |-> left[n]]
    BY DEF left
  <2>3. QED
    BY <2>1, <2>2
<1>5. IsSum(sum)
  <2> HIDE DEF IsSum, left
  <2>1. QED
    BY <1>4
<1> DEFINE S == {n \in Nat : n <= k => sum[n] = Left(q, n)}
<1> HIDE DEF sum
<1>6. 0 \in S
  BY <1>3, <1>5
<1>7. ASSUME NEW n \in Nat, n \in S PROVE n + 1 \in S
  <2>1. n + 1 <= k => sum[n + 1] = sum[n] + q[n + 1].diff
    BY <1>5
  <2>2. n + 1 <= k => Left(q, n + 1) = Left(q, n) + q[n + 1].diff
    <3>1. n + 1 <= k => n + 1 \in 1 .. k /\ (n + 1) - 1 = n
      OBVIOUS
    <3>2. QED
      BY <1>2, <3>1
  <2>3. QED
    BY <1>7, <2>1, <2>2
<1>8. k \in S
  <2> HIDE DEF S
  <2>1. QED
    BY <1>6, <1>7, EveryNumber
<1>9. QED
  BY <1>1, <1>8

\* What follows for a request and the one before it.
LEMMA Neighbours ==
  ASSUME NEW q \in Seq(Item), Timed(q), NEW k \in 1 .. Len(q)
  PROVE  /\ q[k] \in Item /\ q[k].diff \in 0 .. Timeout
         /\ Left(q, k) \in 0 .. Timeout /\ Left(q, k - 1) \in 0 .. Timeout
         /\ Left(q, k - 1) <= Left(q, k) /\ q[k].diff = Left(q, k) - Left(q, k - 1)
<1>1. k - 1 \in 0 .. Len(q) /\ k \in 0 .. Len(q) /\ k - 1 <= k
  OBVIOUS
<1>2. Left(q, k) \in 0 .. Timeout /\ Left(q, k - 1) \in 0 .. Timeout
  BY <1>1, LeftRange
<1>3. q[k] \in Item
  OBVIOUS
<1>4. q[k].diff \in 0 .. Timeout
  BY <1>3 DEF Item
<1>5. QED
  BY <1>1, <1>2, <1>3, <1>4 DEF Timed

\* The times do not depend on what else is kept of a request.
LEMMA SameTimes ==
  ASSUME NEW q \in Seq(Item), Timed(q), NEW s \in Seq(Item), Len(s) = Len(q),
         \A k \in 1 .. Len(q) : s[k].diff = q[k].diff /\ s[k].age = q[k].age
  PROVE  Timed(s)
<1>1. \A k \in 0 .. Len(q) : Left(s, k) = Left(q, k)
  BY DEF Left
<1>2. \A k \in 1 .. Len(q) : k - 1 \in 0 .. Len(q) /\ k \in 0 .. Len(q)
  OBVIOUS
<1>3. QED
  BY <1>1, <1>2 DEF Timed

\* A new request has the whole timeout left, more than any other.
LEMMA Appended ==
  ASSUME NEW q \in Seq(Item), Timed(q), NEW id \in PacketIds \cup {0}, NEW x \in 0 .. ListRing
  PROVE  LET s == Append(q, [id |-> id, diff |-> Requests!NewDiff(q), age |-> 0, left |-> x])
         IN  s \in Seq(Item) /\ Timed(s) /\ Len(s) = Len(q) + 1
<1> DEFINE r == [id |-> id, diff |-> Requests!NewDiff(q), age |-> 0, left |-> x]
           s == Append(q, r)
           n == Len(q)
<1>1. n \in Nat /\ n \in 0 .. n
  OBVIOUS
<1>2. Requests!NewDiff(q) = Timeout - Left(q, n) /\ Left(q, n) \in 0 .. Timeout
  BY <1>1, SumOfTimes, LeftRange DEF Requests!NewDiff
<1>3. r \in Item
  <2>1. Requests!NewDiff(q) \in 0 .. Timeout /\ 0 \in 0 .. Ticks
    BY <1>2, RequestFacts, WholeTicks
  <2>2. QED
    BY <2>1, Zenon DEF Item
<1>4. r.diff = Timeout - Left(q, n) /\ r.age = 0
  BY <1>2
<1> HIDE DEF r
<1>5. s \in Seq(Item) /\ Len(s) = n + 1 /\ s[n + 1] = r /\ \A k \in 1 .. n : s[k] = q[k]
  BY <1>3
<1> HIDE DEF s
<1>6. \A k \in 0 .. n : Left(s, k) = Left(q, k)
  BY <1>5 DEF Left
<1>7. Left(s, n + 1) = Timeout
  <2>1. n + 1 # 0
    BY <1>1
  <2>2. TimeLeft(0) = Timeout
    BY TimeTick
  <2>3. QED
    BY <1>4, <1>5, <2>1, <2>2 DEF Left
<1>8. ASSUME NEW k \in 1 .. n + 1 PROVE s[k].diff = Left(s, k) - Left(s, k - 1)
  <2>1. CASE k = n + 1
    BY <1>1, <1>2, <1>4, <1>5, <1>6, <1>7, <2>1
  <2>2. CASE k # n + 1
    <3>1. k \in 1 .. n /\ k \in 0 .. n /\ k - 1 \in 0 .. n
      BY <1>1, <2>2
    <3>2. QED
      BY <1>5, <1>6, <3>1, Neighbours
  <2>3. QED
    BY <2>1, <2>2
<1>9. ASSUME NEW j \in 0 .. n + 1, NEW k \in 0 .. n + 1, j <= k PROVE Left(s, j) <= Left(s, k)
  <2>1. CASE k = n + 1
    <3>1. Left(s, j) \in 0 .. Timeout
      BY <1>5, LeftRange
    <3>2. QED
      BY <1>7, <2>1, <3>1, RequestFacts
  <2>2. CASE k # n + 1
    <3>1. j \in 0 .. n /\ k \in 0 .. n
      BY <1>1, <1>9, <2>2
    <3>2. QED
      BY <1>6, <1>9, <3>1 DEF Timed
  <2>3. QED
    BY <2>1, <2>2
<1>10. Timed(s)
  BY <1>5, <1>8, <1>9 DEF Timed
<1>11. QED
  BY <1>5, <1>10 DEF s, r

\* A list without one of its requests.
LEMMA WithoutOne ==
  ASSUME NEW q \in Seq(Item), NEW k \in 1 .. Len(q)
  PROVE  LET s == Requests!RemoveAt(q, k) IN
         /\ s \in Seq(Item) /\ Len(s) = Len(q) - 1
         /\ \A i \in 1 .. Len(q) - 1 : s[i] = IF i < k THEN q[i] ELSE q[i + 1]
<1> DEFINE a == SubSeq(q, 1, k - 1)
           b == SubSeq(q, k + 1, Len(q))
<1>1. a \in Seq(Item) /\ Len(a) = k - 1 /\ \A i \in 1 .. k - 1 : a[i] = q[i]
  OBVIOUS
<1>2. b \in Seq(Item) /\ Len(b) = Len(q) - k /\ \A i \in 1 .. Len(q) - k : b[i] = q[k + i]
  OBVIOUS
<1> HIDE DEF a, b
<1>3. /\ a \o b \in Seq(Item) /\ Len(a \o b) = Len(q) - 1
      /\ \A i \in 1 .. Len(q) - 1 : (a \o b)[i] = IF i < k THEN q[i] ELSE q[i + 1]
  <2>1. a \in Seq(Item) /\ b \in Seq(Item)
    BY <1>1, <1>2
  <2>2. /\ a \o b \in Seq(Item) /\ Len(a \o b) = Len(a) + Len(b)
        /\ \A i \in 1 .. Len(a) + Len(b) :
              (a \o b)[i] = IF i <= Len(a) THEN a[i] ELSE b[i - Len(a)]
    BY <2>1, ConcatProperties, Zenon
  <2>3. ASSUME NEW i \in 1 .. Len(q) - 1 PROVE (a \o b)[i] = IF i < k THEN q[i] ELSE q[i + 1]
    <3>1. CASE i < k
      BY <1>1, <1>2, <2>2, <3>1
    <3>2. CASE ~ (i < k)
      <4>1. (a \o b)[i] = b[i - Len(a)] /\ i - Len(a) \in 1 .. Len(q) - k
        BY <1>1, <1>2, <2>2, <3>2
      <4>2. k + (i - Len(a)) = i + 1
        BY <1>1
      <4>3. QED
        BY <1>2, <3>2, <4>1, <4>2
    <3>3. QED
      BY <3>1, <3>2
  <2>4. QED
    BY <1>1, <1>2, <2>2, <2>3
<1>4. QED
  BY <1>3 DEF a, b, Requests!RemoveAt

\* What mqtt_take_request leaves of a list.
LEMMA TakenList ==
  ASSUME NEW q \in Seq(Item), Timed(q), NEW k \in 1 .. Len(q)
  PROVE  LET s == Requests!Taken(q, k) IN
         s \in Seq(Item) /\ Len(s) = Len(q) - 1 /\ Timed(s)
<1> DEFINE n == Len(q)
           p == IF k < n THEN [q EXCEPT ![k + 1].diff = @ + q[k].diff] ELSE q
           s == Requests!Taken(q, k)
           old(i) == IF i < k THEN i ELSE i + 1
<1>1. n \in Nat /\ DOMAIN q = 1 .. n /\ k \in 1 .. n
  OBVIOUS
<1>2. /\ p \in Seq(Item) /\ Len(p) = n
      /\ \A i \in 1 .. n : p[i].age = q[i].age
      /\ \A i \in 1 .. n : p[i].diff = IF i = k + 1 THEN q[i].diff + q[k].diff ELSE q[i].diff
  <2>1. CASE k < n
    <3> DEFINE r == [q[k + 1] EXCEPT !.diff = @ + q[k].diff]
    <3>1. k + 1 \in 1 .. n /\ (k + 1) - 1 = k
      BY <1>1, <2>1
    <3>2. q[k + 1].diff + q[k].diff \in 0 .. Timeout
      <4>1. /\ Left(q, k + 1) \in 0 .. Timeout /\ Left(q, k) \in 0 .. Timeout
            /\ q[k + 1].diff = Left(q, k + 1) - Left(q, k) /\ Left(q, k) <= Left(q, k + 1)
        BY <3>1, Neighbours
      <4>2. Left(q, k - 1) \in 0 .. Timeout /\ Left(q, k - 1) <= Left(q, k)
            /\ q[k].diff = Left(q, k) - Left(q, k - 1)
        BY <1>1, Neighbours
      <4>3. q[k + 1].diff + q[k].diff = Left(q, k + 1) - Left(q, k - 1)
        BY <4>1, <4>2
      <4>4. QED
        BY <4>1, <4>2, <4>3, RequestFacts
    <3>3. q[k + 1] \in Item
      BY <3>1
    <3>4. /\ r \in Item /\ r.age = q[k + 1].age
          /\ r.diff = q[k + 1].diff + q[k].diff
      BY <3>2, <3>3 DEF Item
    <3>5. p = [q EXCEPT ![k + 1] = r]
      BY <2>1
    <3> HIDE DEF r, p
    <3>6. p \in Seq(Item) /\ Len(p) = n /\ \A i \in 1 .. n : p[i] = IF i = k + 1 THEN r ELSE q[i]
      BY <3>1, <3>4, <3>5
    <3>7. QED
      BY <3>1, <3>4, <3>6
  <2>2. CASE ~ (k < n)
    BY <1>1, <2>2
  <2>3. QED
    BY <2>1, <2>2
<1>3. s = Requests!RemoveAt(p, k)
  BY DEF Requests!Taken
<1> HIDE DEF p
<1>4. /\ s \in Seq(Item) /\ Len(s) = n - 1
      /\ \A i \in 1 .. n - 1 : s[i] = IF i < k THEN p[i] ELSE p[i + 1]
  <2>1. p \in Seq(Item) /\ k \in 1 .. Len(p)
    BY <1>1, <1>2
  <2>2. LET w == Requests!RemoveAt(p, k) IN
        /\ w \in Seq(Item) /\ Len(w) = Len(p) - 1
        /\ \A i \in 1 .. Len(p) - 1 : w[i] = IF i < k THEN p[i] ELSE p[i + 1]
    BY <2>1, WithoutOne, Zenon
  <2>3. QED
    BY <1>2, <1>3, <2>2
<1> HIDE DEF s
<1>5. ASSUME NEW i \in 1 .. n - 1
      PROVE  /\ s[i].age = q[old(i)].age
             /\ s[i].diff = IF i = k THEN q[k + 1].diff + q[k].diff ELSE q[old(i)].diff
  <2>1. old(i) \in 1 .. n /\ (old(i) = k + 1 <=> i = k)
    BY <1>1
  <2>2. s[i] = p[old(i)]
    BY <1>4
  <2>3. QED
    BY <1>2, <2>1, <2>2
<1>6. ASSUME NEW i \in 0 .. n - 1
      PROVE  /\ Left(s, i) = IF i < k THEN Left(q, i) ELSE Left(q, i + 1)
             /\ i < k => i \in 0 .. n
             /\ i >= k => i + 1 \in 0 .. n
  <2>1. CASE i = 0
    BY <1>1, <2>1 DEF Left
  <2>2. CASE i # 0
    <3>1. i \in 1 .. n - 1 /\ i + 1 # 0
      BY <1>1, <2>2
    <3>2. QED
      BY <1>1, <1>5, <2>2, <3>1 DEF Left
  <2>3. QED
    BY <2>1, <2>2
<1>7. ASSUME NEW i \in 1 .. n - 1 PROVE s[i].diff = Left(s, i) - Left(s, i - 1)
  <2>1. i \in 0 .. n - 1 /\ i - 1 \in 0 .. n - 1 /\ i \in 1 .. n /\ i + 1 \in 1 .. n
        /\ (i - 1) + 1 = i /\ (i + 1) - 1 = i
    BY <1>1
  <2>2. /\ q[i].diff = Left(q, i) - Left(q, i - 1)
        /\ q[i + 1].diff = Left(q, i + 1) - Left(q, i)
        /\ Left(q, i + 1) \in 0 .. Timeout /\ Left(q, i) \in 0 .. Timeout
        /\ Left(q, i - 1) \in 0 .. Timeout
    BY <2>1, Neighbours
  <2>3. CASE i < k
    <3>1. Left(s, i) = Left(q, i) /\ Left(s, i - 1) = Left(q, i - 1) /\ s[i].diff = q[i].diff
      BY <1>1, <1>5, <1>6, <2>1, <2>3
    <3>2. QED
      BY <2>2, <3>1
  <2>4. CASE i = k
    <3>1. /\ Left(s, i) = Left(q, i + 1) /\ Left(s, i - 1) = Left(q, i - 1)
          /\ s[i].diff = q[i + 1].diff + q[i].diff
      BY <1>1, <1>5, <1>6, <2>1, <2>4
    <3>2. QED
      BY <2>2, <3>1, RequestFacts
  <2>5. CASE i > k
    <3>1. Left(s, i) = Left(q, i + 1) /\ Left(s, i - 1) = Left(q, i) /\ s[i].diff = q[i + 1].diff
      BY <1>1, <1>5, <1>6, <2>1, <2>5
    <3>2. QED
      BY <2>2, <3>1
  <2>6. QED
    BY <1>1, <2>3, <2>4, <2>5
<1>8. ASSUME NEW i \in 0 .. n - 1, NEW j \in 0 .. n - 1, i <= j PROVE Left(s, i) <= Left(s, j)
  <2> DEFINE a == IF i < k THEN i ELSE i + 1
             b == IF j < k THEN j ELSE j + 1
  <2>1. a \in 0 .. n /\ b \in 0 .. n /\ a <= b
    BY <1>1, <1>8
  <2>2. Left(s, i) = Left(q, a) /\ Left(s, j) = Left(q, b)
    BY <1>6
  <2>3. QED
    BY <2>1, <2>2 DEF Timed
<1>9. Timed(s)
  BY <1>4, <1>7, <1>8 DEF Timed
<1>10. QED
  BY <1>4, <1>9 DEF s

\* A list from which the first request with an identifier was taken, if there is one.
Trimmed(s, q) == s \in Seq(Item) /\ Timed(s) /\ Len(s) <= Len(q)

LEMMA TakeRequestList ==
  ASSUME NEW q \in Seq(Item), Timed(q), NEW id
  PROVE  Trimmed(Requests!TakeRequest(q, id), q)
<1> DEFINE T == {k \in DOMAIN q : q[k].id = id}
           First(k) == q[k].id = id /\ \A j \in 1 .. k - 1 : q[j].id # id
           k0 == CHOOSE k \in DOMAIN q : First(k)
<1>1. CASE id \notin Requests!Ids(q)
  BY <1>1 DEF Requests!TakeRequest, Trimmed
<1>2. CASE id \in Requests!Ids(q)
  <2>1. T # {} /\ T \subseteq Nat
    BY <1>2 DEF Requests!Ids
  <2>2. PICK x \in T : \A y \in T : x <= y
    BY <2>1, LeastNumber
  <2>3. x \in DOMAIN q /\ First(x)
    BY <2>2
  <2>4. k0 \in DOMAIN q
    BY <2>3, Zenon
  <2>5. Requests!TakeRequest(q, id) = Requests!Taken(q, k0)
    BY <1>2, Zenon DEF Requests!TakeRequest
  <2> HIDE DEF k0
  <2>6. k0 \in 1 .. Len(q)
    BY <2>4
  <2>7. LET s == Requests!Taken(q, k0) IN s \in Seq(Item) /\ Len(s) = Len(q) - 1 /\ Timed(s)
    BY <2>6, TakenList
  <2>8. QED
    BY <2>5, <2>7 DEF Trimmed
<1>3. QED
  BY <1>1, <1>2

\* The loop of mqtt_tcp_sent_cb leaves a list with the times it had.
LEMMA CompletedList ==
  ASSUME NEW q \in Seq(Item), Timed(q)
  PROVE  Trimmed(Requests!Completed(q), q)
<1> DEFINE Step(s) == Requests!TakeRequest(s, 0)
           IsLoop(f, m) == f = [n \in 0 .. m |-> IF n = 0 THEN q ELSE Step(f[n - 1])]
           loop == CHOOSE f : IsLoop(f, Len(q))
           E == {m \in Nat : \E f : IsLoop(f, m)}
           G == {n \in Nat : n <= Len(q) => Trimmed(loop[n], q)}
<1>1. Requests!Completed(q) = loop[Len(q)]
  BY Zenon DEF Requests!Completed
<1>2. Len(q) \in Nat
  OBVIOUS
<1>3. \A m \in Nat : m \in E
  <2>1. 0 \in E
    <3>1. IsLoop([n \in 0 .. 0 |-> q], 0)
      OBVIOUS
    <3>2. QED
      BY <3>1
  <2>2. ASSUME NEW m \in Nat, m \in E PROVE m + 1 \in E
    <3>1. PICK f : IsLoop(f, m)
      BY <2>2
    <3> DEFINE g == [n \in 0 .. m + 1 |-> IF n = m + 1 THEN Step(f[m]) ELSE f[n]]
    <3>2. ASSUME NEW n \in 0 .. m + 1
          PROVE  g[n] = IF n = 0 THEN q ELSE Step(g[n - 1])
      <4>1. \A i \in 0 .. m : g[i] = f[i] /\ f[i] = IF i = 0 THEN q ELSE Step(f[i - 1])
        BY <3>1
      <4>2. g[m + 1] = Step(f[m])
        OBVIOUS
      <4>3. CASE n = m + 1
        BY <4>1, <4>2, <4>3
      <4>4. CASE n # m + 1
        <5>1. n \in 0 .. m /\ (n # 0 => n - 1 \in 0 .. m)
          BY <4>4
        <5>2. QED
          BY <4>1, <5>1
      <4>5. QED
        BY <4>3, <4>4
    <3>3. g = [n \in 0 .. m + 1 |-> g[n]]
      OBVIOUS
    <3> HIDE DEF g
    <3>4. IsLoop(g, m + 1)
      BY <3>2, <3>3
    <3>5. QED
      BY <3>4
  <2> HIDE DEF E
  <2>3. QED
    BY <2>1, <2>2, EveryNumber
<1>4. IsLoop(loop, Len(q))
  <2>1. \E f : IsLoop(f, Len(q))
    BY <1>2, <1>3
  <2> HIDE DEF IsLoop
  <2>2. QED
    BY <2>1
<1> HIDE DEF loop
<1>5. 0 \in G
  BY <1>2, <1>4 DEF Trimmed
<1>6. ASSUME NEW n \in Nat, n \in G PROVE n + 1 \in G
  <2> SUFFICES ASSUME n + 1 <= Len(q) PROVE Trimmed(loop[n + 1], q)
    OBVIOUS
  <2>1. loop[n + 1] = Step(loop[n])
    BY <1>2, <1>4
  <2>2. Trimmed(loop[n], q)
    BY <1>2, <1>6
  <2>3. Trimmed(Step(loop[n]), loop[n])
    BY <2>2, TakeRequestList DEF Trimmed
  <2>4. QED
    BY <2>1, <2>2, <2>3 DEF Trimmed
<1>7. Len(q) \in G
  <2> HIDE DEF G
  <2>1. QED
    BY <1>2, <1>5, <1>6, EveryNumber
<1>8. QED
  BY <1>1, <1>2, <1>7

\* A request that may be at its end.
Aging == [id : PacketIds \cup {0}, diff : 0 .. Timeout, age : 0 .. Ticks + 1, left : 0 .. ListRing]

\* A tick later.
LEMMA AgedList ==
  ASSUME NEW q \in Seq(Item)
  PROVE  LET a == Requests!Aged(q) IN
         /\ a \in Seq(Aging) /\ Len(a) = Len(q)
         /\ \A k \in 1 .. Len(q) : a[k].diff = q[k].diff /\ a[k].age = q[k].age + 1
<1> DEFINE r(k) == [q[k] EXCEPT !.age = IF @ * Interval > Timeout THEN @ ELSE @ + 1]
           a == [k \in 1 .. Len(q) |-> r(k)]
<1>1. a = Requests!Aged(q)
  <2>1. DOMAIN q = 1 .. Len(q)
    OBVIOUS
  <2>2. QED
    BY <2>1, Zenon DEF Requests!Aged
<1>2. ASSUME NEW k \in 1 .. Len(q)
      PROVE  r(k) \in Aging /\ r(k).diff = q[k].diff /\ r(k).age = q[k].age + 1
  <2>1. q[k] \in Item
    OBVIOUS
  <2>2. q[k].age \in 0 .. Ticks /\ Ticks \in Nat
    BY <2>1, WholeTicks DEF Item
  <2>3. ~ (q[k].age * Interval > Timeout)
    <3>1. q[k].age \in Nat /\ q[k].age <= Ticks
      BY <2>2
    <3>2. q[k].age * Interval <= Timeout
      BY <3>1, TimeTick
    <3>3. q[k].age * Interval \in Nat
      BY <3>1, RequestFacts
    <3>4. QED
      BY <3>2, <3>3, RequestFacts
  <2>4. r(k) = [q[k] EXCEPT !.age = q[k].age + 1]
    BY <2>3, Zenon
  <2> HIDE DEF r
  <2>5. q[k].age + 1 \in 0 .. Ticks + 1
    BY <2>2
  <2>6. QED
    BY <2>1, <2>4, <2>5 DEF Item, Aging
<1> HIDE DEF r
<1>3. a \in Seq(Aging) /\ Len(a) = Len(q)
  BY <1>2
<1>4. \A k \in 1 .. Len(q) : a[k].diff = q[k].diff /\ a[k].age = q[k].age + 1
  BY <1>2
<1> HIDE DEF a
<1>5. QED
  BY <1>1, <1>3, <1>4

\* The list from the j-th request of q on: what is before has ended, what is behind has
\* more than the interval left, or as much, and the time of the first one is what it has
\* left beyond the interval.
LastOnes(s, a, q, j) ==
  /\ j \in 1 .. Len(q) + 1 /\ s \in Seq(Aging) /\ Len(s) = Len(q) + 1 - j
  /\ j <= Len(q) => Left(q, j) >= Interval
  /\ \A i \in 1 .. Len(s) :
       /\ s[i].age = a[j + i - 1].age
       /\ s[i].diff = IF i = 1 THEN Left(q, j) - Interval ELSE a[j + i - 1].diff

\* The end of a list.
LEMMA Suffix ==
  ASSUME NEW a \in Seq(Aging), NEW k \in 1 .. Len(a) + 1
  PROVE  LET s == SubSeq(a, k, Len(a)) IN
         /\ s \in Seq(Aging) /\ Len(s) = Len(a) + 1 - k
         /\ \A i \in 1 .. Len(a) + 1 - k : s[i] = a[k + i - 1]
<1>1. \A i \in k .. Len(a) : a[i] \in Aging
  OBVIOUS
<1>2. QED
  BY <1>1

\* mqtt_request_time_elapsed ends the requests that have no more time left than the
\* interval, the loop stops where it has spent the interval.
LEMMA ElapsedList ==
  ASSUME NEW q \in Seq(Item), Timed(q), NEW a \in Seq(Aging), Len(a) = Len(q),
         \A k \in 1 .. Len(q) : a[k].diff = q[k].diff
  PROVE  \E j : LastOnes(Requests!Elapsed(a), a, q, j)
<1> DEFINE n == Len(a)
           Turn(f, k, t) ==
             IF k > n \/ t = 0 THEN SubSeq(a, k, n)
             ELSE IF t >= a[k].diff THEN f[k + 1][t - a[k].diff]
             ELSE [SubSeq(a, k, n) EXCEPT ![1].diff = @ - t]
           IsLoop(f, m) == f = [k \in m .. n + 1 |-> [t \in 0 .. Interval |-> Turn(f, k, t)]]
           loop == CHOOSE f : IsLoop(f, 1)
           E == {m \in Nat : m <= n => \E f : IsLoop(f, n + 1 - m)}
           G == {m \in Nat : m <= n =>
                   \A t \in 0 .. Interval :
                     t = Interval - Left(q, n - m) => \E j : LastOnes(loop[n + 1 - m][t], a, q, j)}
<1>1. Requests!Elapsed(a) = loop[1][Interval]
  BY Zenon DEF Requests!Elapsed
<1>2. n \in Nat /\ n = Len(q) /\ Interval \in Nat /\ Interval > 0
  BY RequestFacts
<1>3. \A k \in 1 .. n : a[k] \in Aging /\ a[k].diff \in 0 .. Timeout
  <2>1. \A k \in 1 .. n : a[k] \in Aging
    OBVIOUS
  <2>2. QED
    BY <2>1 DEF Aging
<1> HIDE DEF n
<1>4. \A m \in Nat : m \in E
  <2>1. 0 \in E
    <3> DEFINE g == [k \in n + 1 .. n + 1 |-> [t \in 0 .. Interval |-> SubSeq(a, k, n)]]
    <3>1. g = [k \in n + 1 .. n + 1 |-> [t \in 0 .. Interval |-> Turn(g, k, t)]]
      <4>1. \A k \in n + 1 .. n + 1 : k > n
        BY <1>2
      <4>2. \A k \in n + 1 .. n + 1, t \in 0 .. Interval : Turn(g, k, t) = SubSeq(a, k, n)
        BY <4>1, Zenon
      <4> HIDE DEF Turn
      <4>3. QED
        BY <4>2, Zenon
    <3>2. n + 1 - 0 = n + 1
      BY <1>2
    <3>3. IsLoop(g, n + 1 - 0)
      BY <3>1, <3>2
    <3> HIDE DEF IsLoop, g
    <3>4. QED
      BY <3>3
  <2>2. ASSUME NEW m \in Nat, m \in E PROVE m + 1 \in E
    <3> HIDE DEF IsLoop
    <3> SUFFICES ASSUME m + 1 <= n PROVE \E f : IsLoop(f, n + 1 - (m + 1))
      OBVIOUS
    <3> USE DEF IsLoop
    <3>1. PICK f : IsLoop(f, n + 1 - m)
      BY <1>2, <2>2
    <3> DEFINE b == n - m
               g == [k \in b .. n + 1 |-> [t \in 0 .. Interval |-> Turn(f, k, t)]]
    <3>2. b \in 1 .. n /\ n + 1 - m = b + 1 /\ n + 1 - (m + 1) = b
      BY <1>2
    <3>3. f = [k \in b + 1 .. n + 1 |-> [t \in 0 .. Interval |-> Turn(f, k, t)]]
      BY <3>1, <3>2
    <3> HIDE DEF b
    <3>4. ASSUME NEW k \in b .. n + 1, NEW t \in 0 .. Interval PROVE Turn(g, k, t) = Turn(f, k, t)
      <4>1. CASE k > n \/ t = 0
        BY <4>1, Zenon
      <4>2. CASE ~ (k > n \/ t = 0)
        <5>1. k \in 1 .. n /\ k + 1 \in b + 1 .. n + 1 /\ k + 1 \in b .. n + 1
          BY <1>2, <3>2, <4>2
        <5>2. t >= a[k].diff => t - a[k].diff \in 0 .. Interval
          BY <1>2, <1>3, <5>1, RequestFacts
        <5>3. \A u \in 0 .. Interval : g[k + 1][u] = Turn(f, k + 1, u)
          <6> HIDE DEF Turn
          <6>1. QED
            BY <5>1
        <5>4. \A u \in 0 .. Interval : f[k + 1][u] = Turn(f, k + 1, u)
          <6> DEFINE h == [i \in b + 1 .. n + 1 |-> [u \in 0 .. Interval |-> Turn(f, i, u)]]
          <6> HIDE DEF Turn
          <6>1. \A u \in 0 .. Interval : h[k + 1][u] = Turn(f, k + 1, u)
            BY <5>1
          <6> HIDE DEF h
          <6>2. f = h
            BY <3>3, Zenon DEF h
          <6>3. QED
            BY <6>1, <6>2, Zenon
        <5> HIDE DEF g
        <5>5. t >= a[k].diff => g[k + 1][t - a[k].diff] = f[k + 1][t - a[k].diff]
          <6> HIDE DEF Turn
          <6>1. QED
            BY <5>2, <5>3, <5>4, Zenon
        <5>6. QED
          BY <5>5, Zenon
      <4>3. QED
        BY <4>1, <4>2, Zenon
    <3>5. g = [k \in b .. n + 1 |-> [t \in 0 .. Interval |-> Turn(g, k, t)]]
      <4> HIDE DEF Turn
      <4>1. QED
        BY <3>4
    <3> HIDE DEF g, Turn
    <3>6. QED
      BY <3>2, <3>5
  <2> HIDE DEF E
  <2>3. QED
    BY <2>1, <2>2, EveryNumber
<1>5. IsLoop(loop, 1)
  <2> HIDE DEF IsLoop
  <2>1. \E f : IsLoop(f, n + 1 - n)
    BY <1>2, <1>4
  <2>2. n + 1 - n = 1
    BY <1>2
  <2>3. QED
    BY <2>1, <2>2
<1>6. \A k \in 1 .. n + 1, t \in 0 .. Interval : loop[k][t] = Turn(loop, k, t)
  <2> DEFINE h == [k \in 1 .. n + 1 |-> [t \in 0 .. Interval |-> Turn(loop, k, t)]]
  <2> HIDE DEF loop, Turn
  <2>1. \A k \in 1 .. n + 1, t \in 0 .. Interval : h[k][t] = Turn(loop, k, t)
    OBVIOUS
  <2> HIDE DEF h
  <2>2. loop = h
    BY <1>5 DEF h
  <2>3. QED
    BY <2>1, <2>2, Zenon
<1> HIDE DEF loop, IsLoop
<1>7. ASSUME NEW k \in 1 .. n
      PROVE  /\ k - 1 \in 0 .. n /\ Left(q, k) \in 0 .. Timeout /\ Left(q, k - 1) \in 0 .. Timeout
             /\ a[k].diff = Left(q, k) - Left(q, k - 1)
  BY <1>2, Neighbours
<1>8. ASSUME NEW k \in 1 .. n + 1, NEW t \in 0 .. Interval, k > n \/ t = 0,
             t = Interval - Left(q, k - 1)
      PROVE  LastOnes(loop[k][t], a, q, k)
  <2> DEFINE s == SubSeq(a, k, n)
  <2>1. loop[k][t] = s
    BY <1>6, <1>8, Zenon
  <2>2. /\ s \in Seq(Aging) /\ Len(s) = n + 1 - k
        /\ \A i \in 1 .. n + 1 - k : s[i] = a[k + i - 1]
    BY Suffix DEF n
  <2> HIDE DEF s
  <2>3. CASE k > n
    BY <1>2, <2>1, <2>2, <2>3 DEF LastOnes
  <2>4. CASE k \in 1 .. n /\ t = 0
    <3>1. Left(q, k - 1) = Interval /\ Left(q, k - 1) <= Left(q, k)
          /\ a[k].diff = Left(q, k) - Interval
      <4>1. Left(q, k - 1) \in 0 .. Timeout /\ Left(q, k - 1) <= Left(q, k)
        BY <1>2, <2>4, Neighbours
      <4>2. Left(q, k - 1) = Interval
        BY <1>2, <1>8, <2>4, <4>1
      <4>3. QED
        BY <1>7, <2>4, <4>1, <4>2
    <3>2. k + 1 - 1 = k /\ Left(q, k) >= Interval
      BY <1>2, <1>7, <2>4, <3>1
    <3>3. QED
      BY <1>2, <2>1, <2>2, <2>4, <3>1, <3>2 DEF LastOnes
  <2>5. QED
    BY <1>2, <1>8, <2>3, <2>4
<1>9. ASSUME NEW k \in 1 .. n, NEW t \in 0 .. Interval, t # 0, t < a[k].diff,
             t = Interval - Left(q, k - 1)
      PROVE  LastOnes(loop[k][t], a, q, k)
  <2> DEFINE s == SubSeq(a, k, n)
             r == [a[k] EXCEPT !.diff = a[k].diff - t]
             w == [s EXCEPT ![1] = r]
  <2>1. /\ s \in Seq(Aging) /\ Len(s) = n + 1 - k
        /\ \A i \in 1 .. n + 1 - k : s[i] = a[k + i - 1]
    BY <1>2, Suffix DEF n
  <2>2. s[1] = a[k]
    BY <1>2, <2>1
  <2>3. loop[k][t] = [s EXCEPT ![1].diff = @ - t]
    <3>1. k \in 1 .. n + 1 /\ ~ (k > n \/ t = 0) /\ ~ (t >= a[k].diff)
      BY <1>2, <1>3, <1>9
    <3>2. QED
      BY <1>6, <3>1, Zenon
  <2> HIDE DEF s
  <2>4. loop[k][t] = w
    BY <2>2, <2>3
  <2>5. a[k].diff - t \in 0 .. Timeout /\ a[k].diff - t = Left(q, k) - Interval
        /\ Left(q, k) >= Interval
    <3>1. /\ Left(q, k) \in 0 .. Timeout /\ Left(q, k - 1) \in 0 .. Timeout
          /\ a[k].diff = Left(q, k) - Left(q, k - 1) /\ a[k].diff \in 0 .. Timeout
      BY <1>3, <1>7
    <3>2. Timeout \in Nat /\ Interval \in Nat
      BY RequestFacts
    <3>3. QED
      BY <1>9, <3>1, <3>2
  <2>6. r \in Aging /\ r.diff = a[k].diff - t /\ r.age = a[k].age
    BY <1>3, <2>5 DEF Aging
  <2> HIDE DEF r
  <2>7. /\ w \in Seq(Aging) /\ Len(w) = n + 1 - k
        /\ \A i \in 1 .. n + 1 - k : w[i] = IF i = 1 THEN r ELSE s[i]
    BY <1>2, <2>1, <2>6
  <2> HIDE DEF w
  <2>8. k + 1 - 1 = k
    BY <1>2
  <2>9. ASSUME NEW i \in 1 .. n + 1 - k
        PROVE  /\ w[i].age = a[k + i - 1].age
               /\ w[i].diff = IF i = 1 THEN Left(q, k) - Interval ELSE a[k + i - 1].diff
    BY <2>1, <2>5, <2>6, <2>7, <2>8
  <2>10. QED
    BY <1>2, <2>4, <2>5, <2>7, <2>9 DEF LastOnes
<1>10. ASSUME NEW m \in Nat, m \in G, m + 1 <= n, NEW t \in 0 .. Interval,
              t = Interval - Left(q, n - (m + 1))
       PROVE  \E j : LastOnes(loop[n + 1 - (m + 1)][t], a, q, j)
  <2> DEFINE k == n - m
  <2>1. k \in 1 .. n /\ n + 1 - (m + 1) = k /\ n - (m + 1) = k - 1 /\ n + 1 - m = k + 1 /\ m <= n
    BY <1>2, <1>10
  <2>2. n - m = k
    OBVIOUS
  <2> HIDE DEF k
  <2>3. t = Interval - Left(q, k - 1)
    BY <1>10, <2>1
  <2>4. CASE t = 0
    BY <1>2, <1>8, <2>1, <2>3, <2>4
  <2>5. CASE t # 0 /\ t < a[k].diff
    BY <1>9, <2>1, <2>3, <2>5
  <2>6. CASE t # 0 /\ t >= a[k].diff
    <3>1. t - a[k].diff \in 0 .. Interval /\ t - a[k].diff = Interval - Left(q, k)
      <4>1. /\ Left(q, k) \in 0 .. Timeout /\ Left(q, k - 1) \in 0 .. Timeout
            /\ a[k].diff = Left(q, k) - Left(q, k - 1) /\ a[k].diff \in 0 .. Timeout
        BY <1>3, <1>7, <2>1
      <4>2. Timeout \in Nat /\ Interval \in Nat
        BY RequestFacts
      <4>3. QED
        BY <2>3, <2>6, <4>1, <4>2
    <3>2. loop[k][t] = loop[k + 1][t - a[k].diff]
      <4>1. k \in 1 .. n + 1 /\ ~ (k > n \/ t = 0)
        BY <1>2, <2>1, <2>6
      <4>2. QED
        BY <1>6, <2>6, <4>1, Zenon
    <3>3. \E j : LastOnes(loop[k + 1][t - a[k].diff], a, q, j)
      <4>1. \A u \in 0 .. Interval :
              u = Interval - Left(q, n - m) => \E j : LastOnes(loop[n + 1 - m][u], a, q, j)
        BY <1>10, <2>1
      <4>2. QED
        BY <2>1, <2>2, <3>1, <4>1, Zenon
    <3>4. QED
      BY <2>1, <3>2, <3>3
  <2>7. QED
    BY <1>2, <1>3, <2>1, <2>4, <2>5, <2>6
<1>11. 0 \in G
  <2>1. n + 1 - 0 = n + 1 /\ n - 0 = n /\ n + 1 \in 1 .. n + 1 /\ (n + 1) - 1 = n /\ n + 1 > n
    BY <1>2
  <2>2. ASSUME NEW t \in 0 .. Interval, t = Interval - Left(q, n)
        PROVE  LastOnes(loop[n + 1][t], a, q, n + 1)
    BY <1>8, <2>1, <2>2
  <2>3. QED
    BY <2>1, <2>2
<1>12. ASSUME NEW m \in Nat, m \in G PROVE m + 1 \in G
  <2>1. m + 1 \in Nat
    OBVIOUS
  <2>2. QED
    BY <1>10, <1>12, <2>1, Zenon
<1> HIDE DEF G
<1>13. n \in G
  BY <1>2, <1>11, <1>12, EveryNumber
<1>14. \E j : LastOnes(loop[1][Interval], a, q, j)
  <2>1. n + 1 - n = 1 /\ n - n = 0 /\ n <= n /\ Left(q, 0) = 0 /\ Interval \in 0 .. Interval
        /\ Interval = Interval - 0
    BY <1>2 DEF Left
  <2>2. QED
    BY <1>13, <2>1 DEF G
<1>15. QED
  BY <1>1, <1>14

\* A tick leaves a list of requests that have time left, with their times.
LEMMA TickedList ==
  ASSUME NEW q \in Seq(Item), Timed(q)
  PROVE  Trimmed(Requests!Elapsed(Requests!Aged(q)), q)
<1> DEFINE a == Requests!Aged(q)
           s == Requests!Elapsed(a)
           n == Len(q)
<1>1. /\ a \in Seq(Aging) /\ Len(a) = n
      /\ \A k \in 1 .. n : a[k].diff = q[k].diff /\ a[k].age = q[k].age + 1
  BY AgedList
<1> HIDE DEF a
<1>2. PICK j : LastOnes(s, a, q, j)
  BY <1>1, ElapsedList
<1> HIDE DEF s
<1> DEFINE at(i) == j + i - 1
<1>3. /\ j \in 1 .. n + 1 /\ s \in Seq(Aging) /\ Len(s) = n + 1 - j
      /\ j <= n => Left(q, j) >= Interval
      /\ \A i \in 1 .. Len(s) :
           /\ s[i].age = a[at(i)].age
           /\ s[i].diff = IF i = 1 THEN Left(q, j) - Interval ELSE a[at(i)].diff
  BY <1>2 DEF LastOnes
<1>4. n \in Nat /\ Interval \in Nat /\ Interval > 0 /\ Timeout \in Nat
  BY RequestFacts
<1>5. ASSUME NEW i \in 1 .. Len(s)
      PROVE  /\ at(i) \in 1 .. n /\ Left(q, at(i)) \in 0 .. Timeout /\ Left(q, at(i)) >= Interval
             /\ s[i].age = q[at(i)].age + 1 /\ s[i].age \in 0 .. Ticks
             /\ Left(s, i) = Left(q, at(i)) - Interval
  <2> DEFINE m == at(i)
  <2>1. m \in 1 .. n /\ m \in 0 .. n /\ j <= m /\ j \in 0 .. n /\ j <= n /\ m # 0 /\ i # 0
    BY <1>3, <1>4
  <2>2. Left(q, m) \in 0 .. Timeout /\ Left(q, j) \in 0 .. Timeout
    BY <2>1, LeftRange
  <2>3. Left(q, j) <= Left(q, m)
    BY <2>1 DEF Timed
  <2>4. Left(q, m) >= Interval
    BY <1>3, <1>4, <2>1, <2>2, <2>3
  <2>5. s[i].age = q[m].age + 1
    BY <1>1, <1>3, <2>1
  <2> HIDE DEF m
  <2>6. q[m] \in Item
    BY <2>1
  <2>7. q[m].age \in Nat
    BY <2>6, WholeTicks DEF Item
  <2>8. Left(q, m) = TimeLeft(q[m].age) /\ Left(s, i) = TimeLeft(q[m].age + 1)
    BY <2>1, <2>5 DEF Left
  <2>9. /\ TimeLeft(q[m].age) > 0 => q[m].age < Ticks
        /\ TimeLeft(q[m].age + 1) = Requests!Positive(TimeLeft(q[m].age) - Interval)
    BY <2>7, TimeTick
  <2>10. s[i].age \in 0 .. Ticks
    BY <1>4, <2>2, <2>4, <2>5, <2>7, <2>8, <2>9, WholeTicks
  <2>11. Left(s, i) = Left(q, m) - Interval
    BY <1>4, <2>2, <2>4, <2>8, <2>9 DEF Requests!Positive
  <2>12. QED
    BY <2>1, <2>2, <2>4, <2>5, <2>10, <2>11 DEF m
<1> HIDE DEF at
<1>6. s \in Seq(Item)
  <2>1. ASSUME NEW i \in 1 .. Len(s) PROVE s[i] \in Item
    <3>1. s[i] \in Aging
      BY <1>3
    <3>2. s[i].age \in 0 .. Ticks
      BY <1>5
    <3>3. QED
      BY <3>1, <3>2 DEF Item, Aging
  <2>2. QED
    BY <1>3, <2>1
<1>7. Left(s, 0) = 0
  BY DEF Left
<1>8. ASSUME NEW i \in 1 .. Len(s) PROVE s[i].diff = Left(s, i) - Left(s, i - 1)
  <2>1. CASE i = 1
    <3>1. at(i) = j /\ i - 1 = 0
      BY <1>3, <2>1 DEF at
    <3>2. s[i].diff = Left(q, j) - Interval /\ Left(s, i) = Left(q, j) - Interval
          /\ Left(q, j) \in 0 .. Timeout
      BY <1>3, <1>5, <2>1, <3>1
    <3>3. QED
      BY <1>4, <1>7, <3>1, <3>2
  <2>2. CASE i # 1
    <3>1. i - 1 \in 1 .. Len(s) /\ at(i) - 1 = at(i - 1)
      BY <1>3, <1>4, <2>2 DEF at
    <3>2. /\ Left(q, at(i)) \in 0 .. Timeout /\ Left(q, at(i - 1)) \in 0 .. Timeout
          /\ Left(s, i) = Left(q, at(i)) - Interval
          /\ Left(s, i - 1) = Left(q, at(i - 1)) - Interval
      BY <1>5, <3>1
    <3>3. s[i].diff = q[at(i)].diff
      BY <1>1, <1>3, <1>5, <2>2
    <3>4. q[at(i)].diff = Left(q, at(i)) - Left(q, at(i) - 1)
      BY <1>5, Neighbours
    <3>5. QED
      BY <1>4, <3>1, <3>2, <3>3, <3>4
  <2>3. QED
    BY <2>1, <2>2
<1>9. ASSUME NEW i \in 0 .. Len(s), NEW k \in 0 .. Len(s), i <= k PROVE Left(s, i) <= Left(s, k)
  <2>1. CASE i = 0
    <3>1. Left(s, k) \in 0 .. Timeout
      BY <1>6, LeftRange
    <3>2. QED
      BY <1>4, <1>7, <2>1, <3>1
  <2>2. CASE i # 0
    <3>1. i \in 1 .. Len(s) /\ k \in 1 .. Len(s)
      BY <1>3, <1>9, <2>2
    <3>2. /\ at(i) \in 1 .. n /\ at(k) \in 1 .. n /\ at(i) <= at(k)
          /\ Left(q, at(i)) \in 0 .. Timeout /\ Left(q, at(k)) \in 0 .. Timeout
          /\ Left(s, i) = Left(q, at(i)) - Interval /\ Left(s, k) = Left(q, at(k)) - Interval
      <4>1. at(i) <= at(k)
        BY <1>3, <1>9, <3>1 DEF at
      <4>2. QED
        BY <1>5, <3>1, <4>1
    <3>3. Left(q, at(i)) <= Left(q, at(k))
      <4>1. at(i) \in 0 .. n /\ at(k) \in 0 .. n
        BY <3>2
      <4>2. QED
        BY <3>2, <4>1 DEF Timed
    <3>4. QED
      BY <1>4, <3>2, <3>3
  <2>3. QED
    BY <2>1, <2>2
<1>10. Timed(s)
  BY <1>8, <1>9 DEF Timed
<1>11. Len(s) <= n
  BY <1>3, <1>4
<1>12. QED
  BY <1>6, <1>10, <1>11 DEF Trimmed, s, a

\* The bytes of the ring under the list, and those that may be handed to TCP.
LEMMA ListRingRange ==
  ASSUME NEW g \in Requests!Positions, NEW p \in Requests!Positions
  PROVE  Requests!Length(g, p) \in 0 .. ListRing - 1
BY RequestFacts DEF Requests!Positions, Requests!Length

LEMMA ListSendable ==
  ASSUME NEW g \in Requests!Positions, NEW p \in Requests!Positions, NEW r \in 0 .. ListSndBuf,
         NEW n \in Requests!Sendable(g, p, r)
  PROVE  n \in Nat /\ n <= Requests!Length(g, p) /\ n <= r
<1> DEFINE len == Requests!Length(g, p)
           linear == Requests!Linear(g, p)
<1>1. len \in Nat /\ r \in Nat
  BY ListRingRange, RequestFacts
<1>2. linear \in Nat /\ linear <= len
  BY <1>1, RequestFacts DEF Requests!Linear, Requests!Least, Requests!Positions
<1>3. \/ n = 0 \/ n = Requests!Least(r, linear)
      \/ r > linear /\ n = linear + Requests!Least(r - linear, len - linear)
  BY DEF Requests!Sendable
<1> HIDE DEF len, linear
<1>4. n \in Nat /\ n <= len /\ n <= r
  BY <1>1, <1>2, <1>3 DEF Requests!Least
<1>5. QED
  BY <1>4 DEF len

\* The types of what sending changes; the bytes in the ring get fewer.
LEMMA ListSend ==
  ASSUME NEW b \in [Requests!Positions -> 0 .. ListNumbers - 1], NEW p \in Requests!Positions,
         NEW r \in 0 .. ListSndBuf, get \in Requests!Positions,
         written \in 0 .. ListNumbers - 1, Requests!Send(b, p, r)
  PROVE  /\ get' \in Requests!Positions /\ room' \in 0 .. ListSndBuf
         /\ written' \in 0 .. ListNumbers - 1
         /\ Requests!Length(get', p) <= Requests!Length(get, p)
<1>1. PICK n \in Requests!Sendable(get, p, r) :
        /\ get' = Requests!Wrapped(get + n) /\ room' = r - n
        /\ written' = IF n = 0 THEN written ELSE b[Requests!Wrapped(get + n - 1)]
  BY DEF Requests!Send
<1>2. n \in Nat /\ n <= Requests!Length(get, p) /\ n <= r
  BY ListSendable
<1>3. Requests!Length(get, p) \in 0 .. ListRing - 1
  BY ListRingRange
<1>4. get \in 0 .. ListRing - 1 /\ p \in 0 .. ListRing - 1
  BY DEF Requests!Positions
<1>5. get' \in Requests!Positions /\ room' \in 0 .. ListSndBuf
  BY <1>1, <1>2, <1>3, <1>4, RequestFacts DEF Requests!Wrapped, Requests!Positions
<1>6. Requests!Length(get', p) = Requests!Length(get, p) - n
  BY <1>1, <1>2, <1>3, <1>4, RequestFacts DEF Requests!Wrapped, Requests!Length
<1>7. n # 0 => Requests!Wrapped(get + n - 1) \in Requests!Positions
  BY <1>2, <1>3, <1>4, RequestFacts DEF Requests!Wrapped, Requests!Positions
<1>8. written' \in 0 .. ListNumbers - 1
  BY <1>1, <1>7
<1>9. QED
  BY <1>2, <1>3, <1>5, <1>6, <1>8

\* A message for the ring under the list.
LEMMA ListEnqueue ==
  ASSUME Requests!RingTypeOK, NEW k \in ListLengths, Requests!Enqueue(k)
  PROVE  /\ buf' \in [Requests!Positions -> 0 .. ListNumbers - 1] /\ put' \in Requests!Positions
         /\ accepted' \in 0 .. ListNumbers - 1 /\ full' \in BOOLEAN
<1>1. /\ Requests!CheckSpace(k) /\ buf' = Requests!WithBytes(k) /\ put' = (put + k) % ListRing
      /\ accepted' = (accepted + k) % ListNumbers /\ full' = (full \/ put' = get)
      /\ k \in Nat \ {0}
  BY RequestFacts DEF Requests!Enqueue
<1>2. /\ get \in Requests!Positions /\ put \in Requests!Positions
      /\ accepted \in 0 .. ListNumbers - 1
      /\ buf \in [Requests!Positions -> 0 .. ListNumbers - 1] /\ full \in BOOLEAN
  BY DEF Requests!RingTypeOK
<1>3. k \in 1 .. ListRing
  <2>1. Requests!Length(get, put) \in 0 .. ListRing - 1
    BY <1>2, ListRingRange
  <2>2. QED
    BY <1>1, <2>1, RequestFacts DEF Requests!CheckSpace
<1>4. put' \in Requests!Positions /\ accepted' \in 0 .. ListNumbers - 1
  <2>1. put + k \in 0 .. 2 * ListRing - 1 /\ accepted + k \in 0 .. 2 * ListNumbers - 1
    BY <1>2, <1>3, RequestFacts DEF Requests!Positions
  <2>2. QED
    BY <1>1, <2>1, Once, RequestFacts DEF Requests!Positions
<1>5. buf' \in [Requests!Positions -> 0 .. ListNumbers - 1]
  <2>1. \A j \in Int : (accepted + j) % ListNumbers \in 0 .. ListNumbers - 1
    BY <1>2, RequestFacts
  <2>2. \A i \in Requests!Positions : Requests!Wrapped(i + ListRing - put) \in Int
    BY <1>2, RequestFacts DEF Requests!Positions, Requests!Wrapped
  <2>3. QED
    BY <1>1, <1>2, <2>1, <2>2 DEF Requests!WithBytes
<1>6. full' \in BOOLEAN
  BY <1>1, <1>2, Zenon
<1>7. QED
  BY <1>4, <1>5, <1>6

-----------------------------------------------------------------------------
(* The invariant of the requests                                             *)

RequestsInv ==
  /\ Requests!RingTypeOK
  /\ pending \in Seq(Item) /\ Timed(pending)
  /\ leaked \in 0 .. MaxRequests /\ Len(pending) + leaked <= MaxRequests
  /\ owed \subseteq PacketIds /\ up \in BOOLEAN

\* What the run checks follows.
LEMMA DeadlinesFollow ==
  ASSUME RequestsInv
  PROVE  Requests!RequestTypeOK /\ Requests!DeadlinesKept
<1>1. Requests!RequestTypeOK
  BY Zenon DEF RequestsInv, Requests!RequestTypeOK, Item, Ticks
<1>2. ASSUME NEW k \in DOMAIN pending
      PROVE  Requests!TimeBefore(pending, k)
               = Requests!Positive(Timeout - Interval * pending[k].age)
  <2>1. pending \in Seq(Item) /\ Timed(pending)
    BY DEF RequestsInv
  <2>2. k \in 0 .. Len(pending) /\ k # 0
    BY <2>1
  <2>3. Requests!TimeBefore(pending, k) = Left(pending, k)
    BY <2>1, <2>2, SumOfTimes
  <2>4. QED
    BY <2>2, <2>3, Zenon DEF Left, TimeLeft
<1>3. QED
  BY <1>1, <1>2 DEF Requests!DeadlinesKept

\* Sending changes no time.
LEMMA AheadList ==
  ASSUME NEW q \in Seq(Item), Timed(q), Requests!Length(get, put') \in Nat,
         Requests!Length(get', put') \in Nat,
         Requests!Length(get', put') <= Requests!Length(get, put')
  PROVE  Trimmed(Requests!Ahead(q), q)
<1> DEFINE sent == Requests!Length(get, put') - Requests!Length(get', put')
           r(k) == [q[k] EXCEPT !.left = IF @ > sent THEN @ - sent ELSE 0]
           s == [k \in 1 .. Len(q) |-> r(k)]
<1>1. s = Requests!Ahead(q)
  <2>1. DOMAIN q = 1 .. Len(q)
    OBVIOUS
  <2>2. QED
    BY <2>1, Zenon DEF Requests!Ahead
<1>2. sent \in Nat
  OBVIOUS
<1> HIDE DEF sent
<1>3. ASSUME NEW k \in 1 .. Len(q)
      PROVE  r(k) \in Item /\ r(k).diff = q[k].diff /\ r(k).age = q[k].age
  <2> DEFINE x == IF q[k].left > sent THEN q[k].left - sent ELSE 0
  <2>1. q[k] \in Item
    OBVIOUS
  <2>2. q[k].left \in 0 .. ListRing
    BY <2>1 DEF Item
  <2>3. x \in 0 .. ListRing
    BY <1>2, <2>2, RequestFacts
  <2>4. r(k) = [q[k] EXCEPT !.left = x]
    OBVIOUS
  <2> HIDE DEF r, x
  <2>5. QED
    BY <2>1, <2>3, <2>4 DEF Item
<1> HIDE DEF r
<1>4. s \in Seq(Item) /\ Len(s) = Len(q)
  BY <1>3
<1>5. \A k \in 1 .. Len(q) : s[k].diff = q[k].diff /\ s[k].age = q[k].age
  BY <1>3
<1> HIDE DEF s
<1>6. Timed(s)
  BY <1>4, <1>5, SameTimes
<1>7. QED
  BY <1>1, <1>4, <1>6 DEF Trimmed

LEMMA RequestsStart == Requests!Init => RequestsInv
<1> SUFFICES ASSUME Requests!Init PROVE RequestsInv
  OBVIOUS
<1>1. Requests!RingTypeOK
  <2>1. /\ buf = [i \in Requests!Positions |-> 0] /\ put = 0 /\ get = 0 /\ room = ListSndBuf
        /\ accepted = 0 /\ written = ListNumbers - 1
    BY DEF Requests!Init, Requests!RingInit, Requests!None
  <2>2. full \in BOOLEAN
    BY Zenon DEF Requests!Init, Requests!RingInit
  <2>3. QED
    BY <2>1, <2>2, RequestFacts DEF Requests!RingTypeOK, Requests!Positions
<1>2. pending = <<>> /\ leaked = 0 /\ owed = {} /\ up = TRUE
  BY DEF Requests!Init
<1>3. pending \in Seq(Item) /\ Len(pending) = 0 /\ Timed(pending)
  BY <1>2 DEF Timed, Left
<1>4. QED
  BY <1>1, <1>2, <1>3, RequestFacts DEF RequestsInv

\* Every step of the client, of the timer and of TCP keeps the invariant.
LEMMA RequestsStep ==
  ASSUME RequestsInv, Requests!Next \/ UNCHANGED Requests!vars
  PROVE  RequestsInv'
<1>1. /\ buf \in [Requests!Positions -> 0 .. ListNumbers - 1]
      /\ put \in Requests!Positions /\ get \in Requests!Positions /\ room \in 0 .. ListSndBuf
      /\ accepted \in 0 .. ListNumbers - 1 /\ written \in 0 .. ListNumbers - 1
  BY DEF RequestsInv, Requests!RingTypeOK
<1>2. full \in BOOLEAN /\ up \in BOOLEAN /\ Requests!RingTypeOK
  BY Zenon DEF RequestsInv, Requests!RingTypeOK
<1>3. pending \in Seq(Item) /\ Timed(pending) /\ leaked \in 0 .. MaxRequests
      /\ Len(pending) + leaked <= MaxRequests /\ owed \subseteq PacketIds
  BY DEF RequestsInv
\* Who leaves the ring alone keeps its types.
<1>4. ASSUME UNCHANGED Requests!ringVars PROVE Requests!RingTypeOK'
  BY <1>2, <1>4, Zenon DEF Requests!ringVars, Requests!RingTypeOK
\* A shorter list, with the times it had.
<1>5. ASSUME Requests!RingTypeOK', Trimmed(pending', pending), leaked' = leaked,
             owed' \subseteq PacketIds, up' \in BOOLEAN
      PROVE  RequestsInv'
  <2>1. /\ pending' \in Seq(Item) /\ Timed(pending)' /\ leaked' \in 0 .. MaxRequests
        /\ Len(pending') + leaked' <= MaxRequests
    BY <1>3, <1>5, RequestFacts DEF Trimmed, Timed, Left
  <2>2. QED
    BY <1>5, <2>1, Zenon DEF RequestsInv
\* Bytes of the ring go to TCP.
<1>6. ASSUME NEW r \in 0 .. ListSndBuf, Requests!Send(buf, put, r),
             UNCHANGED <<buf, put, accepted, full>>,
             NEW q, Trimmed(q, pending), pending' = Requests!Ahead(q), leaked' = leaked,
             UNCHANGED <<owed, up>>
      PROVE  RequestsInv'
  <2>1. /\ get' \in Requests!Positions /\ room' \in 0 .. ListSndBuf
        /\ written' \in 0 .. ListNumbers - 1
        /\ Requests!Length(get', put) <= Requests!Length(get, put)
    BY <1>1, <1>6, ListSend
  <2>2. buf' = buf /\ put' = put /\ accepted' = accepted /\ full' = full
        /\ owed' = owed /\ up' = up
    BY <1>6
  <2>3. Requests!RingTypeOK'
    BY <1>1, <1>2, <2>1, <2>2, Zenon DEF Requests!RingTypeOK
  <2>4. Requests!Length(get, put') \in Nat /\ Requests!Length(get', put') \in Nat
    BY <1>1, <2>1, <2>2, ListRingRange, RequestFacts
  <2>5. Trimmed(pending', q)
    BY <1>6, <2>1, <2>2, <2>4, AheadList DEF Trimmed
  <2>6. Trimmed(pending', pending)
    BY <1>3, <1>6, <2>5 DEF Trimmed
  <2>7. QED
    BY <1>2, <1>3, <1>5, <1>6, <2>2, <2>3, <2>6
<1>7. ASSUME NEW id \in PacketIds \cup {0}, NEW n \in ListLengths, Requests!Request(id, n)
      PROVE  RequestsInv'
  <2> DEFINE x == Requests!Length(get, put')
             q == Append(pending, [id |-> id, diff |-> Requests!NewDiff(pending), age |-> 0,
                                   left |-> x])
  <2>1. /\ Len(pending) + leaked < MaxRequests
        /\ Requests!Enqueue(n) /\ Requests!Send(buf', put', room)
        /\ pending' = Requests!Ahead(q)
        /\ owed' = (IF id = 0 THEN owed ELSE owed \cup {id}) /\ leaked' = leaked /\ up' = up
    BY <1>7 DEF Requests!Request, Requests!Message
  <2>2. /\ buf' \in [Requests!Positions -> 0 .. ListNumbers - 1] /\ put' \in Requests!Positions
        /\ accepted' \in 0 .. ListNumbers - 1 /\ full' \in BOOLEAN
    BY <1>2, <2>1, ListEnqueue
  <2>3. /\ get' \in Requests!Positions /\ room' \in 0 .. ListSndBuf
        /\ written' \in 0 .. ListNumbers - 1
        /\ Requests!Length(get', put') <= Requests!Length(get, put')
    BY <1>1, <2>1, <2>2, ListSend
  <2>4. Requests!RingTypeOK'
    BY <2>2, <2>3, Zenon DEF Requests!RingTypeOK
  <2>5. Requests!Length(get, put') \in 0 .. ListRing - 1 /\ Requests!Length(get', put') \in Nat
    BY <1>1, <2>2, <2>3, ListRingRange, RequestFacts
  <2>6. x \in 0 .. ListRing
    BY <2>5, RequestFacts
  <2> HIDE DEF x
  <2>7. q \in Seq(Item) /\ Timed(q) /\ Len(q) = Len(pending) + 1
    BY <1>3, <2>6, Appended
  <2> HIDE DEF q
  <2>8. Trimmed(pending', q)
    BY <2>1, <2>3, <2>5, <2>7, AheadList
  <2>9. /\ pending' \in Seq(Item) /\ Timed(pending') /\ Len(pending') + leaked' <= MaxRequests
    BY <1>3, <2>1, <2>7, <2>8, RequestFacts DEF Trimmed
  <2>10. owed' \subseteq PacketIds
    BY <1>3, <2>1
  <2>11. Timed(pending)'
    BY <2>9 DEF Timed, Left
  <2>12. QED
    BY <1>2, <1>3, <2>1, <2>4, <2>9, <2>10, <2>11 DEF RequestsInv
<1>8. ASSUME NEW id \in PacketIds, Requests!Answer(id) PROVE RequestsInv'
  <2>1. /\ UNCHANGED Requests!ringVars /\ pending' = Requests!TakeRequest(pending, id)
        /\ leaked' = leaked /\ up' = up /\ owed' = owed \ {id}
    BY <1>8 DEF Requests!Answer
  <2>2. Trimmed(pending', pending)
    BY <1>3, <2>1, TakeRequestList
  <2>3. QED
    BY <1>2, <1>3, <1>4, <1>5, <2>1, <2>2
<1>9. ASSUME NEW id \in PacketIds, Requests!ShortSuback(id) PROVE RequestsInv'
  <2>1. /\ UNCHANGED Requests!ringVars /\ leaked' = leaked + 1 /\ pending' = <<>>
        /\ owed' = {} /\ up' = FALSE /\ id \in Requests!Ids(pending)
    BY <1>9 DEF Requests!ShortSuback
  <2>2. Len(pending) > 0
    BY <1>3, <2>1 DEF Requests!Ids
  <2>3. leaked' \in 0 .. MaxRequests
    BY <1>3, <2>1, <2>2, RequestFacts
  <2>4. pending' \in Seq(Item) /\ Len(pending') = 0 /\ Timed(pending)'
    BY <2>1 DEF Timed, Left
  <2>5. Len(pending') + leaked' <= MaxRequests /\ owed' \subseteq PacketIds
    BY <2>1, <2>3, <2>4, RequestFacts
  <2>6. up' \in BOOLEAN
    BY <2>1, Zenon
  <2>7. Requests!RingTypeOK'
    BY <1>4, <2>1
  <2>8. QED
    BY <2>3, <2>4, <2>5, <2>6, <2>7, Zenon DEF RequestsInv
<1>10. CASE Requests!Close
  <2>1. /\ UNCHANGED Requests!ringVars /\ leaked' = leaked /\ pending' = <<>>
        /\ owed' = {} /\ up' = FALSE
    BY <1>10 DEF Requests!Close
  <2>2. pending' \in Seq(Item) /\ Len(pending') = 0 /\ Timed(pending')
    BY <2>1 DEF Timed, Left
  <2>3. Trimmed(pending', pending)
    BY <1>3, <2>2 DEF Trimmed
  <2>4. QED
    BY <1>4, <1>5, <2>1, <2>3
<1>11. CASE Requests!Reconnect
  <2>1. /\ buf' = [i \in Requests!Positions |-> 0] /\ put' = 0 /\ get' = 0
        /\ room' = ListSndBuf /\ accepted' = 0 /\ written' = ListNumbers - 1
        /\ leaked' = 0 /\ pending' = pending /\ owed' = owed
    BY <1>11 DEF Requests!Reconnect, Requests!None
  <2>2. full' \in BOOLEAN /\ up' \in BOOLEAN
    BY <1>11, Zenon DEF Requests!Reconnect
  <2>3. Requests!RingTypeOK'
    BY <2>1, <2>2, RequestFacts DEF Requests!RingTypeOK, Requests!Positions
  <2>4. Timed(pending)' /\ Len(pending') + leaked' <= MaxRequests /\ leaked' \in 0 .. MaxRequests
    BY <1>3, <2>1, RequestFacts DEF Timed, Left
  <2>5. QED
    BY <1>3, <2>1, <2>2, <2>3, <2>4 DEF RequestsInv
<1>12. ASSUME NEW k \in 1 .. ListSndBuf, Requests!SentCb(k) PROVE RequestsInv'
  <2>1. /\ room + k <= ListSndBuf /\ Requests!Send(buf, put, room + k)
        /\ UNCHANGED <<buf, put, accepted, full>>
        /\ pending' = Requests!Ahead(Requests!Completed(pending))
        /\ leaked' = leaked /\ UNCHANGED <<owed, up>>
    BY <1>12 DEF Requests!SentCb, Requests!Acked
  <2>2. room + k \in 0 .. ListSndBuf
    BY <1>1, <2>1, RequestFacts
  <2>3. Trimmed(Requests!Completed(pending), pending)
    BY <1>3, CompletedList
  <2>4. QED
    BY <1>6, <2>1, <2>2, <2>3
<1>13. CASE Requests!PollCb
  <2>1. /\ Requests!Send(buf, put, room) /\ UNCHANGED <<buf, put, accepted, full>>
        /\ pending' = Requests!Ahead(pending) /\ leaked' = leaked /\ UNCHANGED <<owed, up>>
    BY <1>13 DEF Requests!PollCb, Requests!Poll
  <2>2. Trimmed(pending, pending)
    BY <1>3 DEF Trimmed
  <2>3. QED
    BY <1>1, <1>6, <2>1, <2>2
<1>14. CASE Requests!Tick
  <2>1. /\ UNCHANGED Requests!ringVars /\ leaked' = leaked /\ owed' = owed /\ up' = up
        /\ pending' = Requests!Elapsed(Requests!Aged(pending))
    BY <1>14 DEF Requests!Tick
  <2>2. Trimmed(pending', pending)
    BY <1>3, <2>1, TickedList
  <2>3. QED
    BY <1>2, <1>3, <1>4, <1>5, <2>1, <2>2
<1>15. CASE UNCHANGED Requests!vars
  <2>1. /\ UNCHANGED Requests!ringVars /\ leaked' = leaked /\ owed' = owed /\ up' = up
        /\ pending' = pending
    BY <1>15 DEF Requests!vars, Requests!requestVars
  <2>2. Trimmed(pending', pending)
    BY <1>3, <2>1 DEF Trimmed
  <2>3. QED
    BY <1>2, <1>3, <1>4, <1>5, <2>1, <2>2
<1>16. QED
  BY <1>7, <1>8, <1>9, <1>10, <1>11, <1>12, <1>13, <1>14, <1>15 DEF Requests!Next

\* The requests of mqtt.c, for every limit on their number and every timeout that is a
\* whole number of ticks: however they are made, answered, completed and timed out, the
\* relative times of the list add up to the absolute deadline of each request.
THEOREM DeadlinesAlways == SuiteSpec => []RequestsSafe
<1> DEFINE Inv == part = "requests" => RequestsInv
<1>1. SuiteInit => Inv
  BY RequestsStart DEF SuiteInit
<1>2. Inv /\ [SuiteNext]_allVars => Inv'
  <2> SUFFICES ASSUME part = "requests", RequestsInv, [SuiteNext]_allVars PROVE RequestsInv'
    BY DEF SuiteNext, LinkPart, RingPart, RequestPart, ParserPart, allVars
  <2>1. Requests!Next \/ UNCHANGED Requests!vars
    BY DEF SuiteNext, LinkPart, RingPart, RequestPart, ParserPart, allVars, outVars,
       Requests!vars, Requests!ringVars, Requests!requestVars
  <2>2. QED
    BY <2>1, RequestsStep
<1>3. Inv => RequestsSafe
  BY DeadlinesFollow DEF RequestsSafe
<1> HIDE DEF Inv
<1>4. QED
  BY <1>1, <1>2, <1>3, PTL DEF SuiteSpec
=============================================================================
