-------------------------------- MODULE MqttLink --------------------------------
(***************************************************************************)
(* The life of a connection in lwIP's MQTT client (apps/mqtt/mqtt.c): its  *)
(* states, the cyclic timer with the connect timeout, the keep-alive and   *)
(* the watchdog, and what the application is told.  Time passes in         *)
(* seconds; whatever the TCP/IP thread has to do is done before the next   *)
(* one.  The server and the network are the environment: a live server     *)
(* acknowledges within the second in which the bytes were sent, a dead one *)
(* never answers again.                                                    *)
(***************************************************************************)
EXTENDS Naturals, Sequences

CONSTANTS
  Interval,        \* MQTT_CYCLIC_TIMER_INTERVAL
  ConnectTimeout,  \* MQTT_CONNECT_TIMOUT
  KeepAlives       \* values of keep_alive in the client information: 0 is none, and
                   \* what mqtt_init of mqtt_client.c leaves there

ASSUME LinkAssumption ==
  /\ Interval \in Nat \ {0} /\ ConnectTimeout \in Nat \ {0}
  /\ KeepAlives \subseteq Nat /\ KeepAlives # {}

VARIABLES
  state,      \* conn_state
  keepAlive,  \* keep_alive
  cyclic,     \* cyclic_tick
  watchdog,   \* server_watchdog
  timers,     \* seconds until each mqtt_cyclic_timer in the list of timeouts fires
  unsent,     \* does the output ring hold bytes?
  flight,     \* bytes handed to TCP and not acknowledged?
  greeted,    \* has the server got the CONNECT?
  alive,      \* is the server alive?
  told,       \* history: statuses passed to connect_cb since mqtt_client_connect
  idle,       \* history: seconds since anything was received, up to IdleBound
  verdict     \* history: why the connection was closed last

vars == <<state, keepAlive, cyclic, watchdog, timers, unsent, flight, greeted, alive, told,
          idle, verdict>>

States == {"TCP_DISCONNECTED", "TCP_CONNECTING", "MQTT_CONNECTING", "MQTT_CONNECTED"}
Statuses == {"ACCEPTED", "REFUSED", "DISCONNECTED", "TIMEOUT"}
Verdicts == {"none", "refused", "remote", "error", "late", "silent", "user"}

\* 1.5 * keep_alive, as the code computes it
Patience == keepAlive + keepAlive \div 2
IdleBound == Patience + 2 * Interval

\* Bound: at most this many timers are counted.
MaxTimers == 2

TypeOK ==
  /\ state \in States /\ keepAlive \in KeepAlives /\ cyclic \in Nat
  /\ watchdog \in 0 .. IdleBound
  /\ timers \in Seq(0 .. Interval) /\ Len(timers) <= MaxTimers
  /\ unsent \in BOOLEAN /\ flight \in BOOLEAN /\ greeted \in BOOLEAN /\ alive \in BOOLEAN
  /\ told \in Seq(Statuses) /\ Len(told) <= 2
  /\ idle \in 0 .. IdleBound
  /\ verdict \in Verdicts

Init ==
  /\ state = "TCP_DISCONNECTED" /\ keepAlive \in KeepAlives /\ cyclic = 0
  /\ watchdog = 0 /\ timers = <<>>
  /\ unsent = FALSE /\ flight = FALSE /\ greeted = FALSE /\ alive = TRUE
  /\ told = <<>> /\ idle = 0 /\ verdict = "none"

-----------------------------------------------------------------------------
(* Parts of the handlers *)

Due == \E i \in DOMAIN timers : timers[i] = 0

\* mqtt_close, but for the timer: the connection is gone, the callback is called
\* unless the state was changed before.
Close(status, why) ==
  /\ state' = "TCP_DISCONNECTED" /\ flight' = FALSE /\ greeted' = FALSE
  /\ told' = IF state = "TCP_DISCONNECTED" THEN told ELSE Append(told, status)
  /\ verdict' = why

\* Fault: nothing is taken off the list.
UntimeoutNone == timers
\* sys_untimeout: the first entry is taken off the list.
Untimeout == IF timers = <<>> THEN timers ELSE Tail(timers)

\* mqtt_output_send: what the ring holds goes to TCP, if TCP takes it.
Send == \/ unsent' = FALSE /\ flight' = (flight \/ unsent)
        \/ UNCHANGED <<unsent, flight>>

-----------------------------------------------------------------------------
(* The API *)

\* mqtt_client_connect: the CONNECT is in the ring.
Connect ==
  /\ state = "TCP_DISCONNECTED"
  /\ state' = "TCP_CONNECTING" /\ keepAlive' \in KeepAlives
  /\ cyclic' = 0 /\ watchdog' = 0 /\ unsent' = TRUE /\ flight' = FALSE /\ greeted' = FALSE
  /\ told' = <<>> /\ idle' = 0 /\ verdict' = "none"
  /\ UNCHANGED <<timers, alive>>

\* mqtt_client_connect fails after the client was wiped.
ConnectFails ==
  /\ state = "TCP_DISCONNECTED"
  /\ keepAlive' \in KeepAlives
  /\ cyclic' = 0 /\ watchdog' = 0 /\ unsent' = FALSE /\ told' = <<>> /\ idle' = 0
  /\ verdict' = "none"
  /\ UNCHANGED <<state, timers, flight, greeted, alive>>

\* Fault: the callback is called, with the status 0.
DisconnectTold ==
  /\ state # "TCP_DISCONNECTED"
  /\ Close("ACCEPTED", "user") /\ timers' = Untimeout
  /\ UNCHANGED <<keepAlive, cyclic, watchdog, unsent, alive, idle>>
\* mqtt_disconnect: the state is changed first so that the callback is not called.
Disconnect ==
  /\ state # "TCP_DISCONNECTED"
  /\ state' = "TCP_DISCONNECTED" /\ timers' = Untimeout
  /\ flight' = FALSE /\ greeted' = FALSE /\ verdict' = "user"
  /\ UNCHANGED <<keepAlive, cyclic, watchdog, unsent, alive, told, idle>>

\* mqtt_publish and the other requests, behind the CONNECT as well: the message is in
\* the ring, sending is tried.
Publish ==
  /\ state # "TCP_DISCONNECTED"
  /\ \/ unsent' = FALSE /\ flight' = TRUE
     \/ unsent' = TRUE /\ UNCHANGED flight
  /\ UNCHANGED <<keepAlive, state, cyclic, watchdog, timers, greeted, alive, told, idle,
                 verdict>>

-----------------------------------------------------------------------------
(* Callbacks of TCP *)

\* mqtt_tcp_connect_cb
TcpConnected ==
  /\ state = "TCP_CONNECTING" /\ alive
  /\ state' = "MQTT_CONNECTING"
  /\ timers' = Append(timers, Interval) /\ cyclic' = 0
  /\ Send
  /\ UNCHANGED <<keepAlive, watchdog, greeted, alive, told, idle, verdict>>

\* mqtt_tcp_sent_cb: the server acknowledges what was sent.
TcpSent ==
  /\ alive /\ flight /\ state # "TCP_CONNECTING"
  /\ greeted' = TRUE
  /\ IF state = "MQTT_CONNECTED"
       THEN /\ cyclic' = 0 /\ watchdog' = 0 /\ idle' = 0
            /\ \/ unsent' = FALSE /\ flight' = unsent
               \/ flight' = FALSE /\ UNCHANGED unsent
       ELSE flight' = FALSE /\ idle' = 0 /\ UNCHANGED <<cyclic, watchdog, unsent>>
  /\ UNCHANGED <<keepAlive, state, timers, alive, told, verdict>>

\* mqtt_tcp_recv_cb resets the watchdog whatever it received.
Received == idle' = 0 /\ watchdog' = IF keepAlive # 0 THEN 0 ELSE watchdog

\* A CONNACK with result 0.
Accepted ==
  /\ alive /\ greeted /\ state = "MQTT_CONNECTING"
  /\ state' = "MQTT_CONNECTED" /\ cyclic' = 0 /\ told' = Append(told, "ACCEPTED")
  /\ Received
  /\ UNCHANGED <<keepAlive, timers, unsent, flight, greeted, alive, verdict>>

\* A CONNACK with another result, or, in any state, a message that cannot be parsed.
Refused(status) ==
  /\ alive /\ state \in {"MQTT_CONNECTING", "MQTT_CONNECTED"}
  /\ status = "REFUSED" => greeted /\ state = "MQTT_CONNECTING"
  /\ Close(status, "refused") /\ timers' = Untimeout
  /\ Received
  /\ UNCHANGED <<keepAlive, cyclic, unsent, alive>>

\* Any other message, or a CONNACK that is not expected.
Message ==
  /\ alive /\ greeted /\ state \in {"MQTT_CONNECTING", "MQTT_CONNECTED"}
  /\ Received
  /\ UNCHANGED <<keepAlive, state, cyclic, timers, unsent, flight, greeted, alive, told,
                 verdict>>

\* mqtt_tcp_recv_cb without data: the server closed the connection.
RemoteClosed ==
  /\ alive /\ state \in {"MQTT_CONNECTING", "MQTT_CONNECTED"}
  /\ Close("DISCONNECTED", "remote") /\ timers' = Untimeout
  /\ UNCHANGED <<keepAlive, cyclic, watchdog, unsent, alive, idle>>

\* mqtt_tcp_err_cb: a reset, or TCP gives up on a server that does not answer.
TcpError ==
  /\ state # "TCP_DISCONNECTED" /\ (alive \/ flight \/ state = "TCP_CONNECTING")
  /\ Close("DISCONNECTED", "error") /\ timers' = Untimeout
  /\ UNCHANGED <<keepAlive, cyclic, watchdog, unsent, alive, idle>>

\* tcp_slowtmr of lwIP, on a connection that no keep-alive watches.
GivesUp ==
  keepAlive = 0 /\ state = "MQTT_CONNECTED" /\ ~alive /\ flight /\ TcpError

\* The server, or the way to it, dies without a word.
ServerDies ==
  /\ alive /\ alive' = FALSE
  /\ UNCHANGED <<keepAlive, state, cyclic, watchdog, timers, unsent, flight, greeted, told,
                 idle, verdict>>

-----------------------------------------------------------------------------
(* mqtt_cyclic_timer *)

\* sys_check_timeouts has taken the entry off the list; the handler may restart it.
Rest == Tail(timers)
Restarted == Append(Rest, Interval)

Late ==
  /\ (cyclic + 1) * Interval >= ConnectTimeout
  /\ cyclic' = cyclic + 1
  /\ Close("TIMEOUT", "late") /\ timers' = Rest
  /\ UNCHANGED <<watchdog, unsent>>

\* Fault: the ticks of an attempt are not counted.
WaitingForever ==
  /\ (cyclic + 1) * Interval < ConnectTimeout
  /\ timers' = Restarted
  /\ UNCHANGED <<state, cyclic, watchdog, unsent, flight, greeted, told, verdict>>
Waiting ==
  /\ (cyclic + 1) * Interval < ConnectTimeout
  /\ cyclic' = cyclic + 1 /\ timers' = Restarted
  /\ UNCHANGED <<state, watchdog, unsent, flight, greeted, told, verdict>>

\* Fault: the factor 1.5 is missing.
SilentEarly == (watchdog + 1) * Interval >= keepAlive
Silent == (watchdog + 1) * Interval > Patience

\* The PINGREQ: with other bytes in the ring there may be no room for it.
Ping ==
  IF (cyclic + 1) * Interval >= keepAlive
    THEN \/ cyclic' = 0 /\ unsent' = TRUE
         \/ unsent /\ cyclic' = cyclic + 1 /\ UNCHANGED unsent
    ELSE cyclic' = cyclic + 1 /\ UNCHANGED unsent

\* The watchdog, then the keep-alive message, also behind a connection just closed.
Watching ==
  IF keepAlive = 0
    THEN /\ timers' = Restarted
         /\ UNCHANGED <<state, cyclic, watchdog, unsent, flight, greeted, told, verdict>>
    ELSE /\ watchdog' = watchdog + 1
         /\ IF Silent
              THEN Close("TIMEOUT", "silent") /\ timers' = Rest
              ELSE /\ timers' = Restarted
                   /\ UNCHANGED <<state, flight, greeted, told, verdict>>
         /\ Ping

\* "Timer should not be running in state": it is not started again.
Stray ==
  /\ timers' = Rest
  /\ UNCHANGED <<state, cyclic, watchdog, unsent, flight, greeted, told, verdict>>

CyclicTimer ==
  /\ timers # <<>> /\ Head(timers) = 0
  /\ IF state = "MQTT_CONNECTING" THEN Late \/ Waiting
     ELSE IF state = "MQTT_CONNECTED" THEN Watching ELSE Stray
  /\ UNCHANGED <<keepAlive, alive, idle>>

\* A second passes: nothing that takes less is left to do.  mqtt_tcp_poll_cb comes
\* every second and tries to send.
Second ==
  /\ ~Due /\ (alive /\ flight => state = "TCP_CONNECTING")
  /\ timers' = [i \in DOMAIN timers |-> timers[i] - 1]
  /\ idle' = IF idle < IdleBound THEN idle + 1 ELSE idle
  /\ IF state = "MQTT_CONNECTED" THEN unsent' = FALSE /\ flight' = (flight \/ unsent)
                                 ELSE UNCHANGED <<unsent, flight>>
  /\ UNCHANGED <<keepAlive, state, cyclic, watchdog, greeted, alive, told, verdict>>

Next ==
  \/ Connect \/ ConnectFails \/ Disconnect \/ Publish
  \/ TcpConnected \/ TcpSent \/ Accepted \/ Message \/ RemoteClosed \/ TcpError
  \/ \E s \in {"REFUSED", "DISCONNECTED"} : Refused(s)
  \/ ServerDies \/ CyclicTimer \/ Second

Spec == Init /\ [][Next]_vars

\* Time passes, timeouts are handled, a live server's acknowledgements arrive, and TCP
\* ends an attempt to connect one way or the other.  Without keep-alive it is TCP that gives
\* up, after TCP_MAXRTX times of sending again what a dead server does not acknowledge,
\* for which the driver must give the segment back in between (Retransmitted of EthTx).
FairSpec ==
  /\ Spec /\ WF_vars(Second) /\ WF_vars(CyclicTimer) /\ WF_vars(TcpSent)
  /\ WF_vars(state = "TCP_CONNECTING" /\ (TcpConnected \/ TcpError))
  /\ WF_vars(GivesUp)

-----------------------------------------------------------------------------
(* Properties *)

\* Exactly one cyclic timer runs while the client waits for the CONNACK or is
\* connected, none at any other time: whatever closes the connection, in whatever
\* order, and however often the client connects again.
OneTimer ==
  Len(timers) = IF state \in {"MQTT_CONNECTING", "MQTT_CONNECTED"} THEN 1 ELSE 0

\* The application is told of every connection once when it is accepted, and of every
\* connection or attempt once when it ends, but for the end it asked for itself.
Reported ==
  /\ state \in {"TCP_CONNECTING", "MQTT_CONNECTING"} => told = <<>>
  /\ state = "MQTT_CONNECTED" => told = <<"ACCEPTED">>
  /\ (state = "TCP_DISCONNECTED" /\ verdict \notin {"none", "user"}) =>
       \E s \in Statuses \ {"ACCEPTED"} : told \in {<<s>>, <<"ACCEPTED", s>>}
  /\ verdict = "user" => told \in {<<>>, <<"ACCEPTED">>}

\* Whatever way a connection takes: one timer or none, and every end told once.
LinkSafe == TypeOK /\ OneTimer /\ Reported

\* A server that answers is not given up: the keep-alive message is sent, and
\* acknowledged, before the patience of the watchdog ends.
HealthyKept == verdict = "silent" => ~alive

\* A dead server keeps neither an attempt to connect open for ever, nor a connection with
\* keep-alive; without keep-alive, as in this firmware (mqtt_client.c:191), no connection on
\* which something is left to be acknowledged.
Watched == keepAlive # 0 \/ state # "MQTT_CONNECTED" \/ unsent \/ flight
DeadNoticed ==
  (~alive /\ state # "TCP_DISCONNECTED" /\ Watched) ~> state = "TCP_DISCONNECTED"

-----------------------------------------------------------------------------
(* What one would expect, the first by a comment of mqtt_cyclic_timer, and   *)
(* TLC refutes: "Disagreements met" in README.md.                             *)

\* The watchdog ends a connection on which nothing was received for one and a half
\* times the keep-alive time.
IdleLongEnough ==
  [][verdict' = "silent" /\ verdict # "silent" => 2 * idle >= 3 * keepAlive]_vars

\* A dead server is noticed, whatever the client does: not so without keep-alive.
DeadAlwaysNoticed ==
  (~alive /\ state # "TCP_DISCONNECTED") ~> state = "TCP_DISCONNECTED"
=============================================================================
