----------------------------- MODULE MqttRequests -----------------------------
(***************************************************************************)
(* The requests in flight of lwIP's MQTT client (apps/mqtt/mqtt.c) on one  *)
(* connection after another, over the output ring of MqttRing.  A request  *)
(* holds one of MQTT_REQ_MAX_IN_FLIGHT items and waits in a list for its   *)
(* answer; its timeout is stored relative to the request before it.        *)
(***************************************************************************)
EXTENDS MqttRing, Sequences, FiniteSets, SequencesExt

CONSTANTS
  MaxRequests,  \* MQTT_REQ_MAX_IN_FLIGHT
  Interval,     \* MQTT_CYCLIC_TIMER_INTERVAL
  Timeout,      \* MQTT_REQ_TIMEOUT
  PacketIds     \* packet identifiers; 0 is that of a QoS 0 publish

RequestAssumption ==
  /\ {MaxRequests, Interval, Timeout} \subseteq Nat \ {0}
  /\ Timeout % Interval = 0
  /\ PacketIds \subseteq Nat \ {0}
  /\ Cardinality(PacketIds) > MaxRequests

VARIABLES
  pending,  \* pend_req_queue: requests with pkt_id, timeout_diff and, as history,
            \* the ticks since it was made and the bytes of the ring up to its end
  leaked,   \* items of req_list that are in no list and not free
  owed,     \* packet identifiers the server may still answer
  up        \* conn_state is MQTT_CONNECTED

requestVars == <<pending, leaked, owed, up>>
vars == <<ringVars, requestVars>>

RequestTypeOK ==
  /\ RingTypeOK
  /\ pending \in Seq([id : PacketIds \cup {0}, diff : 0 .. Timeout,
                      age : 0 .. Timeout \div Interval, left : 0 .. Size])
  /\ leaked \in 0 .. MaxRequests /\ Len(pending) + leaked <= MaxRequests
  /\ owed \subseteq PacketIds /\ up \in BOOLEAN

Init == RingInit /\ pending = <<>> /\ leaked = 0 /\ owed = {} /\ up = TRUE

-----------------------------------------------------------------------------
(* The list *)

\* time_before of mqtt_append_request, for the first k requests.
TimeBefore(q, k) ==
  LET before[n \in 0 .. k] == IF n = 0 THEN 0 ELSE before[n - 1] + q[n].diff
  IN before[k]

NewDiff(q) == Timeout - TimeBefore(q, Len(q))

\* Fault: the time of the request taken is lost.
TakenShort(q, k) == RemoveAt(q, k)
\* mqtt_take_request: the remaining time is added to that of the next one.
Taken(q, k) ==
  RemoveAt(IF k < Len(q) THEN [q EXCEPT ![k + 1].diff = @ + q[k].diff] ELSE q, k)

Ids(q) == {q[k].id : k \in DOMAIN q}

\* mqtt_take_request takes the first request with an identifier, if there is one.
TakeRequest(q, id) ==
  IF id \notin Ids(q) THEN q
  ELSE Taken(q, CHOOSE k \in DOMAIN q : q[k].id = id /\ \A j \in 1 .. k - 1 : q[j].id # id)

\* The loop of mqtt_tcp_sent_cb takes one QoS 0 publish after the other.
Completed(q) ==
  LET taken[n \in 0 .. Len(q)] == IF n = 0 THEN q ELSE TakeRequest(taken[n - 1], 0)
  IN taken[Len(q)]

\* Fault: the time stops at zero and the request stays in the list.
ElapsedKept(q) ==
  IF q = <<>> THEN q
  ELSE [q EXCEPT ![1].diff = IF @ > Interval THEN @ - Interval ELSE 0]
\* mqtt_request_time_elapsed: the loop stops when no time is left, even if the next
\* request has none left either.
Elapsed(q) ==
  LET from[k \in 1 .. Len(q) + 1] ==
        [t \in 0 .. Interval |->
           IF k > Len(q) \/ t = 0 THEN SubSeq(q, k, Len(q))
           ELSE IF t >= q[k].diff THEN from[k + 1][t - q[k].diff]
           ELSE [SubSeq(q, k, Len(q)) EXCEPT ![1].diff = @ - t]]
  IN from[1][Interval]

\* The bytes sent in this step are no longer ahead of the end of a request.
Ahead(q) ==
  LET sent == Length(get, put') - Length(get', put') IN
  [k \in DOMAIN q |-> [q[k] EXCEPT !.left = IF @ > sent THEN @ - sent ELSE 0]]

\* Ages are counted up to one past the deadline.
Aged(q) ==
  [k \in DOMAIN q |-> [q[k] EXCEPT !.age = IF @ * Interval > Timeout THEN @ ELSE @ + 1]]

-----------------------------------------------------------------------------
(* The API *)

\* mqtt_publish with QoS 0 (id 0) or 1, mqtt_sub_unsub: an item, room in the ring,
\* the message, the list, an attempt to send.  Without an item or room nothing
\* changes but the counter of identifiers.  Identifiers come from a counter of 16 bits,
\* which does not come round while a request lives.
Request(id, length) ==
  /\ up /\ Len(pending) + leaked < MaxRequests
  /\ id \notin owed /\ (id # 0 => id \notin Ids(pending))
  /\ Message(length)
  /\ pending' = Ahead(Append(pending, [id |-> id, diff |-> NewDiff(pending), age |-> 0,
                                       left |-> Length(get, put')]))
  /\ owed' = IF id = 0 THEN owed ELSE owed \cup {id}
  /\ UNCHANGED <<leaked, up>>

-----------------------------------------------------------------------------
(* The TCP/IP thread *)

\* PUBACK, SUBACK, UNSUBACK: the request is taken and its item is free again.  An
\* answer to no pending request is ignored.
Answer(id) ==
  /\ up /\ id \in owed
  /\ owed' = owed \ {id}
  /\ pending' = TakeRequest(pending, id)
  /\ UNCHANGED <<ringVars, leaked, up>>

\* A SUBACK without a result code: the request was taken, the item is not deleted,
\* the connection is closed.
ShortSuback(id) ==
  /\ up /\ id \in owed /\ id \in Ids(pending)
  /\ leaked' = leaked + 1
  /\ pending' = <<>> /\ owed' = {} /\ up' = FALSE
  /\ UNCHANGED ringVars

\* mqtt_close, for any other reason.
Close ==
  /\ up
  /\ pending' = <<>> /\ owed' = {} /\ up' = FALSE
  /\ UNCHANGED <<ringVars, leaked>>

\* mqtt_client_connect wipes the client; the rest of the handshake is in MqttLink.
Reconnect ==
  /\ ~up
  /\ buf' = [i \in Positions |-> 0] /\ put' = 0 /\ get' = 0
  /\ room' = SndBuf /\ accepted' = 0 /\ written' = None /\ full' = FALSE
  /\ up' = TRUE /\ leaked' = 0
  /\ UNCHANGED <<pending, owed>>

\* mqtt_tcp_sent_cb: every QoS 0 publish is complete, then more is sent.
SentCb(k) ==
  /\ up /\ Acked(k)
  /\ pending' = Ahead(Completed(pending))
  /\ UNCHANGED <<leaked, owed, up>>

PollCb ==
  /\ up /\ Poll
  /\ pending' = Ahead(pending)
  /\ UNCHANGED <<leaked, owed, up>>

\* mqtt_cyclic_timer in state MQTT_CONNECTED
Tick ==
  /\ up
  /\ pending' = Elapsed(Aged(pending))
  /\ UNCHANGED <<ringVars, leaked, owed, up>>

Next ==
  \/ \E id \in PacketIds \cup {0}, n \in Lengths : Request(id, n)
  \/ \E id \in PacketIds : Answer(id) \/ ShortSuback(id)
  \/ Close \/ Reconnect
  \/ \E k \in 1 .. SndBuf : SentCb(k)
  \/ PollCb \/ Tick

Spec == Init /\ [][Next]_vars

\* The timer runs as long as the connection lasts; a closed one may stay closed.
FairSpec == Spec /\ WF_vars(Tick)

-----------------------------------------------------------------------------
(* Properties *)

Positive(n) == IF n > 0 THEN n ELSE 0

\* However requests are made, answered, completed and timed out, the relative times
\* of the list add up to the absolute deadline of each request.
DeadlinesKept ==
  \A k \in DOMAIN pending :
    TimeBefore(pending, k) = Positive(Timeout - Interval * pending[k].age)

\* A request that nobody answers comes to its end, so that its item can be used again.
RequestsEnd ==
  \A id \in PacketIds : id \in Ids(pending) ~> id \notin Ids(pending)

-----------------------------------------------------------------------------
(* What the documentation of mqtt_publish says, and TLC                       *)
(* refutes: "Disagreements met" in README.md.                                 *)

\* A QoS 0 publish is complete, or timed out, when its request ends: its bytes are
\* not waiting in the ring.
CompleteMeansSent ==
  [][\A k \in DOMAIN pending :
       /\ pending[k].id = 0 /\ pending[k].age < Timeout \div Interval
       /\ up' /\ 0 \notin Ids(pending')
       => pending[k].left <= Length(get, put) - Length(get', put)]_vars
=============================================================================
