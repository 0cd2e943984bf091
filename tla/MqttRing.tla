-------------------------------- MODULE MqttRing --------------------------------
(***************************************************************************)
(* The output ring of lwIP's MQTT client (apps/mqtt/mqtt.c): messages are  *)
(* appended whole, bytes are handed to TCP as far as its send buffer has   *)
(* room.  The bytes of the outgoing stream are numbered modulo Numbers.    *)
(***************************************************************************)
EXTENDS Integers

CONSTANTS
  Size,      \* MQTT_OUTPUT_RINGBUF_SIZE
  Lengths,   \* lengths of the messages the client sends, headers included
  SndBuf,    \* TCP_SND_BUF
  Numbers    \* bytes are numbered modulo this

RingAssumption ==
  /\ {Size, SndBuf} \subseteq Nat \ {0}
  /\ Lengths \subseteq Nat \ {0}
  /\ Numbers \in Nat /\ Numbers > Size

VARIABLES
  buf, put, get,  \* struct mqtt_ringbuf_t
  room,           \* altcp_sndbuf
  accepted,       \* history: number of the next byte to be appended
  written,        \* history: number of the last byte handed to TCP
  full            \* history: was the ring ever filled to the last byte?

ringVars == <<buf, put, get, room, accepted, written, full>>

Positions == 0 .. Size - 1
None == Numbers - 1

RingTypeOK ==
  /\ buf \in [Positions -> 0 .. Numbers - 1]
  /\ put \in Positions /\ get \in Positions
  /\ room \in 0 .. SndBuf
  /\ accepted \in 0 .. Numbers - 1 /\ written \in 0 .. Numbers - 1
  /\ full \in BOOLEAN

\* After the memset of mqtt_client_connect, with a new connection.  The number of
\* the byte written last is the one before the first.
RingInit ==
  /\ buf = [i \in Positions |-> 0] /\ put = 0 /\ get = 0
  /\ room = SndBuf
  /\ accepted = 0 /\ written = None /\ full = FALSE

\* mqtt_ringbuf_len: the difference wraps in 32 bits when put is behind get.
Length(g, p) == IF p >= g THEN p - g ELSE p - g + Size

\* mqtt_output_check_space, for the whole message
CheckSpace(k) == k <= Size - Length(get, put)

Wrapped(i) == IF i >= Size THEN i - Size ELSE i

\* Fault: the last place of the ring is left out when the index wraps.
WithBytesShort(k) ==
  [i \in Positions |->
     LET j == Wrapped(i + Size - put) IN
     IF j < k /\ i # Size - 1 THEN (accepted + j) % Numbers ELSE buf[i]]
\* The ring after mqtt_ringbuf_put of k bytes.
WithBytes(k) ==
  [i \in Positions |->
     LET j == Wrapped(i + Size - put) IN
     IF j < k THEN (accepted + j) % Numbers ELSE buf[i]]

\* The mqtt_output_append_... calls of a message.
Enqueue(k) ==
  /\ CheckSpace(k)
  /\ buf' = WithBytes(k)
  /\ put' = (put + k) % Size
  /\ accepted' = (accepted + k) % Numbers
  /\ full' = (full \/ put' = get)

Least(a, b) == IF a < b THEN a ELSE b

\* mqtt_ringbuf_linear_read_length
Linear(g, p) == Least(Length(g, p), Size - g)

\* How many bytes mqtt_output_send may hand to TCP: none if there is nothing to send
\* or the write fails, the linear part as far as there is room, and behind it, if
\* the data wrap around, what still fits; that second write may fail too.
Sendable(g, p, r) ==
  LET linear == Linear(g, p) IN
  {0, Least(r, linear)} \cup
  IF r > linear THEN {linear + Least(r - linear, Length(g, p) - linear)} ELSE {}

\* Bytes leave in the order of their places.
Send(b, p, r) ==
  \E n \in Sendable(get, p, r) :
    /\ get' = Wrapped(get + n)
    /\ room' = r - n
    /\ written' = IF n = 0 THEN written ELSE b[Wrapped(get + n - 1)]

\* mqtt_publish, mqtt_sub_unsub, pub_ack_rec_rel_response: append a message and send.
\* A message that does not fit is refused and changes nothing.
Message(k) == Enqueue(k) /\ Send(buf', put', room)

\* mqtt_cyclic_timer: the keep-alive message is only appended.
Ping(k) == Enqueue(k) /\ UNCHANGED <<get, room, written>>

\* mqtt_tcp_poll_cb
Poll ==
  /\ Send(buf, put, room)
  /\ UNCHANGED <<buf, put, accepted, full>>

\* TCP has an acknowledgement: mqtt_tcp_sent_cb.
Acked(k) ==
  /\ room + k <= SndBuf
  /\ Send(buf, put, room + k)
  /\ UNCHANGED <<buf, put, accepted, full>>

RingNext ==
  \/ \E k \in Lengths : Message(k) \/ Ping(k)
  \/ Poll
  \/ \E k \in 1 .. SndBuf : Acked(k)

RingSpec == RingInit /\ [][RingNext]_ringVars

-----------------------------------------------------------------------------
(* Properties *)

\* The ring holds exactly the bytes that were accepted and not yet handed to TCP,
\* in order: the stream has no gap, no repetition, and no message is cut, wherever
\* the ring wraps and however little TCP takes at a time.
Intact ==
  LET n == Length(get, put) IN
  /\ (written + n + 1) % Numbers = accepted
  /\ \A i \in 0 .. n - 1 : buf[Wrapped(get + i)] = (written + 1 + i) % Numbers

\* That holds as long as no message fills the ring to the last byte.
StreamIntact == ~full => Intact

-----------------------------------------------------------------------------
(* What the comment of mqtt_output_check_space says, and TLC                  *)
(* refutes: "Disagreements met" in README.md.                                 *)

\* A message that fits is kept, if it fills the ring exactly as well.
FitsMeansKept == Intact
=============================================================================
