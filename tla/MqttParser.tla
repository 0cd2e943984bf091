------------------------------- MODULE MqttParser -------------------------------
(***************************************************************************)
(* The parser of incoming messages in lwIP's MQTT client: the stream of    *)
(* messages arrives in chains of buffers cut at any place; every turn of   *)
(* the loop of mqtt_parse_incoming is a step.  Of the bytes of a message   *)
(* only their places matter, so that a message is the lengths of its parts.*)
(***************************************************************************)
EXTENDS Integers, Sequences, SequencesExt

CONSTANTS
  BufLen,    \* MQTT_VAR_HEADER_BUFFER_LEN
  Base,      \* remaining lengths from here on take two bytes (128)
  Topics, Payloads,  \* lengths of topics and payloads
  MaxBuffers,  \* bound: buffers in a chain
  MaxLength,   \* bound: length of a buffer
  MaxMessages  \* bound: messages in the stream

ParserAssumption ==
  /\ {BufLen, Base, MaxBuffers, MaxLength, MaxMessages} \subseteq Nat \ {0}
  /\ Topics \subseteq Nat /\ Payloads \subseteq Nat

VARIABLES
  stream,   \* the messages the server sends
  eaten,    \* bytes of the current message, the head of stream, taken from buffers
  chain,    \* the lengths of the buffers being parsed, <<>> if there are none
  inOffset, \* in_offset
  header,   \* fixed_hdr_len
  more,     \* is the fixed header not complete?
  msgIdx,   \* client->msg_idx
  remLen,   \* msg_rem_len
  calls,    \* history: what the application got of the current message
  finished, \* history: the last message parsed to its end, with its calls
  status    \* "ok", or why the connection is closed

vars == <<stream, eaten, chain, inOffset, header, more, msgIdx, remLen, calls, finished, status>>

Publishes == [kind : {"PUBLISH"}, qos : {0, 1}, topic : Topics, payload : Payloads]
Others == [kind : {"PUBACK", "SUBACK", "PINGRESP"}, qos : {0}, topic : {0}, payload : {0}]

QosLen(m) == IF m.qos > 0 THEN 2 ELSE 0
\* The variable header, as the server sends it.
VarHeader(m) ==
  CASE m.kind = "PUBLISH" -> 2 + m.topic + QosLen(m)
    [] m.kind = "PUBACK" -> 2
    [] m.kind = "SUBACK" -> 3
    [] m.kind = "PINGRESP" -> 0
Remaining(m) == VarHeader(m) + m.payload
FixedHeader(m) == IF Remaining(m) < Base THEN 2 ELSE 3
Total(m) == FixedHeader(m) + Remaining(m)

\* total: the length pub_cb is given, -1 before it is called; data: bytes given to
\* data_cb; pieces: its calls; last: its calls with MQTT_DATA_FLAG_LAST; answers
NoCalls == [total |-> -1, data |-> 0, pieces |-> 0, last |-> 0, answers |-> 0]

SumOf(lengths) ==
  LET sum[n \in 0 .. Len(lengths)] == IF n = 0 THEN 0 ELSE sum[n - 1] + lengths[n]
  IN sum[Len(lengths)]
TotLen == SumOf(chain)
StreamLen == SumOf([i \in 1 .. Len(stream) |-> Total(stream[i])])
Current == Head(stream)
Idle == chain = <<>>

TypeOK ==
  /\ \A i \in DOMAIN stream : stream[i] \in Publishes \cup Others
  /\ eaten \in Nat /\ (stream # <<>> => eaten <= Total(Current))
  /\ chain \in Seq(1 .. MaxLength) /\ Len(chain) <= MaxBuffers
  /\ inOffset \in 0 .. TotLen
  /\ header \in 0 .. 3 /\ more \in BOOLEAN
  /\ msgIdx \in Nat /\ remLen \in Nat
  /\ status \in {"ok", "short", "mismatch"}

Init ==
  /\ stream \in BoundedSeq(Publishes \cup Others, MaxMessages)
  /\ eaten = 0 /\ chain = <<>> /\ inOffset = 0 /\ header = 0 /\ more = TRUE
  /\ msgIdx = 0 /\ remLen = 0 /\ calls = NoCalls /\ finished = <<>>
  /\ status = "ok"

-----------------------------------------------------------------------------

\* TCP delivers the next bytes of the stream: mqtt_parse_incoming is entered.
Receive(c) ==
  /\ Idle /\ status = "ok"
  /\ SumOf(c) <= StreamLen - eaten
  /\ chain' = c /\ inOffset' = 0 /\ header' = 0 /\ more' = TRUE /\ remLen' = 0
  /\ UNCHANGED <<stream, eaten, msgIdx, calls, finished, status>>

\* The message is complete: the parser is reset for the next one.
NextMessage(made) ==
  /\ finished' = <<Current, made>>
  /\ stream' = Tail(stream) /\ eaten' = 0 /\ calls' = NoCalls
  /\ msgIdx' = 0 /\ header' = 0

\* Fault: the bytes that came with earlier segments are expected again.
RestOfMessageWhole(idx) == Remaining(Current)
\* The bytes to come when the fixed header is complete and idx bytes have come.
RestOfMessage(idx) == Remaining(Current) + FixedHeader(Current) - idx

\* A byte of the fixed header, from the buffer of the client if it came with an
\* earlier segment.
ParseFixedHeader ==
  /\ inOffset < TotLen /\ status = "ok"
  /\ header < 2 \/ more
  /\ LET old == header < msgIdx
         idx == IF old THEN msgIdx ELSE msgIdx + 1
         done == header + 1 = FixedHeader(Current)
     IN
     /\ inOffset' = IF old THEN inOffset ELSE inOffset + 1
     /\ IF done /\ Remaining(Current) = 0
          THEN NextMessage(calls) /\ remLen' = 0
          ELSE /\ header' = header + 1 /\ msgIdx' = idx
               /\ eaten' = IF old THEN eaten ELSE eaten + 1
               /\ remLen' = IF done THEN RestOfMessage(idx) ELSE remLen
               /\ UNCHANGED <<stream, calls, finished>>
     /\ more' = ~done
  /\ UNCHANGED <<chain, status>>

\* Fault: a message must have a payload.
RejectsEmpty(m, n, r, i) ==
  \/ m.kind \in {"PUBACK", "SUBACK"} /\ n < 2
  \/ m.kind = "PUBLISH" /\ i = header + n /\ n <= VarHeader(m)
\* mqtt_message_received for a part of length n, r bytes of the message to come, at
\* index i: the calls to the application, or the reason to disconnect.
Rejects(m, n, r, i) ==
  LET bufsize == BufLen - header
      after == 2 + m.topic IN
  \/ m.kind \in {"PUBACK", "SUBACK"} /\ n < 2
  \/ m.kind = "SUBACK" /\ n < 3
  \/ /\ m.kind = "PUBLISH" /\ i = header + n
     /\ \/ n < 2 + QosLen(m)
        \/ m.topic > n - (2 + QosLen(m)) \/ m.topic > bufsize - (2 + QosLen(m))
        \/ after + (IF m.qos > 0 THEN 2 ELSE 1) > bufsize
        \/ m.qos > 0 /\ n < after + 2

\* Fault: the part in the buffer is announced, not the whole message.
PublishCallsPart(m, n, r, i) ==
  LET first == i = header + n
      data == IF first THEN n - VarHeader(m) ELSE n
      called == data > 0 \/ r = 0 IN
  [total |-> IF first THEN data ELSE calls.total,
   data |-> calls.data + data,
   pieces |-> IF called THEN calls.pieces + 1 ELSE calls.pieces,
   last |-> IF r = 0 THEN calls.last + 1 ELSE calls.last,
   answers |-> IF r = 0 /\ m.qos > 0 THEN calls.answers + 1 ELSE calls.answers]
\* pub_cb for the first part, data_cb if there are data or nothing more is to come,
\* PUBACK behind the last part.
PublishCalls(m, n, r, i) ==
  LET first == i = header + n
      data == IF first THEN n - VarHeader(m) ELSE n
      called == data > 0 \/ r = 0 IN
  [total |-> IF first THEN r + data ELSE calls.total,
   data |-> calls.data + data,
   pieces |-> IF called THEN calls.pieces + 1 ELSE calls.pieces,
   last |-> IF r = 0 THEN calls.last + 1 ELSE calls.last,
   answers |-> IF r = 0 /\ m.qos > 0 THEN calls.answers + 1 ELSE calls.answers]

Shorter(a, b) == IF a < b THEN a ELSE b

\* Fault: the room in the buffer is what the message has not used yet.
CopyLenLeft ==
  Shorter(Shorter(TotLen - inOffset, remLen), IF msgIdx < BufLen THEN BufLen - msgIdx ELSE 0)
\* How much of the message is parsed at once: what is there, what belongs to the
\* message and fits, and, behind the first buffer full, what is in the first buffer
\* of the chain.  That difference is negative further on.
CopyLen ==
  LET fits == Shorter(Shorter(TotLen - inOffset, remLen), BufLen - header) IN
  IF msgIdx >= BufLen THEN Shorter(fits, Head(chain) - inOffset) ELSE fits

\* A part of the message behind the fixed header.
ParseRest ==
  /\ inOffset < TotLen /\ status = "ok"
  /\ header >= 2 /\ ~more
  /\ LET n == CopyLen
         r == remLen - n
         i == msgIdx + n
         made == IF Current.kind = "PUBLISH" THEN PublishCalls(Current, n, r, i) ELSE calls
     IN
     IF n < 0
       \* the length wraps in 16 bits and does not fit in the buffer
       THEN status' = "mismatch" /\ UNCHANGED <<stream, eaten, inOffset, header, msgIdx,
                                                remLen, calls, finished>>
       ELSE /\ inOffset' = inOffset + n /\ remLen' = r
            /\ IF Rejects(Current, n, r, i)
                 THEN /\ status' = "short" /\ eaten' = eaten + n /\ msgIdx' = i
                      /\ UNCHANGED <<stream, header, calls, finished>>
                 ELSE /\ UNCHANGED status
                      /\ IF r = 0
                           THEN NextMessage(made)
                           ELSE /\ eaten' = eaten + n /\ msgIdx' = i /\ calls' = made
                                /\ UNCHANGED <<stream, header, finished>>
  /\ UNCHANGED <<chain, more>>

\* The chain is parsed, or the connection was closed: it is freed.
Free ==
  /\ ~Idle
  /\ inOffset = TotLen \/ status # "ok"
  /\ chain' = <<>> /\ inOffset' = 0
  /\ UNCHANGED <<stream, eaten, header, more, msgIdx, remLen, calls, finished, status>>

Chains == BoundedSeq(1 .. MaxLength, MaxBuffers) \ {<<>>}

Next == (\E c \in Chains : Receive(c)) \/ ParseFixedHeader \/ ParseRest \/ Free

Spec == Init /\ [][Next]_vars

\* The TCP/IP thread goes on with what it began.
FairSpec == Spec /\ WF_vars(ParseFixedHeader \/ ParseRest \/ Free)

-----------------------------------------------------------------------------
(* Properties *)

\* Whatever the places at which the stream is cut, the parser knows at every turn of
\* its loop how much of the current message it has, and how much is to come.
InStep ==
  (status = "ok" /\ stream # <<>>) =>
    /\ msgIdx = eaten
    /\ (header >= 2 /\ ~more /\ ~Idle) => remLen = Total(Current) - eaten

\* A PUBLISH parsed to its end was announced with the length of its payload; the
\* pieces add up to that length, the last one and no other is marked, and a message
\* with quality of service 1 was answered once.
Delivered ==
  finished # <<>> /\ finished[1].kind = "PUBLISH" =>
    LET m == finished[1] made == finished[2] IN
    /\ made.total = m.payload /\ made.data = m.payload
    /\ made.last = 1 /\ made.answers = m.qos

\* The variable header of the current message came in one part: it is whole, or not
\* begun.
Torn == eaten > FixedHeader(Current) /\ eaten < FixedHeader(Current) + VarHeader(Current)

\* A connection is only closed for a message whose variable header was cut, or does
\* not fit in the buffer with a byte to spare.
ClosedForCause ==
  status = "short" =>
    Torn \/ FixedHeader(Current) + VarHeader(Current) + 1 - Current.qos > BufLen

\* The one place where the loop of mqtt_parse_incoming turns without end: a message that
\* has filled the buffer of the client goes on right behind the first buffer of a chain,
\* and the part to copy has length 0.
Endless ==
  /\ ~Idle /\ status = "ok" /\ header >= 2 /\ ~more
  /\ msgIdx >= BufLen /\ inOffset = Head(chain) /\ inOffset < TotLen

\* mqtt_parse_incoming comes to its end, wherever the stream is cut and whatever chains
\* it comes in, but for that place.
Parsed == ~Idle ~> Idle \/ Endless

-----------------------------------------------------------------------------
(* What comments say, and TLC refutes ("Disagreements met"):                  *)

\* A message is parsed when it is complete or the buffer is full: no well-formed
\* message that fits is taken for a short one.
CompleteOrFull ==
  status = "short" => FixedHeader(Current) + VarHeader(Current) + 1 > BufLen

\* The data callback is not invoked for a message without payload.
NoDataNoCall ==
  finished # <<>> /\ finished[1].kind = "PUBLISH" /\ finished[1].payload = 0 =>
    finished[2].pieces = 0

\* A chain of buffers is received data like any other: the parser ends, always.
ChainParsed == ~Idle ~> Idle
=============================================================================
