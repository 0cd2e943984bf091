------------------------------- MODULE MCMqttApp -------------------------------
(***************************************************************************)
(* lwIP's MQTT application for TLC.  Its modules share no state: part says *)
(* which of them this behaviour is about, and the others stay where they   *)
(* start.                                                                  *)
(*   "link"      a connection, in every way it begins, is kept and ends    *)
(*   "ring"      the output ring, messages of several lengths              *)
(*   "requests"  the list of requests                                      *)
(*   "parser"    a stream of two messages, cut in every way                *)
(***************************************************************************)
EXTENDS MqttLink

CONSTANTS
  RingSize, RingLengths, SndBuf, Numbers,  \* those of MqttRing on its own
  ListRing, ListLengths, ListSndBuf, ListNumbers,  \* those of the ring under the list
  MaxRequests, Timeout, PacketIds,  \* those of MqttRequests
  BufLen, Base, Topics, Payloads, MaxBuffers, MaxLength, MaxMessages  \* of MqttParser

VARIABLES
  part,
  buf, put, get, room, accepted, written, full,
  pending, leaked, owed, up,
  stream, eaten, chain, inOffset, header, more, msgIdx, remLen, calls, finished, status

outVars == <<buf, put, get, room, accepted, written, full, pending, leaked, owed, up>>
inVars == <<stream, eaten, chain, inOffset, header, more, msgIdx, remLen, calls,
            finished, status>>
allVars == <<vars, outVars, inVars, part>>

Ring == INSTANCE MqttRing WITH
  Size <- RingSize, Lengths <- RingLengths
Requests == INSTANCE MqttRequests WITH
  Size <- ListRing, Lengths <- ListLengths, SndBuf <- ListSndBuf, Numbers <- ListNumbers
Parser == INSTANCE MqttParser

ASSUME SuiteAssumption ==
  /\ Ring!RingAssumption
  /\ Requests!RingAssumption /\ Requests!RequestAssumption
  /\ Parser!ParserAssumption

SuiteInit ==
  /\ part \in {"link", "ring", "requests", "parser"}
  /\ Init
  /\ IF part = "ring"
       THEN Ring!RingInit /\ pending = <<>> /\ leaked = 0 /\ owed = {} /\ up = TRUE
       ELSE Requests!Init
  /\ Parser!Init /\ (part # "parser" => stream = <<>>)

LinkPart == part = "link" /\ Next /\ UNCHANGED <<outVars, inVars, part>>
RingPart ==
  /\ part = "ring" /\ Ring!RingNext
  /\ UNCHANGED <<vars, pending, leaked, owed, up, inVars, part>>
RequestPart == part = "requests" /\ Requests!Next /\ UNCHANGED <<vars, inVars, part>>
ParserPart == part = "parser" /\ Parser!Next /\ UNCHANGED <<vars, outVars, part>>

SuiteNext == LinkPart \/ RingPart \/ RequestPart \/ ParserPart

\* The fairness of each module for its part.
SuiteSpec ==
  /\ SuiteInit /\ [][SuiteNext]_allVars
  /\ WF_vars(part = "link" /\ Second)
  /\ WF_vars(part = "link" /\ CyclicTimer)
  /\ WF_vars(part = "link" /\ TcpSent)
  /\ WF_vars(part = "link" /\ state = "TCP_CONNECTING" /\ (TcpConnected \/ TcpError))
  /\ WF_vars(part = "link" /\ GivesUp)
  /\ WF_outVars(part = "requests" /\ Requests!Tick)
  /\ WF_inVars(part = "parser" /\ (Parser!ParseFixedHeader \/ Parser!ParseRest \/ Parser!Free))

-----------------------------------------------------------------------------
(* Properties of the parts, under the names of this run.                      *)

\* The output ring: bytes go to TCP as they were accepted, as long as no message fills
\* the ring to the last byte.
RingSafe == part = "ring" => Ring!RingTypeOK /\ Ring!StreamIntact

\* The requests: relative timeouts add up to absolute deadlines.
RequestsSafe == part = "requests" => Requests!RequestTypeOK /\ Requests!DeadlinesKept

\* A request that nobody answers ends.
RequestsEnd == part = "requests" => Requests!RequestsEnd

\* The parser: it knows how much of a message it has, the application gets messages
\* whole, and connections are closed for a cause.
ParserSafe ==
  part = "parser" =>
    Parser!TypeOK /\ Parser!InStep /\ Parser!Delivered /\ Parser!ClosedForCause

\* The parser ends, wherever the stream is cut and whatever chains of buffers it comes in,
\* but for a long message that goes on right behind the first buffer of a chain.
Parsed == part = "parser" => Parser!Parsed
=============================================================================
