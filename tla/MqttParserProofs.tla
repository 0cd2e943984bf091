---------------------------- MODULE MqttParserProofs ----------------------------
(***************************************************************************)
(* Proofs about the parser of lwIP's MQTT client, for every stream of      *)
(* messages of any lengths, every length of its buffer and every cut of    *)
(* the stream into chains of buffers.                                      *)
(***************************************************************************)
EXTENDS MqttAppProofs

-----------------------------------------------------------------------------
(* The parser                                                                *)

\* The sums of the first elements of a list.
Sums(f, c) == f = [n \in 0 .. Len(c) |-> IF n = 0 THEN 0 ELSE f[n - 1] + c[n]]

LEMMA SumsExist ==
  ASSUME NEW c \in Seq(Nat)
  PROVE  \E f : Sums(f, c)
<1> DEFINE Upto(f, m) == f = [n \in 0 .. m |-> IF n = 0 THEN 0 ELSE f[n - 1] + c[n]]
           E == {m \in Nat : \E f : Upto(f, m)}
<1>1. 0 \in E
  <2>1. Upto([n \in 0 .. 0 |-> 0], 0)
    OBVIOUS
  <2>2. QED
    BY <2>1
<1>2. ASSUME NEW m \in Nat, m \in E PROVE m + 1 \in E
  <2>1. PICK f : Upto(f, m)
    BY <1>2
  <2> DEFINE g == [n \in 0 .. m + 1 |-> IF n = m + 1 THEN f[m] + c[m + 1] ELSE f[n]]
  <2>2. ASSUME NEW n \in 0 .. m + 1 PROVE g[n] = IF n = 0 THEN 0 ELSE g[n - 1] + c[n]
    <3>1. \A i \in 0 .. m : g[i] = f[i] /\ f[i] = IF i = 0 THEN 0 ELSE f[i - 1] + c[i]
      BY <2>1
    <3>2. g[m + 1] = f[m] + c[m + 1]
      OBVIOUS
    <3>3. CASE n = m + 1
      BY <3>1, <3>2, <3>3
    <3>4. CASE n # m + 1
      <4>1. n \in 0 .. m /\ (n # 0 => n - 1 \in 0 .. m)
        BY <3>4
      <4>2. QED
        BY <3>1, <4>1
    <3>5. QED
      BY <3>3, <3>4
  <2>3. g = [n \in 0 .. m + 1 |-> g[n]]
    OBVIOUS
  <2> HIDE DEF g
  <2>4. Upto(g, m + 1)
    BY <2>2, <2>3
  <2> HIDE DEF Upto
  <2>5. QED
    BY <2>4
<1>3. Len(c) \in E
  <2> HIDE DEF E
  <2>1. QED
    BY <1>1, <1>2, EveryNumber
<1>4. QED
  BY <1>3 DEF Sums

\* What the model adds up.
LEMMA SumFound ==
  ASSUME NEW c \in Seq(Nat)
  PROVE  \E f : Sums(f, c) /\ Parser!SumOf(c) = f[Len(c)]
             /\ \A n \in 0 .. Len(c) : f[n] \in Nat
<1> DEFINE f == CHOOSE f : Sums(f, c)
<1>1. Sums(f, c)
  BY SumsExist
<1>2. Parser!SumOf(c) = f[Len(c)]
  BY Zenon DEF Parser!SumOf, Sums
<1> HIDE DEF f
<1> DEFINE S == {n \in Nat : n <= Len(c) => f[n] \in Nat}
<1>3. 0 \in S
  BY <1>1 DEF Sums
<1>4. ASSUME NEW n \in Nat, n \in S PROVE n + 1 \in S
  <2>1. n + 1 <= Len(c) => f[n + 1] = f[n] + c[n + 1]
    BY <1>1 DEF Sums
  <2>2. QED
    BY <1>4, <2>1
<1> HIDE DEF S
<1>5. \A n \in Nat : n \in S
  BY <1>3, <1>4, EveryNumber
<1>6. QED
  BY <1>1, <1>2, <1>5 DEF S

LEMMA SumEmpty == Parser!SumOf(<<>>) = 0
<1>1. <<>> \in Seq(Nat) /\ Len(<<>>) = 0
  OBVIOUS
<1>2. PICK f : Sums(f, <<>>) /\ Parser!SumOf(<<>>) = f[Len(<<>>)]
  BY <1>1, SumFound
<1>3. QED
  BY <1>1, <1>2 DEF Sums

\* The sum of a list is that of its first element and of the others.
LEMMA SumTail ==
  ASSUME NEW c \in Seq(Nat), c # <<>>
  PROVE  /\ Parser!SumOf(c) = c[1] + Parser!SumOf(Tail(c))
         /\ c[1] \in Nat /\ Parser!SumOf(Tail(c)) \in Nat
<1> DEFINE d == Tail(c)
<1>1. d \in Seq(Nat) /\ Len(d) = Len(c) - 1 /\ \A n \in 1 .. Len(d) : d[n] = c[n + 1]
  OBVIOUS
<1>2. Len(c) \in Nat /\ Len(c) > 0 /\ c[1] \in Nat
  OBVIOUS
<1> HIDE DEF d
<1>3. PICK f : Sums(f, c) /\ Parser!SumOf(c) = f[Len(c)] /\ \A n \in 0 .. Len(c) : f[n] \in Nat
  BY SumFound
<1>4. PICK g : Sums(g, d) /\ Parser!SumOf(d) = g[Len(d)] /\ \A n \in 0 .. Len(d) : g[n] \in Nat
  BY <1>1, SumFound
<1>5. /\ Len(d) \in Nat
      /\ \A n \in 1 .. Len(c) : f[n] = f[n - 1] + c[n]
      /\ \A n \in 1 .. Len(d) : g[n] = g[n - 1] + d[n] /\ d[n] \in Nat
  <2>1. \A n \in 1 .. Len(c) : n \in 0 .. Len(c) /\ n # 0
    OBVIOUS
  <2>2. \A n \in 1 .. Len(d) : n \in 0 .. Len(d) /\ n # 0 /\ d[n] \in Nat
    BY <1>1
  <2>3. \A n \in 1 .. Len(c) : f[n] = f[n - 1] + c[n]
    BY <1>3, <2>1 DEF Sums
  <2>4. \A n \in 1 .. Len(d) : g[n] = g[n - 1] + d[n]
    BY <1>4, <2>2 DEF Sums
  <2>5. QED
    BY <1>1, <2>2, <2>3, <2>4
<1> DEFINE S == {n \in Nat : n <= Len(d) => f[n + 1] = c[1] + g[n]}
<1>6. 0 \in S
  <2>1. f[0] = 0 /\ f[1] = f[0] + c[1] /\ g[0] = 0
    BY <1>1, <1>2, <1>3, <1>4 DEF Sums
  <2>2. QED
    BY <1>2, <2>1
<1>7. ASSUME NEW n \in Nat, n \in S PROVE n + 1 \in S
  <2> SUFFICES ASSUME n + 1 <= Len(d) PROVE f[n + 1 + 1] = c[1] + g[n + 1]
    OBVIOUS
  <2>1. f[n + 1] = c[1] + g[n] /\ g[n] \in Nat
    BY <1>1, <1>4, <1>7
  <2>2. f[n + 1 + 1] = f[n + 1] + c[n + 1 + 1]
    <3>1. n + 1 + 1 \in 1 .. Len(c) /\ (n + 1 + 1) - 1 = n + 1
      BY <1>1, <1>2
    <3>2. QED
      BY <1>5, <3>1
  <2>3. g[n + 1] = g[n] + d[n + 1] /\ d[n + 1] = c[n + 1 + 1] /\ d[n + 1] \in Nat
    <3>1. n + 1 \in 1 .. Len(d) /\ (n + 1) - 1 = n
      BY <1>5
    <3>2. QED
      BY <1>1, <1>5, <3>1
  <2>4. QED
    BY <1>2, <2>1, <2>2, <2>3
<1> HIDE DEF S
<1>8. Len(d) \in S
  BY <1>5, <1>6, <1>7, EveryNumber
<1>9. f[Len(d) + 1] = c[1] + g[Len(d)] /\ g[Len(d)] \in Nat
  BY <1>1, <1>4, <1>8 DEF S
<1>10. Parser!SumOf(c) = c[1] + Parser!SumOf(d)
  BY <1>1, <1>2, <1>3, <1>4, <1>9
<1>11. QED
  BY <1>2, <1>4, <1>9, <1>10 DEF d

\* The assumptions on the constants.
LEMMA ParserFacts ==
  /\ BufLen \in Nat \ {0} /\ Base \in Nat \ {0} /\ MaxBuffers \in Nat /\ MaxLength \in Nat
  /\ Topics \subseteq Nat /\ Payloads \subseteq Nat
BY SuiteAssumption DEF SuiteAssumption, Parser!ParserAssumption

Messages == Parser!Publishes \cup Parser!Others

\* The lengths of the parts of a message.
LEMMA MessageLengths ==
  ASSUME NEW m \in Messages
  PROVE  /\ Parser!VarHeader(m) \in Nat /\ Parser!FixedHeader(m) \in {2, 3}
         /\ Parser!Remaining(m) = Parser!VarHeader(m) + m.payload /\ m.payload \in Nat
         /\ Parser!Total(m) = Parser!FixedHeader(m) + Parser!Remaining(m)
         /\ m.qos \in {0, 1} /\ m.topic \in Nat
         /\ m.kind \in {"PUBLISH", "PUBACK", "SUBACK", "PINGRESP"}
         /\ m.kind = "PUBLISH" => Parser!VarHeader(m) = 2 + m.topic + Parser!QosLen(m)
         /\ m.kind = "PUBACK" => Parser!VarHeader(m) = 2
         /\ m.kind = "SUBACK" => Parser!VarHeader(m) = 3
         /\ m.kind = "PINGRESP" => Parser!VarHeader(m) = 0
         /\ m.kind # "PUBLISH" => m.payload = 0 /\ m.qos = 0
         /\ Parser!QosLen(m) = IF m.qos > 0 THEN 2 ELSE 0
         /\ Parser!Remaining(m) = 0 => Parser!FixedHeader(m) = 2 /\ m.kind = "PINGRESP"
<1>1. /\ m.kind \in {"PUBLISH", "PUBACK", "SUBACK", "PINGRESP"}
      /\ m.qos \in {0, 1} /\ m.topic \in Nat /\ m.payload \in Nat
      /\ m.kind # "PUBLISH" => m.payload = 0 /\ m.qos = 0
  <2>1. CASE m \in Parser!Publishes
    BY <2>1, ParserFacts DEF Parser!Publishes
  <2>2. CASE m \in Parser!Others
    BY <2>2 DEF Parser!Others
  <2>3. QED
    BY <2>1, <2>2 DEF Messages
<1>2. Parser!QosLen(m) = IF m.qos > 0 THEN 2 ELSE 0
  BY DEF Parser!QosLen
<1>3. /\ m.kind = "PUBLISH" => Parser!VarHeader(m) = 2 + m.topic + Parser!QosLen(m)
      /\ m.kind = "PUBACK" => Parser!VarHeader(m) = 2
      /\ m.kind = "SUBACK" => Parser!VarHeader(m) = 3
      /\ m.kind = "PINGRESP" => Parser!VarHeader(m) = 0
  BY DEF Parser!VarHeader
<1>4. Parser!VarHeader(m) \in Nat
  BY <1>1, <1>2, <1>3
<1>5. Parser!Remaining(m) = Parser!VarHeader(m) + m.payload
  BY DEF Parser!Remaining
<1>6. Parser!FixedHeader(m) = IF Parser!Remaining(m) < Base THEN 2 ELSE 3
  BY DEF Parser!FixedHeader
<1>7. Parser!Total(m) = Parser!FixedHeader(m) + Parser!Remaining(m)
  BY DEF Parser!Total
<1>8. Parser!Remaining(m) = 0 => Parser!FixedHeader(m) = 2 /\ m.kind = "PINGRESP"
  <2>1. Parser!Remaining(m) = 0 => Parser!VarHeader(m) = 0
    BY <1>1, <1>4, <1>5
  <2>2. Parser!VarHeader(m) = 0 => m.kind = "PINGRESP"
    BY <1>1, <1>2, <1>3
  <2>3. QED
    BY <1>6, <2>1, <2>2, ParserFacts
<1>9. Parser!FixedHeader(m) \in {2, 3}
  BY <1>6
<1>10. QED
  BY <1>1, <1>2, <1>3, <1>4, <1>5, <1>7, <1>8, <1>9

LEMMA TotalNat ==
  ASSUME NEW m \in Messages
  PROVE  Parser!Total(m) \in Nat
<1>1. /\ Parser!VarHeader(m) \in Nat /\ Parser!FixedHeader(m) \in {2, 3} /\ m.payload \in Nat
      /\ Parser!Remaining(m) = Parser!VarHeader(m) + m.payload
      /\ Parser!Total(m) = Parser!FixedHeader(m) + Parser!Remaining(m)
  BY MessageLengths
<1>2. QED
  BY <1>1

\* The bytes of the messages of a stream.
Bytes(s) == Parser!SumOf([i \in 1 .. Len(s) |-> Parser!Total(s[i])])

LEMMA BytesNat ==
  ASSUME NEW s \in Seq(Messages)
  PROVE  Bytes(s) \in Nat /\ (s = <<>> => Bytes(s) = 0)
<1> DEFINE c == [i \in 1 .. Len(s) |-> Parser!Total(s[i])]
<1>1. \A i \in 1 .. Len(s) : Parser!Total(s[i]) \in Nat
  <2>1. \A i \in 1 .. Len(s) : s[i] \in Messages
    OBVIOUS
  <2>2. QED
    BY <2>1, TotalNat
<1>2. c \in Seq(Nat)
  BY <1>1
<1>3. s = <<>> => c = <<>>
  OBVIOUS
<1> HIDE DEF c
<1>4. Parser!SumOf(c) \in Nat
  <2>1. PICK f : Parser!SumOf(c) = f[Len(c)] /\ \A n \in 0 .. Len(c) : f[n] \in Nat
    BY <1>2, SumFound
  <2>2. QED
    BY <1>2, <2>1
<1>5. QED
  BY <1>3, <1>4, SumEmpty, Zenon DEF Bytes, c

LEMMA BytesTail ==
  ASSUME NEW s \in Seq(Messages), s # <<>>
  PROVE  Bytes(s) = Parser!Total(Head(s)) + Bytes(Tail(s))
<1> DEFINE c == [i \in 1 .. Len(s) |-> Parser!Total(s[i])]
           d == [i \in 1 .. Len(Tail(s)) |-> Parser!Total(Tail(s)[i])]
<1>1. \A i \in 1 .. Len(s) : Parser!Total(s[i]) \in Nat
  <2>1. \A i \in 1 .. Len(s) : s[i] \in Messages
    OBVIOUS
  <2>2. QED
    BY <2>1, TotalNat
<1>2. c \in Seq(Nat) /\ Len(c) = Len(s) /\ c # <<>> /\ c[1] = Parser!Total(Head(s))
  BY <1>1
<1>3. Tail(c) = d
  <2>1. Len(Tail(s)) = Len(s) - 1 /\ \A i \in 1 .. Len(s) - 1 : Tail(s)[i] = s[i + 1]
    OBVIOUS
  <2>2. Tail(c) = [i \in 1 .. Len(s) - 1 |-> c[i + 1]]
    BY <1>2
  <2>3. \A i \in 1 .. Len(s) - 1 : c[i + 1] = Parser!Total(s[i + 1])
    OBVIOUS
  <2>4. QED
    BY <2>1, <2>2, <2>3
<1> HIDE DEF c, d
<1>4. Parser!SumOf(c) = c[1] + Parser!SumOf(d)
  BY <1>2, <1>3, SumTail
<1>5. QED
  BY <1>2, <1>4 DEF Bytes, c, d

-----------------------------------------------------------------------------
(* The invariant of the parser                                               *)

ParserTypes ==
  /\ stream \in Seq(Messages)
  /\ eaten \in Nat /\ (stream # <<>> => eaten <= Parser!Total(Head(stream)))
  /\ chain \in Seq(1 .. MaxLength) /\ Len(chain) <= MaxBuffers
  /\ inOffset \in 0 .. Parser!TotLen /\ Parser!TotLen \in Nat
  /\ header \in 0 .. 3 /\ more \in BOOLEAN
  /\ msgIdx \in Nat /\ remLen \in Nat
  /\ status \in {"ok", "short", "mismatch"}

\* The buffers hold no more than what is to come of the stream.
Supplied ==
  status = "ok" =>
    /\ msgIdx = eaten /\ eaten <= Bytes(stream)
    /\ Parser!TotLen - inOffset <= Bytes(stream) - eaten
    /\ stream # <<>> => eaten < Parser!Total(Head(stream))

\* While the fixed header is read, again or for the first time, the turns are behind the
\* bytes; then the header is known and with it the rest.
HeaderRead ==
  status = "ok" /\ chain # <<>> /\ stream # <<>> =>
    /\ header <= eaten
    /\ IF header < 2 \/ more THEN header < Parser!FixedHeader(Head(stream))
       ELSE /\ header = Parser!FixedHeader(Head(stream))
            /\ remLen = Parser!Total(Head(stream)) - eaten

\* What the application got of a message of which e bytes came in, and what it gets of
\* a whole one.
Announced(m, c, e) ==
  IF e <= Parser!FixedHeader(m) THEN c.data = 0 /\ c.last = 0 /\ c.answers = 0
  ELSE /\ m.kind = "PUBLISH" /\ c.total = m.payload /\ c.last = 0 /\ c.answers = 0
       /\ c.data = e - Parser!FixedHeader(m) - Parser!VarHeader(m)
GotAll(m, c) ==
  m.kind = "PUBLISH" =>
    c.total = m.payload /\ c.data = m.payload /\ c.last = 1 /\ c.answers = m.qos

CallsMade ==
  status = "ok" /\ stream # <<>> => Announced(Head(stream), calls, eaten)

ParserInv ==
  /\ ParserTypes /\ Supplied /\ HeaderRead /\ CallsMade
  /\ Parser!Delivered /\ Parser!ClosedForCause

LEMMA ParserFollows ==
  ASSUME ParserInv
  PROVE  Parser!TypeOK /\ Parser!InStep /\ Parser!Delivered /\ Parser!ClosedForCause
<1>1. Parser!TypeOK
  <2>1. \A i \in DOMAIN stream : stream[i] \in Messages
    BY DEF ParserInv, ParserTypes
  <2>2. QED
    BY <2>1, Zenon DEF ParserInv, ParserTypes, Parser!TypeOK, Parser!Current, Messages
<1>2. Parser!InStep
  <2>1. header >= 2 => ~ (header < 2)
    BY DEF ParserInv, ParserTypes
  <2>2. QED
    BY <2>1, Zenon DEF ParserInv, Supplied, HeaderRead, Parser!InStep, Parser!Idle,
       Parser!Current
<1>3. QED
  BY <1>1, <1>2 DEF ParserInv

\* The parser in the middle of a message, at a byte that is there.
Parsing == ParserInv /\ status = "ok" /\ inOffset < Parser!TotLen

LEMMA ParsingFacts ==
  ASSUME Parsing
  PROVE  /\ stream \in Seq(Messages) /\ stream # <<>> /\ Head(stream) \in Messages
         /\ chain \in Seq(1 .. MaxLength) /\ chain # <<>> /\ Len(chain) <= MaxBuffers
         /\ inOffset \in Nat /\ Parser!TotLen \in Nat /\ inOffset < Parser!TotLen
         /\ header \in 0 .. 3 /\ more \in BOOLEAN /\ remLen \in Nat /\ eaten \in Nat
         /\ msgIdx = eaten /\ Bytes(stream) \in Nat
         /\ eaten < Parser!Total(Head(stream))
         /\ Parser!TotLen - inOffset <= Bytes(stream) - eaten
         /\ header <= eaten
         /\ IF header < 2 \/ more THEN header < Parser!FixedHeader(Head(stream))
            ELSE /\ header = Parser!FixedHeader(Head(stream))
                 /\ remLen = Parser!Total(Head(stream)) - eaten
         /\ Announced(Head(stream), calls, eaten)
<1>1. /\ stream \in Seq(Messages) /\ chain \in Seq(1 .. MaxLength) /\ Len(chain) <= MaxBuffers
      /\ inOffset \in 0 .. Parser!TotLen /\ Parser!TotLen \in Nat /\ inOffset < Parser!TotLen
      /\ header \in 0 .. 3 /\ remLen \in Nat /\ eaten \in Nat
  BY DEF Parsing, ParserInv, ParserTypes
<1>2. more \in BOOLEAN
  BY Zenon DEF Parsing, ParserInv, ParserTypes
<1>3. Bytes(stream) \in Nat /\ (stream = <<>> => Bytes(stream) = 0)
  BY <1>1, BytesNat
<1>4. /\ msgIdx = eaten /\ Parser!TotLen - inOffset <= Bytes(stream) - eaten
      /\ stream # <<>> => eaten < Parser!Total(Head(stream))
  BY DEF Parsing, ParserInv, Supplied
<1>5. stream # <<>>
  BY <1>1, <1>3, <1>4
<1>6. chain # <<>>
  <2>1. chain = <<>> => Parser!TotLen = 0
    BY SumEmpty DEF Parser!TotLen
  <2>2. QED
    BY <1>1, <2>1
<1>7. Head(stream) \in Messages
  BY <1>1, <1>5
<1>8. HeaderRead /\ CallsMade /\ status = "ok"
  BY DEF Parsing, ParserInv
<1>9. /\ header <= eaten /\ Announced(Head(stream), calls, eaten)
      /\ IF header < 2 \/ more THEN header < Parser!FixedHeader(Head(stream))
         ELSE /\ header = Parser!FixedHeader(Head(stream))
              /\ remLen = Parser!Total(Head(stream)) - eaten
  BY <1>5, <1>6, <1>8, Zenon DEF HeaderRead, CallsMade
<1>10. QED
  BY <1>1, <1>2, <1>3, <1>4, <1>5, <1>6, <1>7, <1>9

\* A message is complete.
LEMMA NextMessageKept ==
  ASSUME Parsing, NEW made, Parser!NextMessage(made), GotAll(Head(stream), made),
         inOffset' = inOffset + (Parser!Total(Head(stream)) - eaten),
         inOffset' <= Parser!TotLen, remLen' \in Nat, more' \in BOOLEAN,
         UNCHANGED <<chain, status>>
  PROVE  ParserInv'
<1> DEFINE m == Head(stream)
           T == Parser!Total(m)
<1>1. /\ stream \in Seq(Messages) /\ stream # <<>> /\ m \in Messages
      /\ chain \in Seq(1 .. MaxLength) /\ Len(chain) <= MaxBuffers
      /\ inOffset \in Nat /\ Parser!TotLen \in Nat /\ eaten \in Nat
      /\ eaten < T /\ Parser!TotLen - inOffset <= Bytes(stream) - eaten
  BY ParsingFacts
<1>2. /\ finished' = <<m, made>> /\ stream' = Tail(stream) /\ eaten' = 0
      /\ calls' = Parser!NoCalls /\ msgIdx' = 0 /\ header' = 0
  BY DEF Parser!NextMessage, Parser!Current
<1>3. chain' = chain /\ status' = status /\ status = "ok" /\ Parser!TotLen' = Parser!TotLen
  BY DEF Parser!TotLen, Parsing
<1>4. stream' \in Seq(Messages) /\ Bytes(stream) = T + Bytes(stream')
  BY <1>1, <1>2, BytesTail
<1>5. Bytes(stream') \in Nat /\ T \in Nat
  BY <1>1, <1>4, BytesNat, TotalNat
<1>6. ASSUME stream' # <<>>
      PROVE  /\ Head(stream') \in Messages /\ Parser!Total(Head(stream')) \in Nat
             /\ Parser!FixedHeader(Head(stream')) \in {2, 3} /\ Parser!Total(Head(stream')) > 0
  <2>1. Head(stream') \in Messages
    BY <1>4, <1>6
  <2>2. /\ Parser!VarHeader(Head(stream')) \in Nat /\ Parser!FixedHeader(Head(stream')) \in {2, 3}
        /\ Head(stream').payload \in Nat
        /\ Parser!Remaining(Head(stream')) = Parser!VarHeader(Head(stream')) + Head(stream').payload
        /\ Parser!Total(Head(stream'))
             = Parser!FixedHeader(Head(stream')) + Parser!Remaining(Head(stream'))
    BY <2>1, MessageLengths
  <2>3. QED
    BY <2>1, <2>2
<1>7. ParserTypes'
  <2>1. inOffset' \in 0 .. Parser!TotLen
    BY <1>1, <1>5
  <2>2. stream' # <<>> => eaten' <= Parser!Total(Head(stream'))
    BY <1>2, <1>6
  <2>3. /\ eaten' \in Nat /\ header' \in 0 .. 3 /\ msgIdx' \in Nat
    BY <1>2
  <2>4. status' \in {"ok", "short", "mismatch"}
    BY <1>3
  <2>5. QED
    BY <1>1, <1>3, <1>4, <2>1, <2>2, <2>3, <2>4 DEF ParserTypes
<1>8. Supplied'
  <2>1. /\ msgIdx' = eaten' /\ eaten' <= Bytes(stream')
        /\ Parser!TotLen - inOffset' <= Bytes(stream') - eaten'
    BY <1>1, <1>2, <1>4, <1>5
  <2>2. stream' # <<>> => eaten' < Parser!Total(Head(stream'))
    BY <1>2, <1>6
  <2>3. Bytes(stream)' = Bytes(stream')
    BY DEF Bytes
  <2>4. QED
    BY <1>3, <2>1, <2>2, <2>3 DEF Supplied
<1>9. HeaderRead'
  BY <1>2, <1>6 DEF HeaderRead
<1>10. CallsMade'
  <2>1. calls'.data = 0 /\ calls'.last = 0 /\ calls'.answers = 0
    BY <1>2 DEF Parser!NoCalls
  <2>2. stream' # <<>> => eaten' <= Parser!FixedHeader(Head(stream'))
    BY <1>2, <1>6
  <2>3. QED
    BY <2>1, <2>2 DEF CallsMade, Announced
<1>11. Parser!Delivered'
  <2>1. finished'[1] = m /\ finished'[2] = made
    BY <1>2
  <2>2. QED
    BY <2>1 DEF Parser!Delivered, GotAll
<1>12. Parser!ClosedForCause'
  BY <1>3 DEF Parser!ClosedForCause
<1>13. QED
  BY <1>7, <1>8, <1>9, <1>10, <1>11, <1>12 DEF ParserInv

\* More of the same message.
LEMMA SameMessageKept ==
  ASSUME Parsing, NEW n \in Nat, eaten + n < Parser!Total(Head(stream)),
         inOffset' = inOffset + n, inOffset' <= Parser!TotLen, eaten' = eaten + n,
         msgIdx' = eaten + n, header' \in 0 .. 3, more' \in BOOLEAN, remLen' \in Nat,
         header' <= eaten + n,
         IF header' < 2 \/ more' THEN header' < Parser!FixedHeader(Head(stream))
         ELSE /\ header' = Parser!FixedHeader(Head(stream))
              /\ remLen' = Parser!Total(Head(stream)) - eaten',
         Announced(Head(stream), calls', eaten'),
         UNCHANGED <<stream, chain, status, finished>>
  PROVE  ParserInv'
<1>1. /\ stream \in Seq(Messages) /\ stream # <<>> /\ Head(stream) \in Messages
      /\ chain \in Seq(1 .. MaxLength) /\ Len(chain) <= MaxBuffers
      /\ inOffset \in Nat /\ Parser!TotLen \in Nat /\ eaten \in Nat
      /\ Parser!TotLen - inOffset <= Bytes(stream) - eaten /\ Bytes(stream) \in Nat
  BY ParsingFacts
<1>2. /\ stream' = stream /\ chain' = chain /\ status' = status /\ finished' = finished
      /\ status = "ok" /\ Parser!TotLen' = Parser!TotLen /\ Bytes(stream)' = Bytes(stream)
  BY DEF Parser!TotLen, Bytes, Parsing
<1>3. Parser!Total(Head(stream)) \in Nat
  BY <1>1, TotalNat
<1>4. ParserTypes'
  <2>1. /\ inOffset' \in 0 .. Parser!TotLen /\ eaten' \in Nat /\ msgIdx' \in Nat
        /\ eaten' <= Parser!Total(Head(stream))
    BY <1>1, <1>3
  <2>2. status' \in {"ok", "short", "mismatch"}
    BY <1>2
  <2>3. QED
    BY <1>1, <1>2, <2>1, <2>2 DEF ParserTypes
<1>5. Supplied'
  <2>1. /\ msgIdx' = eaten' /\ eaten' <= Bytes(stream)
        /\ Parser!TotLen - inOffset' <= Bytes(stream) - eaten'
        /\ eaten' < Parser!Total(Head(stream))
    BY <1>1, <1>3
  <2>2. QED
    BY <1>2, <2>1 DEF Supplied
<1>6. HeaderRead'
  <2>1. header' <= eaten'
    OBVIOUS
  <2>2. QED
    BY <1>2, <2>1, Zenon DEF HeaderRead
<1>7. CallsMade'
  BY <1>2, Zenon DEF CallsMade
<1>8. Parser!Delivered' /\ Parser!ClosedForCause'
  BY <1>2 DEF Parsing, ParserInv, Parser!Delivered, Parser!ClosedForCause
<1>9. QED
  BY <1>4, <1>5, <1>6, <1>7, <1>8 DEF ParserInv

\* A byte of the fixed header.
LEMMA FixedHeaderKept ==
  ASSUME ParserInv, Parser!ParseFixedHeader
  PROVE  ParserInv'
<1> DEFINE m == Head(stream)
           F == Parser!FixedHeader(m)
           T == Parser!Total(m)
           old == header < msgIdx
           idx == IF old THEN msgIdx ELSE msgIdx + 1
           done == header + 1 = F
<1>1. Parsing
  BY DEF Parser!ParseFixedHeader, Parsing
<1>2. /\ m \in Messages /\ inOffset \in Nat /\ Parser!TotLen \in Nat /\ inOffset < Parser!TotLen
      /\ header \in 0 .. 3 /\ remLen \in Nat /\ eaten \in Nat
      /\ msgIdx = eaten /\ eaten < T /\ header <= eaten
      /\ Announced(m, calls, eaten)
  BY <1>1, ParsingFacts
<1>3. header < F
  <2>1. header < 2 \/ more
    BY DEF Parser!ParseFixedHeader
  <2>2. QED
    BY <1>1, <2>1, ParsingFacts
<1>4. /\ Parser!VarHeader(m) \in Nat /\ F \in {2, 3} /\ m.payload \in Nat
      /\ Parser!Remaining(m) = Parser!VarHeader(m) + m.payload /\ T = F + Parser!Remaining(m)
      /\ Parser!Remaining(m) = 0 => F = 2 /\ m.kind = "PINGRESP"
  BY <1>2, MessageLengths
<1>5. /\ inOffset' = IF old THEN inOffset ELSE inOffset + 1
      /\ IF done /\ Parser!Remaining(m) = 0
           THEN Parser!NextMessage(calls) /\ remLen' = 0
           ELSE /\ header' = header + 1 /\ msgIdx' = idx
                /\ eaten' = (IF old THEN eaten ELSE eaten + 1)
                /\ remLen' = (IF done THEN Parser!RestOfMessage(idx) ELSE remLen)
                /\ UNCHANGED <<stream, calls, finished>>
      /\ chain' = chain /\ status' = status
  BY DEF Parser!ParseFixedHeader, Parser!Current
<1>6. more' = ~ done
  BY Zenon DEF Parser!ParseFixedHeader, Parser!Current
<1>7. more' \in BOOLEAN
  BY <1>6, Zenon
<1>8. CASE done /\ Parser!Remaining(m) = 0
  <2>1. F = 2 /\ T = 2 /\ header = 1 /\ eaten = 1 /\ ~ old
    BY <1>2, <1>4, <1>8
  <2>2. Parser!NextMessage(calls) /\ remLen' = 0 /\ inOffset' = inOffset + 1
    BY <1>5, <1>8, <2>1
  <2>3. inOffset' = inOffset + (T - eaten) /\ inOffset' <= Parser!TotLen /\ remLen' \in Nat
    BY <1>2, <2>1, <2>2
  <2>4. GotAll(m, calls)
    BY <1>4, <1>8 DEF GotAll
  <2>5. UNCHANGED <<chain, status>>
    BY <1>5
  <2> HIDE DEF m, T
  <2>6. QED
    BY <1>1, <1>7, <2>2, <2>3, <2>4, <2>5, NextMessageKept DEF m, T
<1>9. CASE ~ (done /\ Parser!Remaining(m) = 0)
  <2> DEFINE n == IF old THEN 0 ELSE 1
  <2>1. /\ header' = header + 1 /\ eaten' = eaten + n /\ msgIdx' = eaten + n
        /\ inOffset' = inOffset + n
        /\ remLen' = (IF done THEN Parser!RestOfMessage(idx) ELSE remLen)
        /\ stream' = stream /\ calls' = calls /\ finished' = finished
    BY <1>2, <1>5, <1>9
  <2>2. n \in Nat /\ inOffset' <= Parser!TotLen /\ header' \in 0 .. 3 /\ header' <= eaten + n
        /\ idx = eaten + n
    BY <1>2, <1>3, <1>4, <2>1
  <2>3. eaten + n < T
    <3>1. CASE old
      BY <1>2, <3>1
    <3>2. CASE ~ old
      <4>1. eaten = header
        BY <1>2, <3>2
      <4>2. header + 1 < F \/ Parser!Remaining(m) > 0
        BY <1>2, <1>3, <1>4, <1>9
      <4>3. QED
        BY <1>2, <1>3, <1>4, <3>2, <4>1, <4>2
    <3>3. QED
      BY <3>1, <3>2
  <2>4. remLen' \in Nat /\ (done => remLen' = T - eaten')
    <3>1. Parser!RestOfMessage(idx) = Parser!Remaining(m) + F - idx
      BY DEF Parser!RestOfMessage, Parser!Current
    <3>2. QED
      BY <1>2, <1>4, <2>1, <2>2, <2>3, <3>1
  <2>5. IF header' < 2 \/ more' THEN header' < F ELSE header' = F /\ remLen' = T - eaten'
    <3>1. CASE done
      <4>1. ~ (header' < 2) /\ header' = F
        BY <1>4, <2>1, <3>1
      <4>2. ~ more'
        BY <1>6, <3>1, Zenon
      <4>3. QED
        BY <2>4, <3>1, <4>1, <4>2, Zenon
    <3>2. CASE ~ done
      <4>1. header' < F
        BY <1>2, <1>3, <1>4, <2>1, <3>2
      <4>2. more'
        BY <1>6, <3>2, Zenon
      <4>3. QED
        BY <4>1, <4>2, Zenon
    <3>3. QED
      BY <3>1, <3>2
  <2>6. Announced(m, calls', eaten')
    <3>1. CASE old
      BY <1>2, <2>1, <3>1
    <3>2. CASE ~ old
      <4>1. eaten' <= F /\ eaten <= F
        BY <1>2, <1>3, <1>4, <2>1, <3>2
      <4>2. QED
        BY <1>2, <2>1, <4>1 DEF Announced
    <3>3. QED
      BY <3>1, <3>2
  <2>7. UNCHANGED <<stream, chain, status, finished>>
    BY <1>5, <2>1
  <2> HIDE DEF m, T, F, n, done
  <2>8. QED
    BY <1>1, <1>7, <2>1, <2>2, <2>3, <2>4, <2>5, <2>6, <2>7, SameMessageKept DEF m, T, F
<1>10. QED
  BY <1>8, <1>9

\* What PublishCalls adds to the calls made so far.
LEMMA CallsAdded ==
  ASSUME NEW m, NEW n, NEW r, NEW i
  PROVE  LET made == Parser!PublishCalls(m, n, r, i)
             data == IF i = header + n THEN n - Parser!VarHeader(m) ELSE n IN
         /\ made.total = IF i = header + n THEN r + data ELSE calls.total
         /\ made.data = calls.data + data
         /\ made.last = IF r = 0 THEN calls.last + 1 ELSE calls.last
         /\ made.answers = IF r = 0 /\ m.qos > 0 THEN calls.answers + 1 ELSE calls.answers
BY DEF Parser!PublishCalls

\* The part parsed at once belongs to the message and is there; it is empty only if the
\* buffer has no room behind the fixed header, or no room at all.
LEMMA CopyLenRange ==
  ASSUME Parsing, header = Parser!FixedHeader(Head(stream)), remLen > 0
  PROVE  /\ Parser!CopyLen \in Int /\ Parser!CopyLen <= remLen
         /\ Parser!CopyLen <= Parser!TotLen - inOffset
         /\ Parser!CopyLen = 0 => msgIdx >= BufLen \/ header >= BufLen
<1>1. /\ chain \in Seq(1 .. MaxLength) /\ chain # <<>> /\ inOffset \in Nat
      /\ Parser!TotLen \in Nat /\ inOffset < Parser!TotLen /\ header \in 0 .. 3
      /\ remLen \in Nat /\ msgIdx = eaten /\ eaten \in Nat /\ BufLen \in Nat /\ MaxLength \in Nat
  BY ParsingFacts, ParserFacts
<1>2. Head(chain) \in Nat
  BY <1>1
<1> DEFINE a == Parser!Shorter(Parser!TotLen - inOffset, remLen)
           fits == Parser!Shorter(a, BufLen - header)
<1>4. a \in Int /\ a <= remLen /\ a <= Parser!TotLen - inOffset /\ a > 0
  BY <1>1 DEF Parser!Shorter
<1> HIDE DEF a
<1>5. fits \in Int /\ fits <= a /\ fits \in {a, BufLen - header}
  BY <1>1, <1>4 DEF Parser!Shorter
<1> HIDE DEF fits
<1>6. Parser!CopyLen
        = IF msgIdx >= BufLen THEN Parser!Shorter(fits, Head(chain) - inOffset) ELSE fits
  BY DEF Parser!CopyLen, fits, a
<1>7. CASE msgIdx >= BufLen
  <2>1. Parser!CopyLen \in Int /\ Parser!CopyLen <= fits
    BY <1>1, <1>2, <1>5, <1>6, <1>7 DEF Parser!Shorter
  <2>2. QED
    BY <1>1, <1>4, <1>5, <1>7, <2>1
<1>8. CASE ~ (msgIdx >= BufLen)
  BY <1>1, <1>4, <1>5, <1>6, <1>8
<1>9. QED
  BY <1>7, <1>8

\* A part is only rejected when it is the first, for a variable header that was cut or
\* does not fit.
LEMMA RejectedForCause ==
  ASSUME Parsing, header = Parser!FixedHeader(Head(stream)), remLen > 0,
         Parser!CopyLen >= 0,
         Parser!Rejects(Head(stream), Parser!CopyLen, remLen - Parser!CopyLen,
                        msgIdx + Parser!CopyLen),
         stream' = stream, eaten' = eaten + Parser!CopyLen
  PROVE  Parser!ClosedForCause'
<1> DEFINE m == Head(stream)
           n == Parser!CopyLen
           F == Parser!FixedHeader(m)
           V == Parser!VarHeader(m)
<1>1. /\ m \in Messages /\ header = F /\ header <= eaten /\ msgIdx = eaten /\ eaten \in Nat
      /\ Announced(m, calls, eaten) /\ BufLen \in Nat /\ eaten < Parser!Total(m)
  BY ParsingFacts, ParserFacts
<1>2. n \in Nat /\ (n = 0 => eaten >= BufLen \/ F >= BufLen)
  BY <1>1, CopyLenRange
<1>3. /\ V \in Nat /\ F \in {2, 3} /\ m.qos \in {0, 1} /\ m.topic \in Nat
      /\ m.kind \in {"PUBLISH", "PUBACK", "SUBACK", "PINGRESP"}
      /\ m.kind = "PUBLISH" => V = 2 + m.topic + Parser!QosLen(m)
      /\ m.kind = "PUBACK" => V = 2
      /\ m.kind = "SUBACK" => V = 3
      /\ Parser!QosLen(m) = (IF m.qos > 0 THEN 2 ELSE 0)
  BY <1>1, MessageLengths
<1> DEFINE i == eaten + n
           r == remLen - n
<1>4. Parser!Rejects(m, n, r, i)
  BY <1>1
<1> HIDE DEF m, n, F, V
<1>5. /\ m.kind \in {"PUBLISH", "PUBACK", "SUBACK"} /\ eaten = F
      /\ n < V \/ F + V + 1 - m.qos > BufLen
  <2>1. CASE m.kind \in {"PUBACK", "SUBACK"}
    <3>1. eaten <= F
        <4>1. m.kind # "PUBLISH"
        BY <2>1
      <4>2. QED
        BY <1>1, <4>1 DEF Announced, F
    <3>2. n < V
      BY <1>2, <1>3, <1>4, <2>1 DEF Parser!Rejects
    <3>3. QED
      BY <1>1, <1>3, <2>1, <3>1, <3>2
  <2>2. CASE m.kind \notin {"PUBACK", "SUBACK"}
    <3> DEFINE b == BufLen - header
               w == 2 + m.topic
    <3>1. /\ m.kind = "PUBLISH" /\ i = header + n
          /\ \/ n < 2 + Parser!QosLen(m)
             \/ m.topic > n - (2 + Parser!QosLen(m)) \/ m.topic > b - (2 + Parser!QosLen(m))
             \/ w + (IF m.qos > 0 THEN 2 ELSE 1) > b
             \/ m.qos > 0 /\ n < w + 2
      BY <1>4, <2>2 DEF Parser!Rejects
    <3>2. QED
      BY <1>1, <1>2, <1>3, <3>1
  <2>3. QED
    BY <2>1, <2>2
<1>6. V >= 2
  BY <1>3, <1>5
<1>7. eaten' = F + n /\ stream' = stream
  BY <1>5 DEF n
<1>8. \/ F + n > F /\ F + n < F + V
      \/ F + V + 1 - m.qos > BufLen
  BY <1>1, <1>2, <1>3, <1>5, <1>6
<1>9. Parser!ClosedForCause'
        <=> (status' = "short" => Parser!Torn' \/ F + V + 1 - m.qos > BufLen)
  BY <1>7 DEF Parser!ClosedForCause, Parser!Current, F, V, m
<1>10. Parser!Torn' <=> F + n > F /\ F + n < F + V
  BY <1>7 DEF Parser!Torn, Parser!Current, F, V, m
<1>11. QED
  BY <1>8, <1>9, <1>10

\* What the application has got with a part that is not rejected: the message is
\* complete, or it was announced and more is to come.
LEMMA PartGiven ==
  ASSUME Parsing, header = Parser!FixedHeader(Head(stream)), remLen > 0,
         Parser!CopyLen >= 0,
         ~ Parser!Rejects(Head(stream), Parser!CopyLen, remLen - Parser!CopyLen,
                          msgIdx + Parser!CopyLen),
         NEW made,
         made = IF Head(stream).kind = "PUBLISH"
                  THEN Parser!PublishCalls(Head(stream), Parser!CopyLen,
                                           remLen - Parser!CopyLen, msgIdx + Parser!CopyLen)
                  ELSE calls,
         remLen = Parser!Total(Head(stream)) - eaten
  PROVE  IF remLen = Parser!CopyLen THEN GotAll(Head(stream), made)
         ELSE Announced(Head(stream), made, eaten + Parser!CopyLen)
<1> DEFINE m == Head(stream)
           n == Parser!CopyLen
           F == Parser!FixedHeader(m)
           V == Parser!VarHeader(m)
           i == eaten + n
           r == remLen - n
<1>1. /\ m \in Messages /\ header = F /\ header <= eaten /\ msgIdx = eaten /\ eaten \in Nat
      /\ Announced(m, calls, eaten) /\ BufLen \in Nat /\ eaten < Parser!Total(m)
  BY ParsingFacts, ParserFacts
<1>2. n \in Nat /\ n <= remLen
  BY <1>1, CopyLenRange
<1>3. /\ V \in Nat /\ F \in {2, 3} /\ m.qos \in {0, 1} /\ m.topic \in Nat
      /\ m.kind \in {"PUBLISH", "PUBACK", "SUBACK", "PINGRESP"} /\ m.payload \in Nat
      /\ m.kind = "PUBLISH" => V = 2 + m.topic + Parser!QosLen(m)
      /\ m.kind = "PUBACK" => V = 2
      /\ m.kind = "SUBACK" => V = 3
      /\ m.kind = "PINGRESP" => V = 0
      /\ Parser!QosLen(m) = (IF m.qos > 0 THEN 2 ELSE 0)
      /\ Parser!Total(m) = F + Parser!Remaining(m)
      /\ Parser!Remaining(m) = V + m.payload
      /\ m.kind # "PUBLISH" => m.payload = 0
  BY <1>1, MessageLengths
<1>4. ~ Parser!Rejects(m, n, r, i)
  BY <1>1
<1>5. made = IF m.kind = "PUBLISH" THEN Parser!PublishCalls(m, n, r, i) ELSE calls
  BY <1>1
<1>6. remLen = F + V + m.payload - eaten
  <2>1. remLen = Parser!Total(m) - eaten
    OBVIOUS
  <2>2. Parser!Total(m) = F + (V + m.payload)
    BY <1>3
  <2> HIDE DEF m, F, V
  <2>3. QED
    BY <1>1, <1>3, <2>1, <2>2
<1> HIDE DEF m, n, F, V
<1>7. CASE m.kind # "PUBLISH"
  <2>1. eaten = F
    <3>1. ~ (eaten > F)
      BY <1>1, <1>3, <1>7 DEF Announced, F
    <3>2. QED
      BY <1>1, <1>3, <3>1
  <2>2. n >= V
    BY <1>1, <1>2, <1>3, <1>4, <1>7 DEF Parser!Rejects
  <2>3. remLen = n
    BY <1>1, <1>2, <1>3, <1>6, <1>7, <2>1, <2>2
  <2>4. GotAll(m, made)
    BY <1>7 DEF GotAll
  <2>5. QED
    BY <2>3, <2>4 DEF m, n
<1>8. CASE m.kind = "PUBLISH"
  <2> DEFINE data == IF i = header + n THEN n - V ELSE n
  <2>1. /\ made.total = (IF i = header + n THEN r + data ELSE calls.total)
        /\ made.data = calls.data + data
        /\ made.last = (IF r = 0 THEN calls.last + 1 ELSE calls.last)
        /\ made.answers = (IF r = 0 /\ m.qos > 0 THEN calls.answers + 1 ELSE calls.answers)
    BY <1>5, <1>8, CallsAdded DEF V
  <2>2. calls.last = 0 /\ calls.answers = 0
    BY <1>1 DEF Announced
  <2>3. CASE eaten = F
    <3>1. i = header + n /\ calls.data = 0
      BY <1>1, <1>2, <1>3, <2>3 DEF Announced, F
    <3> DEFINE b == BufLen - header
               w == 2 + m.topic
    <3>2. /\ ~ (n < 2 + Parser!QosLen(m))
          /\ ~ (m.topic > n - (2 + Parser!QosLen(m)))
      BY <1>4, <1>8, <3>1 DEF Parser!Rejects
    <3>3. n >= V /\ V >= 2
      BY <1>2, <1>3, <1>8, <3>2
    <3>4. r + data = m.payload /\ calls.data + data = n - V
      BY <1>2, <1>3, <1>6, <2>3, <3>1
    <3>5. made.total = m.payload /\ made.data = n - V
      BY <2>1, <3>1, <3>4
    <3>6. CASE r = 0
      <4>1. n - V = m.payload /\ made.last = 1 /\ made.answers = m.qos
        <5>1. n - V = m.payload
          BY <1>2, <1>3, <1>6, <2>3, <3>6
        <5>2. made.last = 1 /\ made.answers = m.qos
          BY <1>3, <2>1, <2>2, <3>6
        <5>3. QED
          BY <5>1, <5>2
      <4>2. GotAll(m, made)
        BY <3>5, <4>1 DEF GotAll
      <4>3. QED
        BY <1>2, <3>6, <4>2 DEF m, n
    <3>7. CASE r # 0
      <4>1. made.last = 0 /\ made.answers = 0 /\ ~ (i <= F) /\ n - V = i - F - V
        BY <1>1, <1>2, <1>3, <2>1, <2>2, <2>3, <3>3, <3>7
      <4>2. Announced(m, made, i)
        BY <1>8, <3>5, <4>1 DEF Announced, F, V
      <4>3. QED
        BY <1>2, <3>7, <4>2 DEF m, n
    <3>8. QED
      BY <3>6, <3>7
  <2>4. CASE eaten # F
    <3>1. ~ (i = header + n) /\ ~ (eaten <= F)
      BY <1>1, <1>2, <1>3, <2>4
    <3>2. calls.total = m.payload /\ calls.data = eaten - F - V
      BY <1>1, <3>1 DEF Announced, F, V
    <3>3. made.total = m.payload /\ made.data = i - F - V
      BY <1>1, <1>2, <1>3, <2>1, <3>1, <3>2
    <3>4. CASE r = 0
      <4>1. i - F - V = m.payload /\ made.last = 1 /\ made.answers = m.qos
        <5>1. i - F - V = m.payload
          BY <1>1, <1>2, <1>3, <1>6, <3>4
        <5>2. made.last = 1 /\ made.answers = m.qos
          BY <1>3, <2>1, <2>2, <3>4
        <5>3. QED
          BY <5>1, <5>2
      <4>2. GotAll(m, made)
        BY <3>3, <4>1 DEF GotAll
      <4>3. QED
        BY <1>2, <3>4, <4>2 DEF m, n
    <3>5. CASE r # 0
      <4>1. made.last = 0 /\ made.answers = 0 /\ ~ (i <= F)
        BY <1>1, <1>2, <1>3, <2>1, <2>2, <3>1, <3>5
      <4>2. Announced(m, made, i)
        BY <1>8, <3>3, <4>1 DEF Announced, F, V
      <4>3. QED
        BY <1>2, <3>5, <4>2 DEF m, n
    <3>6. QED
      BY <3>4, <3>5
  <2>5. QED
    BY <2>3, <2>4
<1>9. QED
  BY <1>7, <1>8

\* A part of the message behind the fixed header.
LEMMA RestKept ==
  ASSUME ParserInv, Parser!ParseRest
  PROVE  ParserInv'
<1> DEFINE m == Head(stream)
           n == Parser!CopyLen
           r == remLen - n
           i == msgIdx + n
           made == IF m.kind = "PUBLISH" THEN Parser!PublishCalls(m, n, r, i) ELSE calls
           T == Parser!Total(m)
<1>1. Parsing
  BY DEF Parser!ParseRest, Parsing
<1>2. header >= 2 /\ ~ more /\ chain' = chain /\ more' = more
  BY DEF Parser!ParseRest
<1>3. IF n < 0
      THEN status' = "mismatch" /\ UNCHANGED <<stream, eaten, inOffset, header, msgIdx,
                                               remLen, calls, finished>>
      ELSE /\ inOffset' = inOffset + n /\ remLen' = r
           /\ IF Parser!Rejects(m, n, r, i)
                THEN /\ status' = "short" /\ eaten' = eaten + n /\ msgIdx' = i
                     /\ UNCHANGED <<stream, header, calls, finished>>
                ELSE /\ UNCHANGED status
                     /\ IF r = 0
                          THEN Parser!NextMessage(made)
                          ELSE /\ eaten' = eaten + n /\ msgIdx' = i /\ calls' = made
                               /\ UNCHANGED <<stream, header, finished>>
  BY DEF Parser!ParseRest, Parser!Current
<1>4. /\ stream \in Seq(Messages) /\ stream # <<>> /\ m \in Messages
      /\ chain \in Seq(1 .. MaxLength) /\ Len(chain) <= MaxBuffers
      /\ inOffset \in Nat /\ Parser!TotLen \in Nat /\ inOffset < Parser!TotLen
      /\ header \in 0 .. 3 /\ more \in BOOLEAN /\ remLen \in Nat /\ eaten \in Nat
      /\ msgIdx = eaten /\ eaten < T /\ header <= eaten
  BY <1>1, ParsingFacts
<1>5. header = Parser!FixedHeader(m) /\ remLen = T - eaten
  <2>1. ~ (header < 2 \/ more)
    BY <1>2, <1>4
  <2>2. QED
    BY <1>1, <2>1, ParsingFacts
<1>6. T \in Nat
  BY <1>4, TotalNat
<1>7. remLen > 0
  BY <1>4, <1>5, <1>6
<1>8. n \in Int /\ n <= remLen /\ n <= Parser!TotLen - inOffset
  BY <1>1, <1>5, <1>7, CopyLenRange
<1>9. Parser!TotLen' = Parser!TotLen
  BY <1>2 DEF Parser!TotLen
<1>10. Parser!Delivered
  BY DEF ParserInv
\* The length wraps.
<1>11. CASE n < 0
  <2>1. status' = "mismatch" /\ UNCHANGED <<stream, eaten, inOffset, header, msgIdx, remLen,
                                            calls, finished>>
    BY <1>3, <1>11
  <2> HIDE DEF m, n, T
  <2>2. inOffset' \in 0 .. Parser!TotLen /\ eaten' <= T
    BY <1>4, <1>6, <2>1
  <2>3. ParserTypes'
    BY <1>2, <1>4, <1>9, <2>1, <2>2 DEF ParserTypes, m, T
  <2>4. Supplied' /\ HeaderRead' /\ CallsMade' /\ Parser!ClosedForCause'
    BY <2>1 DEF Supplied, HeaderRead, CallsMade, Parser!ClosedForCause
  <2>5. Parser!Delivered'
    BY <1>10, <2>1 DEF Parser!Delivered
  <2>6. QED
    BY <2>3, <2>4, <2>5 DEF ParserInv
\* The part is rejected.
<1>12. CASE n >= 0 /\ Parser!Rejects(m, n, r, i)
  <2>1. /\ inOffset' = inOffset + n /\ remLen' = r
        /\ status' = "short" /\ eaten' = eaten + n /\ msgIdx' = i
        /\ UNCHANGED <<stream, header, calls, finished>>
    BY <1>3, <1>8, <1>12
  <2>2. Parser!ClosedForCause'
    BY <1>1, <1>5, <1>7, <1>12, <2>1, RejectedForCause
  <2> HIDE DEF m, n, T
  <2>3. /\ inOffset' \in 0 .. Parser!TotLen /\ remLen' \in Nat /\ eaten' \in Nat
        /\ eaten' <= T /\ msgIdx' \in Nat
    BY <1>4, <1>5, <1>6, <1>8, <1>12, <2>1
  <2>4. ParserTypes'
    BY <1>2, <1>4, <1>9, <2>1, <2>3 DEF ParserTypes, m, T
  <2>5. Supplied' /\ HeaderRead' /\ CallsMade'
    BY <2>1 DEF Supplied, HeaderRead, CallsMade
  <2>6. Parser!Delivered'
    BY <1>10, <2>1 DEF Parser!Delivered
  <2>7. QED
    BY <2>2, <2>4, <2>5, <2>6 DEF ParserInv
\* The part is parsed.
<1>13. CASE n >= 0 /\ ~ Parser!Rejects(m, n, r, i)
  <2>1. /\ inOffset' = inOffset + n /\ remLen' = r /\ status' = status
        /\ IF r = 0
             THEN Parser!NextMessage(made)
             ELSE /\ eaten' = eaten + n /\ msgIdx' = i /\ calls' = made
                  /\ stream' = stream /\ header' = header /\ finished' = finished
    BY <1>3, <1>8, <1>13
  <2>2. IF remLen = n THEN GotAll(m, made) ELSE Announced(m, made, eaten + n)
    BY <1>1, <1>5, <1>7, <1>13, PartGiven
  <2> HIDE DEF m, n, T, made
  <2>3. /\ n \in Nat /\ remLen' \in Nat /\ inOffset' <= Parser!TotLen /\ more' \in BOOLEAN
        /\ UNCHANGED <<chain, status>>
    BY <1>2, <1>4, <1>8, <1>13, <2>1
  <2>4. CASE r = 0
    <3>1. Parser!NextMessage(made) /\ GotAll(m, made) /\ inOffset' = inOffset + (T - eaten)
      BY <1>4, <1>5, <1>8, <2>1, <2>2, <2>4
    <3>2. QED
      BY <1>1, <2>3, <3>1, NextMessageKept DEF m, T
  <2>5. CASE r # 0
    <3>1. /\ eaten' = eaten + n /\ msgIdx' = eaten + n /\ calls' = made
          /\ stream' = stream /\ header' = header /\ finished' = finished
          /\ eaten + n < T /\ Announced(m, made, eaten + n)
      BY <1>4, <1>5, <1>6, <1>8, <2>1, <2>2, <2>5
    <3>2. header' \in 0 .. 3 /\ header' <= eaten + n /\ remLen' = T - eaten'
      BY <1>4, <1>5, <1>6, <1>8, <2>1, <2>3, <3>1
    <3>3. ~ (header' < 2 \/ more')
      BY <1>2, <1>4, <3>1
    <3>4. IF header' < 2 \/ more' THEN header' < Parser!FixedHeader(m)
          ELSE header' = Parser!FixedHeader(m) /\ remLen' = T - eaten'
      BY <1>5, <3>1, <3>2, <3>3
    <3>5. UNCHANGED <<stream, chain, status, finished>>
      BY <2>3, <3>1
    <3>6. Announced(m, calls', eaten')
      BY <3>1
    <3>7. QED
      BY <1>1, <2>1, <2>3, <3>1, <3>2, <3>4, <3>5, <3>6, SameMessageKept DEF m, T
  <2>6. QED
    BY <2>4, <2>5
<1>14. QED
  BY <1>8, <1>11, <1>12, <1>13

\* The next bytes come in: the parser is entered.
LEMMA ReceiveKept ==
  ASSUME ParserInv, NEW c \in Parser!Chains, Parser!Receive(c)
  PROVE  ParserInv'
<1>1. /\ status = "ok" /\ Parser!SumOf(c) <= Parser!StreamLen - eaten
      /\ chain' = c /\ inOffset' = 0 /\ header' = 0 /\ more' = TRUE /\ remLen' = 0
      /\ UNCHANGED <<stream, eaten, msgIdx, calls, finished, status>>
  BY DEF Parser!Receive
<1>2. c \in Seq(1 .. MaxLength) /\ Len(c) <= MaxBuffers
  <2>1. PICK k \in 0 .. MaxBuffers : c \in [1 .. k -> 1 .. MaxLength]
    BY DEF Parser!Chains, Parser!BoundedSeq, Parser!SeqOf
  <2>2. QED
    BY <2>1, ParserFacts
<1>3. /\ stream \in Seq(Messages) /\ eaten \in Nat /\ msgIdx = eaten
      /\ eaten <= Bytes(stream) /\ (stream # <<>> => eaten < Parser!Total(Head(stream)))
      /\ (stream # <<>> => eaten <= Parser!Total(Head(stream)))
  BY <1>1 DEF ParserInv, ParserTypes, Supplied
<1>4. Parser!SumOf(c) \in Nat /\ Parser!TotLen' = Parser!SumOf(c)
  <2>1. c \in Seq(Nat)
    BY <1>2, ParserFacts
  <2>2. PICK f : Parser!SumOf(c) = f[Len(c)] /\ \A n \in 0 .. Len(c) : f[n] \in Nat
    BY <2>1, SumFound
  <2>3. Len(c) \in 0 .. Len(c)
    BY <2>1
  <2>4. QED
    BY <1>1, <2>2, <2>3 DEF Parser!TotLen
<1>5. ParserTypes'
  BY <1>1, <1>2, <1>3, <1>4 DEF ParserTypes
<1>6. Bytes(stream) \in Nat /\ Bytes(stream)' = Bytes(stream) /\ Parser!StreamLen = Bytes(stream)
  BY <1>1, <1>3, BytesNat DEF Bytes, Parser!StreamLen
<1>7. Supplied'
  BY <1>1, <1>3, <1>4, <1>6 DEF Supplied
<1>8. HeaderRead'
  <2>1. ASSUME stream # <<>> PROVE Parser!FixedHeader(Head(stream)) \in {2, 3}
    BY <1>3, <2>1, MessageLengths
  <2>2. QED
    BY <1>1, <1>3, <2>1 DEF HeaderRead
<1>9. CallsMade'
  BY <1>1, Zenon DEF ParserInv, CallsMade
<1>10. Parser!Delivered' /\ Parser!ClosedForCause'
  BY <1>1 DEF ParserInv, Parser!Delivered, Parser!ClosedForCause
<1>11. QED
  BY <1>5, <1>7, <1>8, <1>9, <1>10 DEF ParserInv

\* The chain is freed.
LEMMA FreeKept ==
  ASSUME ParserInv, Parser!Free
  PROVE  ParserInv'
<1>1. /\ inOffset = Parser!TotLen \/ status # "ok"
      /\ chain' = <<>> /\ inOffset' = 0
      /\ UNCHANGED <<stream, eaten, header, more, msgIdx, remLen, calls, finished, status>>
  BY DEF Parser!Free
<1>2. Parser!TotLen' = 0
  BY <1>1, SumEmpty DEF Parser!TotLen
<1>3. Bytes(stream)' = Bytes(stream)
  BY <1>1 DEF Bytes
<1>4. chain' \in Seq(1 .. MaxLength) /\ Len(chain') <= MaxBuffers
  BY <1>1, ParserFacts
<1>5. ParserTypes'
  BY <1>1, <1>2, <1>4 DEF ParserInv, ParserTypes
<1>6. Supplied'
  <2>1. stream \in Seq(Messages) /\ eaten \in Nat
    BY DEF ParserInv, ParserTypes
  <2>2. Bytes(stream) \in Nat
    BY <2>1, BytesNat
  <2>3. QED
    BY <1>1, <1>2, <1>3, <2>1, <2>2 DEF ParserInv, Supplied
<1>7. HeaderRead'
  BY <1>1 DEF HeaderRead
<1>8. CallsMade'
  BY <1>1, Zenon DEF ParserInv, CallsMade
<1>9. Parser!Delivered'
  BY <1>1 DEF ParserInv, Parser!Delivered
<1>10. Parser!ClosedForCause'
  BY <1>1, Zenon DEF ParserInv, Parser!ClosedForCause, Parser!Torn, Parser!Current
<1>11. QED
  BY <1>5, <1>6, <1>7, <1>8, <1>9, <1>10 DEF ParserInv

LEMMA ParserStart == Parser!Init => ParserInv
<1> SUFFICES ASSUME Parser!Init PROVE ParserInv
  OBVIOUS
<1>1. /\ stream \in Parser!BoundedSeq(Messages, MaxMessages)
      /\ eaten = 0 /\ chain = <<>> /\ inOffset = 0 /\ header = 0 /\ more = TRUE
      /\ msgIdx = 0 /\ remLen = 0 /\ calls = Parser!NoCalls /\ finished = <<>>
      /\ status = "ok"
  BY DEF Parser!Init, Messages
<1>2. stream \in Seq(Messages)
  <2>1. PICK k \in 0 .. MaxMessages : stream \in [1 .. k -> Messages]
    BY <1>1 DEF Parser!BoundedSeq, Parser!SeqOf
  <2>2. MaxMessages \in Nat
    BY SuiteAssumption DEF SuiteAssumption, Parser!ParserAssumption
  <2>3. QED
    BY <2>1, <2>2
<1>3. Parser!TotLen = 0
  BY <1>1, SumEmpty DEF Parser!TotLen
<1>4. Bytes(stream) \in Nat
  BY <1>2, BytesNat
<1>5. ASSUME stream # <<>>
      PROVE  Parser!Total(Head(stream)) \in Nat /\ Parser!Total(Head(stream)) > 0
             /\ Parser!FixedHeader(Head(stream)) \in {2, 3}
  <2> DEFINE m == Head(stream)
  <2>1. m \in Messages
    BY <1>2, <1>5
  <2>2. /\ Parser!VarHeader(m) \in Nat /\ Parser!FixedHeader(m) \in {2, 3} /\ m.payload \in Nat
        /\ Parser!Remaining(m) = Parser!VarHeader(m) + m.payload
        /\ Parser!Total(m) = Parser!FixedHeader(m) + Parser!Remaining(m)
    BY <2>1, MessageLengths
  <2>3. QED
    BY <2>1, <2>2, TotalNat
<1>6. ParserTypes
  <2>1. chain \in Seq(1 .. MaxLength) /\ Len(chain) <= MaxBuffers
    BY <1>1, ParserFacts
  <2>2. stream # <<>> => eaten <= Parser!Total(Head(stream))
    BY <1>1, <1>5
  <2>3. QED
    BY <1>1, <1>2, <1>3, <2>1, <2>2 DEF ParserTypes
<1>7. Supplied
  BY <1>1, <1>3, <1>4, <1>5 DEF Supplied
<1>8. HeaderRead
  BY <1>1 DEF HeaderRead
<1>9. CallsMade
  <2>1. calls.data = 0 /\ calls.last = 0 /\ calls.answers = 0
    BY <1>1 DEF Parser!NoCalls
  <2>2. QED
    BY <1>1, <1>5, <2>1 DEF CallsMade, Announced
<1>10. Parser!Delivered /\ Parser!ClosedForCause
  BY <1>1 DEF Parser!Delivered, Parser!ClosedForCause
<1>11. QED
  BY <1>6, <1>7, <1>8, <1>9, <1>10 DEF ParserInv

\* The parser of mqtt.c, for every stream of messages of any lengths, every buffer
\* length and every cut into chains of buffers: it knows how much of a message it has,
\* the application gets every finished message whole, and a connection is closed only
\* for a variable header that was cut or does not fit.
THEOREM ParserAlways == SuiteSpec => []ParserSafe
<1> DEFINE Inv == part = "parser" => ParserInv
<1>1. SuiteInit => Inv
  BY ParserStart DEF SuiteInit
<1>2. Inv /\ [SuiteNext]_allVars => Inv'
  <2> SUFFICES ASSUME part = "parser" => ParserInv, [SuiteNext]_allVars, part' = "parser"
               PROVE  ParserInv'
    OBVIOUS
  <2>1. part' = part
    BY DEF SuiteNext, LinkPart, RingPart, RequestPart, ParserPart, allVars
  <2>2. Parser!Next \/ UNCHANGED inVars
    BY DEF SuiteNext, LinkPart, RingPart, RequestPart, ParserPart, allVars
  <2>3. CASE UNCHANGED inVars
    <3>1. Parser!TotLen' = Parser!TotLen /\ Bytes(stream)' = Bytes(stream)
      BY <2>3 DEF inVars, Parser!TotLen, Bytes
    <3>2. ParserInv
      BY <2>1
    <3>3. ParserTypes' /\ Supplied' /\ HeaderRead' /\ CallsMade'
      BY <2>3, <3>1, <3>2, Zenon
         DEF inVars, ParserInv, ParserTypes, Supplied, HeaderRead, CallsMade
    <3>4. Parser!Delivered' /\ Parser!ClosedForCause'
      BY <2>3, <3>2, Zenon DEF inVars, ParserInv, Parser!Delivered, Parser!ClosedForCause,
         Parser!Torn, Parser!Current
    <3>5. QED
      BY <3>3, <3>4 DEF ParserInv
  <2>4. QED
    BY <2>1, <2>2, <2>3, ReceiveKept, FixedHeaderKept, RestKept, FreeKept DEF Parser!Next
<1>3. Inv => ParserSafe
  BY ParserFollows DEF ParserSafe
<1> HIDE DEF Inv
<1>4. QED
  BY <1>1, <1>2, <1>3, PTL DEF SuiteSpec
=============================================================================
