------------------------------ MODULE DevicesProofs ------------------------------
(***************************************************************************)
(* Proofs about the devices, part by part of MCDevices: the light sensor   *)
(* and the log, the buffers of the ADC, the arithmetic of a temperature,   *)
(* and the driver of the accelerometer.                                    *)
(***************************************************************************)
EXTENDS MCDevices, FiniteSetTheorems, SequenceTheorems, TLAPS

-----------------------------------------------------------------------------
(* The log while the light sensor is read *)

\* Interrupts are masked exactly while a record is written; the handler that finds them
\* open meets the assertion of the kernel, and there the program ends.
LogInv ==
  /\ spi1 \in {"take", "start", "wait", "reply"} /\ spiBus \in BOOLEAN
  /\ spiFlags \subseteq Logging!Flags
  /\ asked \in 0 .. MaxLux /\ replied \in Nat
  /\ asked = replied + (IF spi1 = "take" THEN 0 ELSE 1)
  /\ handler \in {"none", "record"} /\ ended \in Logging!Flags
  /\ rest \in [Loggers -> 0 .. MaxBytes + 1]
  /\ masked \in BOOLEAN /\ halted \in BOOLEAN /\ nesting \in 0 .. 1
  /\ \A t, u \in Loggers : rest[t] > 0 /\ rest[u] > 0 => t = u
  /\ ~halted => (masked <=> nesting = 1) /\ (masked <=> \E t \in Loggers : rest[t] > 0)
  /\ halted => handler = "record"
  /\ handler # "none" => \A t \in Loggers : rest[t] = 0

LEMMA LogFacts ==
  /\ IsFiniteSet(Loggers) /\ MaxBytes \in Nat \ {0} /\ MaxLux \in Nat
  /\ Cardinality(Loggers) \in Nat
<1>1. Logging!IsFiniteSet(Loggers) => IsFiniteSet(Loggers)
  BY DEF Logging!IsFiniteSet, IsFiniteSet
<1>2. /\ Logging!IsFiniteSet(Loggers) /\ MaxBytes \in Nat \ {0} /\ MaxLux \in Nat
  BY DevicesAssumption DEF DevicesAssumption, Logging!LogAssumption
<1>3. QED
  BY <1>1, <1>2, FS_CardinalityType

LEMMA LogInit == Logging!Init => LogInv
<1> SUFFICES ASSUME Logging!Init PROVE LogInv
  OBVIOUS
<1>1. /\ spiBus \in BOOLEAN /\ masked \in BOOLEAN /\ halted \in BOOLEAN
      /\ ~masked /\ ~halted /\ handler = "none"
  BY Zenon DEF Logging!Init
<1>2. rest \in [Loggers -> 0 .. MaxBytes + 1] /\ \A t \in Loggers : rest[t] = 0
  BY LogFacts DEF Logging!Init
<1>3. /\ asked = 0 /\ replied = 0 /\ nesting = 0 /\ spi1 = "take" /\ spiFlags = {}
      /\ ended = "MEM"
  BY DEF Logging!Init
<1>4. QED
  BY <1>1, <1>2, <1>3, LogFacts DEF LogInv, Logging!Flags

LEMMA LogSpi ==
  ASSUME LogInv, Logging!Spi1
  PROVE  LogInv'
<1> USE LogFacts DEF LogInv, Logging!logVars, Logging!Flags
<1>1. CASE Logging!Take
  BY <1>1 DEF Logging!Take
<1>2. CASE Logging!Start
  BY <1>2 DEF Logging!Start
<1>3. CASE Logging!Wake
  BY <1>3 DEF Logging!Wake, Logging!Taken
<1>4. CASE Logging!Reply
  BY <1>4 DEF Logging!Reply
<1>5. QED
  BY <1>1, <1>2, <1>3, <1>4 DEF Logging!Spi1

LEMMA LogRecord ==
  ASSUME LogInv, NEW t \in Loggers,
         Logging!BeginRecord(t) \/ Logging!WriteByte(t) \/ Logging!EndRecord(t)
  PROVE  LogInv'
<1> USE LogFacts DEF LogInv, Logging!spiVars, Logging!TaskRuns, Logging!writing
<1>1. CASE Logging!BeginRecord(t)
  BY <1>1 DEF Logging!BeginRecord, Logging!Entered, Logging!Steps
<1>2. CASE Logging!WriteByte(t)
  BY <1>2 DEF Logging!WriteByte
<1>3. CASE Logging!EndRecord(t)
  BY <1>3 DEF Logging!EndRecord, Logging!Left
<1>4. QED
  BY <1>1, <1>2, <1>3

LEMMA LogHandler ==
  ASSUME LogInv, Logging!Handler
  PROVE  LogInv'
<1> USE LogFacts DEF LogInv, Logging!spiVars, Logging!logVars, Logging!Flags
<1>1. CASE Logging!Interrupt
  <2>1. ~masked /\ ~halted /\ handler = "none" /\ \A t \in Loggers : rest[t] = 0
    BY <1>1 DEF Logging!Interrupt
  <2>2. /\ handler' = "record" /\ ended' \in Logging!Flags
        /\ UNCHANGED <<spi1, spiFlags, asked, replied, rest, masked, nesting, halted>>
    BY <1>1 DEF Logging!Interrupt
  <2>3. spiBus' \in BOOLEAN
    BY <1>1 DEF Logging!Interrupt
  <2>4. QED
    BY <2>1, <2>2, <2>3
<1>2. CASE Logging!HandlerRecord
  <2>1. ~halted /\ handler = "record" /\ nesting = 0 /\ \A t \in Loggers : rest[t] = 0
    BY <1>2 DEF Logging!HandlerRecord
  <2>2. /\ halted' = TRUE /\ masked' = TRUE /\ nesting' = 1
        /\ UNCHANGED <<spi1, spiBus, spiFlags, asked, replied, rest, handler, ended>>
    BY <1>2, <2>1 DEF Logging!HandlerRecord, Logging!Asserted
  <2>3. QED
    BY <2>1, <2>2
<1>3. CASE Logging!SetFlag
  BY <1>3 DEF Logging!SetFlag
<1>4. QED
  BY <1>1, <1>2, <1>3 DEF Logging!Handler

LEMMA LogNext ==
  ASSUME LogInv, Logging!Next
  PROVE  LogInv'
BY LogSpi, LogRecord, LogHandler DEF Logging!Next

LEMMA LogInvSafe ==
  ASSUME LogInv
  PROVE  Logging!TypeOK /\ Logging!RecordsWhole
<1> USE LogFacts
<1>1. \A S : Logging!Cardinality(S) = Cardinality(S)
  BY DEF Logging!Cardinality, Cardinality
<1>2. Logging!TypeOK
  BY <1>1 DEF LogInv, Logging!TypeOK
<1>3. CASE \A t \in Loggers : rest[t] = 0
  <2>1. Logging!writing = {}
    BY <1>3 DEF Logging!writing
  <2>2. QED
    BY <1>1, <2>1, <1>2, FS_EmptySet DEF Logging!RecordsWhole
<1>4. CASE ~\A t \in Loggers : rest[t] = 0
  <2>1. PICK t \in Loggers : rest[t] > 0
    BY <1>4 DEF LogInv
  <2>2. Logging!writing = {t}
    BY <2>1 DEF LogInv, Logging!writing
  <2>3. Cardinality(Logging!writing) = 1
    BY <2>2, FS_Singleton
  <2>4. QED
    BY <1>1, <1>2, <1>4, <2>3 DEF LogInv, Logging!RecordsWhole
<1>5. QED
  BY <1>3, <1>4

-----------------------------------------------------------------------------
(* The light sensor before the log is initialised *)

\* A command waits for one receive, one handler or one flag; outside of the wait there is
\* none of them.
QuietInv ==
  /\ spi1 \in {"take", "start", "wait", "reply"} /\ spiBus \in BOOLEAN
  /\ spiFlags \subseteq Quiet!Flags
  /\ asked \in 0 .. MaxLux /\ replied \in Nat
  /\ asked = replied + (IF spi1 = "take" THEN 0 ELSE 1)
  /\ handler \in {"none", "flag"} /\ ended \in Quiet!Flags
  /\ rest = [t \in Loggers |-> 0] /\ masked = FALSE /\ halted = FALSE /\ nesting = 0
  /\ spi1 # "wait" => spiFlags = {} /\ ~spiBus /\ handler = "none"
  /\ spiBus => spiFlags = {} /\ handler = "none"
  /\ handler = "flag" => spiFlags = {}

LEMMA QuietInit == Quiet!Init => QuietInv
<1> SUFFICES ASSUME Quiet!Init PROVE QuietInv
  OBVIOUS
<1>1. /\ spiBus \in BOOLEAN /\ ~spiBus /\ masked = FALSE /\ halted = FALSE
      /\ rest = [t \in Loggers |-> 0] /\ handler = "none"
  BY Zenon DEF Quiet!Init
<1>2. /\ asked = 0 /\ replied = 0 /\ nesting = 0 /\ spi1 = "take" /\ spiFlags = {}
      /\ ended = "MEM"
  BY DEF Quiet!Init
<1>3. QED
  BY <1>1, <1>2, LogFacts DEF QuietInv, Quiet!Flags

LEMMA QuietNext ==
  ASSUME QuietInv, Quiet!Next
  PROVE  QuietInv'
<1> USE LogFacts DEF QuietInv, Quiet!logVars, Quiet!spiVars, Quiet!Flags
<1>1. CASE Quiet!Take
  BY <1>1 DEF Quiet!Take
<1>2. CASE Quiet!Start
  BY <1>2 DEF Quiet!Start
<1>3. CASE Quiet!Wake
  BY <1>3 DEF Quiet!Wake, Quiet!Taken
<1>4. CASE Quiet!Reply
  BY <1>4 DEF Quiet!Reply
<1>5. CASE Quiet!Interrupt
  BY <1>5 DEF Quiet!Interrupt
<1>6. CASE Quiet!SetFlag
  BY <1>6 DEF Quiet!SetFlag, Quiet!Told
<1>7. ~Quiet!HandlerRecord
  BY DEF Quiet!HandlerRecord
<1>8. \A t \in Loggers : ~Quiet!BeginRecord(t) /\ ~Quiet!WriteByte(t) /\ ~Quiet!EndRecord(t)
  BY DEF Quiet!BeginRecord, Quiet!WriteByte, Quiet!EndRecord
<1>9. QED
  BY <1>1, <1>2, <1>3, <1>4, <1>5, <1>6, <1>7, <1>8 DEF Quiet!Next, Quiet!Spi1, Quiet!Handler

LEMMA QuietInvSafe ==
  ASSUME QuietInv
  PROVE  Quiet!TypeOK /\ Quiet!FlagFresh
<1>1. \A S : Quiet!Cardinality(S) = Cardinality(S)
  BY DEF Quiet!Cardinality, Cardinality
<1>2. Quiet!TypeOK
  <2>1. rest \in [Loggers -> 0 .. MaxBytes + 1]
    BY LogFacts DEF QuietInv
  <2>2. masked \in BOOLEAN /\ halted \in BOOLEAN
    BY Zenon DEF QuietInv
  <2>3. QED
    BY <1>1, <2>1, <2>2, LogFacts DEF QuietInv, Quiet!TypeOK
<1>3. Quiet!FlagFresh
  BY DEF QuietInv, Quiet!FlagFresh
<1>4. QED
  BY <1>2, <1>3

-----------------------------------------------------------------------------
(* The buffers of the ADC *)

\* The two registers of a buffer are of one sample, but for the one the DMA is writing;
\* the published buffer is the one behind it; between reading the pointer and the second
\* register the DMA turns to the buffer at most once, and then does not start on it.  So a
\* copy of the buffer that was not old when the pointer was read, or is taken later, does
\* not become old before the second register is read.
BufferInv ==
  /\ fresh \in BOOLEAN
  /\ mem \in [{0, 1} -> [Buffer!Regs -> 0 .. Samples]]
  /\ target \in {0, 1} /\ half \in BOOLEAN /\ sample \in 0 .. Samples - 1
  /\ pending \in {1 - target, Samples} /\ primed \in BOOLEAN
  /\ half => pending = Samples /\ mem[target]["TEMP"] = sample
  /\ pc \in {"get", "pointer", "temp", "vdd", "publish"}
  /\ latest # Samples => primed /\ latest = IF pending = Samples THEN 1 - target ELSE target
  /\ primed \/ pending # Samples =>
       \A r \in Buffer!Regs : Buffer!NextSample(mem[1 - target][r]) = sample
  /\ \A b \in {0, 1} : mem[b]["TEMP"] = mem[b]["VDD"] \/ (b = target /\ half)
  /\ read \in [Buffer!Regs -> 0 .. Samples]
  /\ pc \in {"temp", "vdd"} =>
       /\ buf \in {0, 1} /\ triggers \in 0 .. 1
       /\ half => buf = 1 - target
       /\ triggers = 0 => ~half /\ buf = 1 - target
  /\ pc \in {"temp", "vdd"} /\ fresh => line = Buffer!NotCached \/ line[buf] = mem[buf]
  /\ line = Buffer!NotCached \/ line \in [{0, 1} -> [Buffer!Regs -> 0 .. Samples]]
  /\ pc = "vdd" /\ fresh => read["TEMP"] = mem[buf]["TEMP"]
  /\ pc = "publish" /\ fresh => read["TEMP"] = read["VDD"]

LEMMA BufferFacts ==
  /\ Samples \in Nat /\ Samples > 4 /\ Buffer!None = Samples
  /\ Buffer!Regs = {"TEMP", "VDD"}
BY DevicesAssumption DEF DevicesAssumption, Buffer!BufferAssumption, Buffer!None, Buffer!Regs

LEMMA BufferInit == Buffer!Init => BufferInv
<1> SUFFICES ASSUME Buffer!Init PROVE BufferInv
  OBVIOUS
<1> USE BufferFacts DEF Buffer!Init
<1>1. Buffer!Unread = [r \in Buffer!Regs |-> Samples]
  BY DEF Buffer!Unread
<1>2. mem \in [{0, 1} -> [Buffer!Regs -> 0 .. Samples]] /\ read \in [Buffer!Regs -> 0 .. Samples]
  BY <1>1
<1>3. \A b \in {0, 1} : mem[b]["TEMP"] = mem[b]["VDD"]
  BY <1>1
<1>4. half \in BOOLEAN /\ primed \in BOOLEAN /\ fresh \in BOOLEAN
  BY Zenon
<1>5. QED
  BY <1>2, <1>3, <1>4 DEF BufferInv

LEMMA BufferNext ==
  ASSUME BufferInv, Buffer!Next
  PROVE  BufferInv'
<1> USE BufferFacts DEF BufferInv, Buffer!adcVars, Buffer!taskVars
<1>1. CASE Buffer!Fill \/ Buffer!Evict
  BY <1>1 DEF Buffer!Fill, Buffer!Evict
<1>2. CASE Buffer!Trigger
  BY <1>2 DEF Buffer!Trigger
<1>3. CASE Buffer!Complete
  <2>1. /\ half /\ pending = Samples
        /\ mem' = [mem EXCEPT ![target]["VDD"] = sample]
        /\ half' = FALSE /\ target' = 1 - target /\ pending' = target
        /\ sample' = Buffer!NextSample(sample)
        /\ UNCHANGED <<primed, latest, pc, cmd, buf, read, fresh, triggers, reply, line>>
    BY <1>3 DEF Buffer!Complete
  <2>2. sample' \in 0 .. Samples - 1
    BY <2>1 DEF Buffer!NextSample
  <2>3. /\ mem' \in [{0, 1} -> [Buffer!Regs -> 0 .. Samples]]
        /\ mem'[target]["TEMP"] = sample /\ mem'[target]["VDD"] = sample
        /\ mem'[1 - target] = mem[1 - target]
        /\ \A b \in {0, 1} : mem'[b]["TEMP"] = mem[b]["TEMP"]
    BY <2>1
  <2>4. \A r \in Buffer!Regs : Buffer!NextSample(mem'[1 - target'][r]) = sample'
    BY <2>1, <2>3
  <2>5. /\ target' \in {0, 1} /\ 1 - target' = target /\ pending' = 1 - target'
        /\ pending' # Samples /\ half' = FALSE
    BY <2>1
  <2>6. \A b \in {0, 1} : mem'[b]["TEMP"] = mem'[b]["VDD"]
    BY <2>1, <2>3
  <2>7. latest' # Samples => primed' /\ latest' = target'
    BY <2>1
  <2>8. pc' \in {"temp", "vdd"} =>
          /\ buf' \in {0, 1} /\ triggers' \in 0 .. 1 /\ triggers' # 0
    BY <2>1
  <2>9. /\ pc' = "vdd" /\ fresh' => read'["TEMP"] = mem'[buf']["TEMP"]
        /\ pc' = "publish" /\ fresh' => read'["TEMP"] = read'["VDD"]
        /\ pc' \in {"temp", "vdd"} /\ fresh' =>
             line' = Buffer!NotCached \/ line'[buf'] = mem'[buf']
    BY <2>1, <2>3
  <2>10. QED
    BY <2>1, <2>2, <2>3, <2>4, <2>5, <2>6, <2>7, <2>8, <2>9
<1>4. CASE Buffer!Interrupt
  BY <1>4 DEF Buffer!Interrupt, Buffer!Published, Buffer!Discard
<1>5. CASE \E c \in Buffer!Commands : Buffer!Get(c)
  BY <1>5 DEF Buffer!Get
<1>6. CASE Buffer!NoReadings
  BY <1>6 DEF Buffer!NoReadings, Buffer!Unread
<1>7. CASE Buffer!ReadPointer
  <2>1. /\ pending = Samples /\ latest # Samples /\ buf' = latest /\ pc' = "temp"
        /\ triggers' = (IF half THEN 1 ELSE 0) /\ latest = 1 - target
        /\ UNCHANGED <<mem, target, half, sample, pending, primed, latest, cmd, read, reply, line>>
    BY <1>7 DEF Buffer!ReadPointer
  <2>2. /\ fresh' \in BOOLEAN
        /\ fresh' => line = Buffer!NotCached \/ line[latest] = mem[latest]
    BY <1>7, Zenon DEF Buffer!ReadPointer
  <2>3. pc' \in {"temp", "vdd"} /\ fresh' =>
          line' = Buffer!NotCached \/ line'[buf'] = mem'[buf']
    BY <2>1, <2>2
  <2>4. QED
    BY <2>1, <2>2, <2>3
<1>8. CASE Buffer!ReadTemp
  BY <1>8 DEF Buffer!ReadTemp, Buffer!Source
<1>9. CASE Buffer!ReadVdd
  BY <1>9 DEF Buffer!ReadVdd, Buffer!Source
<1>10. CASE Buffer!Publish
  BY <1>10 DEF Buffer!Publish
<1>11. QED
  BY <1>1, <1>2, <1>3, <1>4, <1>5, <1>6, <1>7, <1>8, <1>9, <1>10 DEF Buffer!Next

LEMMA BufferInvSafe ==
  ASSUME BufferInv
  PROVE  Buffer!Paired /\ Buffer!Current /\ Buffer!LatestNewest
BY BufferFacts DEF BufferInv, Buffer!Paired, Buffer!Current, Buffer!LatestNewest

-----------------------------------------------------------------------------
(* The arithmetic of a temperature                                            *)

LEMMA WidthFacts ==
  /\ Word \in Nat /\ Long \in Nat /\ Frac \in Nat /\ Cal1 \in Nat /\ Cal2 \in Nat
  /\ Vref \in Nat /\ Num \in Nat /\ Off \in Nat
  /\ Temps \subseteq Nat /\ Vdds \subseteq Nat \ {0} /\ Cal1 < Cal2
  /\ 2 ^ Word \in Nat /\ 2 ^ Word > 0 /\ 2 ^ Frac \in Nat /\ 2 ^ Frac > 0
  /\ 2 ^ (Long - 1) \in Nat /\ 2 ^ (Long - 1) > 0 /\ 2 ^ Long = 2 * 2 ^ (Long - 1)
<1>1. Temp!WidthAssumption
  BY DevicesAssumption DEF DevicesAssumption
<1>2. {Word, Long, Frac, Cal1, Cal2, Vref, Num, Off} \subseteq Nat /\ Word < Long
  BY <1>1 DEF Temp!WidthAssumption
<1>3. Long - 1 \in Nat
  BY <1>2
<1>4. QED
  BY <1>1, <1>2, <1>3 DEF Temp!WidthAssumption

\* What a division leaves.
LEMMA Divided ==
  ASSUME NEW a \in Int, NEW d \in Nat, d > 0
  PROVE  /\ a \div d \in Int /\ d * (a \div d) <= a /\ a < d * (a \div d) + d
         /\ a >= 0 => a \div d \in Nat
OBVIOUS

\* Multiplying by a reciprocal of which less than one unit is cut off, and cutting the
\* product off, is one less than the division at most, while the dividend is not above
\* the unit.
LEMMA Reciprocal ==
  ASSUME NEW x \in Nat, NEW d \in Nat, d > 0, NEW unit \in Nat, unit > 0,
         NEW recip \in Nat, NEW q \in Nat, NEW s \in Nat,
         d * q <= x, x < d * q + d, unit * s <= x * recip, x * recip < unit * s + unit,
         recip * d <= unit, unit < recip * d + d, x <= unit
  PROVE  s <= q /\ q <= s + 1
<1>1. s <= q
  <2>1. d * (unit * s) <= d * (x * recip)
    OBVIOUS
  <2>2. x * (recip * d) <= x * unit
    OBVIOUS
  <2>3. unit * (d * s) <= unit * x
    BY <2>1, <2>2
  <2>4. d * s <= x
    BY <2>3
  <2>5. d * s < d * (q + 1)
    BY <2>4
  <2>6. QED
    BY <2>5
<1>2. ASSUME q >= s + 2 PROVE FALSE
  <2>1. d * (s + 2) <= x
    BY <1>2
  <2>2. x * unit <= x * (recip * d) + x * (d - 1)
    OBVIOUS
  <2>3. d * (x * recip) < d * (unit * s + unit)
    OBVIOUS
  <2>4. x * (d - 1) <= unit * (d - 1)
    OBVIOUS
  <2>5. x * unit < unit * (d * s + d) + unit * (d - 1)
    BY <2>2, <2>3, <2>4
  <2>6. x * unit < unit * (d * (s + 2))
    BY <2>5
  <2>7. x < d * (s + 2)
    BY <2>6
  <2>8. QED
    BY <2>1, <2>7
<1>3. QED
  BY <1>1, <1>2

\* A ratio in the range of the sensor: from the first calibration point up, with room for
\* its product in the words of the code and in the format of the reciprocal.
InRange(r) ==
  /\ r >= Cal1 /\ r - Cal1 < 2 ^ Word
  /\ (r - Cal1) * Num <= 2 ^ Frac
  /\ (r - Cal1) * Num * Temp!Recip < 2 ^ (Long - 1)

LEMMA RecipNat ==
  /\ Temp!Recip \in Nat /\ Cal2 - Cal1 \in Nat /\ Cal2 - Cal1 > 0
  /\ (Cal2 - Cal1) * Temp!Recip <= 2 ^ Frac
  /\ 2 ^ Frac < (Cal2 - Cal1) * Temp!Recip + (Cal2 - Cal1)
<1>1. Cal2 - Cal1 \in Nat /\ Cal2 - Cal1 > 0
  BY WidthFacts
<1>2. QED
  BY <1>1, WidthFacts, Divided DEF Temp!Recip

\* A number of half the range of the word is its own value in it.
LEMMA SignedSmall ==
  ASSUME NEW n \in Nat, n < 2 ^ (Long - 1)
  PROVE  Temp!Signed(n, Long) = n
<1> DEFINE h == 2 ^ (Long - 1)
<1>1. h \in Nat /\ h > 0 /\ 2 ^ Long = 2 * h /\ n < h
  BY WidthFacts
<1>2. Temp!Signed(n, Long) = ((n + h) % (2 * h)) - h
  BY <1>1 DEF Temp!Signed
<1> HIDE DEF h
<1>3. (n + h) % (2 * h) = n + h
  BY <1>1
<1>4. QED
  BY <1>1, <1>2, <1>3

LEMMA Agreement ==
  ASSUME NEW r \in Int, InRange(r)
  PROVE  Temp!Near(Temp!IntMilli(r), Temp!ReducedMilli(r), 1)
<1> DEFINE x == (r - Cal1) * Num
           d == Cal2 - Cal1
           q == x \div d
           s == (x * Temp!Recip) \div 2 ^ Frac
<1>1. x \in Nat /\ x <= 2 ^ Frac /\ r - Cal1 \in Nat /\ x * Temp!Recip \in Nat
  BY WidthFacts, RecipNat DEF InRange
<1>2. Temp!IntMilli(r) = q + Off
  BY <1>1, WidthFacts DEF Temp!IntMilli, Temp!Quotient
<1>3. Temp!ReducedMilli(r) = s + Off
  <2>1. (r - Cal1) % 2 ^ Word = r - Cal1
    BY <1>1, WidthFacts DEF InRange
  <2>2. Temp!Signed(x * Temp!Recip, Long) = x * Temp!Recip
    BY <1>1, SignedSmall DEF InRange
  <2>3. QED
    BY <2>1, <2>2 DEF Temp!ReducedMilli, Temp!Shifted
<1>4. d \in Nat /\ d > 0
  BY RecipNat
<1>5. q \in Nat /\ d * q <= x /\ x < d * q + d
  BY <1>1, <1>4, Divided
<1>6. /\ s \in Nat /\ 2 ^ Frac * s <= x * Temp!Recip
      /\ x * Temp!Recip < 2 ^ Frac * s + 2 ^ Frac
  BY <1>1, WidthFacts, Divided
<1>7. Temp!Recip * d <= 2 ^ Frac /\ 2 ^ Frac < Temp!Recip * d + d
  BY <1>4, RecipNat
<1> HIDE DEF x, d, q, s
<1>8. s <= q /\ q <= s + 1
  BY <1>1, <1>4, <1>5, <1>6, <1>7, WidthFacts, RecipNat, Reciprocal
<1>9. (q + Off) - (s + Off) \in -1 .. 1
  BY <1>5, <1>6, <1>8, WidthFacts
<1>10. QED
  BY <1>2, <1>3, <1>9 DEF Temp!Near

\* The ratio is the one of a sample, or the first calibration point before there is one;
\* before the first reading the filter is at 0.
TempInv ==
  /\ ratio \in Int /\ filtered \in Int /\ least \in Int /\ most \in Int
  /\ ratio = Cal1 \/ \E t \in Temps, v \in Vdds : ratio = Temp!Ratio(t, v)
  /\ least <= most => least <= filtered /\ filtered <= most
  /\ least > most => filtered = 0

LEMMA TempInit == Temp!Init => TempInv
  BY WidthFacts DEF Temp!Init, TempInv

\* Seven eighths of one value and an eighth of another lie between the two.
LEMMA Smoothing ==
  ASSUME NEW f \in Int, NEW m \in Int, NEW lo \in Int, NEW hi \in Int,
         lo <= f, f <= hi, lo <= m, m <= hi
  PROVE  /\ Temp!Quotient(f * 7 + m, 8) \in Int
         /\ lo <= Temp!Quotient(f * 7 + m, 8) /\ Temp!Quotient(f * 7 + m, 8) <= hi
BY DEF Temp!Quotient

LEMMA MilliInt ==
  ASSUME NEW r \in Int
  PROVE  Temp!Milli(r) \in Int
<1>1. (r - Cal1) % 2 ^ Word \in Int
  BY WidthFacts
<1> DEFINE n == ((r - Cal1) % 2 ^ Word) * Num * Temp!Recip
           h == 2 ^ (Long - 1)
<1>2. n \in Int
  BY <1>1, WidthFacts, RecipNat
<1>3. Temp!Signed(n, Long) \in Int
  <2>1. h \in Nat /\ h > 0 /\ Temp!Signed(n, Long) = ((n + h) % (2 * h)) - h
    BY WidthFacts DEF Temp!Signed
  <2> HIDE DEF n, h
  <2>2. ((n + h) % (2 * h)) - h \in Int
    BY <1>2, <2>1
  <2>3. QED
    BY <2>1, <2>2
<1> HIDE DEF n
<1>4. Temp!Shifted(Temp!Signed(n, Long)) \in Int
  BY <1>3, WidthFacts, Divided DEF Temp!Shifted
<1>5. Temp!ReducedMilli(r) = Temp!Shifted(Temp!Signed(n, Long)) + Off
  BY DEF Temp!ReducedMilli, n
<1>6. QED
  BY <1>4, <1>5, WidthFacts DEF Temp!Milli

LEMMA TempNext ==
  ASSUME TempInv, Temp!Next
  PROVE  TempInv'
<1> PICK t \in Temps, v \in Vdds : Temp!Calc(t, v)
  BY DEF Temp!Next
<1>1. Temp!Ratio(t, v) \in Int
  BY WidthFacts, Divided DEF Temp!Ratio
<1> DEFINE m == Temp!Milli(Temp!Ratio(t, v))
<1>2. m \in Int
  BY <1>1, MilliInt
<1>3. /\ ratio' = Temp!Ratio(t, v) /\ filtered' = Temp!Smooth(m)
      /\ least' = Temp!Lower(least, m) /\ most' = Temp!Upper(most, m)
  BY DEF Temp!Calc
<1> HIDE DEF m
<1>4. /\ least' \in Int /\ most' \in Int /\ least' <= m /\ m <= most'
      /\ least' <= least /\ most <= most'
  BY <1>2, <1>3 DEF Temp!Lower, Temp!Upper, TempInv
<1>5. filtered' \in Int /\ least' <= filtered' /\ filtered' <= most'
  <2>1. CASE filtered = 0
    BY <1>2, <1>3, <1>4, <2>1 DEF Temp!Smooth
  <2>2. CASE filtered # 0
    <3>1. filtered' = Temp!Quotient(filtered * 7 + m, 8)
      BY <1>3, <2>2 DEF Temp!Smooth
    <3>2. filtered \in Int /\ least' <= filtered /\ filtered <= most'
      BY <1>4, <2>2 DEF TempInv
    <3>3. QED
      BY <1>2, <1>4, <3>1, <3>2, Smoothing
  <2>3. QED
    BY <2>1, <2>2
<1>6. QED
  BY <1>1, <1>3, <1>4, <1>5 DEF TempInv

-----------------------------------------------------------------------------
(* The commands of the accelerometer *)

\* What goes over the bus, and what every command is: reads, and writes of the same
\* registers after them, of values that stay in their fields.
Wire == Device!Registers \cup {"OUT"}
Shaped(c) ==
  /\ c.name \notin {"idle", "none", "unknown", "set"}
  /\ c.order \in Seq(Wire) /\ Len(c.order) \in 1 .. 7
  /\ c.sets # {} => c.order \in Seq(Device!Registers) /\ Len(c.order) <= 2
  /\ \A s \in c.sets : /\ Device!At(s[1].pos, s[2]) \subseteq Device!Mask(s[1])
                       /\ Device!Mask(s[1]) \subseteq Device!Bits

LEMMA Short ==
  ASSUME NEW o, Len(o) = 1 \/ Len(o) = 2
  PROVE  Len(o) \in 1 .. 7 /\ Len(o) <= 2
OBVIOUS

LEMMA Joined ==
  ASSUME NEW S, NEW R \in Seq(S), NEW W \in Seq(S), NEW n \in Nat, Len(R) = n, Len(W) = n
  PROVE  /\ R \o W \in Seq(S) /\ Len(R \o W) = n + n
         /\ \A i \in 1 .. n + n : (R \o W)[i] = IF i <= n THEN R[i] ELSE W[i - n]
BY ConcatProperties

LEMMA TransfersShape ==
  ASSUME NEW c, Shaped(c)
  PROVE  /\ Device!Transfers(c) \in Seq({"read", "write"} \X Wire)
         /\ Len(Device!Transfers(c)) = Len(c.order) + (IF c.sets = {} THEN 0 ELSE Len(c.order))
         /\ \A i \in 1 .. Len(c.order) : Device!Transfers(c)[i] = <<"read", c.order[i]>>
         /\ \A i \in Len(c.order) + 1 .. Len(Device!Transfers(c)) :
              /\ i - Len(c.order) \in 1 .. Len(c.order)
              /\ Device!Transfers(c)[i] = <<"write", c.order[i - Len(c.order)]>>
<1> DEFINE n == Len(c.order)
           R == [i \in 1 .. n |-> <<"read", c.order[i]>>]
           W == [i \in 1 .. n |-> <<"write", c.order[i]>>]
<1>1. n \in Nat /\ \A i \in 1 .. n : c.order[i] \in Wire
  BY DEF Shaped
<1>2. /\ R \in Seq({"read", "write"} \X Wire) /\ Len(R) = n
      /\ W \in Seq({"read", "write"} \X Wire) /\ Len(W) = n
  BY <1>1
<1>3. Device!Transfers(c) = R \o (IF c.sets = {} THEN <<>> ELSE W)
  BY DEF Device!Transfers
<1>4. \A i \in 1 .. n : R[i] = <<"read", c.order[i]>> /\ W[i] = <<"write", c.order[i]>>
  OBVIOUS
<1> HIDE DEF n, R, W
<1>5. CASE c.sets = {}
  <2>1. Device!Transfers(c) = R
    BY <1>2, <1>3, <1>5
  <2>2. QED
    BY <1>1, <1>2, <1>4, <1>5, <2>1 DEF n
<1>6. CASE c.sets # {}
  <2>1. Device!Transfers(c) = R \o W
    BY <1>3, <1>6
  <2>2. /\ Device!Transfers(c) \in Seq({"read", "write"} \X Wire)
        /\ Len(Device!Transfers(c)) = n + n
        /\ \A i \in 1 .. n + n : Device!Transfers(c)[i] = IF i <= n THEN R[i] ELSE W[i - n]
    BY <1>1, <1>2, <2>1, Joined
  <2>3. \A i \in 1 .. n : i \in 1 .. n + n /\ i <= n
    BY <1>1
  <2>4. \A i \in n + 1 .. n + n : i \in 1 .. n + n /\ ~(i <= n) /\ i - n \in 1 .. n
    BY <1>1
  <2>5. QED
    BY <1>1, <1>4, <1>6, <2>2, <2>3, <2>4 DEF n
<1>7. QED
  BY <1>5, <1>6

LEMMA Bit ==
  ASSUME NEW v \in Nat, NEW p \in Nat
  PROVE  /\ v <= 15 => Device!At(p, v) \subseteq p .. p + 3
         /\ v <= 3 => Device!At(p, v) \subseteq p .. p + 1
         /\ v <= 1 => Device!At(p, v) \subseteq {p}
<1>1. \A b \in 0 .. 3 : b = 0 \/ b = 1 \/ b = 2 \/ b = 3
  OBVIOUS
<1>2. 2 ^ 1 = 2 /\ 2 ^ 2 = 4 /\ 2 ^ 3 = 8
  OBVIOUS
<1>3. v <= 3 => (v \div 2 ^ 2) % 2 # 1 /\ (v \div 2 ^ 3) % 2 # 1
  <2>1. v <= 3 => v \div 4 = 0 /\ v \div 8 = 0
    OBVIOUS
  <2>2. QED
    BY <1>2, <2>1
<1>4. v <= 1 => (v \div 2 ^ 1) % 2 # 1
  <2>1. v <= 1 => v \div 2 = 0
    OBVIOUS
  <2>2. QED
    BY <1>2, <2>1
<1>5. ASSUME v <= 3, NEW b \in 0 .. 3, (v \div 2 ^ b) % 2 = 1
      PROVE  b \in 0 .. 1
  <2>1. b # 2 /\ b # 3
    BY <1>3, <1>5, Zenon
  <2>2. QED
    BY <2>1
<1>6. ASSUME v <= 1, NEW b \in 0 .. 3, (v \div 2 ^ b) % 2 = 1
      PROVE  b = 0
  <2>1. v <= 3
    BY <1>6
  <2>2. b \in 0 .. 1
    BY <1>5, <1>6, <2>1, Zenon
  <2>3. b # 1
    BY <1>4, <1>6, Zenon
  <2>4. QED
    BY <2>2, <2>3
<1> DEFINE S == {b \in 0 .. 3 : (v \div 2 ^ b) % 2 = 1}
<1>7. Device!At(p, v) = {p + b : b \in S}
  BY DEF Device!At
<1>8. S \subseteq 0 .. 3 /\ (v <= 3 => S \subseteq 0 .. 1) /\ (v <= 1 => S \subseteq {0})
  BY <1>5, <1>6
<1> HIDE DEF S
<1>9. QED
  BY <1>7, <1>8

\* The fields of the registers, and the values they take.
Fits(f, v) == Device!At(f.pos, v) \subseteq Device!Mask(f) /\ Device!Mask(f) \subseteq Device!Bits

LEMMA FieldsFit ==
  /\ \A v \in 0 .. 1 : /\ Fits(Device!TEMP_EN, v) /\ Fits(Device!ADC_EN, v)
                       /\ Fits(Device!BDU, v) /\ Fits(Device!LPen, v)
                       /\ Fits(Device!HR, v)
  /\ \A v \in 0 .. 3 : Fits(Device!FS, v)
  /\ \A v \in 0 .. 9 : Fits(Device!ODR, v)
<1> USE DEF Device!Field
<1>1. /\ Device!TEMP_EN.pos = 6 /\ Device!Mask(Device!TEMP_EN) = {6}
      /\ Device!ADC_EN.pos = 7 /\ Device!Mask(Device!ADC_EN) = {7}
      /\ Device!BDU.pos = 7 /\ Device!Mask(Device!BDU) = {7}
      /\ Device!LPen.pos = 3 /\ Device!Mask(Device!LPen) = {3}
      /\ Device!HR.pos = 2 /\ Device!Mask(Device!HR) = 2 .. 3
      /\ Device!FS.pos = 4 /\ Device!Mask(Device!FS) = 4 .. 5
      /\ Device!ODR.pos = 4 /\ Device!Mask(Device!ODR) = 4 .. 7
  BY DEF Device!TEMP_EN, Device!ADC_EN, Device!BDU, Device!LPen, Device!HR, Device!FS,
         Device!ODR, Device!Mask
<1>2. \A v \in 0 .. 1 : v \in Nat /\ v <= 1
  OBVIOUS
<1>3. \A v \in 0 .. 3 : v \in Nat /\ v <= 3
  OBVIOUS
<1>4. \A v \in 0 .. 9 : v \in Nat /\ v <= 15
  OBVIOUS
<1>5. \A v \in 0 .. 1 : /\ Fits(Device!TEMP_EN, v) /\ Fits(Device!ADC_EN, v)
                        /\ Fits(Device!BDU, v) /\ Fits(Device!LPen, v)
                        /\ Fits(Device!HR, v)
  BY <1>1, <1>2, Bit DEF Fits, Device!Bits
<1>6. \A v \in 0 .. 3 : Fits(Device!FS, v)
  BY <1>1, <1>3, Bit DEF Fits, Device!Bits
<1>7. \A v \in 0 .. 9 : Fits(Device!ODR, v)
  BY <1>1, <1>4, Bit DEF Fits, Device!Bits
<1>8. QED
  BY <1>5, <1>6, <1>7

\* One register, or two.
LEMMA WritesOne ==
  ASSUME NEW name, name \notin {"idle", "none", "unknown", "set"},
         NEW r \in Device!Registers, NEW f, NEW v,
         Fits(f, v), NEW c, c = Device!Writes(name, <<r>>, {<<f, v>>})
  PROVE  Shaped(c)
<1>1. c.name = name /\ c.order = <<r>> /\ c.sets = {<<f, v>>}
  BY DEF Device!Writes
<1>2. <<r>> \in Seq(Wire) /\ <<r>> \in Seq(Device!Registers) /\ Len(<<r>>) = 1
  BY DEF Wire
<1>3. \A s \in c.sets : Fits(s[1], s[2])
  BY <1>1
<1>4. c.order \in Seq(Wire) /\ c.order \in Seq(Device!Registers)
  BY <1>1, <1>2
<1>5. Len(c.order) \in 1 .. 7 /\ Len(c.order) <= 2
  <2>1. Len(c.order) = 1
    BY <1>1, <1>2, Zenon
  <2>2. QED
    BY <2>1, Short, Zenon
<1>6. \A s \in c.sets : /\ Device!At(s[1].pos, s[2]) \subseteq Device!Mask(s[1])
                         /\ Device!Mask(s[1]) \subseteq Device!Bits
  BY <1>3 DEF Fits
<1>7. c.name \notin {"idle", "none", "unknown", "set"}
  BY <1>1
<1>8. QED
  BY <1>4, <1>5, <1>6, <1>7 DEF Shaped

LEMMA WritesTwo ==
  ASSUME NEW name, name \notin {"idle", "none", "unknown", "set"},
         NEW r \in Device!Registers, NEW r2 \in Device!Registers,
         NEW f, NEW v, Fits(f, v), NEW f2, NEW v2, Fits(f2, v2),
         NEW c, c = Device!Writes(name, <<r, r2>>, {<<f, v>>, <<f2, v2>>})
  PROVE  Shaped(c)
<1>1. c.name = name /\ c.order = <<r, r2>> /\ c.sets = {<<f, v>>, <<f2, v2>>}
  BY DEF Device!Writes
<1>2. <<r, r2>> \in Seq(Wire) /\ <<r, r2>> \in Seq(Device!Registers) /\ Len(<<r, r2>>) = 2
  BY DEF Wire
<1>3. \A s \in c.sets : Fits(s[1], s[2])
  BY <1>1
<1>4. c.order \in Seq(Wire) /\ c.order \in Seq(Device!Registers)
  BY <1>1, <1>2
<1>5. Len(c.order) \in 1 .. 7 /\ Len(c.order) <= 2
  <2>1. Len(c.order) = 2
    BY <1>1, <1>2, Zenon
  <2>2. QED
    BY <2>1, Short, Zenon
<1>6. \A s \in c.sets : /\ Device!At(s[1].pos, s[2]) \subseteq Device!Mask(s[1])
                         /\ Device!Mask(s[1]) \subseteq Device!Bits
  BY <1>3 DEF Fits
<1>7. c.name \notin {"idle", "none", "unknown", "set"}
  BY <1>1
<1>8. QED
  BY <1>4, <1>5, <1>6, <1>7 DEF Shaped

LEMMA ReadsSome ==
  ASSUME NEW name, name \notin {"idle", "none", "unknown", "set"}, NEW n \in 1 .. 7,
         NEW c, c = Device!Reads(name, n)
  PROVE  Shaped(c)
<1>1. c.name = name /\ c.order = [i \in 1 .. n |-> "OUT"] /\ c.sets = {}
  BY DEF Device!Reads
<1>2. [i \in 1 .. n |-> "OUT"] \in Seq(Wire) /\ Len([i \in 1 .. n |-> "OUT"]) = n
  BY DEF Wire
<1>3. QED
  BY <1>1, <1>2 DEF Shaped

LEMMA RateFacts ==
  /\ Rates \subseteq 0 .. 9 /\ Scales \subseteq 0 .. 3
  /\ DeviceRates \subseteq 0 .. 9 /\ DeviceScales \subseteq 0 .. 3
BY DeviceAssumption, DevicesAssumption DEF DeviceAssumption, DevicesAssumption, Device!DeviceAssumption

LEMMA SwitchShaped ==
  ASSUME NEW on \in BOOLEAN, NEW c,
         \/ c = Device!Switch("aux_adcs", Device!ADC_EN, on)
         \/ c = Device!Switch("temp_sensor", Device!TEMP_EN, on)
         \/ c = Device!Switch("BDU", Device!BDU, on)
  PROVE  Shaped(c)
<1> DEFINE v == IF on THEN 1 ELSE 0
<1>1. v \in 0 .. 1
  OBVIOUS
<1>2. /\ Device!ADC_EN.reg = "TEMP_CFG_REG" /\ Device!TEMP_EN.reg = "TEMP_CFG_REG"
      /\ Device!BDU.reg = "CTRL_REG4"
  BY DEF Device!ADC_EN, Device!TEMP_EN, Device!BDU, Device!Field
<1>3. "TEMP_CFG_REG" \in Device!Registers /\ "CTRL_REG4" \in Device!Registers
  BY DEF Device!Registers
<1>4. /\ Device!Switch("aux_adcs", Device!ADC_EN, on)
           = Device!Writes("aux_adcs", <<"TEMP_CFG_REG">>, {<<Device!ADC_EN, v>>})
      /\ Device!Switch("temp_sensor", Device!TEMP_EN, on)
           = Device!Writes("temp_sensor", <<"TEMP_CFG_REG">>, {<<Device!TEMP_EN, v>>})
      /\ Device!Switch("BDU", Device!BDU, on)
           = Device!Writes("BDU", <<"CTRL_REG4">>, {<<Device!BDU, v>>})
  BY <1>2, Zenon DEF Device!Switch
<1> HIDE DEF v
<1>5. QED
  BY <1>1, <1>3, <1>4, FieldsFit, WritesOne

LEMMA SettingShaped ==
  ASSUME NEW c, NEW v,
         \/ v \in 0 .. 9 /\ c = Device!Writes("set_ODR", <<"CTRL_REG1">>, {<<Device!ODR, v>>})
         \/ v \in 0 .. 3 /\ c = Device!Writes("set_scale", <<"CTRL_REG4">>, {<<Device!FS, v>>})
  PROVE  Shaped(c)
<1>1. "CTRL_REG1" \in Device!Registers /\ "CTRL_REG4" \in Device!Registers
  BY DEF Device!Registers
<1>2. QED
  BY <1>1, FieldsFit, WritesOne

LEMMA ResolutionShaped ==
  ASSUME NEW lp \in 0 .. 1, NEW hr \in 0 .. 1, NEW c, c = Device!Resolution(lp, hr)
  PROVE  Shaped(c)
<1>1. "CTRL_REG1" \in Device!Registers /\ "CTRL_REG4" \in Device!Registers
  BY DEF Device!Registers
<1>2. Fits(Device!LPen, lp) /\ Fits(Device!HR, hr)
  BY FieldsFit
<1>3. QED
  BY <1>1, <1>2, WritesTwo DEF Device!Resolution

LEMMA CommandsShaped ==
  /\ \A c \in Device!Commands : Shaped(c)
  /\ \A c \in Commands : Shaped(c)
<1>1. ASSUME NEW c \in Device!Commands PROVE Shaped(c)
  <2>1. CASE \E on \in BOOLEAN : \/ c = Device!Switch("aux_adcs", Device!ADC_EN, on)
                                 \/ c = Device!Switch("temp_sensor", Device!TEMP_EN, on)
                                 \/ c = Device!Switch("BDU", Device!BDU, on)
    BY <2>1, SwitchShaped
  <2>2. CASE \/ \E v \in DeviceRates :
                  c = Device!Writes("set_ODR", <<"CTRL_REG1">>, {<<Device!ODR, v>>})
             \/ \E v \in DeviceScales :
                  c = Device!Writes("set_scale", <<"CTRL_REG4">>, {<<Device!FS, v>>})
    BY <2>2, RateFacts, SettingShaped
  <2>3. CASE c \in {Device!Resolution(1, 0), Device!Resolution(0, 0), Device!Resolution(0, 1)}
    BY <2>3, ResolutionShaped
  <2>4. CASE c \in {Device!Reads("get_temp", 2), Device!Reads("get_acceleration", 7)}
    BY <2>4, ReadsSome
  <2>5. QED
    BY <2>1, <2>2, <2>3, <2>4, Zenon DEF Device!Commands
<1>2. ASSUME NEW c \in Commands PROVE Shaped(c)
  <2> USE DEF Field, Device!Field, ADC_EN, Device!ADC_EN, TEMP_EN, Device!TEMP_EN, BDU,
              Device!BDU, ODR, Device!ODR, FS, Device!FS, LPen, Device!LPen, HR, Device!HR
  <2> USE DEF Writes, Device!Writes
  <2>1. CASE \E on \in BOOLEAN : \/ c = Switch("aux_adcs", ADC_EN, on)
                                 \/ c = Switch("temp_sensor", TEMP_EN, on)
                                 \/ c = Switch("BDU", BDU, on)
    <3>1. \E on \in BOOLEAN : \/ c = Device!Switch("aux_adcs", Device!ADC_EN, on)
                              \/ c = Device!Switch("temp_sensor", Device!TEMP_EN, on)
                              \/ c = Device!Switch("BDU", Device!BDU, on)
      BY <2>1, Zenon DEF Switch, Device!Switch
    <3>2. QED
      BY <3>1, SwitchShaped
  <2>2. CASE \/ \E v \in Rates : c = Writes("set_ODR", <<"CTRL_REG1">>, {<<ODR, v>>})
             \/ \E v \in Scales : c = Writes("set_scale", <<"CTRL_REG4">>, {<<FS, v>>})
    <3>1. \/ \E v \in Rates :
                  c = Device!Writes("set_ODR", <<"CTRL_REG1">>, {<<Device!ODR, v>>})
          \/ \E v \in Scales :
                  c = Device!Writes("set_scale", <<"CTRL_REG4">>, {<<Device!FS, v>>})
      BY <2>2, Zenon
    <3>2. QED
      BY <3>1, RateFacts, SettingShaped
  <2>3. CASE c \in {Resolution(1, 0), Resolution(0, 0), Resolution(0, 1)}
    <3>1. c \in {Device!Resolution(1, 0), Device!Resolution(0, 0), Device!Resolution(0, 1)}
      BY <2>3, Zenon DEF Resolution, Device!Resolution
    <3>2. QED
      BY <3>1, ResolutionShaped
  <2>4. CASE c \in {Reads("get_temp", 2), Reads("get_acceleration", 7)}
    <3>1. c \in {Device!Reads("get_temp", 2), Device!Reads("get_acceleration", 7)}
      BY <2>4, Zenon DEF Reads, Device!Reads
    <3>2. QED
      BY <3>1, ReadsSome
  <2>5. QED
    BY <2>1, <2>2, <2>3, <2>4, Zenon DEF Commands
<1>3. QED
  BY <1>1, <1>2

-----------------------------------------------------------------------------
(* The driver of the accelerometer, on a bus that fails or not *)

\* The bits of a register that a command may set.
Own(c, r) == UNION {Device!Mask(s[1]) : s \in {s \in c.sets : s[1].reg = r}}

\* But for its own bits a register of the task is as it was when the command began.
Kept(values, r) == values[r] \ Own(op, r) = before[r] \ Own(op, r)

\* The reads of a command are done before its writes; what is on the bus is its next
\* transfer, and a value that is written is of a register that has been read; the flag
\* says that the transfer the task waits for is over.
DriverInv ==
  /\ regs \in [Device!Registers -> SUBSET Device!Bits]
  /\ before \in [Device!Registers -> SUBSET Device!Bits]
  /\ local \in [Device!Registers -> SUBSET Device!Bits]
  /\ waiting \in BOOLEAN /\ flags \subseteq {"MEM", "ERR"}
  /\ result \in {"none", "OK", "ERROR"}
  /\ step \in 0 .. 7
  /\ op = Device!Idle \/ (Shaped(op) /\ step < Len(Device!Transfers(op)))
  /\ op = Device!Idle \/ ~waiting => bus = Device!Idle /\ "MEM" \notin flags
  /\ op = Device!Idle => ~waiting
  /\ bus # Device!Idle =>
       /\ bus.transfer = Device!Transfers(op)[step + 1]
       /\ bus.value = IF bus.transfer[1] = "write"
                        THEN Device!Written(op, bus.transfer[2]) ELSE {}
       /\ "MEM" \notin flags
  /\ op # Device!Idle =>
       /\ \A r \in Device!Registers : Kept(regs, r)
       /\ \A i \in 1 .. Len(op.order) :
            op.order[i] \in Device!Registers
              /\ (i <= step \/ (i = step + 1 /\ "MEM" \in flags)) => Kept(local, op.order[i])

\* The lengths of a command and of its transfers.
LEMMA LengthSums ==
  ASSUME NEW sets, NEW n \in 1 .. 7, sets # {} => n <= 2, NEW m,
         m = n + (IF sets = {} THEN 0 ELSE n)
  PROVE  n \in 1 .. 7 /\ m \in 1 .. 7 /\ (m = n \/ (sets # {} /\ m = n + n /\ n <= 2))
OBVIOUS

LEMMA Lengths ==
  ASSUME NEW c, Shaped(c), NEW n, n = Len(c.order), NEW m, m = Len(Device!Transfers(c))
  PROVE  n \in 1 .. 7 /\ m \in 1 .. 7 /\ (m = n \/ (c.sets # {} /\ m = n + n /\ n <= 2))
<1>1. m = n + (IF c.sets = {} THEN 0 ELSE n)
  BY TransfersShape, Zenon
<1>2. n \in 1 .. 7 /\ (c.sets # {} => n <= 2)
  BY Zenon DEF Shaped
<1>3. QED
  BY <1>1, <1>2, LengthSums, Zenon

LEMMA TransferAt ==
  ASSUME NEW c, Shaped(c), NEW n, n = Len(c.order), NEW i \in 1 .. Len(Device!Transfers(c))
  PROVE  \/ /\ i <= n /\ Device!Transfers(c)[i][1] = "read"
            /\ Device!Transfers(c)[i][2] = c.order[i]
         \/ /\ i > n /\ Device!Transfers(c)[i][1] = "write" /\ i - n \in 1 .. n
            /\ Device!Transfers(c)[i][2] = c.order[i - n]
            /\ c.order[i - n] \in Device!Registers
<1> DEFINE m == Len(Device!Transfers(c))
<1>1. n \in 1 .. 7 /\ m \in 1 .. 7 /\ (m = n \/ (c.sets # {} /\ m = n + n /\ n <= 2))
  BY Lengths
<1>2. i \in 1 .. m
  OBVIOUS
<1>3. /\ \A j \in 1 .. n : Device!Transfers(c)[j] = <<"read", c.order[j]>>
      /\ \A j \in n + 1 .. m :
           /\ j - n \in 1 .. n /\ Device!Transfers(c)[j] = <<"write", c.order[j - n]>>
  BY TransfersShape, Zenon
<1>4. c.sets # {} => \A j \in 1 .. n : c.order[j] \in Device!Registers
  <2>1. c.sets # {} => c.order \in Seq(Device!Registers)
    BY DEF Shaped
  <2>2. QED
    BY <2>1
<1> HIDE DEF m
<1>5. CASE i <= n
  <2>1. i \in 1 .. n
    BY <1>1, <1>2, <1>5
  <2>2. Device!Transfers(c)[i] = <<"read", c.order[i]>>
    BY <1>3, <2>1, Zenon
  <2>3. QED
    BY <1>5, <2>2
<1>6. CASE i > n
  <2>1. i \in n + 1 .. m /\ m # n
    BY <1>1, <1>2, <1>6
  <2>2. i - n \in 1 .. n /\ Device!Transfers(c)[i] = <<"write", c.order[i - n]>>
    BY <1>3, <2>1, Zenon
  <2>3. c.order[i - n] \in Device!Registers
    BY <1>1, <1>4, <2>1, <2>2, Zenon
  <2>4. QED
    BY <1>6, <2>2, <2>3
<1>7. QED
  BY <1>1, <1>2, <1>5, <1>6

\* A value that is written differs from the one read in the bits of the command only.
LEMMA WrittenOwn ==
  ASSUME NEW c, Shaped(c), NEW r \in Device!Registers,
         local \in [Device!Registers -> SUBSET Device!Bits]
  PROVE  /\ Device!Written(c, r) \subseteq Device!Bits
         /\ Device!Written(c, r) \ Own(c, r) = local[r] \ Own(c, r)
<1> DEFINE S == {s \in c.sets : s[1].reg = r}
           news == UNION {Device!At(s[1].pos, s[2]) : s \in S}
<1>1. Device!Written(c, r) = local[r] \cup news
  BY DEF Device!Written
<1>2. Own(c, r) = UNION {Device!Mask(s[1]) : s \in S}
  BY DEF Own
<1>3. \A s \in S : /\ Device!At(s[1].pos, s[2]) \subseteq Device!Mask(s[1])
                   /\ Device!Mask(s[1]) \subseteq Device!Bits
  BY DEF Shaped
<1> HIDE DEF S
<1>4. news \subseteq Own(c, r) /\ news \subseteq Device!Bits
  BY <1>2, <1>3
<1> HIDE DEF news
<1>5. QED
  BY <1>1, <1>4

LEMMA DriverInit == DeviceInit => DriverInv
<1> SUFFICES ASSUME DeviceInit PROVE DriverInv
  OBVIOUS
<1>1. Device!Idle = Idle /\ Device!Registers = Registers /\ Device!Bits = 0 .. 7
  BY DEF Device!Idle, Idle, Device!Registers, Registers, Device!Bits
<1>2. waiting \in BOOLEAN /\ ~waiting /\ bus = Idle /\ op = Idle
  BY Zenon DEF DeviceInit
<1>3. /\ regs \in [Registers -> SUBSET (0 .. 7)] /\ before = regs
      /\ local \in [Registers -> SUBSET (0 .. 7)]
  BY DEF DeviceInit, Unread
<1>4. step = 0 /\ flags = {} /\ result = "none"
  BY DEF DeviceInit
<1>5. QED
  BY <1>1, <1>2, <1>3, <1>4 DEF DriverInv

\* A call of a command begins with all of its transfers ahead.
LEMMA DriverCall ==
  ASSUME DriverInv, NEW c, Shaped(c), Device!Call(c)
  PROVE  DriverInv'
<1>1. /\ op = Device!Idle /\ op' = c /\ step' = 0 /\ before' = regs
      /\ local' = Device!Unread
      /\ UNCHANGED <<regs, bus, waiting, flags, result>>
  BY DEF Device!Call
<1>2. /\ bus = Device!Idle /\ "MEM" \notin flags /\ ~waiting
  BY <1>1 DEF DriverInv
<1>3. Len(Device!Transfers(c)) \in 1 .. 7
  BY Lengths
<1>4. local' \in [Device!Registers -> SUBSET Device!Bits]
  BY <1>1 DEF Device!Unread
<1>5. /\ regs' \in [Device!Registers -> SUBSET Device!Bits]
      /\ before' \in [Device!Registers -> SUBSET Device!Bits]
      /\ waiting' \in BOOLEAN /\ flags' \subseteq {"MEM", "ERR"}
      /\ result' \in {"none", "OK", "ERROR"} /\ step' \in 0 .. 7
  BY <1>1 DEF DriverInv
<1>6. Shaped(op') /\ step' < Len(Device!Transfers(op'))
  BY <1>1, <1>3
<1>7. bus' = Device!Idle /\ "MEM" \notin flags' /\ ~waiting'
  BY <1>1, <1>2
<1>8. \A r \in Device!Registers : Kept(regs, r)'
  BY <1>1 DEF Kept
<1>9. \A i \in 1 .. Len(op'.order) : ~(i <= step')
  BY <1>1
<1>10. QED
  BY <1>4, <1>5, <1>6, <1>7, <1>8, <1>9 DEF DriverInv


LEMMA DriverStart ==
  ASSUME DriverInv, Device!StartTransfer
  PROVE  DriverInv'
<1> DEFINE t == Device!Transfers(op)[step + 1]
<1>1. /\ op # Device!Idle /\ ~waiting /\ waiting' = TRUE
      /\ bus' = [transfer |-> t,
                 value |-> IF t[1] = "write" THEN Device!Written(op, t[2]) ELSE {}]
      /\ UNCHANGED <<regs, op, step, local, flags, result, before>>
  BY Zenon DEF Device!StartTransfer
<1>2. "MEM" \notin flags
  BY <1>1 DEF DriverInv
<1>3. /\ bus'.transfer = t
      /\ bus'.value = IF t[1] = "write" THEN Device!Written(op, t[2]) ELSE {}
  BY <1>1
<1>4. t' = t /\ \A r : Device!Written(op, r)' = Device!Written(op, r)
  BY <1>1 DEF Device!Written
<1>5. QED
  BY <1>1, <1>2, <1>3, <1>4 DEF DriverInv, Kept

LEMMA DriverFails ==
  ASSUME DriverInv, Device!StartFails
  PROVE  DriverInv'
<1>1. /\ op # Device!Idle /\ ~waiting /\ op' = Device!Idle /\ result' = "ERROR"
      /\ UNCHANGED <<regs, step, local, bus, waiting, flags, before>>
  BY DEF Device!StartFails
<1>2. QED
  BY <1>1 DEF DriverInv


LEMMA DriverWake ==
  ASSUME DriverInv, Device!Wake
  PROVE  DriverInv'
<1>1. /\ waiting /\ "MEM" \in flags /\ waiting' = FALSE /\ flags' = flags \ {"MEM"}
      /\ UNCHANGED <<regs, local, bus, before>>
  BY Zenon DEF Device!Wake, Device!Woken, Device!Cleared
<1>2. op # Device!Idle /\ bus = Device!Idle /\ Shaped(op)
  BY <1>1 DEF DriverInv
<1> DEFINE m == Len(Device!Transfers(op))
<1>3. \/ op' = Device!Idle /\ result' = "OK" /\ step' = step
      \/ step + 1 # m /\ step' = step + 1 /\ op' = op /\ result' = result
  BY DEF Device!Wake, Device!Last
<1>4. m \in 1 .. 7 /\ step \in 0 .. 7 /\ step < m
  BY <1>2, Lengths DEF DriverInv
<1>5. /\ regs' \in [Device!Registers -> SUBSET Device!Bits]
      /\ before' \in [Device!Registers -> SUBSET Device!Bits]
      /\ local' \in [Device!Registers -> SUBSET Device!Bits]
      /\ waiting' \in BOOLEAN /\ flags' \subseteq {"MEM", "ERR"} /\ "MEM" \notin flags'
      /\ ~waiting' /\ bus' = Device!Idle
  BY <1>1, <1>2 DEF DriverInv
<1>6. result' \in {"none", "OK", "ERROR"}
  BY <1>3 DEF DriverInv
<1>7. CASE op' = Device!Idle /\ result' = "OK" /\ step' = step
  BY <1>4, <1>5, <1>6, <1>7 DEF DriverInv
<1>8. CASE step + 1 # m /\ step' = step + 1 /\ op' = op /\ result' = result
  <2>1. m' = m
    BY <1>8
  <2> HIDE DEF m
  <2>2. step' \in 0 .. 7 /\ step' < m'
    BY <1>4, <1>8, <2>1
  <2>3. \A r \in Device!Registers : Kept(regs, r)'
    BY <1>1, <1>2, <1>8 DEF DriverInv, Kept
  <2>5. \A i \in 1 .. Len(op.order) : i <= step' => i <= step \/ i = step + 1
    BY <1>4, <1>8
  <2>6. \A i \in 1 .. Len(op.order) :
          op.order[i] \in Device!Registers /\ i <= step' => Kept(local, op.order[i])
    BY <1>1, <1>2, <2>5 DEF DriverInv
  <2>7. (\A i \in 1 .. Len(op.order) :
           op.order[i] \in Device!Registers /\ i <= step => Kept(local, op.order[i]))'
    BY <1>1, <1>8, <2>6 DEF Kept, Own
  <2>8. Shaped(op') /\ step' < Len(Device!Transfers(op'))
    BY <1>2, <1>8, <2>2, Zenon DEF m
  <2>9. QED
    BY <1>5, <1>6, <2>2, <2>3, <2>7, <2>8 DEF DriverInv
<1>9. QED
  BY <1>3, <1>7, <1>8

\* The transfer on the bus is the read of a register, or the write of one with a value
\* that keeps the bits of the others.
LEMMA OnTheBus ==
  ASSUME DriverInv, bus # Device!Idle
  PROVE  /\ op # Device!Idle /\ Shaped(op) /\ waiting /\ "MEM" \notin flags
         /\ \/ /\ ~Device!Stored /\ step + 1 <= Len(op.order)
               /\ bus.transfer[2] = op.order[step + 1]
            \/ /\ Device!Stored /\ step + 1 > Len(op.order)
               /\ bus.transfer[2] \in Device!Registers
               /\ bus.value \subseteq Device!Bits
               /\ bus.value \ Own(op, bus.transfer[2])
                    = before[bus.transfer[2]] \ Own(op, bus.transfer[2])
<1> DEFINE n == Len(op.order)
           m == Len(Device!Transfers(op))
           r == bus.transfer[2]
<1>1. /\ op # Device!Idle /\ Shaped(op) /\ waiting /\ "MEM" \notin flags
      /\ step \in 0 .. 7 /\ step < m
      /\ local \in [Device!Registers -> SUBSET Device!Bits]
  BY DEF DriverInv
<1>2. /\ bus.transfer = Device!Transfers(op)[step + 1]
      /\ bus.value = IF bus.transfer[1] = "write" THEN Device!Written(op, r) ELSE {}
  BY DEF DriverInv
<1>3. m \in 1 .. 7 /\ n \in 1 .. 7
  BY <1>1, Lengths
<1>4. step + 1 \in 1 .. m
  BY <1>1, <1>3
<1>5. \/ /\ step + 1 <= n /\ bus.transfer[1] = "read" /\ r = op.order[step + 1]
      \/ /\ step + 1 > n /\ bus.transfer[1] = "write" /\ (step + 1) - n \in 1 .. n
         /\ r = op.order[(step + 1) - n] /\ r \in Device!Registers
  <2> DEFINE t == Device!Transfers(op)[step + 1]
  <2>1. \/ /\ step + 1 <= n /\ t[1] = "read" /\ t[2] = op.order[step + 1]
        \/ /\ step + 1 > n /\ t[1] = "write" /\ (step + 1) - n \in 1 .. n
           /\ t[2] = op.order[(step + 1) - n] /\ op.order[(step + 1) - n] \in Device!Registers
    BY <1>1, <1>4, TransferAt, Zenon
  <2>2. QED
    BY <1>2, <2>1, Zenon
<1>6. \A i \in 1 .. n : op.order[i] \in Device!Registers /\ i <= step => Kept(local, op.order[i])
  BY <1>1 DEF DriverInv
<1> HIDE DEF n, m, r
<1>7. CASE /\ step + 1 <= n /\ bus.transfer[1] = "read" /\ r = op.order[step + 1]
  BY <1>1, <1>7 DEF Device!Stored, n, r
<1>8. CASE /\ step + 1 > n /\ bus.transfer[1] = "write" /\ (step + 1) - n \in 1 .. n
           /\ r = op.order[(step + 1) - n] /\ r \in Device!Registers
  <2>1. bus.value = Device!Written(op, r)
    BY <1>2, <1>8
  <2>2. (step + 1) - n <= step
    BY <1>1, <1>3, <1>8
  <2>3. Kept(local, r)
    BY <1>6, <1>8, <2>2
  <2>4. /\ Device!Written(op, r) \subseteq Device!Bits
        /\ Device!Written(op, r) \ Own(op, r) = local[r] \ Own(op, r)
    BY <1>1, <1>8, WrittenOwn
  <2>5. bus.value \subseteq Device!Bits /\ bus.value \ Own(op, r) = before[r] \ Own(op, r)
    BY <2>1, <2>3, <2>4 DEF Kept
  <2>6. Device!Stored
    BY <1>8 DEF Device!Stored
  <2>7. QED
    BY <1>1, <1>8, <2>5, <2>6 DEF n, r
<1>9. QED
  BY <1>5, <1>7, <1>8


\* Storing the value on the bus keeps the bits of the others.
LEMMA DriverStore ==
  ASSUME DriverInv, bus # Device!Idle, Device!Store \/ UNCHANGED regs
  PROVE  /\ regs' \in [Device!Registers -> SUBSET Device!Bits]
         /\ \A r \in Device!Registers : regs'[r] \ Own(op, r) = before[r] \ Own(op, r)
<1> DEFINE q == bus.transfer[2]
<1>1. /\ regs \in [Device!Registers -> SUBSET Device!Bits]
      /\ \A r \in Device!Registers : regs[r] \ Own(op, r) = before[r] \ Own(op, r)
  BY OnTheBus DEF DriverInv, Kept
<1>2. CASE UNCHANGED regs
  BY <1>1, <1>2
<1>3. CASE Device!Store /\ ~Device!Stored
  BY <1>1, <1>3 DEF Device!Store
<1>4. CASE Device!Store /\ Device!Stored
  <2>1. regs' = [regs EXCEPT ![q] = bus.value]
    BY <1>4 DEF Device!Store
  <2>2. /\ q \in Device!Registers /\ bus.value \subseteq Device!Bits
        /\ bus.value \ Own(op, q) = before[q] \ Own(op, q)
    BY <1>4, OnTheBus
  <2> HIDE DEF q
  <2>3. regs' \in [Device!Registers -> SUBSET Device!Bits]
    BY <1>1, <2>1, <2>2
  <2>4. \A r \in Device!Registers : regs'[r] = IF r = q THEN bus.value ELSE regs[r]
    BY <1>1, <2>1, <2>2
  <2>5. QED
    BY <1>1, <2>2, <2>3, <2>4
<1>5. QED
  BY <1>2, <1>3, <1>4

LEMMA DriverInterrupt ==
  ASSUME DriverInv, Device!Interrupt
  PROVE  DriverInv'
<1>1. /\ bus # Device!Idle /\ bus' = Device!Idle
      /\ UNCHANGED <<op, step, waiting, result, before>>
      /\ Device!Store \/ UNCHANGED regs
  BY DEF Device!Interrupt, Device!Complete, Device!Error
<1>2. /\ op # Device!Idle /\ Shaped(op) /\ waiting /\ "MEM" \notin flags
  BY <1>1, OnTheBus
<1>3. /\ regs' \in [Device!Registers -> SUBSET Device!Bits]
      /\ \A r \in Device!Registers : regs'[r] \ Own(op, r) = before[r] \ Own(op, r)
  BY <1>1, DriverStore
<1>4. /\ before' \in [Device!Registers -> SUBSET Device!Bits]
      /\ waiting' \in BOOLEAN /\ result' \in {"none", "OK", "ERROR"} /\ step' \in 0 .. 7
      /\ Shaped(op') /\ step' < Len(Device!Transfers(op')) /\ op' # Device!Idle /\ waiting'
  BY <1>1, <1>2, Zenon DEF DriverInv
<1>5. (\A r \in Device!Registers : Kept(regs, r))'
  BY <1>1, <1>3 DEF Kept, Own
<1>6. \A i \in 1 .. Len(op.order) :
        op.order[i] \in Device!Registers /\ i <= step =>
          local[op.order[i]] \ Own(op, op.order[i]) = before[op.order[i]] \ Own(op, op.order[i])
  BY <1>2 DEF DriverInv, Kept
<1>7. /\ local' \in [Device!Registers -> SUBSET Device!Bits]
      /\ flags' \subseteq {"MEM", "ERR"}
      /\ \A i \in 1 .. Len(op.order) :
           op.order[i] \in Device!Registers /\ (i <= step \/ (i = step + 1 /\ "MEM" \in flags')) =>
             local'[op.order[i]] \ Own(op, op.order[i])
               = before[op.order[i]] \ Own(op, op.order[i])
  <2>1. CASE Device!Error
    <3>1. local' = local /\ flags' = flags \cup {"ERR"}
      BY <2>1 DEF Device!Error
    <3>2. QED
      BY <1>2, <1>6, <3>1 DEF DriverInv
  <2>2. CASE Device!Complete
    <3> DEFINE q == bus.transfer[2]
    <3>1. flags' = flags \cup {"MEM"}
      BY <2>2 DEF Device!Complete
    <3>2. /\ regs \in [Device!Registers -> SUBSET Device!Bits]
          /\ local \in [Device!Registers -> SUBSET Device!Bits] /\ step \in 0 .. 7
          /\ flags \subseteq {"MEM", "ERR"}
          /\ \A r \in Device!Registers : regs[r] \ Own(op, r) = before[r] \ Own(op, r)
      BY <1>2 DEF DriverInv, Kept
    <3>3. CASE ~Device!Stored /\ q \in Device!Registers
      <4>1. local' = [local EXCEPT ![q] = regs[q]]
        BY <2>2, <3>3 DEF Device!Complete
      <4>2. q = op.order[step + 1]
        BY <1>1, <3>3, OnTheBus
      <4> HIDE DEF q
      <4>3. \A r \in Device!Registers : local'[r] = IF r = q THEN regs[r] ELSE local[r]
        BY <3>2, <3>3, <4>1
      <4>4. local' \in [Device!Registers -> SUBSET Device!Bits]
        BY <3>2, <3>3, <4>1
      <4>5. regs[q] \ Own(op, q) = before[q] \ Own(op, q)
        BY <3>2, <3>3
      <4>6. ASSUME NEW i \in 1 .. Len(op.order), op.order[i] \in Device!Registers,
                   i <= step \/ i = step + 1
            PROVE  local'[op.order[i]] \ Own(op, op.order[i])
                     = before[op.order[i]] \ Own(op, op.order[i])
        <5>1. CASE op.order[i] = q
          BY <3>3, <4>3, <4>5, <4>6, <5>1
        <5>2. CASE op.order[i] # q
          <6>1. i <= step
            BY <4>2, <4>6, <5>2
          <6>2. local'[op.order[i]] = local[op.order[i]]
            BY <4>3, <4>6, <5>2
          <6>3. QED
            BY <1>6, <4>6, <6>1, <6>2
        <5>3. QED
          BY <5>1, <5>2
      <4>7. QED
        BY <3>1, <3>2, <4>4, <4>6
    <3>4. CASE Device!Stored \/ q \notin Device!Registers
      <4>1. local' = local
        BY <2>2, <3>4 DEF Device!Complete
      <4>2. \A i \in 1 .. Len(op.order) : op.order[i] \in Device!Registers => i # step + 1
        BY <1>1, <3>2, <3>4, OnTheBus
      <4>3. QED
        BY <1>6, <3>1, <3>2, <4>1, <4>2
    <3>5. QED
      BY <3>3, <3>4
  <2>3. QED
    BY <2>1, <2>2 DEF Device!Interrupt
<1>8. (\A i \in 1 .. Len(op.order) :
         op.order[i] \in Device!Registers /\ (i <= step \/ (i = step + 1 /\ "MEM" \in flags)) =>
           Kept(local, op.order[i]))'
  BY <1>1, <1>7 DEF Kept, Own
<1>9. QED
  BY <1>1, <1>3, <1>4, <1>5, <1>7, <1>8 DEF DriverInv

LEMMA DriverStays ==
  ASSUME DriverInv, UNCHANGED deviceVars
  PROVE  DriverInv'
<1>1. UNCHANGED <<regs, op, step, local, bus, waiting, flags, result, before>>
  BY DEF deviceVars
<1>2. QED
  BY <1>1 DEF DriverInv, Kept, Own, Device!Written

\* The driver under the tasks takes the same steps; it may refuse to fail.
LEMMA SameDriver ==
  /\ \A c : Call(c) => Device!Call(c)
  /\ DriverStep => Device!StartTransfer \/ Device!StartFails \/ Device!Wake
  /\ Interrupt => Device!Interrupt
<1>1. /\ Idle = Device!Idle /\ Registers = Device!Registers /\ Unread = Device!Unread
      /\ Stored <=> Device!Stored
      /\ \A c : Transfers(c) = Device!Transfers(c)
      /\ \A c, r : Written(c, r) = Device!Written(c, r)
  BY DEF Idle, Device!Idle, Registers, Device!Registers, Unread, Device!Unread, Stored,
         Device!Stored, Transfers, Device!Transfers, Written, Device!Written, At, Device!At
<1>2. Store => Device!Store
  BY <1>1 DEF Store, Device!Store
<1>3. QED
  BY <1>1, <1>2 DEF Call, Device!Call, DriverStep, StartTransfer, Device!StartTransfer,
     StartFails, Device!StartFails, Wake, Device!Wake, Woken, Device!Woken, Cleared,
     Device!Cleared, Last, Device!Last, Interrupt, Device!Interrupt, Complete,
     Device!Complete, Error, Device!Error

-----------------------------------------------------------------------------
(* The tasks over the driver and the pool *)

\* The messages of a task, in its queue and in its hands.
HeldBy(t) == IF held[t] # None THEN 1 ELSE 0
Queued(t) == Len(queue[t])
Has(t) == Queued(t) + HeldBy(t)
Total == Has("i2c4") + Has("default")

\* A message under way is held by the task that drives the device; what the tasks own was
\* taken from the pool.
TasksInv ==
  /\ op = Idle \/ (op \in Commands /\ held["i2c4"] = op)
  /\ free \in 0 .. PoolSize
  /\ queue \in [Tasks -> Seq(Messages("i2c4") \cup Messages("default"))]
  /\ \A t \in Tasks : queue[t] \in Seq(Messages(t)) /\ Len(queue[t]) <= QueueSize
  /\ held \in [Tasks -> Messages("i2c4") \cup Messages("default") \cup {None}]
  /\ \A t \in Tasks : held[t] \in Messages(t) \cup {None}
  /\ Total <= PoolSize - free
  /\ reading \in {"measured", "stale"}
  /\ published \subseteq {"measured", "stale"} /\ refused \subseteq Tasks

LEMMA TaskCounts ==
  ASSUME TasksInv, NEW t \in Tasks
  PROVE  Queued(t) \in Nat /\ Queued(t) <= QueueSize /\ HeldBy(t) \in 0 .. 1 /\ Has(t) \in Nat
<1>1. queue[t] \in Seq(Messages(t)) /\ Len(queue[t]) <= QueueSize
  BY DEF TasksInv
<1>2. Queued(t) \in Nat /\ Queued(t) <= QueueSize
  BY <1>1 DEF Queued
<1>3. QED
  BY <1>2 DEF HeldBy, Has

LEMMA TotalNat ==
  ASSUME TasksInv
  PROVE  Total \in Nat
<1>1. "i2c4" \in Tasks /\ "default" \in Tasks
  BY DEF Tasks
<1>2. QED
  BY <1>1, TaskCounts DEF Total

LEMMA OwnedSum ==
  ASSUME TasksInv
  PROVE  Owned = Total
<1> DEFINE S == {t \in Tasks : held[t] # None}
<1>1. S \subseteq {"i2c4", "default"} /\ \A t \in Tasks : t \in S <=> held[t] # None
  BY DEF Tasks
<1>2. Tasks = {"i2c4", "default"}
  BY DEF Tasks
<1> HIDE DEF S
<1>3. Cardinality(S) = HeldBy("i2c4") + HeldBy("default")
  <2>1. CASE held["i2c4"] = None /\ held["default"] = None
    <3>1. S = {}
      BY <1>1, <1>2, <2>1
    <3>2. QED
      BY <2>1, <3>1, FS_EmptySet DEF HeldBy
  <2>2. CASE held["i2c4"] # None /\ held["default"] = None
    <3>1. S = {"i2c4"}
      BY <1>1, <1>2, <2>2
    <3>2. Cardinality(S) = 1 /\ HeldBy("i2c4") = 1 /\ HeldBy("default") = 0
      BY <2>2, <3>1, FS_Singleton, Zenon DEF HeldBy
    <3>3. QED
      BY <3>2
  <2>3. CASE held["i2c4"] = None /\ held["default"] # None
    <3>1. S = {"default"}
      BY <1>1, <1>2, <2>3
    <3>2. QED
      BY <2>3, <3>1, FS_Singleton DEF HeldBy
  <2>4. CASE held["i2c4"] # None /\ held["default"] # None
    <3>1. S = {"i2c4"} \cup {"default"} /\ "default" \notin {"i2c4"}
      BY <1>1, <1>2, <2>4
    <3>2. IsFiniteSet({"i2c4"}) /\ Cardinality({"i2c4"}) = 1
      BY FS_Singleton
    <3>3. Cardinality(S) = 1 + 1
      BY <3>1, <3>2, FS_AddElement
    <3>4. QED
      BY <2>4, <3>3 DEF HeldBy
  <2>5. QED
    BY <2>1, <2>2, <2>3, <2>4
<1>4. Owned = Queued("i2c4") + Queued("default") + Cardinality(S)
  BY Zenon DEF Owned, S, Queued
<1>5. \A t \in Tasks : Queued(t) \in Nat /\ HeldBy(t) \in Nat
  BY TaskCounts
<1>6. QED
  BY <1>2, <1>3, <1>4, <1>5 DEF Has, Total

LEMMA PoolFacts == PoolSize \in Nat /\ PoolSize > 0 /\ QueueSize \in Nat /\ QueueSize > 0
BY PoolAssumption DEF PoolAssumption

LEMMA Names ==
  /\ \A c \in Commands : c \notin {None, Unknown, Bad, Idle}
  /\ None # Unknown /\ None # Bad /\ Unknown # Bad
<1>1. \A c \in Commands : c.name \notin {"idle", "none", "unknown", "set"}
  BY CommandsShaped DEF Shaped
<1>2. None.name = "none" /\ Unknown.name = "unknown" /\ Bad.name = "set" /\ Idle.name = "idle"
  BY DEF None, Unknown, Bad, Idle
<1>3. QED
  BY <1>1, <1>2

LEMMA MessagesNotNone == \A t \in Tasks : None \notin Messages(t)
  BY Names DEF Messages

LEMMA TasksInit == Init => TasksInv
<1> SUFFICES ASSUME Init PROVE TasksInv
  OBVIOUS
<1>1. op = Idle /\ free = PoolSize /\ reading = "stale" /\ published = {} /\ refused = {}
  BY DEF Init, DeviceInit
<1>2. queue = [t \in Tasks |-> <<>>] /\ held = [t \in Tasks |-> None]
  BY DEF Init
<1>3. \A t \in Tasks : queue[t] = <<>> /\ held[t] = None
  BY <1>2
<1>4. \A t : <<>> \in Seq(Messages(t)) /\ Len(<<>>) = 0
  OBVIOUS
<1>5. /\ queue \in [Tasks -> Seq(Messages("i2c4") \cup Messages("default"))]
      /\ held \in [Tasks -> Messages("i2c4") \cup Messages("default") \cup {None}]
  BY <1>2
<1>6. "i2c4" \in Tasks /\ "default" \in Tasks
  BY DEF Tasks
<1>7. Has("i2c4") = 0 /\ Has("default") = 0
  <2>1. \A t \in Tasks : Queued(t) = 0 /\ HeldBy(t) = 0
    BY <1>3, <1>4, Zenon DEF Queued, HeldBy
  <2>2. QED
    BY <1>6, <2>1 DEF Has
<1>9. \A t \in Tasks : queue[t] \in Seq(Messages(t)) /\ Len(queue[t]) <= QueueSize
  <2>1. 0 <= QueueSize
    BY PoolFacts
  <2>2. QED
    BY <1>3, <1>4, <2>1, Zenon
<1>10. QED
  BY <1>1, <1>3, <1>5, <1>7, <1>9, PoolFacts DEF TasksInv, Total


LEMMA TasksIncoming ==
  ASSUME TasksInv, NEW t \in Tasks, NEW m \in Messages(t), Incoming(t, m)
  PROVE  /\ TasksInv'
         /\ \/ Total' = Total /\ free' = free
            \/ Total' = Total + 1 /\ free' = free - 1
            \/ Total' = Total /\ free' = free - 1 /\ Queued(t) = QueueSize
<1>1. op' = op /\ held' = held /\ reading' = reading /\ published' = published
  BY DEF Incoming, deviceVars
<1>2. \A u : HeldBy(u)' = HeldBy(u)
  BY <1>1 DEF HeldBy
<1>3. Total \in Nat
  BY TotalNat
<1>4. /\ op' = Idle \/ (op' \in Commands /\ held'["i2c4"] = op')
      /\ held' \in [Tasks -> Messages("i2c4") \cup Messages("default") \cup {None}]
      /\ \A u \in Tasks : held'[u] \in Messages(u) \cup {None}
      /\ reading' \in {"measured", "stale"} /\ published' \subseteq {"measured", "stale"}
  BY <1>1 DEF TasksInv
<1>5. /\ free \in 0 .. PoolSize /\ PoolSize \in Nat
      /\ Total <= PoolSize - free
  BY PoolFacts DEF TasksInv
<1>6. CASE free = 0
  <2>1. /\ free' = free /\ queue' = queue /\ refused' = refused \cup {t}
    BY <1>6 DEF Incoming
  <2>2. Total' = Total
    BY <1>2, <2>1 DEF Total, Has, Queued
  <2>3. QED
    BY <1>4, <1>5, <2>1, <2>2 DEF TasksInv
<1>7. CASE free # 0 /\ Len(queue[t]) < QueueSize
  <2>1. /\ free' = free - 1 /\ queue' = [queue EXCEPT ![t] = Append(queue[t], m)]
        /\ refused' = refused
    BY <1>7 DEF Incoming
  <2>2. queue[t] \in Seq(Messages(t)) /\ m \in Messages("i2c4") \cup Messages("default")
    BY DEF TasksInv, Tasks
  <2>3. /\ Append(queue[t], m) \in Seq(Messages(t))
        /\ Append(queue[t], m) \in Seq(Messages("i2c4") \cup Messages("default"))
        /\ Len(Append(queue[t], m)) = Len(queue[t]) + 1
    BY <2>2 DEF TasksInv
  <2>4. \A u \in Tasks : queue'[u] = IF u = t THEN Append(queue[t], m) ELSE queue[u]
    BY <2>1 DEF TasksInv
  <2>5. queue' \in [Tasks -> Seq(Messages("i2c4") \cup Messages("default"))]
    BY <2>1, <2>3 DEF TasksInv
  <2>6. \A u \in Tasks : queue'[u] \in Seq(Messages(u)) /\ Len(queue'[u]) <= QueueSize
    <3>1. Len(queue[t]) + 1 <= QueueSize
      BY <1>7, <2>2, PoolFacts
    <3>2. \A u \in Tasks : queue[u] \in Seq(Messages(u)) /\ Len(queue[u]) <= QueueSize
      BY DEF TasksInv
    <3>3. QED
      BY <2>3, <2>4, <3>1, <3>2, Zenon
  <2>7. \A u \in Tasks : Queued(u)' = IF u = t THEN Queued(t) + 1 ELSE Queued(u)
    BY <2>3, <2>4, Zenon DEF Queued
  <2>8. Total' = Total + 1
    BY <1>2, <2>7, TaskCounts DEF Total, Has, Tasks
  <2>9. free' \in 0 .. PoolSize /\ Total' <= PoolSize - free'
    BY <1>3, <1>5, <1>7, <2>1, <2>8
  <2>10. refused' \subseteq Tasks
    BY <2>1 DEF TasksInv
  <2>11. QED
    BY <1>4, <2>1, <2>5, <2>6, <2>8, <2>9, <2>10 DEF TasksInv
<1>8. CASE free # 0 /\ ~(Len(queue[t]) < QueueSize)
  <2>1. free' = free - 1 /\ queue' = queue /\ refused' = refused
    BY <1>8 DEF Incoming
  <2>2. Total' = Total
    BY <1>2, <2>1 DEF Total, Has, Queued
  <2>3. Queued(t) = QueueSize
    BY <1>8, TaskCounts, PoolFacts DEF Queued
  <2>4. free' \in 0 .. PoolSize /\ Total' <= PoolSize - free'
    BY <1>3, <1>5, <1>8, <2>1, <2>2
  <2>5. QED
    BY <1>4, <2>1, <2>2, <2>3, <2>4 DEF TasksInv
<1>9. QED
  BY <1>6, <1>7, <1>8


\* A task gives a message back.
LEMMA Released ==
  ASSUME TasksInv, NEW t \in Tasks, held[t] # None, held' = [held EXCEPT ![t] = None],
         queue' = queue
  PROVE  /\ Total' = Total - 1 /\ Total' \in Nat
         /\ held' \in [Tasks -> Messages("i2c4") \cup Messages("default") \cup {None}]
         /\ \A u \in Tasks : held'[u] \in Messages(u) \cup {None}
         /\ queue' \in [Tasks -> Seq(Messages("i2c4") \cup Messages("default"))]
         /\ \A u \in Tasks : queue'[u] \in Seq(Messages(u)) /\ Len(queue'[u]) <= QueueSize
<1>1. \A u \in Tasks : held'[u] = IF u = t THEN None ELSE held[u]
  BY DEF TasksInv
<1>2. \A u \in Tasks : HeldBy(u)' = IF u = t THEN 0 ELSE HeldBy(u)
  BY <1>1 DEF HeldBy
<1>3. HeldBy(t) = 1
  BY DEF HeldBy
<1>4. \A u : Queued(u)' = Queued(u)
  BY DEF Queued
<1>5. Total' = Total - 1
  BY <1>2, <1>3, <1>4, TaskCounts DEF Total, Has, Tasks
<1>6. Total >= 1
  BY <1>3, TaskCounts DEF Total, Has, Tasks
<1>7. QED
  BY <1>1, <1>5, <1>6, TotalNat DEF TasksInv

LEMMA TasksTake ==
  ASSUME TasksInv, NEW t \in Tasks, Take(t)
  PROVE  TasksInv' /\ Total' = Total /\ free' = free
<1>1. /\ held[t] = None /\ queue[t] # <<>>
      /\ held' = [held EXCEPT ![t] = Head(queue[t])]
      /\ queue' = [queue EXCEPT ![t] = Tail(queue[t])]
      /\ op' = op /\ free' = free /\ reading' = reading /\ published' = published
      /\ refused' = refused
  BY DEF Take, deviceVars
<1>2. queue[t] \in Seq(Messages(t)) /\ Len(queue[t]) <= QueueSize
  BY DEF TasksInv
<1>3. /\ Head(queue[t]) \in Messages(t) /\ Tail(queue[t]) \in Seq(Messages(t))
      /\ Len(queue[t]) \in Nat /\ Len(Tail(queue[t])) = Len(queue[t]) - 1
      /\ Len(queue[t]) > 0
  BY <1>1, <1>2
<1>4. /\ Head(queue[t]) \in Messages("i2c4") \cup Messages("default")
      /\ Tail(queue[t]) \in Seq(Messages("i2c4") \cup Messages("default"))
      /\ Head(queue[t]) # None
  BY <1>3, MessagesNotNone DEF Tasks
<1>5. /\ \A u \in Tasks : held'[u] = IF u = t THEN Head(queue[t]) ELSE held[u]
      /\ \A u \in Tasks : queue'[u] = IF u = t THEN Tail(queue[t]) ELSE queue[u]
  BY <1>1 DEF TasksInv
<1>6. /\ queue' \in [Tasks -> Seq(Messages("i2c4") \cup Messages("default"))]
      /\ held' \in [Tasks -> Messages("i2c4") \cup Messages("default") \cup {None}]
  BY <1>1, <1>4 DEF TasksInv
<1>7. \A u \in Tasks : held'[u] \in Messages(u) \cup {None}
  BY <1>3, <1>5 DEF TasksInv
<1>8. \A u \in Tasks : queue'[u] \in Seq(Messages(u)) /\ Len(queue'[u]) <= QueueSize
  <2>1. Len(Tail(queue[t])) <= QueueSize
    BY <1>2, <1>3, PoolFacts
  <2>2. \A u \in Tasks : queue[u] \in Seq(Messages(u)) /\ Len(queue[u]) <= QueueSize
    BY DEF TasksInv
  <2>3. QED
    BY <1>3, <1>5, <2>1, <2>2, Zenon
<1>9. Total' = Total
  <2>1. \A u \in Tasks : HeldBy(u)' = IF u = t THEN 1 ELSE HeldBy(u)
    BY <1>4, <1>5 DEF HeldBy
  <2>2. \A u \in Tasks : Queued(u)' = IF u = t THEN Queued(t) - 1 ELSE Queued(u)
    BY <1>3, <1>5, Zenon DEF Queued
  <2>3. HeldBy(t) = 0
    BY <1>1 DEF HeldBy
  <2>4. QED
    BY <2>1, <2>2, <2>3, TaskCounts DEF Total, Has, Tasks
<1>10. op' = Idle \/ (op' \in Commands /\ held'["i2c4"] = op')
  <2>1. t = "i2c4" => op = Idle
    BY <1>1, Names DEF TasksInv
  <2>2. QED
    BY <1>1, <1>5, <2>1 DEF TasksInv, Tasks
<1>11. QED
  BY <1>1, <1>6, <1>7, <1>8, <1>9, <1>10 DEF TasksInv

LEMMA TasksIgnore ==
  ASSUME TasksInv, NEW t \in Tasks, Ignore(t)
  PROVE  TasksInv' /\ Total' = Total - 1 /\ free' = free + 1
<1>1. /\ held[t] = Unknown /\ free' = free + 1 /\ held' = [held EXCEPT ![t] = None]
      /\ op' = op /\ queue' = queue /\ reading' = reading /\ published' = published
      /\ refused' = refused
  BY DEF Ignore, Freed, deviceVars
<1>2. held[t] # None
  BY <1>1, Names
<1>3. op' = Idle \/ (op' \in Commands /\ held'["i2c4"] = op')
  <2>1. t = "i2c4" => op = Idle
    BY <1>1, Names DEF TasksInv
  <2>2. QED
    BY <1>1, <2>1 DEF TasksInv, Tasks
<1>4. free' \in 0 .. PoolSize /\ Total' <= PoolSize - free'
  <2>1. Total \in Nat /\ Total' = Total - 1 /\ Total' \in Nat
    BY <1>1, <1>2, TotalNat, Released
  <2>2. free \in 0 .. PoolSize /\ Total <= PoolSize - free
    BY DEF TasksInv
  <2>3. QED
    BY <1>1, <1>2, <2>1, <2>2, PoolFacts
<1>5. QED
  BY <1>1, <1>2, <1>3, <1>4, Released DEF TasksInv

LEMMA TasksContinue ==
  ASSUME TasksInv, Continue
  PROVE  TasksInv' /\ Total' = Total - 1 /\ free' = free
<1>1. /\ held["i2c4"] = Bad /\ held' = [held EXCEPT !["i2c4"] = None]
      /\ op' = op /\ free' = free /\ queue' = queue /\ reading' = reading
      /\ published' = published /\ refused' = refused
  BY DEF Continue, deviceVars
<1>2. held["i2c4"] # None /\ "i2c4" \in Tasks
  BY <1>1, Names DEF Tasks
<1>3. op = Idle
  BY <1>1, Names DEF TasksInv
<1>4. Total' = Total - 1
  BY <1>1, <1>2, Released
<1>5. free' \in 0 .. PoolSize /\ Total' <= PoolSize - free'
  <2>1. Total \in Nat /\ Total' = Total - 1 /\ Total' \in Nat
    BY <1>1, <1>2, TotalNat, Released
  <2>2. free \in 0 .. PoolSize /\ Total <= PoolSize - free
    BY DEF TasksInv
  <2>3. QED
    BY <1>1, <1>2, <2>1, <2>2, PoolFacts
<1>6. QED
  BY <1>1, <1>2, <1>3, <1>4, <1>5, Released DEF TasksInv

LEMMA TasksBegin ==
  ASSUME TasksInv, Begin
  PROVE  TasksInv' /\ Total' = Total /\ free' = free
<1>1. /\ held["i2c4"] \in Commands /\ op' = held["i2c4"] /\ reading' = "stale"
      /\ UNCHANGED <<free, queue, held, published, refused>>
  BY DEF Begin, Call
<1>2. Total' = Total
  BY <1>1 DEF Total, Has, Queued, HeldBy
<1>3. QED
  BY <1>1, <1>2 DEF TasksInv

LEMMA TasksDrive ==
  ASSUME TasksInv, DriverInv, Drive
  PROVE  /\ TasksInv'
         /\ \/ Total' = Total /\ free' = free
            \/ Total' = Total - 1 /\ free' = free + 1
<1>1. /\ op # Idle /\ (op' = op \/ op' = Idle)
      /\ queue' = queue /\ refused' = refused
  BY DEF Drive, DriverStep, StartTransfer, StartFails, Wake, DriverInv, Idle, Device!Idle
<1>2. reading' \in {"measured", "stale"}
  BY DEF Drive, TasksInv
<1>3. CASE op' # Idle
  <2>1. op' = op /\ free' = free /\ held' = held /\ published' = published
    BY <1>1, <1>3 DEF Drive
  <2>2. Total' = Total
    BY <1>1, <2>1 DEF Total, Has, Queued, HeldBy
  <2>3. QED
    BY <1>1, <1>2, <2>1, <2>2 DEF TasksInv
<1>4. CASE op' = Idle /\ op # Idle
  <2>1. /\ free' = free + 1 /\ held' = [held EXCEPT !["i2c4"] = None]
        /\ published' \subseteq {"measured", "stale"}
    BY <1>2, <1>4 DEF Drive, Freed, TasksInv
  <2>2. held["i2c4"] # None /\ "i2c4" \in Tasks
    BY <1>4, Names DEF TasksInv, Tasks
  <2>3. free' \in 0 .. PoolSize /\ Total' <= PoolSize - free'
    <3>1. Total \in Nat /\ Total' = Total - 1 /\ Total' \in Nat
      BY <1>1, <2>1, <2>2, TotalNat, Released
    <3>2. free \in 0 .. PoolSize /\ Total <= PoolSize - free
      BY DEF TasksInv
    <3>3. QED
      BY <1>1, <2>1, <2>2, <3>1, <3>2, PoolFacts
  <2>4. QED
    BY <1>1, <1>2, <1>4, <2>1, <2>2, <2>3, Released DEF TasksInv
<1>5. QED
  BY <1>1, <1>3, <1>4

LEMMA DriverInvSafe ==
  ASSUME DriverInv
  PROVE  /\ OthersKept /\ OneAtATime
         /\ op \in Commands \cup {Idle} => DeviceTypeOK
         /\ op \in Device!Commands \cup {Idle} => Device!DeviceTypeOK
<1>1. /\ Idle = Device!Idle /\ Registers = Device!Registers /\ Bits = Device!Bits
      /\ \A c : Transfers(c) = Device!Transfers(c)
  BY DEF Idle, Device!Idle, Registers, Device!Registers, Bits, Device!Bits, Transfers,
         Device!Transfers
<1>2. OneAtATime
  BY <1>1 DEF DriverInv, OneAtATime
<1>3. OthersKept
  <2>1. \A f : Mask(f) = Device!Mask(f)
    BY DEF Mask, Device!Mask
  <2>2. op # Idle => \A r \in Registers : regs[r] \ Own(op, r) = before[r] \ Own(op, r)
    BY <1>1 DEF DriverInv, Kept
  <2>3. \A r : Own(op, r) = UNION {Mask(s[1]) : s \in {s \in op.sets : s[1].reg = r}}
    BY <2>1 DEF Own
  <2>4. QED
    BY <2>2, <2>3 DEF OthersKept
<1>4. bus = Idle \/ bus.value \subseteq Bits
  <2>1. SUFFICES ASSUME bus # Device!Idle PROVE bus.value \subseteq Device!Bits
    BY <1>1
  <2>2. CASE Device!Stored
    BY <2>1, <2>2, OnTheBus
  <2>3. CASE ~Device!Stored
    BY <2>1, <2>3 DEF DriverInv, Device!Stored
  <2>4. QED
    BY <2>2, <2>3
<1>5. /\ step \in 0 .. 7 /\ (op # Idle => step < Len(Transfers(op)))
      /\ waiting \in BOOLEAN
  BY <1>1, Zenon DEF DriverInv
<1>6. op \in Commands \cup {Idle} => DeviceTypeOK
  BY <1>1, <1>4, <1>5 DEF DriverInv, DeviceTypeOK
<1>7. op \in Device!Commands \cup {Idle} => Device!DeviceTypeOK
  BY <1>1, <1>4, <1>5 DEF DriverInv, Device!DeviceTypeOK
<1>8. QED
  BY <1>2, <1>3, <1>6, <1>7

LEMMA TasksInvSafe ==
  ASSUME DriverInv, TasksInv
  PROVE  TypeOK
<1>1. DeviceTypeOK
  BY DriverInvSafe DEF TasksInv
<1>2. Owned <= Used
  BY OwnedSum DEF TasksInv, Used
<1>3. \A t \in Tasks : \A i \in DOMAIN queue[t] : queue[t][i] \in Messages(t)
  <2>1. \A t \in Tasks : queue[t] \in Seq(Messages(t))
    BY DEF TasksInv
  <2>2. QED
    BY <2>1
<1>4. QED
  BY <1>1, <1>2, <1>3 DEF TasksInv, TypeOK

\* What is lost is what neither the pool nor a task has.
LostSum ==
  /\ Lost = (PoolSize - free) - Total /\ Lost \in Int
  /\ Total \in Nat /\ free \in 0 .. PoolSize

LEMMA LostInt == TasksInv => LostSum
  BY OwnedSum, TotalNat, PoolFacts DEF TasksInv, Lost, Used, LostSum

LEMMA LostNext == TasksInv' => LostSum'
  BY LostInt, PTL

LEMMA TasksNext ==
  ASSUME DriverInv, TasksInv, Next
  PROVE  /\ DriverInv' /\ TasksInv'
         /\ \/ Total' + free' = Total + free
            \/ /\ Total' = Total /\ free' = free - 1
               /\ \E t \in Tasks : Len(queue[t]) = QueueSize
            \/ free' = free - 1 /\ Total' = Total + 1
            \/ /\ free' = free /\ Total' = Total - 1
               /\ held["i2c4"] = Bad /\ held'["i2c4"] = None
<1>1. Total \in Nat /\ free \in Nat
  BY TotalNat, PoolFacts DEF TasksInv
<1>2. CASE Publish
  <2>1. PICK t \in Tasks : \E m \in Messages(t) : Incoming(t, m)
    BY <1>2 DEF Publish
  <2> PICK m \in Messages(t) : Incoming(t, m)
    BY <2>1
  <2>2. DriverInv'
    BY DriverStays DEF Incoming
  <2>3. QED
    BY <1>1, <2>2, TasksIncoming DEF Queued
<1>3. ASSUME NEW t \in Tasks, Take(t) PROVE DriverInv' /\ TasksInv' /\ Total' + free' = Total + free
  BY <1>3, TasksTake, DriverStays DEF Take
<1>4. ASSUME NEW t \in Tasks, Ignore(t) PROVE DriverInv' /\ TasksInv' /\ Total' + free' = Total + free
  <2>1. TasksInv' /\ Total' = Total - 1 /\ free' = free + 1
    BY <1>4, TasksIgnore
  <2>2. DriverInv'
    BY <1>4, DriverStays DEF Ignore
  <2>3. QED
    BY <1>1, <2>1, <2>2
<1>5. CASE Continue
  <2>1. TasksInv' /\ Total' = Total - 1 /\ free' = free
    BY <1>5, TasksContinue
  <2>2. held["i2c4"] = Bad /\ held'["i2c4"] = None
    BY <1>5 DEF Continue, TasksInv, Tasks
  <2>3. QED
    BY <1>5, <2>1, <2>2, DriverStays DEF Continue
<1>6. CASE Begin
  <2>1. held["i2c4"] \in Commands /\ Device!Call(held["i2c4"])
    BY <1>6, SameDriver DEF Begin
  <2>2. DriverInv'
    BY <2>1, CommandsShaped, DriverCall
  <2>3. QED
    BY <1>6, <2>2, TasksBegin
<1>7. CASE Drive
  <2>1. Device!StartTransfer \/ Device!StartFails \/ Device!Wake
    BY <1>7, SameDriver DEF Drive
  <2>2. DriverInv'
    BY <2>1, DriverStart, DriverFails, DriverWake
  <2>3. QED
    BY <1>1, <1>7, <2>2, TasksDrive
<1>8. CASE Interrupted
  <2>1. DriverInv'
    BY <1>8, SameDriver, DriverInterrupt DEF Interrupted
  <2>2. op' = op /\ UNCHANGED taskVars
    BY <1>8 DEF Interrupted, Interrupt, Complete, Error
  <2>3. Total' = Total /\ free' = free
    BY <2>2 DEF taskVars, Total, Has, Queued, HeldBy
  <2>4. TasksInv'
    BY <2>2, <2>3 DEF taskVars, TasksInv
  <2>5. QED
    BY <2>1, <2>3, <2>4
<1>9. "i2c4" \in Tasks /\ "default" \in Tasks
  BY DEF Tasks
<1>10. QED
  BY <1>2, <1>3, <1>4, <1>5, <1>6, <1>7, <1>8, <1>9 DEF Next, I2c4Step, DefaultStep

LEMMA DeviceStep ==
  ASSUME DriverInv, Device!DeviceNext
  PROVE  DriverInv'
BY CommandsShaped, DriverCall, DriverStart, DriverFails, DriverWake, DriverInterrupt
   DEF Device!DeviceNext, Device!DriverStep

-----------------------------------------------------------------------------
(* The suite: each part has its invariant *)

DevicesInv ==
  /\ part \in Parts
  /\ DriverInv
  /\ part = "tasks" => TasksInv
  /\ part = "device" => op \in Device!Commands \cup {Idle} /\ Lost \in Int
  /\ part = "log" => LogInv
  /\ part = "als" => QuietInv
  /\ part = "adc" => BufferInv
  /\ part = "arithmetic" => TempInv

LEMMA DevicesInit == SuiteInit => DevicesInv
<1> SUFFICES ASSUME SuiteInit PROVE DevicesInv
  OBVIOUS
<1>1. Logging!Init => Quiet!Init
  BY Zenon DEF Logging!Init, Quiet!Init
<1>2. DeviceInit /\ op = Idle
  BY DEF SuiteInit, Init, DeviceInit
<1>3. QED
  BY <1>1, <1>2, LostInt, DriverInit, TasksInit, LogInit, QuietInit, BufferInit, TempInit
     DEF SuiteInit, DevicesInv, LostSum

LEMMA LightStays ==
  ASSUME UNCHANGED lightVars
  PROVE  (LogInv => LogInv') /\ (QuietInv => QuietInv')
BY DEF lightVars, LogInv, QuietInv

LEMMA BufferStays ==
  ASSUME UNCHANGED bufferVars, BufferInv
  PROVE  BufferInv'
BY DEF bufferVars, BufferInv

LEMMA TempStays ==
  ASSUME UNCHANGED tempVars, TempInv
  PROVE  TempInv'
BY DEF tempVars, TempInv

LEMMA TasksStay ==
  ASSUME UNCHANGED vars, DriverInv
  PROVE  DriverInv' /\ (TasksInv => TasksInv') /\ op' = op /\ Lost' = Lost
<1>1. op' = op /\ UNCHANGED <<free, queue, held, reading, published, refused>>
      /\ UNCHANGED deviceVars
  BY DEF vars, taskVars, deviceVars
<1>2. Total' = Total
  BY <1>1 DEF Total, Has, Queued, HeldBy
<1>3. Lost' = Lost
  BY <1>1 DEF Lost, Used, Owned
<1>4. QED
  BY <1>1, <1>2, <1>3, DriverStays DEF TasksInv

LEMMA DevicesNext ==
  ASSUME DevicesInv, SuiteNext \/ UNCHANGED allVars
  PROVE  DevicesInv'
<1> USE DEF DevicesInv
<1>1. CASE TasksPart
  BY <1>1, TasksNext DEF TasksPart
<1>2. CASE DevicePart
  <2>1. op' \in Device!Commands \cup {Idle}
    BY <1>2 DEF DevicePart, Device!DeviceNext, Device!Call, Device!DriverStep,
       Device!StartTransfer, Device!StartFails, Device!Wake, Device!Interrupt,
       Device!Complete, Device!Error, Device!Idle, Idle
  <2>2. Lost' = Lost
    BY <1>2 DEF DevicePart, taskVars, Lost, Used, Owned
  <2>3. QED
    BY <1>2, <2>1, <2>2, DeviceStep DEF DevicePart
<1>3. CASE LogPart
  BY <1>3, LogNext, TasksStay DEF LogPart
<1>4. CASE AlsPart
  BY <1>4, QuietNext, TasksStay DEF AlsPart
<1>5. CASE AdcPart
  BY <1>5, BufferNext, TasksStay DEF AdcPart
<1>6. CASE ArithmeticPart
  BY <1>6, TempNext, TasksStay DEF ArithmeticPart
<1>7. CASE UNCHANGED allVars
  <2>1. UNCHANGED <<vars, part>> /\ UNCHANGED lightVars /\ UNCHANGED bufferVars /\ UNCHANGED tempVars
    BY <1>7 DEF allVars
  <2>2. QED
    BY <2>1, TasksStay, LightStays, BufferStays, TempStays
<1>8. QED
  BY <1>1, <1>2, <1>3, <1>4, <1>5, <1>6, <1>7 DEF SuiteNext

LEMMA DevicesAlways == SuiteSpec => []DevicesInv
<1>1. DevicesInv /\ [SuiteNext]_allVars => DevicesInv'
  BY DevicesNext
<1>2. QED
  BY <1>1, DevicesInit, PTL DEF SuiteSpec

-----------------------------------------------------------------------------
(* Theorems *)

\* The driver of LIS3DHTR.c: a command that sets fields leaves the other bits of the
\* registers alone, also when it is cut off by an error, and no transfer is left behind by
\* a task that goes on; above it (freertos.c) no block of the pool has two owners.
THEOREM DriverKept == SuiteSpec => []DriverSafe
<1>1. DevicesInv => DriverSafe
  BY DriverInvSafe, TasksInvSafe DEF DevicesInv, DriverSafe
<1>2. QED
  BY <1>1, DevicesAlways, PTL

\* The two ways freertos.c and mqtt_client.c lose a block for good, malformed options among
\* the commands and failed transfers included: the callback meets a full queue, and the
\* I2C4 task passes over mqtt_free_message for a malformed option.
THEOREM LossesAlways == SuiteSpec => LossesKnown
<1>1. DevicesInv /\ DevicesInv' /\ [SuiteNext]_allVars
        => [Lost' > Lost =>
              /\ Lost' = Lost + 1
              /\ \/ free' < free /\ \E t \in Tasks : Len(queue[t]) = QueueSize
                 \/ held["i2c4"] = Bad /\ held'["i2c4"] = None]_vars
  <2>0. SUFFICES ASSUME DevicesInv, DevicesInv', [SuiteNext]_allVars, ~UNCHANGED vars, Lost' > Lost
                 PROVE  /\ Lost' = Lost + 1
                        /\ \/ free' < free /\ \E t \in Tasks : Len(queue[t]) = QueueSize
                           \/ held["i2c4"] = Bad /\ held'["i2c4"] = None
    OBVIOUS
  <2>1. CASE TasksPart
    <3>1. TasksInv /\ TasksInv' /\ DriverInv /\ Next
      BY <2>0, <2>1 DEF TasksPart, DevicesInv
    <3>2. \/ Total' + free' = Total + free
          \/ /\ Total' = Total /\ free' = free - 1
             /\ \E t \in Tasks : Len(queue[t]) = QueueSize
          \/ free' = free - 1 /\ Total' = Total + 1
          \/ /\ free' = free /\ Total' = Total - 1
             /\ held["i2c4"] = Bad /\ held'["i2c4"] = None
      BY <3>1, TasksNext
    <3>3. LostSum /\ LostSum'
      BY <3>1, LostInt, LostNext
    <3>4. PICK owned \in Nat, owned2 \in Nat, rest1 \in Nat, rest2 \in Nat :
            owned = Total /\ owned2 = Total' /\ rest1 = free /\ rest2 = free'
      BY <3>3, PoolFacts DEF LostSum
    <3>5. /\ PoolSize \in Nat
          /\ Lost = (PoolSize - rest1) - owned /\ Lost' = (PoolSize - rest2) - owned2
      BY <3>3, <3>4, PoolFacts DEF LostSum
    <3>6. (PoolSize - rest2) - owned2 > (PoolSize - rest1) - owned
      BY <2>0, <3>5, Zenon
    <3>7. /\ owned2 + rest2 # owned + rest1
          /\ ~(rest2 = rest1 - 1 /\ owned2 = owned + 1)
      BY <3>5, <3>6
    <3>8. CASE /\ Total' = Total /\ free' = free - 1
               /\ \E t \in Tasks : Len(queue[t]) = QueueSize
      <4>1. owned2 = owned /\ rest2 = rest1 - 1
        BY <3>4, <3>8
      <4>2. Lost' = Lost + 1 /\ rest2 < rest1
        BY <3>5, <4>1
      <4>3. QED
        BY <3>4, <3>8, <4>2
    <3>9. CASE /\ free' = free /\ Total' = Total - 1
               /\ held["i2c4"] = Bad /\ held'["i2c4"] = None
      <4>1. owned2 = owned - 1 /\ rest2 = rest1
        BY <3>4, <3>9
      <4>2. Lost' = Lost + 1
        BY <3>5, <4>1
      <4>3. QED
        BY <3>9, <4>2
    <3>10. QED
      BY <3>2, <3>4, <3>7, <3>8, <3>9
  <2>2. CASE DevicePart
    <3>1. Lost \in Int /\ Lost' = Lost
      BY <2>0, <2>2 DEF DevicePart, DevicesInv, taskVars, Lost, Used, Owned
    <3>2. QED
      BY <2>0, <3>1
  <2>3. QED
    BY <2>0, <2>1, <2>2 DEF SuiteNext, LogPart, AlsPart, AdcPart, ArithmeticPart, allVars
<1>2. QED
  BY <1>1, DevicesAlways, PTL DEF SuiteSpec, LossesKnown

\* lightweight_log.c and PmodALS.c: tasks and handlers write records without tearing one
\* another's; before there is a log every flag of the SPI ends the wait it was set for.
THEOREM LightKept == SuiteSpec => []LightSafe
<1>1. DevicesInv => LightSafe
  BY LogInvSafe, QuietInvSafe DEF DevicesInv, LightSafe
<1>2. QED
  BY <1>1, DevicesAlways, PTL

\* adc.c: the published buffer is the one the DMA filled last; the task reads both registers
\* of one sample out of it, as the DMA wrote them, whatever the DMA and the cache do
\* meanwhile, unless an old copy of it was in the cache when it read the pointer (then
\* nothing is said: adc.c invalidates nothing).
THEOREM AdcKept == SuiteSpec => []AdcSafe
<1>1. DevicesInv => AdcSafe
  BY BufferInvSafe DEF DevicesInv, AdcSafe
<1>2. QED
  BY <1>1, DevicesAlways, PTL

\* The two algorithms of adc.c differ by a thousandth of a degree at most from the first
\* calibration point up, and the filter stays between the readings: for registers in the
\* range of the sensor, whatever the widths and the calibration.
THEOREM TempKept ==
  ASSUME \A t \in Temps, v \in Vdds : Temp!Ratio(t, v) >= Cal1 => InRange(Temp!Ratio(t, v))
  PROVE  SuiteSpec => []TempSafe
<1>1. InRange(Cal1)
  <2>1. Cal1 - Cal1 = 0 /\ 0 * Num = 0 /\ 0 * Temp!Recip = 0
    BY WidthFacts, RecipNat
  <2>2. (Cal1 - Cal1) * Num = 0 /\ (Cal1 - Cal1) * Num * Temp!Recip = 0
    BY <2>1
  <2>3. QED
    BY <2>1, <2>2, WidthFacts DEF InRange
<1>2. TempInv => Temp!AgreeWarm
  BY <1>1, Agreement DEF TempInv, Temp!AgreeWarm, Temp!Agree
<1>3. TempInv => Temp!Between
  BY DEF TempInv, Temp!Between
<1>4. DevicesInv => TempSafe
  BY <1>2, <1>3 DEF DevicesInv, TempSafe
<1>5. QED
  BY <1>4, DevicesAlways, PTL
=============================================================================
