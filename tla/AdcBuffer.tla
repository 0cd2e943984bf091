-------------------------------- MODULE AdcBuffer --------------------------------
(***************************************************************************)
(* The internal temperature sensor (CM7/Core/Src/adc.c): a timer triggers  *)
(* the conversion of TEMP_REG and VDD_REG, the DMA writes them into two    *)
(* buffers in turn, its interrupt publishes the buffer just filled, and    *)
(* the default task (freertos.c) reads both registers of it for a command. *)
(* Samples are numbered, for the model only.  The data cache is on         *)
(* (main.c) and the buffers are plain variables in cacheable memory: the   *)
(* task reads the copy of them in the cache, which nothing invalidates.    *)
(***************************************************************************)
EXTENDS Naturals

CONSTANTS
  Samples,  \* samples are numbered modulo this
  Slack     \* bound: triggers of a reading, with the one before it if its sample
            \* is not complete; one comes every second

BufferAssumption ==
  Samples \in Nat /\ Samples > 4 /\ Slack \in Nat

VARIABLES
  line,     \* the copy of mem in the cache, or None
  mem,      \* what adc_buf0 and adc_buf1 hold of each register: a sample, or None
  target,   \* the buffer the DMA writes
  half,     \* has the DMA written the first register of the sample?
  sample,   \* number of the sample in conversion
  pending,  \* the buffer whose interrupt is pending, or None
  primed,   \* adc_primed
  latest,   \* latest_adc_buf, or None
  pc,       \* the default task: "get", "pointer", "temp", "vdd", "publish"
  cmd,      \* the command it handles
  buf,      \* adc_buf of the call
  read,     \* what it has read: a sample per register
  fresh,    \* history: when it read the pointer, was no old copy in the cache?
  triggers, \* triggers since the pointer was read
  reply     \* the last reply: a topic and a command

adcVars == <<mem, target, half, sample, pending, primed, latest>>
taskVars == <<pc, cmd, buf, read, fresh, triggers, reply>>
vars == <<adcVars, taskVars, line>>

None == Samples  \* neither a sample nor a buffer
Regs == {"TEMP", "VDD"}
Commands == {"int", "reduced", "float"}
Unread == [r \in Regs |-> None]
NotCached == [b \in {} |-> Unread]
NextSample(n) == (n + 1) % Samples

Init ==
  /\ line = NotCached /\ mem = [b \in {0, 1} |-> Unread] /\ target = 0 /\ half = FALSE /\ sample = 0
  /\ pending = None /\ primed = FALSE /\ latest = None
  /\ pc = "get" /\ cmd = "int" /\ buf = None /\ read = Unread /\ fresh = FALSE
  /\ triggers = 0
  /\ reply = [topic |-> "none", cmd |-> "int"]

-----------------------------------------------------------------------------
(* Hardware and interrupt *)

\* The timer triggers a scan; the first register is converted and stored.
Trigger ==
  /\ ~half /\ pending = None
  /\ pc \in {"temp", "vdd"} => triggers < Slack
  /\ mem' = [mem EXCEPT ![target]["TEMP"] = sample] /\ half' = TRUE
  /\ triggers' = IF pc \in {"temp", "vdd"} THEN triggers + 1 ELSE 0
  /\ UNCHANGED <<target, sample, pending, primed, latest, pc, cmd, buf, read, fresh, reply,
                 line>>

\* The second register: the transfer is complete, the DMA goes to the other buffer.
Complete ==
  /\ half
  /\ mem' = [mem EXCEPT ![target]["VDD"] = sample] /\ half' = FALSE
  /\ target' = 1 - target /\ pending' = target /\ sample' = NextSample(sample)
  /\ UNCHANGED <<primed, latest, taskVars, line>>

\* Fault: the callbacks of the two buffers are exchanged.
PublishedOther == 1 - pending
\* DMA_M0_Callback, DMA_M1_Callback
Published == pending

Discard == ~primed

\* adc_publish_buffer
Interrupt ==
  /\ pending # None
  /\ pending' = None /\ primed' = TRUE
  /\ latest' = IF Discard THEN latest ELSE Published
  /\ UNCHANGED <<mem, target, half, sample, taskVars, line>>

-----------------------------------------------------------------------------
(* calc_ADC_temp_int, calc_ADC_temp_reduced_div, calc_ADC_temp_float; the interrupt *)
(* comes before the task                                                            *)

Get(c) ==
  /\ pending = None /\ pc = "get"
  /\ pc' = "pointer" /\ cmd' = c
  /\ UNCHANGED <<adcVars, buf, read, fresh, triggers, reply, line>>

\* No adc readings yet: HAL_ERROR, which the task does not look at.
NoReadings ==
  /\ pending = None /\ pc = "pointer" /\ latest = None
  /\ pc' = "publish" /\ read' = Unread
  /\ UNCHANGED <<adcVars, cmd, buf, fresh, triggers, reply, line>>

ReadPointer ==
  /\ pending = None /\ pc = "pointer" /\ latest # None
  /\ buf' = latest /\ pc' = "temp"
  /\ triggers' = IF half THEN 1 ELSE 0  \* the last trigger is recent
  /\ fresh' = (line = NotCached \/ line[latest] = mem[latest])
  /\ UNCHANGED <<adcVars, cmd, read, reply, line>>

\* A line comes with an access to it or to a neighbour, and goes when the cache needs room.
\* Its write-back after a store to a neighbour is not modelled.
Fill ==
  /\ line = NotCached
  /\ line' = mem
  /\ UNCHANGED <<adcVars, taskVars>>

Evict ==
  /\ line # NotCached
  /\ line' = NotCached
  /\ UNCHANGED <<adcVars, taskVars>>

\* Fault: the second register is read from the buffer that is now the latest.
SourceLatest == IF pc = "vdd" THEN latest ELSE buf
Source == buf

ReadTemp ==
  /\ line # NotCached /\ pending = None /\ pc = "temp"
  /\ read' = [read EXCEPT !["TEMP"] = line[Source]["TEMP"]] /\ pc' = "vdd"
  /\ UNCHANGED <<adcVars, cmd, buf, fresh, triggers, reply, line>>

ReadVdd ==
  /\ line # NotCached /\ pending = None /\ pc = "vdd"
  /\ read' = [read EXCEPT !["VDD"] = line[Source]["VDD"]] /\ pc' = "publish"
  /\ UNCHANGED <<adcVars, cmd, buf, fresh, triggers, reply, line>>

\* MQTT_PUB_TEMP_INT_ID, for each of the commands
Topic(c) == "sensor/temp/int"

Publish ==
  /\ pending = None /\ pc = "publish"
  /\ reply' = [topic |-> Topic(cmd), cmd |-> cmd] /\ pc' = "get"
  /\ UNCHANGED <<adcVars, cmd, buf, read, fresh, triggers, line>>

Next ==
  \/ Fill \/ Evict \/ Trigger \/ Complete \/ Interrupt
  \/ (\E c \in Commands : Get(c)) \/ NoReadings \/ ReadPointer \/ ReadTemp \/ ReadVdd
  \/ Publish

Spec == Init /\ [][Next]_vars

-----------------------------------------------------------------------------
(* Properties *)

\* When no old copy of the buffer is in the cache as the task reads the pointer, the ratio
\* of the reply is of two registers of one sample, though the DMA and the cache go on.
Paired == pc = "publish" /\ fresh => read["TEMP"] = read["VDD"]

\* Then it also reads what the DMA has last put in the buffer.
Current == pc = "vdd" /\ fresh => read["TEMP"] = mem[buf]["TEMP"]

\* When the interrupt has been served the published buffer holds the last complete
\* sample, and never one that is being written.
LatestNewest ==
  latest # None /\ pending = None =>
    \A r \in Regs : NextSample(mem[latest][r]) = sample

-----------------------------------------------------------------------------
(* What the code seems to expect, and TLC refutes ("Disagreements met"):      *)

\* Without a look at the cache: both registers are of one sample.
AlwaysPaired == pc = "publish" => read["TEMP"] = read["VDD"]

\* Without a look at the cache: the task reads what the DMA has put in the buffer.
AlwaysCurrent == pc = "vdd" => read["TEMP"] = mem[buf]["TEMP"]

\* Replies are on the topic that the table of commands says.
RepliesOnTopic ==
  reply.topic # "none" =>
    reply.topic = IF reply.cmd = "float" THEN "sensor/temp/float" ELSE "sensor/temp/int"
=============================================================================
