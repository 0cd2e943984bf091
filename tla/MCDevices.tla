------------------------------- MODULE MCDevices -------------------------------
(***************************************************************************)
(* The devices and the tasks that serve them, for TLC.  The modules share  *)
(* no state (a task alone uses its device): part says which of them this   *)
(* behaviour is about, and the others stay where they start.               *)
(*   "tasks"    the receive loops over the accelerometer and the pool      *)
(*   "device"   the driver of the accelerometer alone, every command, on a *)
(*              bus that fails                                             *)
(*   "log"      the light sensor while tasks write records                 *)
(*   "als"      the light sensor before the log is initialised             *)
(*   "adc"      the two buffers of the ADC, and "arithmetic" of a reading  *)
(***************************************************************************)
EXTENDS AppTasks

CONSTANTS
  DeviceRates, DeviceScales, \* values of set_ODR and set_scale in the part "device"
  Loggers, MaxBytes, MaxLux, \* of SpiLog
  Samples,                   \* of AdcBuffer
  Word, Long, Frac, Cal1, Cal2, Vref, Num, Off, Temps, Vdds \* of AdcTemp

VARIABLES
  part,
  spi1, spiBus, spiFlags, asked, replied, handler, ended, rest, masked, nesting, halted,
  line, mem, target, half, sample, pending, primed, latest, pc, cmd, buf, read, fresh,
  triggers, reply,
  ratio, filtered, least, most

lightVars == <<spi1, spiBus, spiFlags, asked, replied, handler, ended, rest, masked,
               nesting, halted>>
bufferVars == <<line, mem, target, half, sample, pending, primed, latest, pc, cmd, buf,
                read, fresh, triggers, reply>>
tempVars == <<ratio, filtered, least, most>>
allVars == <<vars, lightVars, bufferVars, tempVars, part>>

Device == INSTANCE Lis3dhtr WITH Rates <- DeviceRates, Scales <- DeviceScales, MayFail <- TRUE
Logging == INSTANCE SpiLog WITH Recording <- TRUE, bus <- spiBus, flags <- spiFlags
Quiet == INSTANCE SpiLog WITH Recording <- FALSE, bus <- spiBus, flags <- spiFlags
Buffer == INSTANCE AdcBuffer WITH Slack <- 1
Temp == INSTANCE AdcTemp WITH Reduced <- TRUE

ASSUME DevicesAssumption ==
  /\ Device!DeviceAssumption /\ Logging!LogAssumption /\ Quiet!LogAssumption
  /\ Buffer!BufferAssumption /\ Temp!WidthAssumption

Parts == {"tasks", "device", "log", "als", "adc", "arithmetic"}

SuiteInit ==
  /\ part \in Parts
  /\ Init /\ Logging!Init /\ Buffer!Init /\ Temp!Init

TasksPart ==
  part = "tasks" /\ Next /\ UNCHANGED <<lightVars, bufferVars, tempVars, part>>
DevicePart ==
  /\ part = "device" /\ Device!DeviceNext
  /\ UNCHANGED <<taskVars, lightVars, bufferVars, tempVars, part>>
LogPart ==
  part = "log" /\ Logging!Next /\ UNCHANGED <<vars, bufferVars, tempVars, part>>
AlsPart ==
  part = "als" /\ Quiet!Next /\ UNCHANGED <<vars, bufferVars, tempVars, part>>
AdcPart ==
  part = "adc" /\ Buffer!Next /\ UNCHANGED <<vars, lightVars, tempVars, part>>
ArithmeticPart ==
  part = "arithmetic" /\ Temp!Next /\ UNCHANGED <<vars, lightVars, bufferVars, part>>

SuiteNext ==
  TasksPart \/ DevicePart \/ LogPart \/ AlsPart \/ AdcPart \/ ArithmeticPart

\* The fairness of AppTasks for its part.
SuiteSpec ==
  /\ SuiteInit /\ [][SuiteNext]_allVars
  /\ WF_vars(part = "tasks" /\ I2c4Step)
  /\ WF_vars(part = "tasks" /\ DefaultStep)
  /\ WF_vars(part = "tasks" /\ Interrupted)

-----------------------------------------------------------------------------
(* Properties of the parts, under the names of this run.                      *)

\* The driver: a command changes its own fields only, one transfer at a time.
DriverSafe ==
  /\ part = "tasks" => TypeOK
  /\ part = "device" => Device!DeviceTypeOK
  /\ OthersKept /\ OneAtATime

\* The light sensor and the log: no record is written into the middle of another one,
\* one flag ends one wait.
LightSafe ==
  /\ part = "log" => Logging!TypeOK /\ Logging!RecordsWhole
  /\ part = "als" => Quiet!TypeOK /\ Quiet!FlagFresh

\* The ADC: the published buffer is the newest in memory; when no old copy of it is in the
\* cache as the pointer is read, the reading is what the DMA wrote, of one sample.
AdcSafe ==
  part = "adc" => Buffer!Paired /\ Buffer!Current /\ Buffer!LatestNewest

\* From the first calibration point up the fixed-point arithmetic agrees with the
\* division; the filter stays between the readings.
TempSafe == part = "arithmetic" => Temp!AgreeWarm /\ Temp!Between

\* The tasks come back for the next message again and again, while transfers succeed.
TasksHandled == part = "tasks" => Handled
=============================================================================
