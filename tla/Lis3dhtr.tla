-------------------------------- MODULE Lis3dhtr --------------------------------
(***************************************************************************)
(* The driver of the accelerometer (Drivers/LIS3DHTR) over the I2C         *)
(* interrupts of Src/i2c.c: a command is a sequence of register transfers; *)
(* the task starts a transfer and waits for a thread flag, the interrupt   *)
(* ends the transfer and sets it.  A register is the set of its bits at 1. *)
(***************************************************************************)
EXTENDS Naturals, Sequences, FiniteSets

CONSTANTS
  Rates,     \* values of set_ODR that are tried, of 0 .. 9
  Scales,    \* values of set_scale that are tried, of 0 .. 3
  MayFail    \* may transfers fail on the bus?

ASSUME DeviceAssumption ==
  Rates \subseteq 0 .. 9 /\ Scales \subseteq 0 .. 3 /\ MayFail \in BOOLEAN

VARIABLES
  regs,     \* registers of the device
  op,       \* command under way, or Idle
  step,     \* its transfers that are done
  local,    \* what the task has read: the variables data, reg1, reg4
  bus,      \* the transfer on the bus, or Idle
  waiting,  \* is the task in osThreadFlagsWait?
  flags,    \* its thread flags
  result,   \* HAL status of the last command
  before    \* history: the registers when the command began

deviceVars == <<regs, op, step, local, bus, waiting, flags, result, before>>

Registers == {"TEMP_CFG_REG", "CTRL_REG1", "CTRL_REG4"}
Bits == 0 .. 7
Idle == [name |-> "idle"]

\* The bits of a value, at the place of its field.
At(pos, value) == {pos + b : b \in {b \in 0 .. 3 : (value \div 2 ^ b) % 2 = 1}}

\* A field: its register, its position and its width.
Field(reg, pos, width) == [reg |-> reg, pos |-> pos, width |-> width]
TEMP_EN == Field("TEMP_CFG_REG", 6, 1)
ADC_EN == Field("TEMP_CFG_REG", 7, 1)
LPen == Field("CTRL_REG1", 3, 1)
ODR == Field("CTRL_REG1", 4, 4)
HR == Field("CTRL_REG4", 2, 2)
FS == Field("CTRL_REG4", 4, 2)
BDU == Field("CTRL_REG4", 7, 1)
Mask(f) == f.pos .. f.pos + f.width - 1

\* A command that writes: its registers in their order, the fields it sets.
Writes(name, order, sets) == [name |-> name, order |-> order, sets |-> sets]
Switch(name, f, on) == Writes(name, <<f.reg>>, {<<f, IF on THEN 1 ELSE 0>>})
Resolution(lp, hr) ==
  Writes("set_resolution", <<"CTRL_REG1", "CTRL_REG4">>, {<<LPen, lp>>, <<HR, hr>>})
\* A command that reads n registers.
Reads(name, n) == [name |-> name, order |-> [i \in 1 .. n |-> "OUT"], sets |-> {}]

Commands ==
  {Switch("aux_adcs", ADC_EN, on) : on \in BOOLEAN}
    \cup {Switch("temp_sensor", TEMP_EN, on) : on \in BOOLEAN}
    \cup {Switch("BDU", BDU, on) : on \in BOOLEAN}
    \cup {Writes("set_ODR", <<"CTRL_REG1">>, {<<ODR, v>>}) : v \in Rates}
    \cup {Writes("set_scale", <<"CTRL_REG4">>, {<<FS, v>>}) : v \in Scales}
    \cup {Resolution(1, 0), Resolution(0, 0), Resolution(0, 1)}
    \cup {Reads("get_temp", 2), Reads("get_acceleration", 7)}

\* First every register is read, then, if fields are set, every one is written.
Transfers(c) ==
  [i \in 1 .. Len(c.order) |-> <<"read", c.order[i]>>]
    \o (IF c.sets = {} THEN <<>> ELSE [i \in 1 .. Len(c.order) |-> <<"write", c.order[i]>>])

Unread == [r \in Registers |-> {}]

DeviceTypeOK ==
  /\ regs \in [Registers -> SUBSET Bits] /\ before \in [Registers -> SUBSET Bits]
  /\ op \in Commands \cup {Idle}
  /\ step \in 0 .. 7 /\ (op # Idle => step < Len(Transfers(op)))
  /\ local \in [Registers -> SUBSET Bits]
  /\ bus = Idle \/ bus.value \subseteq Bits
  /\ waiting \in BOOLEAN /\ flags \subseteq {"MEM", "ERR"}
  /\ result \in {"none", "OK", "ERROR"}

DeviceInit ==
  /\ regs = [r \in Registers |-> IF r = "CTRL_REG1" THEN {0, 1, 2} ELSE {}]
  /\ before = regs
  /\ op = Idle /\ step = 0 /\ local = Unread
  /\ bus = Idle /\ waiting = FALSE /\ flags = {} /\ result = "none"

-----------------------------------------------------------------------------
(* The task *)

\* The task calls a function of the driver.
Call(c) ==
  /\ op = Idle
  /\ op' = c /\ step' = 0 /\ local' = Unread /\ before' = regs
  /\ UNCHANGED <<regs, bus, waiting, flags, result>>

\* Fault: the fields are set in a value that was not read.
WrittenFresh(c, r) ==
  UNION {At(s[1].pos, s[2]) : s \in {s \in c.sets : s[1].reg = r}}
\* The value written: reg_set_field only sets bits in what was read.
Written(c, r) ==
  local[r] \cup UNION {At(s[1].pos, s[2]) : s \in {s \in c.sets : s[1].reg = r}}

\* HAL_I2C_Mem_Read_IT, HAL_I2C_Mem_Write_IT: the transfer is on its way.
StartTransfer ==
  /\ op # Idle /\ ~waiting
  /\ LET t == Transfers(op)[step + 1] IN
     bus' = [transfer |-> t, value |-> IF t[1] = "write" THEN Written(op, t[2]) ELSE {}]
  /\ waiting' = TRUE
  /\ UNCHANGED <<regs, op, step, local, flags, result, before>>

\* The HAL refuses to start: the command returns its error.
StartFails ==
  /\ MayFail /\ op # Idle /\ ~waiting
  /\ op' = Idle /\ result' = "ERROR"
  /\ UNCHANGED <<regs, step, local, bus, waiting, flags, before>>

\* Fault: the flag is not cleared.
ClearedNot == flags
\* osThreadFlagsWait clears the flag it waited for, and no other.
Cleared == flags \ {"MEM"}

\* Fault: the task waits for both flags.
WokenByAll == flags = {"MEM", "ERR"}
\* The task waits for I2C_MEM_IT_FLAG only.
Woken == "MEM" \in flags

Last == step + 1 = Len(Transfers(op))

\* The wait is over: the next transfer, or the end of the command.
Wake ==
  /\ waiting /\ Woken
  /\ waiting' = FALSE /\ flags' = Cleared
  /\ IF Last
       THEN op' = Idle /\ result' = "OK" /\ UNCHANGED step
       ELSE step' = step + 1 /\ UNCHANGED <<op, result>>
  /\ UNCHANGED <<regs, local, bus, before>>

-----------------------------------------------------------------------------
(* The interrupts *)

Stored == bus.transfer[1] = "write"
Store == regs' = IF Stored THEN [regs EXCEPT ![bus.transfer[2]] = bus.value] ELSE regs

\* HAL_I2C_MemRxCpltCallback, HAL_I2C_MemTxCpltCallback
Complete ==
  /\ bus # Idle
  /\ Store
  /\ local' = IF ~Stored /\ bus.transfer[2] \in Registers
                THEN [local EXCEPT ![bus.transfer[2]] = regs[bus.transfer[2]]] ELSE local
  /\ flags' = flags \cup {"MEM"} /\ bus' = Idle
  /\ UNCHANGED <<op, step, waiting, result, before>>

\* HAL_I2C_ErrorCallback: no acknowledgement, a lost arbitration.  A value may have
\* been stored all the same.
Error ==
  /\ MayFail /\ bus # Idle
  /\ Store \/ UNCHANGED regs
  /\ flags' = flags \cup {"ERR"} /\ bus' = Idle
  /\ UNCHANGED <<op, step, local, waiting, result, before>>

DriverStep == StartTransfer \/ StartFails \/ Wake
Interrupt == Complete \/ Error

DeviceNext == (\E c \in Commands : Call(c)) \/ DriverStep \/ Interrupt

DeviceSpec == DeviceInit /\ [][DeviceNext]_deviceVars

\* The scheduler runs the task, a transfer ends one way or the other.
DeviceFairSpec ==
  DeviceSpec /\ WF_deviceVars(DriverStep) /\ WF_deviceVars(Interrupt)

-----------------------------------------------------------------------------
(* Properties *)

\* A command changes nothing but the fields it sets, whenever it is interrupted by an
\* error: what is written was read from the same register by the same command.
OthersKept ==
  op # Idle =>
    \A r \in Registers :
      LET own == UNION {Mask(s[1]) : s \in {s \in op.sets : s[1].reg = r}} IN
      regs[r] \ own = before[r] \ own

\* The task goes on with a transfer behind it, never with one on the bus.
OneAtATime == (op = Idle \/ ~waiting) => bus = Idle

-----------------------------------------------------------------------------
(* What comments of the driver say, and TLC refutes ("Disagreements met"):    *)

\* A command that returns HAL_OK has set its fields to the values it was given.
FieldsSet ==
  [][op # Idle /\ op' = Idle /\ result' = "OK" =>
       \A s \in op.sets : At(s[1].pos, s[2]) = regs[s[1].reg] \cap Mask(s[1])]_deviceVars

\* Reading and writing a register returns a status, also when the transfer fails.
StatusReturned == op # Idle ~> op = Idle
=============================================================================
