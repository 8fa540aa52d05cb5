------------------------------- MODULE QsysI2c -------------------------------
(***************************************************************************)
(* Register access over I2C.  A call of VL53L1X_writeReg or readReg and    *)
(* their wider forms is a sequence of calls of i2c_start_transmit,         *)
(* i2c_write and i2c_read; each polls the I2C core's registers and puts    *)
(* one command into its FIFO.  The core (external) takes the commands one  *)
(* by one and carries them out with the sensor while the program runs on;  *)
(* the sensor keeps a register address that moves on with every byte.      *)
(*                                                                         *)
(* A device is on the bus and acknowledges its address and every byte: the *)
(* driver has no code for a byte refused, and what the core does then is   *)
(* not in the repository.                                                  *)
(***************************************************************************)
EXTENDS Integers, Sequences

CONSTANTS
  BYTES,      \* number of values of a byte (256)
  DEPTH,      \* commands the FIFO holds (I2C_0_FIFO_DEPTH, 4)
  Lengths     \* bytes a call transfers: {1, 2, 4}

ASSUME I2cAssumption == BYTES \in Nat \ {0, 1} /\ DEPTH \in Nat \ {0} /\ Lengths \subseteq 1 .. BYTES * BYTES

VARIABLES
  dpc,        \* "off", "config", "enable", "idle", "txwait", "put", "rxwait", "status"
  asked,      \* the call in progress: <<reg, n>> of a read, <<>> of a write
  script,     \* its steps not yet done
  received,   \* bytes received so far
  answer,     \* what a read returned: address, length, value
  enabled,    \* the core's CTRL[0]
  cmds,       \* TFR_CMD FIFO
  cur,        \* the command being carried out
  stopping,   \* a STOP condition is on the bus
  rx,         \* RX_DATA FIFO
  slave       \* the sensor: dir of the transfer, index bytes seen, address, registers

driverVars == <<dpc, asked, script, received, answer>>
coreVars == <<enabled, cmds, cur, stopping, rx, slave>>
i2cVars == <<dpc, asked, script, received, answer,
             enabled, cmds, cur, stopping, rx, slave>>

Reg == 0 .. BYTES * BYTES - 1
---------------------------------------------------------------------------
(* One step: the function called, the command it puts, with the STA and    *)
(* STO bits.  The data of a START is the direction: 1 to read.             *)
Step(fn, sta, sto, data) == [fn |-> fn, sta |-> sta, sto |-> sto, data |-> data]

StartTransmit(is_Read) == Step("start", TRUE, FALSE, is_Read)
WriteByte(data, stop)  == Step("write", FALSE, stop, data)
ReadByte(stop)         == Step("read", FALSE, stop, 0)

(* Mutant: the bytes go out lowest first. *)
byteOfLow(value, i, n) == (value \div BYTES^(i - 1)) % BYTES

byteOf(value, i, n) == (value \div BYTES^(n - i)) % BYTES

(* value = (value << 8) | byte, from the highest byte on. *)
valueOf(bytes) ==
  LET upTo[i \in 0 .. Len(bytes)] == IF i = 0 THEN 0 ELSE BYTES * upTo[i - 1] + bytes[i]
  IN upTo[Len(bytes)]

Address(reg, stop) == <<StartTransmit(0), WriteByte(reg \div BYTES, FALSE),
                        WriteByte(reg % BYTES, stop)>>

WriteScript(reg, n, value) ==
  Address(reg, FALSE) \o [i \in 1 .. n |-> WriteByte(byteOf(value, i, n), i = n)]

ReadScript(reg, n) ==
  Address(reg, TRUE) \o <<StartTransmit(1)>> \o [i \in 1 .. n |-> ReadByte(i = n)]
---------------------------------------------------------------------------
(* The core's status registers as the program reads them. *)
TX_READY == cmds = <<>>
RX_READY == rx # <<>>
CORE_STATUS == cur # <<>> \/ stopping \/ slave.dir # "free"

(* Mutant: the ready bit is not looked at. *)
txAlways == TRUE

txReady == TX_READY

(* Mutant: a byte is waited for before it is asked for. *)
firstWaitRx(step) == IF step.fn = "read" THEN "rxwait" ELSE "txwait"

firstWait(step) == "txwait"

Begin(steps, call) ==
  /\ script' = steps /\ asked' = call /\ received' = <<>>
  /\ dpc' = firstWait(steps[1])
  /\ answer' = <<>>
  /\ UNCHANGED coreVars

I2cWrite(reg, n, value) == dpc = "idle" /\ Begin(WriteScript(reg, n, value), <<>>)
I2cRead(reg, n) == dpc = "idle" /\ Begin(ReadScript(reg, n), <<reg, n>>)

(* i2c_init: the core is disabled, its clock configured, and enabled.      *)
InitStep ==
  /\ \/ dpc = "off" /\ dpc' = "config" /\ enabled' = FALSE
     \/ dpc = "config" /\ dpc' = "enable" /\ UNCHANGED enabled
     \/ dpc = "enable" /\ dpc' = "idle" /\ enabled' = TRUE
  /\ UNCHANGED <<asked, script, received, answer, cmds, cur, stopping, rx, slave>>

TxReady ==
  /\ dpc = "txwait" /\ txReady
  /\ dpc' = "put"
  /\ UNCHANGED <<asked, script, received, answer>> /\ UNCHANGED coreVars

(* The step is over: the next one, or the end of the call. *)
NextStep ==
  /\ script' = Tail(script)
  /\ dpc' = IF Len(script) = 1 THEN "idle" ELSE firstWait(script[2])

(* A command put into a full FIFO is lost. *)
PutCommand ==
  /\ dpc = "put"
  /\ LET step == Head(script) IN
     /\ cmds' = IF Len(cmds) < DEPTH THEN Append(cmds, step) ELSE cmds
     /\ IF step.fn = "read" THEN dpc' = "rxwait" /\ UNCHANGED script
        ELSE IF step.sto THEN dpc' = "status" /\ UNCHANGED script
        ELSE NextStep
  /\ UNCHANGED <<asked, received, answer, enabled, cur, stopping, rx, slave>>

RxReady ==
  /\ dpc = "rxwait" /\ RX_READY
  /\ received' = Append(received, Head(rx)) /\ rx' = Tail(rx)
  /\ IF Head(script).sto THEN dpc' = "status" /\ UNCHANGED script ELSE NextStep
  /\ UNCHANGED <<asked, answer, enabled, cmds, cur, stopping, slave>>

(* while(0 == get32(status)): the program goes on once the core is busy.   *)
StatusBusy ==
  /\ dpc = "status" /\ CORE_STATUS
  /\ NextStep
  /\ IF Len(script) > 1 \/ asked = <<>> THEN UNCHANGED <<asked, received, answer>>
     ELSE /\ answer' = Append(asked, valueOf(received))
          /\ asked' = <<>> /\ received' = <<>>
  /\ UNCHANGED coreVars
---------------------------------------------------------------------------
(* What a command does to the sensor. *)
Perform(s, c) ==
  LET t == CASE c.sta -> [s EXCEPT !.dir = IF c.data = 1 THEN "read" ELSE "write", !.index = 0]
             [] ~c.sta /\ s.dir = "write" /\ s.index = 0 ->
                  [s EXCEPT !.index = 1, !.addr = BYTES * c.data]
             [] ~c.sta /\ s.dir = "write" /\ s.index = 1 ->
                  [s EXCEPT !.index = 2, !.addr = @ + c.data]
             [] ~c.sta /\ s.dir = "write" /\ s.index = 2 ->
                  [s EXCEPT !.regs[s.addr] = c.data, !.addr = (@ + 1) % (BYTES * BYTES)]
             [] ~c.sta /\ s.dir = "read" ->
                  [s EXCEPT !.addr = (@ + 1) % (BYTES * BYTES)]
             [] OTHER -> s
  IN IF c.sto THEN [t EXCEPT !.dir = "free"] ELSE t

CoreTake ==
  /\ enabled /\ cur = <<>> /\ ~stopping /\ cmds # <<>>
  /\ cur' = <<Head(cmds)>> /\ cmds' = Tail(cmds)
  /\ UNCHANGED driverVars /\ UNCHANGED <<enabled, stopping, rx, slave>>

CoreTransfer ==
  /\ cur # <<>>
  /\ slave' = Perform(slave, cur[1])
  /\ rx' = IF ~cur[1].sta /\ slave.dir = "read" /\ Len(rx) < DEPTH
           THEN Append(rx, slave.regs[slave.addr]) ELSE rx
  /\ stopping' = cur[1].sto
  /\ cur' = <<>>
  /\ UNCHANGED driverVars /\ UNCHANGED <<enabled, cmds>>

(* Assumption on timing: a STOP condition lasts longer than the program's  *)
(* few instructions up to its status poll; 2.5 microseconds at least       *)
(* against 70 clocks of a microsecond.                                     *)
awaitsBusy == dpc \in {"rxwait", "status"} /\ Head(script).sto

CoreStop ==
  /\ stopping /\ ~awaitsBusy
  /\ stopping' = FALSE
  /\ UNCHANGED driverVars /\ UNCHANGED <<enabled, cmds, cur, rx, slave>>
---------------------------------------------------------------------------
I2cInit ==
  /\ dpc = "off" /\ asked = <<>> /\ script = <<>> /\ received = <<>> /\ answer = <<>>
  /\ enabled \in BOOLEAN
  /\ cmds = <<>> /\ cur = <<>> /\ stopping = FALSE /\ rx = <<>>
  /\ slave = [dir |-> "free", index |-> 0, addr |-> 0, regs |-> [r \in Reg |-> 0]]

I2cDriver == InitStep \/ TxReady \/ PutCommand \/ RxReady \/ StatusBusy
I2cCore == CoreTake \/ CoreTransfer \/ CoreStop
I2cCall == \E reg \in Reg, n \in Lengths :
             \/ I2cRead(reg, n)
             \/ \E value \in 0 .. BYTES^n - 1 : I2cWrite(reg, n, value)

I2cNext == I2cCall \/ I2cDriver \/ I2cCore

(* The processor fetches on, and the core has its own clock. *)
I2cFairness == WF_i2cVars(I2cDriver) /\ WF_i2cVars(I2cCore)

I2cSpec == I2cInit /\ [][I2cNext]_i2cVars /\ I2cFairness
---------------------------------------------------------------------------
(* The registers as they will be when every command under way is done: the *)
(* core's, those in the FIFO and those the driver has still to put.        *)
toCome == cur \o cmds \o IF dpc \in {"rxwait", "status"} THEN Tail(script) ELSE script

(* One sensor, in a set so that every step is computed once.               *)
finalSlave ==
  LET after[i \in 0 .. Len(toCome)] ==
        IF i = 0 THEN {slave} ELSE {Perform(s, toCome[i]) : s \in after[i - 1]}
  IN after[Len(toCome)]

finalRegs == (CHOOSE s \in finalSlave : TRUE).regs

Registers == INSTANCE RegisterFile WITH regs <- finalRegs, answer <- answer

(***************************************************************************)
(* ImplementsRegisters: the calls read and write registers as if each took *)
(* effect at once and in order, though a write returns while its commands  *)
(* are still being carried out and the next call's commands queue up       *)
(* behind them; no command and no byte is lost (VL53L1X.c 51-124,          *)
(* qsys_i2c.c 48-119).  Each call and each return is the step of the       *)
(* register file it ought to be, and every other step is none.             *)
(***************************************************************************)
ImplementsRegisters ==
  /\ Registers!RegInit
  /\ [][ \/ UNCHANGED <<finalRegs, answer>>
         \/ \E reg \in Reg, n \in Lengths :
              \/ I2cRead(reg, n) /\ Registers!Ask
              \/ asked = <<reg, n>> /\ StatusBusy /\ Registers!Read(reg, n)
              \/ \E value \in 0 .. BYTES^n - 1 :
                   I2cWrite(reg, n, value) /\ Registers!Write(reg, n, value)]_i2cVars

(***************************************************************************)
(* CallsReturn: every register access to a device that acknowledges        *)
(* returns; no polling loop waits for what cannot come (qsys_i2c.c 56, 81, *)
(* 86, 104-115).  Without such a device no byte arrives, and the loops for *)
(* RX_READY at 105, 109 and 115 would not end.                             *)
(***************************************************************************)
CallsReturn == (dpc \notin {"off", "idle"}) ~> (dpc = "idle")
=============================================================================
