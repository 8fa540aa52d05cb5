# KyogenRV: specification, model checking and proofs

KyogenRV is a five-stage RV32I processor in Chisel (`src/main/scala`), with a
test bus and memories for simulation, an Avalon-MM wrapper for the FPGA
(`fpga/avm_module`) and the firmware of the board, which reports what a
distance sensor measures (`src/sw`).  This directory holds TLA+ models of the
processor, clock by clock, and of the firmware, the checks TLC makes of them on
small instances, and proofs, checked by TLAPS, of the properties that hold for
every value of the constants.

All paths to sources below are relative to the repository.

## 1. The system

| Component | State | Operations | Interacts through |
|---|---|---|---|
| Pipeline (`core.scala`, `KyogenRVCpu`) | PC, fetch in flight, ID register with two save slots and `temp_lock`, EX, MEM and WB registers, register file, start-up counter, `in_loadstore` | one clock: fetch, decode, execute, access memory, write back, choose the next PC | request, acknowledge, data, wait and interrupt lines; wires to CSR and ALU |
| Decoder (`control.scala`, `Instructions.scala`) | none | instruction to control signals, immediate | combinational in ID and EX |
| ALU (`ALU.scala`) | none | sum, comparison, shift, logic | combinational in EX |
| CSR unit (`csr.scala`) | trap registers, interrupt enable stack, pending bits, last valid address, counters | read, write, detect and take a trap, count | looks at the instruction in EX; `expt` kills it and redirects the PC |
| IMem, DMem (`mem/`) | four byte-wide memories each, registered acknowledge | read, write with byte enables | one request and one acknowledge line each, no wait |
| CpuBus (`core.scala`) | nothing of its own that matters after loading | wires the core to IMem and DMem, gives the test bench the wait, interrupt and halt inputs | |
| Avalon-MM wrapper (`kyogenrv_fpga_avalonMM.sv`) | one clock of halt after reset | derives the two wait inputs from the slaves' waitrequest | Avalon-MM slaves (on-chip memory, SDRAM, PIO, UART, I2C) |
| Loader / halt mode (`core.scala`, test bench) | address and data registers | writes a program while the core halts | `io.sw` |
| Delays and time-outs (`krv_utils.c`, `VL53L1X.c`) | the time a call started | `wait_ms`, `get_time_ms`, `startTimeout`, `checkTimeoutExpired` | read the two halves of the running counter |
| Formatted output (`xprintf.c`, `krv_utils.c`) | a numeral's buffer | `xvfprintf`, `xfputc`, `uart_putc` | the UART's data and status registers |
| I2C master (`qsys_i2c.c`) | none; the device's FIFOs | start, write a byte, read a byte | polls the I2C core, which drives the bus on its own |
| Sensor driver (`VL53L1X.c`) | oscillator values, `calibrated`, results | init, distance mode, timing budget, start, read | registers of a sensor that boots and measures on its own |
| Main program (`main.c`, `utils.S`) | none | start-up, memory test, endless reporting | calls all of the above; may be restarted by a reset |

What is hard about it.  Nothing in the core is concurrent in the sense of
threads, but five instructions are in flight and each of the following can fall
on any clock of any of them: a wait of the instruction bus, a wait of the data
bus, a late acknowledge, a taken jump, a trap, an interrupt.  The core has no
valid bits: a bubble is a NOP with address 0, the forwarding network compares
raw `rd` bits, and fetch, decode and execute are kept in step by conditions
spread over `stall`, `inst_kill`, `waitrequest`, `loadstore_in_pipe`,
`loadstore_proc`, `in_loadstore`, `temp_lock` and `valid_imem`.  The
repository's tests run one fixed timing (no waits) of about fifty programs and
look only at their final verdict.

The firmware is one sequential program without interrupts, but four things run
beside it: the counter, whose halves it reads one after the other; the UART and
the I2C core, which work off what it gave them; and the sensor, which boots and
measures when it likes.  A reset restarts the program without restoring its
variables.  The repository has no test of the firmware.

The hazards all this leads to are listed in `PROJECT.json` with the lines at
which they bite.

What makes each component correct:

* pipeline: the program has the effect the instruction set gives it, whatever
  the distances between its instructions and whenever the bus waits; execution
  never stops;
* forwarding and interlocks: the operands an instruction computes with are
  those its predecessors leave;
* bus interface: every answer is taken by the access that asked for it;
* CSR unit: a trap records the instruction that raised it, an interrupted
  program can be resumed, writes are neither lost nor repeated;
* ALU and byte lanes: they compute what arithmetic on words, and memory as an
  array of bytes, say;
* delays: never shorter than asked for, never endless;
* output: the line carries what the format says;
* register accesses: they act as if at once and in order, and all return;
* sensor driver: the sensor measures only when configured, within its budget;
  every measurement is reported once; reporting never stops.

## 2. The modules

| Module | What it is |
|---|---|
| `Words` | words of `XLEN` bits: addition with wrap-around, two's complement, bit fields |
| `ALU` | all sixteen functions of `ALU.scala`: adder, comparator, shifter, logic, selection |
| `ALUSpec` | what the functions mean; a driver that applies them to all operands |
| `RV32I` | instructions as records of the fields the core extracts; the decode table, one operator per column |
| `KyogenCSR` | class `CSR`: state record, exception detection, trap entry, CSR writes |
| `KyogenRVCpu` | class `KyogenRVCpu` on `CpuBus`, `IMem`, `DMem`: one action `Cycle` per rising clock edge |
| `KyogenArch` | what the pipeline's registers mean for the program; the interlock properties, `EffectsCorrect` and `KeepsExecuting` |
| `RV32Meaning` | what an instruction means: the value it computes, where the program goes behind it, the exception it raises |
| `RV32ISA` | the abstract specification: the instruction set, one instruction per step |
| `KyogenRefinement` | refinement mapping from the pipeline to `RV32ISA`; the interrupt properties |
| `KyogenAvalonMM` | the same core behind the Avalon-MM wrapper, with external slaves that wait and answer late |
| `AvalonRefinement` | the refinement mapping for that composition, and its fairness |
| `ByteMemory` | the abstract specification of loads and stores: an array of bytes |
| `DMemLanes` | byte enables, shifted store data, four byte lanes, selection and extension; implements `ByteMemory` |
| `KrvTime` | the counter in two halves, `wait_ms`, and the time-out of `VL53L1X_read` |
| `Xprintf` | formatted output, character by character, and the UART |
| `SdramTest` | the memory test, over a memory that may be wired wrong or stuck |
| `TimeoutCode` | the loop of `VL53L1X_encodeTimeout` |
| `RegisterFile` | the abstract specification of register accesses: registers read and written at once |
| `QsysI2c` | register accesses as calls of `qsys_i2c.c`, with the I2C core and the sensor's side of the bus; implements `RegisterFile` |
| `VL53L1X` | what the sensor driver writes, in order, and what it makes of the results |
| `Firmware` | `main` and the driver's calls, one register access per step, with the sensor beside them and resets of the processor |
| `WordLemmas` | lemmas about words: wrap-around, order and signs |
| `InductionLemmas` | induction, recursion and powers of two for numbers, stated about sets |
| `UnitProofs` | theorems about the ALU, its shifter and the byte lanes |
| `KyogenProofs` | theorems about the pipeline on both buses: interlocks and forwarding; what each clock does to the program's state |
| `FirmwareProofs` | theorems about the memory test, the time-out code, formatted output, delays and time-outs |
| `I2cProofs` | the theorem that register accesses over I2C implement the register file |
| `RangingProofs`, `ConfigProofs` | theorems about the driver: what it reports; what it configures |
| `Program` | an assembler for the small programs of the runs |
| `MCForward`, `MCIsa`, `MCProgress`, `MCAvalon`, `MCFindings` | programs and memory images for TLC |
| `MCUnits` | the parts that stand alone, side by side: a behaviour exercises one of them |
| `MCFirmware` | builds, measurements and the sensor's registers after a reset |

### How the pipeline is modelled

A step is a clock.  `Pipeline(w, irq)` is the conjunction of the stages, all
reading the old registers, as the Chisel code's registers do; the wires `stall`,
`inst_kill` and `waitrequest` are computed once and passed to the stages, which
have the same names as in the source where the source names them.  `Cycle` adds
the two memories.  Where the source assigns a register several times in a clock
the last assignment wins; the six disjuncts of `DecodeStage` (`Save`, `Take`,
`Flush`, `ResumeHeld`, `ResumeSaved`, `HoldId`) are the outcomes of the chain
at `core.scala:162-252` with that rule applied, and exactly one is enabled in
any state.

Abstractions:

* A pipeline register keeps the address and the instruction; control signals,
  `npc` (always the address plus 4) and field copies are derived from it.
* An instruction is a record: operation, the raw fields `rd`, `rs1`, `rs2`, the
  assembled immediate, the CSR name and a word that stands for the encoding
  (it only reaches `mtval`).  The raw fields matter: stores and branches carry
  immediate bits where `rd` is, and the interlocks compare them.
* A word has `XLEN` bits.  The proofs are for every width (of more than 12 bits
  where CSRs are concerned, since bit 11 has to lie below the sign bit); TLC
  uses 13-bit words for the core and 4-bit words for the ALU.
* `PC_EVEC` (0xDEAD) is a parameter, so that a handler fits in the small
  memory; registers without a reset value start in any value of `Uninit`.
* The model starts when the loader has finished and reset is released with
  halt low: the start-up counter, the first request and the first fetches are
  part of every behaviour.  Both memories' contents are chosen by `Init`.
* `withClock(invClock)` around the register file's write changes nothing: the
  registers keep the clock under which they were declared, so a value written in
  a clock is read in the next (this is what the conditions at
  `core.scala:284-285` are for).
* The decode table contains the instructions that differ in control.  The
  logical operations, shifts, SLT, SLTI, SLTIU and the immediate CSR set and
  clear take the same path as ADD, ADDI and the other CSR instructions and are
  left out of the programs; what the ALU computes for them is checked on the
  ALU.  CSRRS and CSRRC occur as reads.  Byte and halfword accesses take LW's
  and SW's path and differ in the lanes, which are checked separately.

While the model was written it was compared, register by register and clock by
clock, with the Verilog generated from the sources on 150 random programs, which is
what settled the last-assignment cases and the register file's clock.

### The instruction set as the abstract specification

An instruction takes effect when it passes from EX to MEM: from MEM on nothing
kills it.  The mapping therefore completes the register file and the data
memory with what MEM and WB have still to write (`settled`, `stored`), and the
abstract program counter is what follows the instruction in MEM (`after`; the
history variable `h` keeps it while MEM is empty).  Bubbles are NOPs with the
same encoding as the program's NOPs, so the mapping identifies addresses that
are separated by NOPs only (`NextReal`).  `RV32ISA` is written from the meaning
of the instructions (`RV32Meaning`), uses mathematical comparison and does not
use the decoder or the ALU.

`EffectsCorrect` says the part of the same that needs no padding, clock by
clock: with `settled` and `stored` for registers and memory, either the
instruction in EX passes to MEM and has on every register, every word of memory
and the next address the effect `RV32Meaning` gives it, or nothing changes.  It
does not say which instruction comes into EX next, which is where the core loses
instructions behind a load or store, nor what a CSR instruction leaves in the
CSR unit.  `LoadsApart` is its condition: no load or store directly behind a
load.  With one there, on a bus that waits, the load in WB takes the word of the
access behind it.

### How the firmware is modelled

At three levels of detail, because a single one would hide the interesting
steps of the others:

* `QsysI2c` has the accesses to the I2C core's registers.  A call of
  `VL53L1X_writeReg` or `readReg` is a script of commands; the driver polls,
  puts a command into the FIFO and polls again, while the core takes commands
  and carries them out with the sensor.  The abstract registers are those the
  sensor will have once every command under way is done (`finalRegs`), so a
  write takes effect, abstractly, when it is called, and a read answers with
  the registers of that moment.
* `Firmware` has one step per register access, which is what `QsysI2c`
  justifies.  A write waits in `todo` until it is carried out; the sensor
  (external) may boot, or finish a measurement, between any two steps.
  `CpuReset` may fall between any two steps and restarts `main` with the static
  variables and the sensor as they are, since `utils.S` clears no memory and
  the sensor has no connection to the reset.  The model identification may
  fail, for another device or one that is still held in reset.
* `KrvTime` has the clock.  In `Firmware` a time-out may end any poll, and must
  end the last one (`MaxPolls`); that it ends is what `NeverLate` says of the
  loop in `KrvTime`.

`Xprintf`, `SdramTest` and `TimeoutCode` are loops of their own, one step per
turn.  Characters are put through the UART's holding and shift registers; a
memory has a cell for each address or, wired wrong, for several.

## 3. The runs

| Run | What is explored | Environment | Properties | States |
|---|---|---|---|---|
| `forward` | 729 programs: three of nine instructions back to back (arithmetic, loads, stores, jump, branch, CSR swap) | bus waits in any clock | `TypeOK`, `OperandsCorrect`, `Interlocks`, `EffectsCorrect` | 94,717 |
| `isa` | 5,376 programs: three of seven instructions and a user (arithmetic, branches, jump, NOP); loads and stores at computed addresses; calls of functions that load or store and return (`put32`, `get32` of `utils.S`); CSR instructions, every synchronous trap but the misaligned branch target, and a handler that returns | bus waits in any clock for the first kind; memories of the test bus, no waits, for the others | `ImplementsISA` | 241,590 |
| `progress` | 180 programs: jumps, branches, hazards and traps close together, and loads and stores next to each other, to jumps and to traps | weakly fair clock; bus waits in any clock for programs without loads and stores, memories of the test bus, no waits, for the others | `KeepsExecuting` | 9,817 |
| `avalon` | 180 programs: loads and stores, and calls of `put32` and `get32`, behind the wrapper | data slaves wait and answer late | `AnswersClaimed`, `ImplementsISA`, `KeepsExecuting` | 7,454 |
| `units` | the seven parts below, each on all its inputs | counter, UART, I2C core, faulty memories | eleven, see below | 384,545 |
| `firmware` | eight builds (mode and budget), five measurements, one reset anywhere | the sensor boots and measures at any time, or another device answers in its place | `RangesConfigured`, `RangesWithinBudget`, `ReportsSamples`, `SpadsMeetTarget`, `KeepsReporting` | 157,651 |

The parts of `units`:

| Part | Bounds | Properties |
|---|---|---|
| ALU | all functions, all 4-bit operands, all shift amounts | `AluCorrect`, `ShiftsCorrect` |
| byte lanes | all contents of 2 words of 1-bit bytes, all sizes and offsets | `ImplementsBytes` |
| delays and time-outs | halves of 8 values, 2 clocks in a millisecond, 8 values of a 16-bit time; every start, every pace of up to one clock per step | `NeverEarly`, `NeverLate` |
| output | 568 formats of 6 number types, all flags, widths and sizes with numbers at the limits (`int` of 5 bits, `long long` of 7), strings with and without precision and line feeds; a buffer of 6 digits, less than some numbers need | `DigitsKeepValue`, `LineCorrect` |
| memory test | 3 words, all wirings to 3 cells, all stuck cells, all contents | `SdramVerdict` |
| time-out code | every number up to 600 and those around the powers of two | `CodeCorrect` |
| I2C | 4 registers of 1 bit, reads and writes of 1 and 4 bytes, FIFO of 4, any interleaving of calls, driver and core | `ImplementsRegisters`, `CallsReturn` |

**Bounds of the programs and why they are enough.**  Programs are at most 29
words long; each run's programs are *all* sequences of the given shape.  TLC
explores every program from the release of reset until the final loop.  A
hazard needs a producer and a consumer at
most three instructions apart (EX to WB), so sequences of three and four
instructions contain every pair at every distance, with every third instruction
between or around them.  Two or three registers give every overlap of
operands.  The data memory has 16 words.  Waits are not bounded: any clock may be a wait, and the state space is
finite without it.  13 bits hold every address, immediate and the CSR bits the
programs use; arithmetic that wraps is covered by the ALU's part and by the proofs.
One-bit bytes still have a sign and eight bytes still have neighbours.

**Bounds of the firmware and why they are enough.**  Counter halves of eight
values carry, and their milliseconds wrap in the cut to `MSWORD`, several times
in a call; `NeverEarly` and `NeverLate` are proved without the bounds, the latter
where 2^32 clocks, cut to the 16-bit time, are more than a time-out (`Timely`),
as they are here and on the board.  A sixth digit is where the buffer is full, and numbers with
fewer, as many and more digits are among the formats.  Four commands fill the
FIFO; one byte and four are a write shorter and longer than it.  Results have words of two
4-bit bytes (`BYTE = 16`), in which rates are clipped and quotients vanish as in
16 bits.  One poll before the time-out is enough to have a measurement ready
before, between and after; one reset at every point of the first run, with the
sensor in every phase.  Builds are the three modes and an unrecognized one
with budgets below, at and above each limit.

**A precondition the runs state openly.**  The core loses instructions that
follow a load or store too closely (see `near_load` below).  The programs of
`isa` and `avalon`, whose property is `ImplementsISA`, therefore have three
NOPs, or a taken jump, behind each load and store (the jump is what the
firmware's `put32` and `get32` have there), and NOPs behind CSR instructions,
whose write is lost when the instruction behind them stalls; and the programs of `isa` that meet waits
contain neither.  The programs of `forward` and `progress` have no such padding:
their properties do not depend on it; those of `progress` that load or store meet
no waits (see `FairSpec` below).  With the padding the refinement does
hold.

**Which run meets which hazard.**  The padding has a price.  What goes wrong close
behind a load, a store, a CSR instruction or a jump is not in the passing runs of
`ImplementsISA`: the save slots and `temp_lock` (`core.scala:163,168,224`) are
exercised there only as far as padded programs reach them, and fully in
`near_load` and `inst_wait`; the instruction slave's wait
(`kyogenrv_fpga_avalonMM.sv:39`) only in `inst_wait`; traps, CSR writes and CSR
operands close to other instructions (`csr.scala:339,330`, `core.scala:370,416`)
only in `over_trap`, `csr_stall` and the variants listed with them.  That the
pipeline does not wait for ever for an acknowledge (`core.scala:117`) or for
`in_loadstore` (`core.scala:154`) is shown by `KeepsExecuting` twice: in `progress`
without padding and without waits, in `avalon` with padding and with slaves that
wait and answer late.

**Fairness.**

* `Fairness` of the core asserts weak fairness of a clock in which the bus does
  not wait, `AvalonHSpec` of one in which no slave waits or delays: the clock never stops, and a
  slave that waited for ever would rightly stop the core.  Nothing is assumed of
  the core's own choices: it has none.  `KeepsExecuting` says that real
  instructions pass into MEM again and again; every program ends in a loop, so
  there is always one to execute.
* `I2cFairness` asserts weak fairness of the driver (the processor fetches on)
  and of the I2C core (a device with its own clock).  `CoreStop` carries an
  assumption on timing instead (`awaitsBusy`): a STOP condition is not over
  before the program, a few instructions later, reads the status.  At 400 kHz
  it lasts much longer than that; if it did not, `while(0 == get32(status))`
  would never end, which TLC shows when the conjunct is removed.
* `FirmwareFairness` asserts weak fairness of the program and of the sensor's
  boot after a reset.  Nothing makes the sensor measure, or be a VL53L1X:
  `KeepsReporting` holds without either, by the time-out.  It does assume that
  every register access returns (next paragraph).  Resets are bounded: a
  processor reset for ever would report nothing.

**A device that acknowledges.**  `QsysI2c` has no byte that is refused: some
device is at the sensor's address and acknowledges the address and every byte,
be it a VL53L1X, one that is still held in reset as `Firmware` models it, or another
device with another model identification (`genuine = FALSE`).  `CallsReturn` and,
since `Firmware` takes an access for one step, `KeepsReporting` hold under
this assumption and not without it.  The driver looks at no acknowledge bit; on
a bus where nobody answers no byte arrives, and the loops that wait for one
(`qsys_i2c.c:105,109,115`) would not end, so that `VL53L1X_init` would not return
and nothing would be reported.

Deadlock is checked in every run but `units`, some of whose parts end: a clock,
or a step of the endless loop in `main`, must always be possible.

### Disagreements with the documentation

Each of these runs checks one property that states what `README.md` (RV32I,
privileged ISA 1.11, external interrupt, Avalon-MM) or a comment in the code
promises, and TLC finds it violated by the code.  `PROJECT.json` quotes the
lines.

| Run | What happens |
|---|---|
| `near_load` | `lw; addi; addi; addi` on the test bus: the third `addi` is fetched, saved and never executed |
| `over_trap` | `jal` over an `ecall`: the `ecall` traps |
| `resume` | after an external interrupt `mepc` names an instruction that has already been executed |
| `csr_stall` | a CSR write is dropped because the instruction behind it stalls in ID |
| `inst_wait` | an instruction slave that waits twice: straight-line code loses an instruction |
| `restart` | after a reset of the processor the sensor is reset too, but `calibrated` is still true: the sensor's own calibration stays on |

More of the same kind can be reproduced by changing one line of a
configuration:

* in `FindOverTrap.cfg`, `Programs <- OverCsrPrograms`: a CSR write that a jump
  skips is performed;
* `Programs <- CsrForwardPrograms`: a CSR operand is forwarded from the
  immediate bits of a branch; `CsrZeroPrograms`: `csrrw` with `x0` behind another
  CSR instruction writes that instruction's old CSR value;
* `Programs <- OddJumpPrograms`: a `jalr` to an odd address traps instead of
  clearing bit 0;
* in `FindResume.cfg`, `INVARIANT InterruptsMaskable` in place of the property:
  an external interrupt is taken with the enable bits of `mstatus` clear;
* `Programs <- SwapPrograms` with `WaitInputs = {FALSE, TRUE}`: a `csrrw` that a
  bus wait holds in EX reads its own new value;
* in `MCProgress.cfg`, `SPECIFICATION FairSpec`: a wait of the test bus in the clock
  of a data acknowledge, which lasts one clock, leaves the load waiting for ever
  (`core.scala:117-118`);
* in `MCAvalon.cfg`, `Programs <- PairPrograms`: of two loads back to back the
  answer of one reaches the other when the slave is late (`AnswersClaimed`).

`NeverEarly` has a condition that is a finding of its own: a carry between the
readings of `timeh` and `time` does end a wait at once (`krv_utils.c:20-24`);
no line of the repository says otherwise.

## 4. The theorems

### The pipeline

`KyogenProofs` proves about `Spec` of `KyogenRVCpu`, for every set of programs
(`ProgramAssumption` asks only that instructions be well formed), every memory
size, word width, wait and interrupt input:

* **`TypeCorrect`**: `Spec => []TypeOK`.
* **`InterlocksCorrect`**: `Spec => []Interlocks`, the four facts
  `EmptyBehind`, `NoUseBehindLoad`, `OperandsFresh` and `X0Zero`.
* **`ForwardingCorrect`**: `Spec => []OperandsCorrect`.

`OperandsCorrect` relates the forwarding network to the registers' final values
and is not inductive: the network has no path for a return address and takes the raw word
of the bus for a load, so it is right only because there is nothing in EX to
use it.  The inductive invariant `IInv` is `TInv` (the type invariant, the well-formedness
of the instructions in flight) together with `Interlocks`; `IInvInvariant` proves
it action by action, and `OperandsCorrect` follows from it in one state.  The
step that matters is a clock in which EX is filled: there the stall conditions
of `core.scala:282-289` give `NoUseBehindLoad` and `OperandsFresh`, and the kill
condition and `loadstore_proc` give `EmptyBehind`.  A corollary of `EmptyBehind` is
that the network's path for a load in WB, which would forward the unselected bus word of a
byte load, is never taken.

Most of these lemmas are about `Pipeline(w, irq)` and not about a memory, so
they hold behind the wrapper as well, whose action has the same conjunct:

* **`AvalonForwardingCorrect`**: `AvalonSpec => [](TypeOK /\ Interlocks /\
  OperandsCorrect)`.
* **`AnswersReachTheirLoads`**: with `InstWaits = {FALSE}` (instructions come
  from on-chip memory, as on the board) and `[]LoadsApart`, every answer that a
  data slave gives or owes is for the load in WB.  The invariant adds that a
  slave that owes an answer is not giving one.  Both hypotheses are
  needed: without the second, one load's answer can reach the next (see above).

Three theorems say what the interlocks are for.

* **`EffectsOnBus`**: `Spec => EffectsCorrect`.
* **`EffectsBehindWrapper`**: `AvalonSpec => EffectsCorrect`.
* **`EffectsWithoutWaits`**: on a test bus that never waits the clocks are
  right without `LoadsApart`, as long as the load in WB is from an address
  the memory decodes.

The argument has three parts.  What EX computes on settled operands is what the
instruction means: one lemma for those that use the adder, one for the
comparator (with the sign lemmas of `WordLemmas`), one each for jumps, for the
other sources of `rd`, and for the exceptions that kill a memory access.
What is in MEM and WB comes out of them unchanged, whichever of them waits: a
lemma on `settled` and one on `stored`.  And `MemoryServes`, that the memory has
the word of the load in WB on the bus when WB is emptied, is the only part that
is about a memory: it follows from an invariant for each of the three
specifications, that an acknowledged answer is for the address in WB
(`LoadAnswered`, `AnsweredAtOnce`, `OwedToLoad`).

### The units

`UnitProofs` proves the comparator right for every width (`ComparisonsCorrect`)
and `AluAlwaysCorrect`, `AluSpec => []AluCorrect`; the argument is that the sign of
the wrapped difference is the order of the operands when their signs agree.  It
proves `LanesCorrect`, `LanesSpec => ImplementsBytes`: every step of the
lanes is the step of the byte memory with the same size and address, for every
byte width and memory size.

It proves **`ShiftsAlwaysCorrect`**, `AluSpec => []ShiftsCorrect`, for every width.
The shifter reverses the operand for a left shift and works on bits; the property
speaks of `2^sh`.  The argument views a word as the set of positions whose bits are
set: the sum of a part of these is built up from the lowest position by induction
(`BelowSplit`), words are determined by their bits, and a quotient, a product
or a fill by `2^sh` is the word whose bits lie `sh` places away.

`InductionLemmas` makes the inductions possible.  The library's induction theorems
take a predicate as a parameter; here induction is a fact about sets
(a set of numbers that has 0 and with each number the next has all of them, from the
minimum of what is left), recursion is a fact about functions whose step is a
function, and powers of two are what counts the subsets of an interval.

`FirmwareProofs` proves `SdramVerdictCorrect`: words read back so far hold
their own offsets, hence are in different cells, whatever the memory; and in a
memory with a cell that is not stuck for every word, each word written so far
holds its offset, so that only a faulty one is rejected.  It proves
`CodeAlwaysCorrect` from `ls_byte * weight2 <= timeout_mclks - 1 < (ls_byte + 1)
* weight2`, which halving the one and doubling the other keeps, and
`DigitsAlwaysKeepValue`: one turn of the loop moves a digit from `v` to `done`
and keeps `done + weight * v`; the invariant adds that the base is positive and
that digits are made only of a number.

### Formatted output

`FirmwareProofs` proves **`LineAlwaysCorrect`**, `ConsoleSpec => []LineCorrect`, for
every format, every argument, and every width of `int`, `long long` and of the
buffer: what has left the UART is always the beginning of what the format says, and
all of it when the program has finished and the UART is idle.

The format says a sequence of fields.  `Beginnings(call)` is what its first items
print, item after item, and the invariant `LineInv` has five parts.

* The items left are the last ones of the format (`AtItem`), so that the item in
  hand is the one at `Position + 1`.
* What has been sent, is being shifted and is held, in that order (`Out`), is
  `Beginnings(call)[Position]` until an item's text is made; from then on
  `Out \o Crlf(todo)` is `Beginnings(call)[Position + 1]` (`PutSoFar`).  Between the
  carriage return and its line feed the same holds with the line feed owed.  A
  character is added to `Out` at its end only if nothing is held when it is written,
  which is why the status has to be polled.
* In the digit loop the digits made are the lowest of the number,
  `str[i] = glyph((value \div radix^(i-1)) % radix)`, and `v` is what division leaves,
  `value \div radix^Len(str)` (`InDigits`).  When the loop ends `v` is 0 or the
  buffer is full, and a quotient that was not 0 before says that no place is missing
  or too many (`NumeralMade`), so that the digits turned round are the numeral.
* A negative number leaves room in the buffer for its sign (`SignFits`): it is below
  `LLONGS`, and `XprintfAssumption` says that the buffer holds one digit more than
  any such number has in base ten, as 32 characters do for 64 bits.

The rest is about data: lines joined one after the other (`FlatIs`, `SumsGrow`),
the carriage returns put into a line from its front (`CrlfIs`), padding and cutting
(`FieldIs`, `CutIs`), powers and the number of places (`PowersGrow`, `PlacesUnique`),
each an induction by `InductionLemmas`.

### Delays and time-outs

`FirmwareProofs` proves **`NeverEarlyAlways`**, `TimeSpec => []NeverEarly`, for every
counter width, clock rate, time-out and pace.  A start that is not torn equals
the counter minus `elapsed`; a reading that is not torn equals the counter
or lies before it; and a difference cut to 16 bits, or of times cut to them, is
never more than the true one, so what ends the wait has really passed.

It proves **`NeverLateAlways`**, `Timely => (TimeSpec => []NeverLate)`, torn readings
included.  `NeverLate` bounds the clocks since a call started by the delay and
a few steps of the program.  The invariant `LateInv` has to say
why a torn reading cannot put the end off twice: it is half a counter too
small, so the counter's low half is near 0 after it (`Carried`), and the next
reading, three steps later, cannot be torn.  A start that is torn is too small
in the same way, so the first check sees half a counter more than has passed
and gives up.  Here `Timely` is needed: half a counter must be more milliseconds
than the time-out (2^32 / 70000 = 61356 of them, against 1000), and both must
stay distinguishable in 16 bits; were the counter's half 65536 milliseconds or
more, a torn start could look like none, and the wait would be endless.  TLC
evaluates `Timely` for the run's constants.

### Register access over I2C

`I2cProofs` proves **`RegistersImplemented`**, `I2cSpec => ImplementsRegisters`,
for every width of a byte, depth of the FIFO and set of lengths: a call that
writes takes effect at once on the registers *as they will be* (`finalRegs`), a
read returns the number they held when it was called, and no other step of the
driver, the core or the sensor changes either.

The mapping is a fold over `toCome`, the commands in the core, in its FIFO and
those the driver has still to put.  The proof carries a trace `f` of the sensor
along them; `Runs` says that there is one, that commands which read meet a sensor
that is being read, and that while a read is in progress each of its read
commands will find the address of its byte and the registers as they will be
(`Delivers`), as do the bytes received.  That it is an invariant takes two more
facts.  `CallInv` says how much of a call is still to put and how many bytes are
in.  `QueueInv` says that a command is put only into an empty FIFO and a byte asked
for only with nothing received that was not taken, so that neither FIFO overflows.
Then every step is of one of three kinds: a call adds its commands behind those
to come (`BeginStep`, from `TraceOfWrite` and `TraceOfRead`: what the commands
of a whole call do to a sensor, by induction over its bytes); a transfer takes
the first command away and makes the sensor what the trace says (`TransferStep`);
and any other step only moves a command from one place to the next (`KeepsRuns`).
`I2cAssumption` asks that a call be no longer than the sensor has registers:
addresses wrap, and the byte a longer write leaves in a register is its last and not
its first.

### The sensor driver

`RangingProofs` proves **`SamplesAlwaysReported`**, `FirmwareSpec =>
[]ReportsSamples`, for every set of builds and measurements, every number of polls and of
resets.  `ReportsSamples` says nothing of the long way to the value printed; the
invariant `RInv` does.  `SensorInv` says that the measurements not yet reported
are at any time none, the one in the sensor, or one being reported and perhaps
the next; `PhaseInv` says which of these it can be where the program is, and
that the values on their way are of the measurement that is due.  The register
writes that configure the sensor matter only in that none of them starts it,
resets it or clears its interrupt (`Quiet`, with one lemma for each sequence of
the driver).  The steps that matter are the reset of the sensor, which forgets
what was due, the clearing of the interrupt, after which a second measurement may
come before the first is printed, and a reset of the processor in between.

`ConfigProofs` builds on `RInv`.

* **`AlwaysRangesConfigured`**: `FirmwareSpec => []RangesConfigured`, whatever
  the sensor's registers hold after its reset.  The property speaks of a moment,
  when the sensor measures; what establishes it is some eighty writes, in four
  functions, any of which may be cut off by a reset of the processor and begun
  again.  The invariant `ConfInv` says of each setting that it is `Held`: in
  force in its register or among the writes due, with no write due that undoes
  it; which settings are held depends on where the program is.  `HeldWrite`
  shows that carrying out the next write keeps what is held.  Each function then
  needs only that its writes hold their own settings and stay away from the
  others' registers (`Aside`); for the values computed from registers (offset,
  period, pad) the invariant says what was read.  A reset of the processor keeps
  the settings while the sensor runs on, until `VL53L1X_init` resets it.
* **`SpadsAlwaysMeetTarget`**: `FirmwareSpec => []SpadsMeetTarget`.  `SpadInv`
  says that the value due or written is `requiredSpads` of the results at hand,
  and the rest is arithmetic: two quotients, each cut and clipped, the second by
  the first, bound the number of SPADs from both sides, and the cases in which
  the driver divides by zero are exactly those in which it falls back to the
  middle of the scale.
* **`AlwaysWithinBudget`**: `FirmwareSpec => []RangesWithinBudget`, for every
  budget a build may ask for, the refused ones included, every mode and every
  frequency of the oscillator.  The budget is set twice and the mode in between,
  so the code in force may have been computed for another mode's macro period:
  if main's budget is refused, the 50 ms of `VL53L1X_init` stay, coded for the
  periods of the long mode.  `BudgetInv` follows the two codes, with `Held`, from
  the step that computes each of them to the start of the sensor, as a function of
  the budget, the mode and the frequency.  The rest is arithmetic: a time is
  rounded to macro periods (`Mclks`), these to a mantissa and an exponent
  (`TimeoutDecoded`: by less than one part in `LSB / 2`, never up), and a shorter
  macro period can only shorten the range (`MacroPeriods`, `Fits`).

### Assumptions

Assumptions are the named ASSUMEs of the modules, which TLC evaluates in every
run: `WordsAssumption`, `SignBitAssumption`, `CsrAssumption`, `MemAssumption`, `ProgramAssumption`,
`InputAssumption`, `AvalonAssumption`, `LanesAssumption`, `TimeAssumption`,
`XprintfAssumption`, `SdramAssumption`, `CodeAssumption`, `I2cAssumption`,
`VL53L1XAssumption`, `FirmwareAssumption`.  The last says what the driver takes for granted of
a sensor: that the registers it uses exist and hold natural numbers, that the
oscillator's frequency has the 16 bits of its register and is not so low that a
macro period exceeds 32 bits (1152), and that a sensor does not measure before it
is started.

**Only model-checked.**

* `ImplementsISA`: its mapping goes through `NextReal`, a minimum over a set of
  addresses, and a proof needs an invariant for the fetch unit that
  holds only of padded programs.  What each clock does to registers and memory is
  proved (`EffectsOnBus`); which instruction is fetched next, and what the CSR unit
  does, is not.
* `KeepsExecuting`, `CallsReturn`, `KeepsReporting`: liveness, outside the
  prover.

## 5. Not modelled

* `cycle` and `instret`: free-running, they would make every state of the
  pipeline new; nothing reads them.
* Halt mode and the loader, the debug outputs.
* The immediate assembly of `ImmGen`.
* `mtohost`, `mfromhost`, `mtimecmp`, `satp`, `misa` and the identification
  registers: no behaviour of the core depends on them.
* Of `VL53L1X.c`: the two floating-point rates, which nothing reads, and the
  functions the program does not call.  Of `xprintf.c`: output to strings and
  to other devices, which is not called, and what `xprintf.h` compiles out.
* What a reset does in the middle of an I2C transfer: a restart falls between
  register accesses here.  What the I2C core does with a transfer it has begun
  is not in the repository.
* A bus without a device, or a byte that is not acknowledged: the driver has no
  code for either, and what the I2C core does then is not in the repository
  (see "A device that acknowledges" in section 3).
* A sensor that appears or fails while the program runs.
* Generated Verilog, memory images, build scripts.

## 6. Plan

Done, in this order: words and ALU; decoder; CSR unit; pipeline with memories;
interlock properties and their proofs; the instruction set and the refinement;
the Avalon composition; byte lanes and their proofs; shifts; time, output,
memory test; register accesses over I2C; the sensor driver and the main
program with restarts; their proofs; what each clock does to registers and
memory, on both buses, and the proof of it; the driver's configuration, number
of SPADs, timing budget, and the latest ends of delays; and the proofs of the
shifter, of register accesses over I2C and of formatted output.

Next:

1. Proofs: trap entry, and that a killed instruction leaves the CSR unit alone.
2. Traps: misaligned branch targets and their `mtval`, interrupts combined with
   loads and jumps.
3. Halt mode with the loader as actions before `Init`'s state; the remaining
   decode rows.
