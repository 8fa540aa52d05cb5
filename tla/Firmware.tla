------------------------------ MODULE Firmware ------------------------------
(***************************************************************************)
(* The program of the board: main identifies and configures the distance   *)
(* sensor, tests the memory, and reports a measurement every second.  The  *)
(* sensor (external) boots, measures and waits on its own; the processor   *)
(* may be reset at any point, which restarts main but, as utils.S clears   *)
(* no memory, leaves every static variable as it was, and the sensor too.  *)
(*                                                                         *)
(* One access to a sensor register is one step here: module QsysI2c has    *)
(* the steps inside it, and the assumption that some device acknowledges.  *)
(* A write waits in `todo` until it is carried out.                        *)
(***************************************************************************)
EXTENDS VL53L1X

CONSTANTS
  Builds,     \* mode and timing budget, in microseconds, main may be built with
  Samples,    \* what the sensor may measure
  Factory,    \* the sensor's registers after a reset
  MaxPolls,   \* bound: polls before the time-out (module KrvTime: NeverLate)
  MaxResets   \* bound: resets of the processor

written(writes) == {writes[i][1] : i \in DOMAIN writes}

ASSUME FirmwareAssumption ==
  /\ Samples \subseteq ResultBuffer /\ MaxPolls \in Nat /\ MaxResets \in Nat
  /\ \A build \in Builds : build[2] \in Nat
  /\ \A reg \in DOMAIN Factory : Factory[reg] \in Nat
  /\ Factory["OSC_MEASURED__FAST_OSC__FREQUENCY"] >= 1152
  /\ Factory["OSC_MEASURED__FAST_OSC__FREQUENCY"] <= 65535
  /\ Factory["SYSTEM__MODE_START"] # 64
  /\ {"SYSTEM__MODE_START", "SYSTEM__INTERMEASUREMENT_PERIOD", "PAD_I2C_HV__EXTSUP_CONFIG",
      "RESULT__OSC_CALIBRATE_VAL", "OSC_MEASURED__FAST_OSC__FREQUENCY",
      "RANGE_CONFIG__TIMEOUT_MACROP_A", "RANGE_CONFIG__TIMEOUT_MACROP_B",
      "ALGO__PART_TO_PART_RANGE_OFFSET_MM", "MM_CONFIG__OUTER_OFFSET_MM"}
       \cup written(StaticConfig) \cup written(setDistanceMode(LONG)) \subseteq DOMAIN Factory

VARIABLES
  mode, budget_us,  \* what main is built with
  wpc,              \* where the program is
  todo,             \* register writes due next
  polls,            \* polls of this read
  gaveUp,           \* this read has timed out
  data,             \* what VL53L1X_read returned
  fast_osc_frequency, osc_calibrate_val, calibrated, did_timeout,
  results, ranging_data,   \* static variables of the driver
  resets,           \* resets of the processor so far
  genuine,          \* external: a VL53L1X, and no other device, answers
  regs,             \* the sensor's registers
  booted,           \* its FIRMWARE__SYSTEM_STATUS[0]
  ready,            \* its interrupt: a result is to be read
  sample,           \* the measurement in its result registers
  due               \* history: measurements not yet reported

buildVars == <<mode, budget_us, genuine>>
statics == <<fast_osc_frequency, osc_calibrate_val, calibrated, did_timeout,
             results, ranging_data>>
readVars == <<polls, gaveUp, data>>
sensorVars == <<regs, booted, ready, sample, due>>
firmwareVars == <<mode, budget_us, wpc, todo, polls, gaveUp, data,
                  fast_osc_frequency, osc_calibrate_val, calibrated, did_timeout,
                  results, ranging_data, resets, genuine, regs, booted, ready, sample, due>>

NoResults == [range_status |-> 0, stream_count |-> 0, spads |-> 0,
              ambient |-> 0, range |-> 0, peak |-> 0]
NoRanging == [range_mm |-> 0, range_status |-> "RangeValid"]
---------------------------------------------------------------------------
FirmwareInit ==
  /\ \E build \in Builds : mode = build[1] /\ budget_us = build[2]
  /\ genuine \in BOOLEAN
  /\ wpc = "id" /\ todo = <<>> /\ polls = 0 /\ gaveUp = FALSE /\ data = 0
  /\ fast_osc_frequency = 0 /\ osc_calibrate_val = 0
  /\ calibrated = FALSE /\ did_timeout = FALSE
  /\ results = NoResults /\ ranging_data = NoRanging
  /\ resets = 0
  /\ regs = Factory /\ booted = genuine /\ ready = FALSE /\ sample = NoResults /\ due = <<>>

(* The next step of the program, when its writes are done. *)
At(pc) == wpc = pc /\ todo = <<>>
Then(pc, writes) == wpc' = pc /\ todo' = writes

(* What a write does to the sensor: a reset restores every register, and   *)
(* until the sensor has booted it listens to nothing else.                 *)
SensorReset ==
  /\ regs' = [Factory EXCEPT !["SOFT_RESET"] = 0]
  /\ booted' = FALSE /\ ready' = FALSE /\ due' = <<>>

SensorRelease ==
  regs' = [regs EXCEPT !["SOFT_RESET"] = 1] /\ UNCHANGED <<booted, ready, due>>

ClearInterrupt == ready' = (ready /\ ~booted) /\ UNCHANGED <<regs, booted, due>>

Set(reg, value) ==
  /\ regs' = IF booted THEN [regs EXCEPT ![reg] = value] ELSE regs
  /\ UNCHANGED <<booted, ready, due>>

SensorWrite(reg, value) ==
  IF ~genuine THEN UNCHANGED <<regs, booted, ready, due>>
  ELSE \/ reg = "SOFT_RESET" /\ value = 0 /\ SensorReset
       \/ reg = "SOFT_RESET" /\ value # 0 /\ SensorRelease
       \/ reg = "SYSTEM__INTERRUPT_CLEAR" /\ ClearInterrupt
       \/ reg \notin {"SOFT_RESET", "SYSTEM__INTERRUPT_CLEAR"} /\ Set(reg, value)

(* VL53L1X_writeReg and its wider forms. *)
WriteReg ==
  /\ todo # <<>>
  /\ todo' = Tail(todo)
  /\ SensorWrite(todo[1][1], todo[1][2])
  /\ UNCHANGED <<buildVars, wpc, statics, readVars, resets, sample>>

(* A read of a model id that is not the sensor's ends VL53L1X_init; so may *)
(* one of a sensor that is held in reset.                                  *)
Identify ==
  /\ At("id")
  /\ \/ genuine /\ Then("boot", <<W("SOFT_RESET", 0), W("SOFT_RESET", 1)>>)
     \/ ~(genuine /\ booted) /\ Then("sdram", <<>>)
  /\ UNCHANGED <<buildVars, statics, readVars, resets, sensorVars>>

(* Mutant: the configuration begins after the delay alone. *)
firmwareReadyUnpolled == TRUE

firmwareReady == booted

(* while ((readReg(FIRMWARE__SYSTEM_STATUS) & 0x01) == 0); then the pads.  *)
BootPoll ==
  /\ At("boot") /\ firmwareReady
  /\ LET pad == regs["PAD_I2C_HV__EXTSUP_CONFIG"] IN
     Then("osc", <<W("PAD_I2C_HV__EXTSUP_CONFIG", IF pad % 2 = 0 THEN pad + 1 ELSE pad)>>)
  /\ UNCHANGED <<buildVars, statics, readVars, resets, sensorVars>>

StoreOscillator ==
  /\ At("osc")
  /\ fast_osc_frequency' = regs["OSC_MEASURED__FAST_OSC__FREQUENCY"]
  /\ osc_calibrate_val' = regs["RESULT__OSC_CALIBRATE_VAL"]
  /\ Then("initA", StaticConfig \o setDistanceMode(LONG))
  /\ UNCHANGED <<buildVars, calibrated, did_timeout, results, ranging_data,
                 readVars, resets, sensorVars>>

macroPeriod(reg) == calcMacroPeriod(regs[reg], fast_osc_frequency)

(* setMeasurementTimingBudget: called by init with 50 ms, and by main.     *)
SetBudget(budget, a, b, next) ==
  \/ /\ At(a)
     /\ IF budgetRefused(budget) THEN Then(next, <<>>)
        ELSE Then(b, TimingA(budget, macroPeriod("RANGE_CONFIG__VCSEL_PERIOD_A")))
  \/ /\ At(b)
     /\ Then(next, TimingB(budget, macroPeriod("RANGE_CONFIG__VCSEL_PERIOD_B")))

InitBudget ==
  /\ SetBudget(50000, "initA", "initB", "offset")
  /\ UNCHANGED <<buildVars, statics, readVars, resets, sensorVars>>

MainBudget ==
  /\ SetBudget(budget_us, "mainA", "mainB", "start")
  /\ UNCHANGED <<buildVars, statics, readVars, resets, sensorVars>>

WriteOffset ==
  /\ At("offset")
  /\ Then("mode", <<W("ALGO__PART_TO_PART_RANGE_OFFSET_MM",
                      (regs["MM_CONFIG__OUTER_OFFSET_MM"] * 4) % 65536)>>)
  /\ UNCHANGED <<buildVars, statics, readVars, resets, sensorVars>>

MainMode ==
  /\ At("mode")
  /\ Then("mainA", setDistanceMode(mode))
  /\ UNCHANGED <<buildVars, statics, readVars, resets, sensorVars>>

startContinuous ==
  /\ At("start")
  /\ Then("sdram", <<W("SYSTEM__INTERMEASUREMENT_PERIOD", 50 * osc_calibrate_val),
                     W("SYSTEM__INTERRUPT_CLEAR", 1), W("SYSTEM__MODE_START", 64)>>)
  /\ UNCHANGED <<buildVars, statics, readVars, resets, sensorVars>>

(* The memory test, module SdramTest: main goes on whatever it returns.    *)
SdramDone ==
  /\ At("sdram")
  /\ Then("blink", <<>>)
  /\ UNCHANGED <<buildVars, statics, readVars, resets, sensorVars>>
---------------------------------------------------------------------------
(* The loop: two delays, VL53L1X_read(true), and its value printed.        *)
Blink ==
  /\ At("blink")
  /\ Then("poll", <<>>) /\ polls' = 0 /\ gaveUp' = FALSE
  /\ UNCHANGED <<buildVars, statics, data, resets, sensorVars>>

DataReady ==
  /\ At("poll")
  /\ Then(IF ready THEN "results" ELSE "timeout", <<>>)
  /\ UNCHANGED <<buildVars, statics, readVars, resets, sensorVars>>

(* Mutant: the time-out is switched off. *)
io_timeoutOff == 0

io_timeout == 1000

(* A reading of the time torn by a carry may end the wait at any poll; the *)
(* last one ends it (module KrvTime).                                      *)
mustExpire == io_timeout > 0 /\ polls = MaxPolls

TimeoutExpired ==
  /\ At("timeout") /\ io_timeout > 0
  /\ did_timeout' = TRUE /\ gaveUp' = TRUE /\ data' = 0
  /\ Then("print", <<>>)
  /\ UNCHANGED <<buildVars, fast_osc_frequency, osc_calibrate_val, calibrated,
                 results, ranging_data, polls, resets, sensorVars>>

PollAgain ==
  /\ At("timeout") /\ ~mustExpire
  /\ polls' = IF polls < MaxPolls THEN polls + 1 ELSE polls
  /\ Then("poll", <<>>)
  /\ UNCHANGED <<buildVars, statics, gaveUp, data, resets, sensorVars>>

ReadResults ==
  /\ At("results")
  /\ results' = readResults(ResultBytes(sample))
  /\ Then(IF calibrated THEN "dss" ELSE "calibrate", <<>>)
  /\ UNCHANGED <<buildVars, fast_osc_frequency, osc_calibrate_val, calibrated, did_timeout,
                 ranging_data, readVars, resets, sensorVars>>

(* The phase found is read when the phase calibration has been overridden. *)
setupManualCalibration ==
  /\ \/ /\ At("calibrate")
        /\ Then("vcsel", Calibration(regs["VHV_CONFIG__INIT"],
                                     regs["VHV_CONFIG__TIMEOUT_MACROP_LOOP_BOUND"]))
     \/ /\ At("vcsel")
        /\ Then("calibrated", <<W("CAL_CONFIG__VCSEL_START",
                                  regs["PHASECAL_RESULT__VCSEL_START"])>>)
  /\ UNCHANGED <<buildVars, statics, readVars, resets, sensorVars>>

Calibrated ==
  /\ At("calibrated")
  /\ calibrated' = TRUE
  /\ Then("dss", <<>>)
  /\ UNCHANGED <<buildVars, fast_osc_frequency, osc_calibrate_val, did_timeout, results,
                 ranging_data, readVars, resets, sensorVars>>

updateDSS ==
  /\ At("dss")
  /\ Then("ranging", <<W("DSS_CONFIG__MANUAL_EFFECTIVE_SPADS_SELECT", requiredSpads(results))>>)
  /\ UNCHANGED <<buildVars, statics, readVars, resets, sensorVars>>

(* Mutant: the interrupt is not cleared. *)
clearNothing == <<>>

clearInterrupt == <<W("SYSTEM__INTERRUPT_CLEAR", 1)>>

RangingDataRead ==
  /\ At("ranging")
  /\ ranging_data' = getRangingData(results)
  /\ Then("return", clearInterrupt)
  /\ UNCHANGED <<buildVars, fast_osc_frequency, osc_calibrate_val, calibrated, did_timeout,
                 results, readVars, resets, sensorVars>>

Return ==
  /\ At("return")
  /\ data' = ranging_data.range_mm
  /\ Then("print", <<>>)
  /\ UNCHANGED <<buildVars, statics, polls, gaveUp, resets, sensorVars>>

PrintValue ==
  /\ At("print")
  /\ Then("blink", <<>>)
  /\ due' = IF gaveUp \/ due = <<>> THEN due ELSE Tail(due)
  /\ UNCHANGED <<buildVars, statics, readVars, resets, regs, booted, ready, sample>>
---------------------------------------------------------------------------
Boot ==
  /\ genuine /\ ~booted /\ regs["SOFT_RESET"] = 1
  /\ booted' = TRUE
  /\ UNCHANGED <<buildVars, wpc, todo, statics, readVars, resets, regs, ready, sample, due>>

ranging == booted /\ regs["SYSTEM__MODE_START"] = 64

(* The sensor measures again once its interrupt has been cleared.          *)
Measure ==
  /\ ranging /\ ~ready
  /\ \E s \in Samples : sample' = s /\ due' = Append(due, s)
  /\ ready' = TRUE
  /\ UNCHANGED <<buildVars, wpc, todo, statics, readVars, resets, regs, booted>>

CpuReset ==
  /\ resets < MaxResets
  /\ resets' = resets + 1
  /\ Then("id", <<>>)
  /\ polls' = 0 /\ gaveUp' = FALSE /\ data' = 0
  /\ UNCHANGED <<buildVars, statics, sensorVars>>

Main == \/ WriteReg \/ Identify \/ BootPoll \/ StoreOscillator \/ InitBudget \/ WriteOffset
        \/ MainMode \/ MainBudget \/ startContinuous \/ SdramDone \/ Blink \/ DataReady
        \/ TimeoutExpired \/ PollAgain \/ ReadResults \/ setupManualCalibration \/ Calibrated
        \/ updateDSS \/ RangingDataRead \/ Return \/ PrintValue

FirmwareNext == Main \/ Boot \/ Measure \/ CpuReset

(* The processor runs on, and a sensor released from reset boots; nothing  *)
(* makes it measure.                                                       *)
FirmwareFairness == WF_firmwareVars(Main) /\ WF_firmwareVars(Boot)

FirmwareSpec == FirmwareInit /\ [][FirmwareNext]_firmwareVars /\ FirmwareFairness
---------------------------------------------------------------------------
(* The register of StaticConfig a measurement changes later on. *)
Adapted == "DSS_CONFIG__MANUAL_EFFECTIVE_SPADS_SELECT"

inForce(writes) ==
  \A i \in DOMAIN writes : writes[i][1] = Adapted \/ regs[writes[i][1]] = writes[i][2]

(***************************************************************************)
(* RangesConfigured: whenever the sensor is measuring, every setting of    *)
(* VL53L1X_init and of the distance mode in force is in its registers,     *)
(* none lost to a sensor that was still booting and none undone by a reset *)
(* of the processor (VL53L1X.c 127-279, 388-396).                          *)
(***************************************************************************)
RangesConfigured ==
  ranging =>
    /\ inForce(StaticConfig)
    /\ inForce(setDistanceMode(IF mode \in {SHORT, MEDIUM} THEN mode ELSE LONG))
    /\ regs["PAD_I2C_HV__EXTSUP_CONFIG"] % 2 = 1
    /\ regs["SYSTEM__INTERMEASUREMENT_PERIOD"] = 50 * Factory["RESULT__OSC_CALIBRATE_VAL"]
    /\ regs["ALGO__PART_TO_PART_RANGE_OFFSET_MM"]
         = (4 * Factory["MM_CONFIG__OUTER_OFFSET_MM"]) % 65536

(* A time-out as the sensor decodes it, in 12.12 microseconds. *)
Duration(code, vcsel_period) ==
  ((code % LSB) * 2^(code \div LSB) + 1)
    * calcMacroPeriod(vcsel_period, Factory["OSC_MEASURED__FAST_OSC__FREQUENCY"])

durationA == Duration(regs["RANGE_CONFIG__TIMEOUT_MACROP_A"], regs["RANGE_CONFIG__VCSEL_PERIOD_A"])
durationB == Duration(regs["RANGE_CONFIG__TIMEOUT_MACROP_B"], regs["RANGE_CONFIG__VCSEL_PERIOD_B"])

(***************************************************************************)
(* RangesWithinBudget: whenever the sensor is measuring, its two ranges    *)
(* take no longer than half of the last budget accepted leaves each of     *)
(* them, to a macro period of the one in force, whichever mode was set     *)
(* after it; and if main's budget was accepted, they use all of it but one *)
(* part in LSB / 2 and a macro period (VL53L1X.c 285-386).                 *)
(***************************************************************************)
RangesWithinBudget ==
  ranging =>
    LET refused == budgetRefused(budget_us)
        share == 2^12 * (((IF refused THEN 50000 ELSE budget_us) - TimingGuard) \div 2)
        unit(reg) == calcMacroPeriod(regs[reg], Factory["OSC_MEASURED__FAST_OSC__FREQUENCY"])
        fits(duration, u) ==
          /\ duration <= share + u
          /\ ~refused => share <= duration + (duration \div (LSB \div 2)) + u
    IN /\ fits(durationA, unit("RANGE_CONFIG__VCSEL_PERIOD_A"))
       /\ fits(durationB, unit("RANGE_CONFIG__VCSEL_PERIOD_B"))

(***************************************************************************)
(* ReportsSamples: what is printed is 0 after a time-out, and otherwise    *)
(* the corrected range of the oldest measurement not yet reported: none is *)
(* reported twice, none is skipped, and one that comes while the time-out  *)
(* is checked is reported the next time (VL53L1X.c 398-460, main.c 77-78). *)
(***************************************************************************)
ReportsSamples ==
  /\ wpc = "print" => IF gaveUp THEN data = 0
                      ELSE due # <<>> /\ data = Corrected(Head(due).range)
  /\ Len(due) <= 2 /\ (ready => due # <<>>)

(***************************************************************************)
(* SpadsMeetTarget: the number of SPADs asked for after a measurement is   *)
(* the largest whose signal rate, at the rate per SPAD just measured, does *)
(* not exceed the target, to the rounding of the rate; the middle of the   *)
(* scale when there is no rate (VL53L1X.c 560-599).                        *)
(***************************************************************************)
SpadsMeetTarget ==
  At("ranging") /\ genuine =>
    LET n == regs[Adapted]
        rate == clip(results.peak + results.ambient)
    IN IF results.spads = 0 \/ rate * HALFWORD < results.spads THEN n = HALFWORD \div 2
       ELSE /\ n < HALFWORD - 1 => (n + 1) * rate > TargetRate * results.spads
            /\ n * rate * HALFWORD <= TargetRate * results.spads * HALFWORD + n * results.spads

(***************************************************************************)
(* KeepsReporting: a value is printed again and again, whether or not the  *)
(* sensor measures, another device answers in its place, or it was in      *)
(* reset when the processor restarted (main.c 70-83, VL53L1X.c 134,        *)
(* 401-409).  Every register access has to return for this: some device    *)
(* acknowledges the sensor's address (module QsysI2c).                     *)
(***************************************************************************)
KeepsReporting == []<>(wpc = "print")

(***************************************************************************)
(* ManualCalibration: the first measurement read sets the calibration up,  *)
(* so that the sensor measures with its own no longer (VL53L1X.c 411-417). *)
(***************************************************************************)
ManualCalibration ==
  At("print") /\ ~gaveUp /\ genuine =>
    /\ regs["VHV_CONFIG__INIT"] < 128
    /\ regs["PHASECAL_CONFIG__OVERRIDE"] = 1
=============================================================================
