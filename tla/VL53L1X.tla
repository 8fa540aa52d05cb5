------------------------------- MODULE VL53L1X -------------------------------
(***************************************************************************)
(* What the sensor driver computes: the registers it writes, in the order  *)
(* it writes them, and what it makes of the results it reads.  A register  *)
(* is known by its name in VL53L1X.h; a write is a pair of register and    *)
(* value, whatever the width of its access.                                *)
(***************************************************************************)
EXTENDS Integers, Sequences

CONSTANTS
  LSB,        \* number of values of a time-out's byte (256)
  BYTE,       \* number of values of a byte of the results (256)
  TargetRate  \* signal rate aimed at (0x0A00), in the results' units

ASSUME VL53L1XAssumption == LSB \in Nat \ {0, 1} /\ BYTE \in Nat \ {0, 1} /\ TargetRate \in Nat

HALFWORD == BYTE * BYTE

W(reg, value) == <<reg, value>>

SHORT == "VL53L1X_Short"
MEDIUM == "VL53L1X_Medium"
LONG == "VL53L1X_Long"

StaticConfig == <<
  W("DSS_CONFIG__TARGET_TOTAL_RATE_MCPS", TargetRate),
  W("GPIO__TIO_HV_STATUS", 2),
  W("SIGMA_ESTIMATOR__EFFECTIVE_PULSE_WIDTH_NS", 8),
  W("SIGMA_ESTIMATOR__EFFECTIVE_AMBIENT_WIDTH_NS", 16),
  W("ALGO__CROSSTALK_COMPENSATION_VALID_HEIGHT_MM", 1),
  W("ALGO__RANGE_IGNORE_VALID_HEIGHT_MM", 255),
  W("ALGO__RANGE_MIN_CLIP", 0),
  W("ALGO__CONSISTENCY_CHECK__TOLERANCE", 2),
  W("SYSTEM__THRESH_RATE_HIGH", 0),
  W("SYSTEM__THRESH_RATE_LOW", 0),
  W("DSS_CONFIG__APERTURE_ATTENUATION", 56),
  W("RANGE_CONFIG__SIGMA_THRESH", 360),
  W("RANGE_CONFIG__MIN_COUNT_RATE_RTN_LIMIT_MCPS", 192),
  W("SYSTEM__GROUPED_PARAMETER_HOLD_0", 1),
  W("SYSTEM__GROUPED_PARAMETER_HOLD_1", 1),
  W("SD_CONFIG__QUANTIFIER", 2),
  W("SYSTEM__GROUPED_PARAMETER_HOLD", 0),
  W("SYSTEM__SEED_CONFIG", 1),
  W("SYSTEM__SEQUENCE_CONFIG", 139),
  W("DSS_CONFIG__MANUAL_EFFECTIVE_SPADS_SELECT", 200 * 256),
  W("DSS_CONFIG__ROI_MODE_CONTROL", 2) >>

ModeConfig(a, b, high, phase) == <<
  W("RANGE_CONFIG__VCSEL_PERIOD_A", a),
  W("RANGE_CONFIG__VCSEL_PERIOD_B", b),
  W("RANGE_CONFIG__VALID_PHASE_HIGH", high),
  W("SD_CONFIG__WOI_SD0", a),
  W("SD_CONFIG__WOI_SD1", b),
  W("SD_CONFIG__INITIAL_PHASE_SD0", phase),
  W("SD_CONFIG__INITIAL_PHASE_SD1", phase) >>

(* An unrecognized mode writes nothing. *)
setDistanceMode(mode) ==
  CASE mode = SHORT  -> ModeConfig(7, 5, 56, 6)
    [] mode = MEDIUM -> ModeConfig(11, 9, 120, 10)
    [] mode = LONG   -> ModeConfig(15, 13, 184, 14)
    [] OTHER -> <<>>
---------------------------------------------------------------------------
(* The timing budget. *)
TimingGuard == 4528

budgetRefused(budget_us) == budget_us <= TimingGuard \/ budget_us - TimingGuard > 1100000

(* Mutant: the time is not shared between the two ranges. *)
rangeTimeoutWhole(budget_us) == budget_us - TimingGuard

rangeTimeout(budget_us) == (budget_us - TimingGuard) \div 2

(* A macro period in 12.12 microseconds; nothing is cut to 32 bits while   *)
(* the oscillator's frequency is at least 1152.                            *)
calcMacroPeriod(vcsel_period, fast_osc_frequency) ==
  ((((2304 * (2^30 \div fast_osc_frequency)) \div 64) * (2 * (vcsel_period + 1))) \div 64)

timeoutMicrosecondsToMclks(timeout_us, macro_period_us) ==
  (timeout_us * 2^12 + macro_period_us \div 2) \div macro_period_us

(* ms_byte is the least number of halvings that make ls_byte fit its byte. *)
encodeTimeout(timeout_mclks) ==
  IF timeout_mclks = 0 THEN 0
  ELSE LET halved(n) == (timeout_mclks - 1) \div 2^n
           ms_byte == CHOOSE n \in 0 .. 30 :
                        halved(n) < LSB /\ \A m \in 0 .. n - 1 : halved(m) >= LSB
       IN LSB * ms_byte + halved(ms_byte)

(* The two halves of setMeasurementTimingBudget, each for the macro period *)
(* it computes from the VCSEL period it reads back.                        *)
TimingA(budget_us, macro_period_us) ==
  LET mclks(us) == timeoutMicrosecondsToMclks(us, macro_period_us) IN
  << W("PHASECAL_CONFIG__TIMEOUT_MACROP", IF mclks(1000) > 255 THEN 255 ELSE mclks(1000)),
     W("MM_CONFIG__TIMEOUT_MACROP_A", encodeTimeout(mclks(1))),
     W("RANGE_CONFIG__TIMEOUT_MACROP_A", encodeTimeout(mclks(rangeTimeout(budget_us)))) >>

TimingB(budget_us, macro_period_us) ==
  LET mclks(us) == timeoutMicrosecondsToMclks(us, macro_period_us) IN
  << W("MM_CONFIG__TIMEOUT_MACROP_B", encodeTimeout(mclks(1))),
     W("RANGE_CONFIG__TIMEOUT_MACROP_B", encodeTimeout(mclks(rangeTimeout(budget_us)))) >>
---------------------------------------------------------------------------
(* Results: what a measurement leaves in the sensor's result registers, 17 *)
(* bytes from RESULT__RANGE_STATUS on, and what the driver takes from them. *)
ResultBuffer == [range_status : 0 .. 255, stream_count : 0 .. 255,
                 spads : 0 .. HALFWORD - 1, ambient : 0 .. HALFWORD - 1,
                 range : 0 .. HALFWORD - 1, peak : 0 .. HALFWORD - 1]

RangeStatus == {"RangeValid", "SigmaFail", "SignalFail", "RangeValidMinRangeClipped",
  "OutOfBoundsFail", "HardwareFail", "RangeValidNoWrapCheckFail", "WrapTargetFail",
  "XtalkSignalFail", "SynchronizationInt", "MinRangeFail", "None"}

RangingData == [range_mm : 0 .. HALFWORD - 1, range_status : RangeStatus]

Bytes(word) == <<word \div BYTE, word % BYTE>>

(* The registers the driver skips hold a value of their own. *)
ResultBytes(m) ==
  <<m.range_status, BYTE - 1, m.stream_count>> \o Bytes(m.spads)
  \o <<BYTE - 1, BYTE - 1>> \o Bytes(m.ambient) \o <<BYTE - 1, BYTE - 1, BYTE - 1, BYTE - 1>>
  \o Bytes(m.range) \o Bytes(m.peak)

(* Mutant: one of the bytes not used is not skipped. *)
readResultsUnskipped(bytes) ==
  LET word(i) == BYTE * bytes[i] + bytes[i + 1]
  IN [range_status |-> bytes[1], stream_count |-> bytes[3], spads |-> word(4),
      ambient |-> word(8), range |-> word(13), peak |-> word(15)]

readResults(bytes) ==
  LET word(i) == BYTE * bytes[i] + bytes[i + 1]
  IN [range_status |-> bytes[1], stream_count |-> bytes[3], spads |-> word(4),
      ambient |-> word(8), range |-> word(14), peak |-> word(16)]

RangeStatusOf(results) ==
  CASE results.range_status \in {17, 2, 1, 3} -> "HardwareFail"
    [] results.range_status = 13 -> "MinRangeFail"
    [] results.range_status = 18 -> "SynchronizationInt"
    [] results.range_status = 5  -> "OutOfBoundsFail"
    [] results.range_status = 4  -> "SignalFail"
    [] results.range_status = 6  -> "SigmaFail"
    [] results.range_status = 7  -> "WrapTargetFail"
    [] results.range_status = 12 -> "XtalkSignalFail"
    [] results.range_status = 8  -> "RangeValidMinRangeClipped"
    [] results.range_status = 9  -> IF results.stream_count = 0
                                    THEN "RangeValidNoWrapCheckFail" ELSE "RangeValid"
    [] OTHER -> "None"

(* The gain correction, rounded. *)
Corrected(range) == (range * 2011 + 1024) \div 2048

getRangingData(results) ==
  [range_mm |-> Corrected(results.range), range_status |-> RangeStatusOf(results)]

clip(n) == IF n > HALFWORD - 1 THEN HALFWORD - 1 ELSE n

(* Mutant: the rate per SPAD is taken for the rate. *)
requiredSpadsUndivided(results) ==
  LET rate == clip(results.peak + results.ambient) * HALFWORD
  IN IF results.spads = 0 \/ rate = 0 THEN HALFWORD \div 2
     ELSE clip((TargetRate * HALFWORD) \div rate)

(* updateDSS: the number of SPADs to use next. *)
requiredSpads(results) ==
  LET totalRatePerSpad == (clip(results.peak + results.ambient) * HALFWORD) \div results.spads
  IN IF results.spads = 0 \/ totalRatePerSpad = 0 THEN HALFWORD \div 2
     ELSE clip((TargetRate * HALFWORD) \div totalRatePerSpad)

Calibration(init, loop_bound) == <<
  W("VHV_CONFIG__INIT", init % 128),
  W("VHV_CONFIG__TIMEOUT_MACROP_LOOP_BOUND", (loop_bound % 4) + 12),
  W("PHASECAL_CONFIG__OVERRIDE", 1) >>
=============================================================================
