--------------------------- MODULE RangingProofs ---------------------------
(***************************************************************************)
(* The firmware reports the sensor's measurements, each once and in order, *)
(* for every build, every set of measurements, every number of polls and   *)
(* every number of resets of the processor.                                *)
(***************************************************************************)
EXTENDS Firmware, SequenceTheorems, TLAPS

MODE == "SYSTEM__MODE_START"
CLEAR == "SYSTEM__INTERRUPT_CLEAR"
PERIOD == "SYSTEM__INTERMEASUREMENT_PERIOD"
RESET == "SOFT_RESET"

(* Writes that do not reset the sensor, start it or clear its interrupt.   *)
Quiet(writes) ==
  \E S : /\ writes \in Seq(S)
         /\ \A w \in S : w[1] \notin {RESET, CLEAR, MODE}

(* The measurements not yet reported: none; the one to be read; the one    *)
(* being reported, and perhaps the next.                                   *)
None == due = <<>> /\ ready = FALSE
One == due = <<sample>> /\ ready
Behind(d) == \/ due = <<d>> /\ ready = FALSE
             \/ due = <<d, sample>> /\ ready
Settled == None \/ One
Off == regs[MODE] # 64 /\ None

SensorInv ==
  /\ genuine \in BOOLEAN /\ booted \in BOOLEAN /\ ready \in BOOLEAN
  /\ booted => genuine
  /\ ~booted => None
  /\ ready => sample \in Samples
  /\ MODE \in DOMAIN regs
  /\ Settled \/ \E d \in Samples : Behind(d)

Setup == {"osc", "initA", "initB", "offset", "mode", "mainA", "mainB", "start"}
Waiting == {"blink", "poll", "timeout"}
Evaluating == {"calibrate", "vcsel", "calibrated", "dss", "ranging"}

BootInv ==
  \/ todo = <<W(RESET, 0), W(RESET, 1)>> /\ genuine
  \/ todo \in {<<W(RESET, 1)>>, <<>>} /\ Off

StartInv ==
  \/ \E n : todo = <<W(PERIOD, n), W(CLEAR, 1), W(MODE, 64)>> /\ Off
  \/ todo \in {<<W(CLEAR, 1), W(MODE, 64)>>, <<W(MODE, 64)>>} /\ Off
  \/ todo = <<>> /\ Settled

ReturnInv ==
  \/ todo = <<W(CLEAR, 1)>> /\ One /\ ranging_data.range_mm = Corrected(sample.range)
  \/ /\ todo = <<>>
     /\ \E d \in Samples : Behind(d) /\ ranging_data.range_mm = Corrected(d.range)

PrintInv ==
  /\ todo = <<>>
  /\ gaveUp => data = 0 /\ Settled
  /\ ~gaveUp => \E d \in Samples : Behind(d) /\ data = Corrected(d.range)

PhaseInv ==
  /\ wpc \in {"id", "boot", "sdram", "results", "return", "print"}
             \cup Setup \cup Waiting \cup Evaluating
  /\ wpc = "id" => todo = <<>>
  /\ wpc = "boot" => BootInv
  /\ wpc \in Setup => Quiet(todo) /\ Off
  /\ wpc = "sdram" => StartInv
  /\ wpc \in Waiting => todo = <<>> /\ Settled
  /\ wpc = "results" => todo = <<>> /\ One
  /\ wpc \in Evaluating => Quiet(todo) /\ One /\ results.range = sample.range
  /\ wpc = "return" => ReturnInv
  /\ wpc = "print" => PrintInv
  /\ wpc \in {"poll", "timeout", "results", "return"} \cup Evaluating => gaveUp = FALSE

RInv == SensorInv /\ PhaseInv
---------------------------------------------------------------------------
(* The number a register pair holds is put together as it was taken apart. *)
LEMMA WordOfBytes ==
  ASSUME NEW r \in Nat
  PROVE  BYTE * (r \div BYTE) + (r % BYTE) = r
BY VL53L1XAssumption

(* VL53L1X_readResults takes the range from where the sensor puts it.      *)
LEMMA RangeRead ==
  ASSUME NEW m \in ResultBuffer
  PROVE  readResults(ResultBytes(m)).range = m.range
<1>1. m.range \in Nat
  BY VL53L1XAssumption DEF ResultBuffer, HALFWORD
<1>2. /\ ResultBytes(m)[14] = m.range \div BYTE
      /\ ResultBytes(m)[15] = m.range % BYTE
  <2> DEFINE x == BYTE - 1
             hi(n) == n \div BYTE
             lo(n) == n % BYTE
  <2>1. ResultBytes(m) =
          <<m.range_status, x, m.stream_count>> \o <<hi(m.spads), lo(m.spads)>>
          \o <<x, x>> \o <<hi(m.ambient), lo(m.ambient)>> \o <<x, x, x, x>>
          \o <<hi(m.range), lo(m.range)>> \o <<hi(m.peak), lo(m.peak)>>
    BY Zenon DEF ResultBytes, Bytes
  <2> HIDE DEF x, hi, lo
  <2>2. ResultBytes(m)[14] = hi(m.range) /\ ResultBytes(m)[15] = lo(m.range)
    BY <2>1
  <2> QED BY <2>2 DEF hi, lo
<1>3. readResults(ResultBytes(m)).range = BYTE * ResultBytes(m)[14] + ResultBytes(m)[15]
  BY DEF readResults
<1> QED BY <1>1, <1>2, <1>3, WordOfBytes

(* Quiet writes stay quiet as they are carried out, and when joined.       *)
LEMMA QuietStep ==
  ASSUME NEW s, Quiet(s), s # <<>>
  PROVE  Quiet(Tail(s)) /\ s[1][1] \notin {RESET, CLEAR, MODE}
<1>1. PICK S : s \in Seq(S) /\ \A w \in S : w[1] \notin {RESET, CLEAR, MODE}
  BY DEF Quiet
<1>2. Tail(s) \in Seq(S) /\ s[1] \in S
  BY <1>1
<1> QED BY <1>1, <1>2 DEF Quiet

LEMMA QuietConcat ==
  ASSUME NEW s, NEW t, Quiet(s), Quiet(t)
  PROVE  Quiet(s \o t)
<1>1. PICK S : s \in Seq(S) /\ \A w \in S : w[1] \notin {RESET, CLEAR, MODE}
  BY DEF Quiet
<1>2. PICK T : t \in Seq(T) /\ \A w \in T : w[1] \notin {RESET, CLEAR, MODE}
  BY DEF Quiet
<1>3. s \o t \in Seq(S \cup T)
  BY <1>1, <1>2
<1> QED BY <1>1, <1>2, <1>3 DEF Quiet

(* A sequence over quiet writes is quiet; and so are those of the driver.  *)
LEMMA QuietWhen ==
  ASSUME NEW S, NEW s \in Seq(S), \A w \in S : w[1] \notin {RESET, CLEAR, MODE}
  PROVE  Quiet(s)
BY DEF Quiet

LEMMA QuietEmpty == Quiet(<<>>)
<1> DEFINE S == {}
<1>1. <<>> \in Seq(S)
  OBVIOUS
<1>2. \A w \in S : w[1] \notin {RESET, CLEAR, MODE}
  OBVIOUS
<1> HIDE DEF S
<1> QED BY <1>1, <1>2, QuietWhen

LEMMA QuietOne ==
  ASSUME NEW reg, NEW v, reg \notin {RESET, CLEAR, MODE}
  PROVE  Quiet(<<W(reg, v)>>)
<1> DEFINE S == {W(reg, v)}
<1>1. <<W(reg, v)>> \in Seq(S)
  OBVIOUS
<1>2. \A w \in S : w[1] \notin {RESET, CLEAR, MODE}
  BY DEF W
<1> HIDE DEF S
<1> QED BY <1>1, <1>2, QuietWhen

LEMMA QuietTwo ==
  ASSUME NEW r1, NEW v1, r1 \notin {RESET, CLEAR, MODE},
         NEW r2, NEW v2, r2 \notin {RESET, CLEAR, MODE}
  PROVE  Quiet(<<W(r1, v1), W(r2, v2)>>)
<1> DEFINE S == {W(r1, v1), W(r2, v2)}
<1>1. <<W(r1, v1), W(r2, v2)>> \in Seq(S)
  OBVIOUS
<1>2. \A w \in S : w[1] \notin {RESET, CLEAR, MODE}
  BY DEF W
<1> HIDE DEF S
<1> QED BY <1>1, <1>2, QuietWhen

LEMMA QuietThree ==
  ASSUME NEW r1, NEW v1, r1 \notin {RESET, CLEAR, MODE},
         NEW r2, NEW v2, r2 \notin {RESET, CLEAR, MODE},
         NEW r3, NEW v3, r3 \notin {RESET, CLEAR, MODE}
  PROVE  Quiet(<<W(r1, v1), W(r2, v2), W(r3, v3)>>)
<1> DEFINE S == {W(r1, v1), W(r2, v2), W(r3, v3)}
<1>1. <<W(r1, v1), W(r2, v2), W(r3, v3)>> \in Seq(S)
  OBVIOUS
<1>2. \A w \in S : w[1] \notin {RESET, CLEAR, MODE}
  BY DEF W
<1> HIDE DEF S
<1> QED BY <1>1, <1>2, QuietWhen

LEMMA QuietMode == ASSUME NEW a PROVE Quiet(setDistanceMode(a))
<1>1. ASSUME NEW x, NEW y, NEW h, NEW p PROVE Quiet(ModeConfig(x, y, h, p))
  <2> DEFINE S == {ModeConfig(x, y, h, p)[i] : i \in 1 .. 7}
  <2>1. ModeConfig(x, y, h, p) \in Seq(S)
    BY DEF ModeConfig
  <2>2. \A w \in S : w[1] \notin {RESET, CLEAR, MODE}
    BY DEF ModeConfig, W, RESET, CLEAR, MODE
  <2> HIDE DEF S
  <2> QED BY <2>1, <2>2, QuietWhen
<1> QED BY <1>1, QuietEmpty DEF setDistanceMode

LEMMA QuietCalibration ==
  ASSUME NEW a, NEW b PROVE Quiet(Calibration(a, b))
<1> DEFINE S == {Calibration(a, b)[i] : i \in 1 .. 3}
<1>1. Calibration(a, b) \in Seq(S)
  BY DEF Calibration
<1>2. \A w \in S : w[1] \notin {RESET, CLEAR, MODE}
  BY DEF Calibration, W, RESET, CLEAR, MODE
<1> HIDE DEF S
<1> QED BY <1>1, <1>2, QuietWhen

LEMMA QuietTiming ==
  ASSUME NEW b, NEW m PROVE Quiet(TimingA(b, m)) /\ Quiet(TimingB(b, m))
BY QuietTwo, QuietThree DEF TimingA, TimingB, RESET, CLEAR, MODE

LEMMA QuietConfig == Quiet(StaticConfig)
<1> DEFINE S == {StaticConfig[i] : i \in 1 .. 21}
<1>1. StaticConfig \in Seq(S)
  BY DEF StaticConfig
<1>2. \A w \in S : w[1] \notin {RESET, CLEAR, MODE}
  BY DEF StaticConfig, W, RESET, CLEAR, MODE
<1> HIDE DEF S
<1> QED BY <1>1, <1>2, QuietWhen
---------------------------------------------------------------------------
(* Steps that leave the sensor as it is.                                   *)
SensorKept == UNCHANGED <<genuine, regs, booted, ready, sample, due>>

LEMMA SensorStays ==
  ASSUME SensorKept
  PROVE  /\ SensorInv' = SensorInv /\ Off' = Off /\ Settled' = Settled /\ One' = One
         /\ \A d : Behind(d)' = Behind(d)
BY DEF SensorKept, SensorInv, Off, Settled, None, One, Behind

(* Where the program is, and no write is due.                              *)
LEMMA NoWriteDue ==
  ASSUME PhaseInv, todo = <<>>
  PROVE  /\ wpc = "boot" => Off
         /\ wpc = "sdram" => Settled
         /\ wpc = "return" =>
              \E d \in Samples : Behind(d) /\ ranging_data.range_mm = Corrected(d.range)
BY DEF PhaseInv, BootInv, StartInv, ReturnInv

(* Nothing is due when the program starts.                                 *)
LEMMA Initially ==
  ASSUME FirmwareInit
  PROVE  RInv
<1>1. None /\ MODE \in DOMAIN regs
  BY FirmwareAssumption DEF FirmwareInit, None, MODE
<1>2. SensorInv
  BY <1>1 DEF FirmwareInit, SensorInv, Settled
<1>3. PhaseInv
  BY DEF FirmwareInit, PhaseInv, Setup, Waiting, Evaluating
<1> QED BY <1>2, <1>3 DEF RInv

(* The configuration of the sensor writes nothing that starts it.          *)
LEMMA SetupSteps ==
  ASSUME RInv,
         \/ BootPoll \/ StoreOscillator \/ InitBudget \/ WriteOffset \/ MainMode \/ MainBudget
  PROVE  RInv'
<1>1. SensorKept /\ todo = <<>> /\ wpc \in Setup \cup {"boot"} /\ wpc' \in Setup
  BY DEF BootPoll, StoreOscillator, InitBudget, WriteOffset, MainMode, MainBudget, SetBudget,
         At, Then, SensorKept, sensorVars, buildVars, Setup
<1>2. Off
  BY <1>1, NoWriteDue DEF RInv, PhaseInv
<1>3. Quiet(todo')
  <2>1. CASE BootPoll
    BY <2>1, QuietOne DEF BootPoll, Then, RESET, CLEAR, MODE
  <2>2. CASE StoreOscillator
    BY <2>2, QuietConfig, QuietMode, QuietConcat DEF StoreOscillator, Then
  <2>3. CASE InitBudget
    BY <2>3, QuietEmpty, QuietTiming DEF InitBudget, SetBudget, Then
  <2>4. CASE WriteOffset
    BY <2>4, QuietOne DEF WriteOffset, Then, RESET, CLEAR, MODE
  <2>5. CASE MainMode
    BY <2>5, QuietMode DEF MainMode, Then
  <2>6. CASE MainBudget
    BY <2>6, QuietEmpty, QuietTiming DEF MainBudget, SetBudget, Then
  <2> QED BY <2>1, <2>2, <2>3, <2>4, <2>5, <2>6
<1>4. SensorInv' /\ Off'
  BY <1>1, <1>2, SensorStays DEF RInv
<1>5. PhaseInv'
  BY <1>1, <1>3, <1>4 DEF PhaseInv, Setup, Waiting, Evaluating
<1> QED BY <1>4, <1>5 DEF RInv

(* A sensor that does not answer, or is not one, has measured nothing.     *)
LEMMA IdentifyStep ==
  ASSUME RInv, Identify
  PROVE  RInv'
<1>1. SensorKept /\ SensorInv'
  BY SensorStays DEF Identify, SensorKept, sensorVars, buildVars, RInv
<1>2. CASE genuine /\ Then("boot", <<W(RESET, 0), W(RESET, 1)>>)
  BY <1>1, <1>2 DEF SensorKept, Then, RInv, PhaseInv, BootInv, Setup, Waiting, Evaluating
<1>3. CASE ~(genuine /\ booted) /\ Then("sdram", <<>>)
  <2>1. Settled'
    BY <1>1, <1>3, SensorStays DEF RInv, SensorInv, Settled
  <2> QED BY <1>1, <1>3, <2>1
        DEF Then, RInv, PhaseInv, StartInv, Setup, Waiting, Evaluating
<1> QED BY <1>2, <1>3 DEF Identify, RESET

(* startContinuous has the sensor started by its last write.               *)
LEMMA StartStep ==
  ASSUME RInv, startContinuous
  PROVE  RInv'
<1>1. SensorKept /\ Off /\ wpc' = "sdram"
      /\ todo' = <<W(PERIOD, 50 * osc_calibrate_val), W(CLEAR, 1), W(MODE, 64)>>
  BY DEF startContinuous, At, Then, SensorKept, sensorVars, buildVars, RInv, PhaseInv, Setup,
         PERIOD, CLEAR, MODE
<1>2. SensorInv' /\ Off'
  BY <1>1, SensorStays DEF RInv
<1>3. StartInv'
  BY <1>1, <1>2 DEF StartInv
<1> QED BY <1>1, <1>2, <1>3 DEF RInv, PhaseInv, Setup, Waiting, Evaluating

(* Waiting for a measurement, until it is ready or the time is up.         *)
LEMMA WaitingSteps ==
  ASSUME RInv, SdramDone \/ Blink \/ DataReady \/ TimeoutExpired \/ PollAgain
  PROVE  RInv'
<1>1. SensorKept /\ todo = <<>> /\ todo' = <<>>
  BY DEF SdramDone, Blink, DataReady, TimeoutExpired, PollAgain, At, Then, SensorKept,
         sensorVars, buildVars
<1>2. Settled
  BY <1>1, NoWriteDue
     DEF RInv, PhaseInv, Waiting, SdramDone, Blink, DataReady, TimeoutExpired, PollAgain, At
<1>3. SensorInv' /\ Settled' /\ (ready => One')
  BY <1>1, <1>2, SensorStays DEF RInv, Settled, None
<1>4. \/ wpc' = "blink"
      \/ wpc' = "poll" /\ ~gaveUp'
      \/ wpc' = "timeout" /\ ~gaveUp'
      \/ wpc' = "results" /\ ~gaveUp' /\ ready
      \/ wpc' = "print" /\ gaveUp' /\ data' = 0
  BY DEF RInv, PhaseInv, SdramDone, Blink, DataReady, TimeoutExpired, PollAgain, At, Then,
         readVars
<1> QED BY <1>1, <1>3, <1>4 DEF RInv, PhaseInv, PrintInv, Setup, Waiting, Evaluating

(* What is read is the measurement that is due.                            *)
LEMMA ReadStep ==
  ASSUME RInv, ReadResults
  PROVE  RInv'
<1>1. SensorKept /\ One /\ gaveUp = FALSE /\ gaveUp' = gaveUp /\ todo' = <<>>
      /\ wpc' \in {"dss", "calibrate"} /\ results' = readResults(ResultBytes(sample))
  BY DEF ReadResults, At, Then, SensorKept, sensorVars, buildVars, readVars, RInv, PhaseInv
<1>2. SensorInv' /\ One'
  BY <1>1, SensorStays DEF RInv
<1>3. sample \in ResultBuffer
  BY <1>1, FirmwareAssumption DEF RInv, SensorInv, One
<1>4. results'.range = sample'.range
  BY <1>1, <1>3, RangeRead DEF SensorKept
<1>5. Quiet(todo')
  BY <1>1, QuietEmpty
<1> QED BY <1>1, <1>2, <1>4, <1>5 DEF RInv, PhaseInv, Setup, Waiting, Evaluating

(* Calibration and SPADs are set while the measurement stays due.          *)
LEMMA EvaluatingSteps ==
  ASSUME RInv, setupManualCalibration \/ Calibrated \/ updateDSS
  PROVE  RInv'
<1>1. /\ SensorKept /\ wpc \in Evaluating /\ wpc' \in Evaluating
      /\ gaveUp' = gaveUp /\ results' = results
  BY DEF setupManualCalibration, Calibrated, updateDSS, At, Then, SensorKept, sensorVars,
         buildVars, readVars, statics, Evaluating
<1>2. /\ SensorInv' /\ One' /\ results'.range = sample'.range /\ gaveUp' = FALSE
  BY <1>1, SensorStays DEF RInv, PhaseInv, SensorKept
<1>3. Quiet(todo')
  <2>1. CASE setupManualCalibration
    BY <2>1, QuietCalibration, QuietOne
       DEF setupManualCalibration, Then, RESET, CLEAR, MODE
  <2>2. CASE Calibrated
    BY <2>2, QuietEmpty DEF Calibrated, Then
  <2>3. CASE updateDSS
    BY <2>3, QuietOne DEF updateDSS, Then, RESET, CLEAR, MODE
  <2> QED BY <2>1, <2>2, <2>3
<1> QED BY <1>1, <1>2, <1>3 DEF RInv, PhaseInv, Setup, Waiting, Evaluating

(* The corrected range is that of the measurement due; it is then cleared. *)
LEMMA RangingDataStep ==
  ASSUME RInv, RangingDataRead
  PROVE  RInv'
<1>1. /\ SensorKept /\ One /\ results.range = sample.range /\ gaveUp' = FALSE
      /\ wpc' = "return" /\ todo' = <<W(CLEAR, 1)>>
      /\ ranging_data' = getRangingData(results)
  BY DEF RangingDataRead, At, Then, SensorKept, sensorVars, buildVars, readVars, RInv,
         PhaseInv, Evaluating, clearInterrupt, CLEAR
<1>2. SensorInv' /\ One'
  BY <1>1, SensorStays DEF RInv
<1>3. ranging_data'.range_mm = Corrected(sample'.range)
  BY <1>1 DEF getRangingData, SensorKept
<1> QED BY <1>1, <1>2, <1>3 DEF RInv, PhaseInv, ReturnInv, Setup, Waiting, Evaluating

(* The value returned is that range, though the next one may be there.     *)
LEMMA ReturnStep ==
  ASSUME RInv, Return
  PROVE  RInv'
<1>1. /\ SensorKept /\ wpc = "return" /\ todo = <<>> /\ wpc' = "print" /\ todo' = <<>>
      /\ gaveUp' = FALSE /\ data' = ranging_data.range_mm
  BY DEF Return, At, Then, SensorKept, sensorVars, buildVars, RInv, PhaseInv
<1>2. PICK d \in Samples : Behind(d) /\ ranging_data.range_mm = Corrected(d.range)
  BY <1>1, NoWriteDue DEF RInv
<1>3. SensorInv' /\ Behind(d)'
  BY <1>1, <1>2, SensorStays DEF RInv
<1>4. PrintInv'
  BY <1>1, <1>2, <1>3 DEF PrintInv
<1> QED BY <1>1, <1>3, <1>4 DEF RInv, PhaseInv, Setup, Waiting, Evaluating

(* What was printed is due no longer; what came meanwhile is.              *)
LEMMA PrintStep ==
  ASSUME RInv, PrintValue
  PROVE  RInv'
<1>1. /\ UNCHANGED <<genuine, regs, booted, ready, sample>>
      /\ wpc' = "blink" /\ todo' = <<>> /\ PrintInv
      /\ due' = IF gaveUp \/ due = <<>> THEN due ELSE Tail(due)
  BY DEF PrintValue, At, Then, sensorVars, buildVars, RInv, PhaseInv
<1>2. Settled'
  <2>1. CASE gaveUp
    BY <1>1, <2>1 DEF PrintInv, Settled, None, One
  <2>2. CASE ~gaveUp
    <3>1. PICK d \in Samples : Behind(d)
      BY <1>1, <2>2 DEF PrintInv
    <3>2. Tail(<<d>>) = <<>> /\ Tail(<<d, sample>>) = <<sample>>
          /\ <<d>> # <<>> /\ <<d, sample>> # <<>>
      OBVIOUS
    <3> QED BY <1>1, <2>2, <3>1, <3>2 DEF Behind, Settled, None, One
  <2> QED BY <2>1, <2>2
<1>3. SensorInv'
  <2>1. ~booted => None'
    BY <1>1 DEF RInv, SensorInv, None
  <2> QED BY <1>1, <1>2, <2>1 DEF RInv, SensorInv
<1> QED BY <1>1, <1>2, <1>3 DEF RInv, PhaseInv, Setup, Waiting, Evaluating
---------------------------------------------------------------------------
(* What a write does to the sensor, whether it is there and booted or not. *)
LEMMA WriteEffect ==
  ASSUME NEW reg, NEW value, SensorInv, SensorWrite(reg, value),
         UNCHANGED <<genuine, sample>>
  PROVE  /\ MODE \in DOMAIN regs'
         /\ reg # MODE /\ reg # RESET => regs'[MODE] = regs[MODE]
         /\ reg # RESET => booted' = booted /\ due' = due
         /\ reg \notin {RESET, CLEAR} => ready' = ready
         /\ reg = CLEAR => ready' = FALSE
         /\ reg = RESET /\ value = 1 => UNCHANGED <<booted, ready, due>> /\ regs'[MODE] = regs[MODE]
         /\ reg = RESET /\ value = 0 /\ genuine => Off' /\ booted' = FALSE
<1>1. RESET # MODE /\ CLEAR # MODE /\ RESET # CLEAR
  BY DEF RESET, CLEAR, MODE
<1>2. CASE ~genuine
  BY <1>1, <1>2 DEF SensorWrite, SensorInv, None
<1>3. CASE genuine /\ reg = RESET /\ value = 0 /\ SensorReset
  <2>1. MODE \in DOMAIN regs' /\ regs'[MODE] = Factory[MODE]
    BY <1>1, <1>3, FirmwareAssumption DEF SensorReset, RESET, MODE
  <2>2. Off'
    BY <1>3, <2>1, FirmwareAssumption DEF SensorReset, Off, None, MODE
  <2> QED BY <1>1, <1>3, <2>1, <2>2 DEF SensorReset
<1>4. CASE genuine /\ reg = RESET /\ value # 0 /\ SensorRelease
  BY <1>1, <1>4 DEF SensorRelease, SensorInv, RESET
<1>5. CASE genuine /\ reg = CLEAR /\ ClearInterrupt
  BY <1>1, <1>5 DEF ClearInterrupt, SensorInv, None
<1>6. CASE genuine /\ reg \notin {RESET, CLEAR} /\ Set(reg, value)
  BY <1>1, <1>6 DEF Set, SensorInv
<1> QED BY <1>2, <1>3, <1>4, <1>5, <1>6 DEF SensorWrite, RESET, CLEAR

(* A write due: quiet, or one of those that reset, start or clear.         *)
LEMMA WriteStep ==
  ASSUME RInv, WriteReg
  PROVE  RInv'
<1> DEFINE reg == todo[1][1]
           value == todo[1][2]
<1>1. /\ todo # <<>> /\ todo' = Tail(todo) /\ SensorWrite(reg, value)
      /\ UNCHANGED <<genuine, sample, wpc, results, ranging_data, gaveUp>>
  BY DEF WriteReg, buildVars, statics, readVars
<1>2. SensorInv /\ PhaseInv
  BY DEF RInv
<1>3. RESET # MODE /\ CLEAR # MODE /\ RESET # CLEAR /\ PERIOD \notin {RESET, CLEAR, MODE}
  BY DEF RESET, CLEAR, MODE, PERIOD
<1>e. /\ MODE \in DOMAIN regs'
      /\ reg # MODE /\ reg # RESET => regs'[MODE] = regs[MODE]
      /\ reg # RESET => booted' = booted /\ due' = due
      /\ reg \notin {RESET, CLEAR} => ready' = ready
      /\ reg = CLEAR => ready' = FALSE
      /\ reg = RESET /\ value = 1 => UNCHANGED <<booted, ready, due>> /\ regs'[MODE] = regs[MODE]
      /\ reg = RESET /\ value = 0 /\ genuine => Off' /\ booted' = FALSE
  BY <1>1, <1>2, WriteEffect
<1> HIDE DEF reg, value
<1>4. CASE Quiet(todo) /\ wpc \in Setup \cup Evaluating
  <2>1. Quiet(todo') /\ reg \notin {RESET, CLEAR, MODE}
    BY <1>1, <1>4, QuietStep DEF reg
  <2>2. UNCHANGED <<booted, ready, due, sample, genuine>> /\ regs'[MODE] = regs[MODE]
    BY <1>1, <1>e, <2>1
  <2>3. SensorInv' /\ Off' = Off /\ One' = One
    BY <1>2, <1>e, <2>2 DEF SensorInv, Settled, None, One, Behind, Off
  <2> QED BY <1>1, <1>2, <1>4, <2>1, <2>3 DEF RInv, PhaseInv, Setup, Waiting, Evaluating
<1>5. CASE wpc = "boot"
  <2>1. BootInv' /\ SensorInv'
    <3>1. CASE todo = <<W(RESET, 0), W(RESET, 1)>> /\ genuine
      <4>1. reg = RESET /\ value = 0 /\ todo' = <<W(RESET, 1)>>
        BY <1>1, <3>1 DEF reg, value, W
      <4>2. Off' /\ booted' = FALSE
        BY <1>e, <3>1, <4>1
      <4>3. BootInv'
        BY <4>1, <4>2 DEF BootInv
      <4>4. SensorInv'
        BY <1>1, <1>2, <1>e, <4>2 DEF SensorInv, Settled, Off, None
      <4> QED BY <4>3, <4>4
    <3>2. CASE todo = <<W(RESET, 1)>> /\ Off
      <4>1. reg = RESET /\ value = 1 /\ todo' = <<>>
        BY <1>1, <3>2 DEF reg, value, W
      <4>2. UNCHANGED <<booted, ready, due>> /\ regs'[MODE] = regs[MODE]
        BY <1>e, <4>1
      <4> QED BY <1>1, <1>2, <1>e, <3>2, <4>1, <4>2 DEF BootInv, SensorInv, Settled, Off, None
    <3> QED BY <1>1, <1>2, <1>5, <3>1, <3>2 DEF PhaseInv, BootInv
  <2> QED BY <1>1, <1>5, <2>1 DEF RInv, PhaseInv, Setup, Waiting, Evaluating
<1>6. CASE wpc = "sdram"
  <2>1. StartInv' /\ SensorInv'
    <3>1. PICK n : \/ todo = <<W(PERIOD, n), W(CLEAR, 1), W(MODE, 64)>>
                   \/ todo = <<W(CLEAR, 1), W(MODE, 64)>>
                   \/ todo = <<W(MODE, 64)>>
      BY <1>1, <1>2, <1>6 DEF PhaseInv, StartInv
    <3>2. Off
      BY <1>1, <1>2, <1>6 DEF PhaseInv, StartInv
    <3>3. /\ reg \in {PERIOD, CLEAR, MODE}
          /\ reg = MODE => todo' = <<>>
          /\ reg # MODE => todo' \in {<<W(CLEAR, 1), W(MODE, 64)>>, <<W(MODE, 64)>>}
      <4>1. CASE todo = <<W(PERIOD, n), W(CLEAR, 1), W(MODE, 64)>>
        BY <1>1, <1>3, <4>1 DEF reg, W
      <4>2. CASE todo = <<W(CLEAR, 1), W(MODE, 64)>>
        BY <1>1, <1>3, <4>2 DEF reg, W
      <4>3. CASE todo = <<W(MODE, 64)>>
        BY <1>1, <1>3, <4>3 DEF reg, W
      <4> QED BY <3>1, <4>1, <4>2, <4>3
    <3>4. None' /\ (reg # MODE => Off')
      BY <1>e, <1>3, <3>2, <3>3 DEF Off, None
    <3>5. booted' = booted
      BY <1>e, <1>3, <3>3
    <3>6. SensorInv'
      BY <1>1, <1>2, <1>e, <3>4, <3>5 DEF SensorInv, Settled, None
    <3>7. StartInv'
      BY <3>3, <3>4 DEF StartInv, Settled
    <3> QED BY <3>6, <3>7
  <2> QED BY <1>1, <1>6, <2>1 DEF RInv, PhaseInv, Setup, Waiting, Evaluating
<1>7. CASE wpc = "return"
  <2>1. /\ todo = <<W(CLEAR, 1)>> /\ One /\ ranging_data.range_mm = Corrected(sample.range)
    BY <1>1, <1>2, <1>7 DEF PhaseInv, ReturnInv
  <2>2. reg = CLEAR /\ todo' = <<>>
    BY <1>1, <2>1 DEF reg, W
  <2>3. ready' = FALSE /\ due' = <<sample>> /\ sample \in Samples /\ booted' = booted /\ booted
    BY <1>2, <1>e, <1>3, <2>1, <2>2 DEF One, SensorInv, None
  <2>4. Behind(sample)'
    BY <1>1, <2>3 DEF Behind
  <2>5. SensorInv'
    BY <1>1, <1>2, <1>e, <2>3, <2>4 DEF SensorInv
  <2>6. ReturnInv'
    BY <1>1, <2>1, <2>2, <2>3, <2>4 DEF ReturnInv
  <2> QED BY <1>1, <1>2, <1>7, <2>5, <2>6 DEF RInv, PhaseInv, Setup, Waiting, Evaluating
<1> QED BY <1>1, <1>2, <1>4, <1>5, <1>6, <1>7 DEF PhaseInv, PrintInv
---------------------------------------------------------------------------
(* The sensor: it measures only once the last result was read.             *)
LEMMA BootStep ==
  ASSUME RInv, Boot
  PROVE  RInv'
<1>1. /\ UNCHANGED <<wpc, todo, gaveUp, data, results, ranging_data>>
      /\ UNCHANGED <<genuine, regs, ready, sample, due>>
      /\ booted' = TRUE /\ genuine /\ ~booted
  BY DEF Boot, buildVars, statics, readVars
<1>2. Off' = Off /\ Settled' = Settled /\ One' = One /\ None
      /\ \A d : Behind(d)' = Behind(d)
  BY <1>1 DEF RInv, SensorInv, Off, Settled, None, One, Behind
<1>3. SensorInv'
  BY <1>1, <1>2 DEF RInv, SensorInv, Settled, None
<1>4. PhaseInv'
  BY <1>1, <1>2 DEF RInv, PhaseInv, BootInv, StartInv, ReturnInv, PrintInv
<1> QED BY <1>3, <1>4 DEF RInv

(* What is due once one more measurement is.                               *)
LEMMA AppendFirst == ASSUME NEW e PROVE Append(<<>>, e) = <<e>>
OBVIOUS

LEMMA AppendSecond ==
  ASSUME NEW d, NEW e
  PROVE  Append(<<d>>, e) = <<d, e>>
<1> DEFINE a == Append(<<d>>, e)
<1>1. <<d>> \in Seq({d, e}) /\ <<d, e>> \in Seq({d, e})
  OBVIOUS
<1>2. a \in Seq({d, e}) /\ Len(a) = 2 /\ a[1] = d /\ a[2] = e
  BY <1>1
<1> HIDE DEF a
<1>3. a = <<d, e>>
  BY <1>1, <1>2, SeqEqual
<1> QED BY <1>3 DEF a

(* A measurement comes only when the one before has been read.             *)
LEMMA MeasureStep ==
  ASSUME RInv, Measure
  PROVE  RInv'
<1>1. /\ UNCHANGED <<wpc, todo, gaveUp, data, results, ranging_data, genuine, regs, booted>>
      /\ ready = FALSE /\ ready' = TRUE /\ booted /\ ~Off /\ ~One
      /\ sample' \in Samples /\ due' = Append(due, sample')
  BY DEF Measure, ranging, Off, One, MODE, buildVars, statics, readVars, RInv, SensorInv
<1>2. Settled => One'
  BY <1>1, AppendFirst DEF Settled, None, One
<1>3. ASSUME NEW d \in Samples, Behind(d)
      PROVE  Behind(d)'
  <2>1. due = <<d>>
    BY <1>1, <1>3 DEF Behind
  <2> QED BY <1>1, <2>1, AppendSecond DEF Behind
<1>4. SensorInv'
  BY <1>1, <1>2, <1>3 DEF RInv, SensorInv, Settled, None
<1>5. /\ BootInv => BootInv'
      /\ StartInv => StartInv'
  BY <1>1, <1>2 DEF BootInv, StartInv, Settled
<1>6. ReturnInv => ReturnInv'
  BY <1>1, <1>3 DEF ReturnInv
<1>7. PrintInv => PrintInv'
  BY <1>1, <1>2, <1>3 DEF PrintInv, Settled
<1>8. PhaseInv'
  BY <1>1, <1>2, <1>5, <1>6, <1>7 DEF RInv, PhaseInv, Settled
<1> QED BY <1>4, <1>8 DEF RInv

(* Wherever the processor is reset, what is due stays due.                 *)
LEMMA CpuResetStep ==
  ASSUME RInv, CpuReset
  PROVE  RInv'
<1>1. SensorKept /\ wpc' = "id" /\ todo' = <<>>
  BY DEF CpuReset, Then, SensorKept, sensorVars, buildVars
<1>2. SensorInv'
  BY <1>1, SensorStays DEF RInv
<1> QED BY <1>1, <1>2 DEF RInv, PhaseInv, Setup, Waiting, Evaluating

LEMMA Stuttering ==
  ASSUME RInv, UNCHANGED firmwareVars
  PROVE  RInv'
<1>1. SensorKept /\ UNCHANGED <<wpc, todo, gaveUp, data, results, ranging_data>>
  BY DEF firmwareVars, SensorKept
<1>2. PhaseInv'
  BY <1>1, SensorStays
     DEF RInv, PhaseInv, BootInv, StartInv, ReturnInv, PrintInv, SensorKept
<1> QED BY <1>1, <1>2, SensorStays DEF RInv

(* What the invariant says of the value printed.                           *)
LEMMA Reported == RInv => ReportsSamples
<1> SUFFICES ASSUME RInv PROVE ReportsSamples
  OBVIOUS
<1>1. Len(<<>>) = 0 /\ Len(<<sample>>) = 1 /\ \A d : Len(<<d>>) = 1 /\ Len(<<d, sample>>) = 2
  OBVIOUS
<1>2. Len(due) <= 2 /\ (ready => due # <<>>)
  <2>1. CASE None
    BY <1>1, <2>1 DEF None
  <2>2. CASE One
    BY <1>1, <2>2 DEF One
  <2>3. ASSUME NEW d \in Samples, Behind(d) PROVE Len(due) <= 2 /\ due # <<>>
    <3>1. CASE due = <<d>>
      BY <1>1, <3>1
    <3>2. CASE due = <<d, sample>>
      BY <1>1, <3>2
    <3> QED BY <2>3, <3>1, <3>2 DEF Behind
  <2> QED BY <2>1, <2>2, <2>3 DEF RInv, SensorInv, Settled
<1>3. ASSUME wpc = "print", ~gaveUp
      PROVE  due # <<>> /\ data = Corrected(Head(due).range)
  <2>1. PICK d \in Samples : Behind(d) /\ data = Corrected(d.range)
    BY <1>3 DEF RInv, PhaseInv, PrintInv
  <2>2. due # <<>> /\ Head(due) = d
    BY <2>1 DEF Behind
  <2> QED BY <2>1, <2>2
<1>4. wpc = "print" /\ gaveUp => data = 0
  BY DEF RInv, PhaseInv, PrintInv
<1> QED BY <1>2, <1>3, <1>4 DEF ReportsSamples

LEMMA RInvStep == RInv /\ [FirmwareNext]_firmwareVars => RInv'
BY WriteStep, IdentifyStep, SetupSteps, StartStep, WaitingSteps, ReadStep, EvaluatingSteps,
   RangingDataStep, ReturnStep, PrintStep, BootStep, MeasureStep, CpuResetStep, Stuttering,
   Zenon DEF FirmwareNext, Main

(***************************************************************************)
(* What main prints is 0 after a time-out, and otherwise the range of the  *)
(* oldest measurement not yet reported, for every build, every set of      *)
(* measurements and every moment the processor is reset at (VL53L1X.c      *)
(* 398-460, main.c 70-83).                                                 *)
(***************************************************************************)
THEOREM SamplesAlwaysReported == FirmwareSpec => []ReportsSamples
<1>1. FirmwareInit => RInv
  BY Initially
<1>2. RInv /\ [FirmwareNext]_firmwareVars => RInv'
  BY RInvStep
<1>3. RInv => ReportsSamples
  BY Reported
<1> QED BY <1>1, <1>2, <1>3, PTL DEF FirmwareSpec
=============================================================================
