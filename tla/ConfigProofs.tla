---------------------------- MODULE ConfigProofs ----------------------------
(***************************************************************************)
(* The sensor measures only as VL53L1X_init and main have configured it.   *)
(* A setting is in force in the sensor's register, or among the writes due *)
(* and undone by none of them, from the step that decides on it until the  *)
(* last of startContinuous's writes, which starts the sensor; what is      *)
(* written afterwards is written elsewhere, and a reset stops the sensor.  *)
(* The number of SPADs, which VL53L1X_read adapts to every measurement, is *)
(* computed from the rates of that measurement; the time-outs of the two   *)
(* ranges, in the last part, from the budget and the periods of the mode.  *)
(***************************************************************************)
EXTENDS RangingProofs

(* What the configuration consists of, as pairs of register and value.     *)
PAD == "PAD_I2C_HV__EXTSUP_CONFIG"
OFFSET == "ALGO__PART_TO_PART_RANGE_OFFSET_MM"
OSCCAL == "RESULT__OSC_CALIBRATE_VAL"
OUTER == "MM_CONFIG__OUTER_OFFSET_MM"
FREQ == "OSC_MEASURED__FAST_OSC__FREQUENCY"

items(writes) == {writes[i] : i \in DOMAIN writes}
StaticSettings == {w \in items(StaticConfig) : w[1] # Adapted}
ModeSettings(m) == items(setDistanceMode(m))
Chosen == IF mode \in {SHORT, MEDIUM} THEN mode ELSE LONG
OffsetSetting == W(OFFSET, (4 * Factory[OUTER]) % 65536)
PeriodSetting == W(PERIOD, 50 * Factory[OSCCAL])

ModeRegs == {"RANGE_CONFIG__VCSEL_PERIOD_A", "RANGE_CONFIG__VCSEL_PERIOD_B",
             "RANGE_CONFIG__VALID_PHASE_HIGH", "SD_CONFIG__WOI_SD0", "SD_CONFIG__WOI_SD1",
             "SD_CONFIG__INITIAL_PHASE_SD0", "SD_CONFIG__INITIAL_PHASE_SD1"}
StaticRegs == {w[1] : w \in StaticSettings}
ReadOnly == {OSCCAL, OUTER, FREQ}
ConfRegs == StaticRegs \cup ModeRegs \cup {PAD, OFFSET, PERIOD, MODE}

(* A setting is in force, or a write due will put it in force; no write    *)
(* due undoes it.                                                          *)
Held(c) == /\ regs[c[1]] = c[2] \/ \E i \in DOMAIN todo : todo[i] = c
           /\ \A i \in DOMAIN todo : todo[i][1] = c[1] => todo[i][2] = c[2]
AllHeld(S) == \A c \in S : Held(c)
Aside(R) == \A i \in DOMAIN todo : todo[i][1] \notin R

PadInv == \/ regs[PAD] % 2 = 1 /\ Aside({PAD})
          \/ \E v \in {regs[PAD], regs[PAD] + 1} : v % 2 = 1 /\ todo = <<W(PAD, v)>>

Early == {"initA", "initB", "offset", "mode"}
Late == {"mainA", "mainB", "start"}
Starting == wpc = "sdram" /\ todo # <<>>

Configured ==
  /\ \A c \in StaticSettings \cup ModeSettings(Chosen) \cup {OffsetSetting, PeriodSetting} :
       regs[c[1]] = c[2]
  /\ regs[PAD] % 2 = 1

ConfInv ==
  /\ DOMAIN regs = DOMAIN Factory
  /\ \A r \in ReadOnly : regs[r] = Factory[r]
  /\ regs[PAD] \in Nat
  /\ Aside(ReadOnly)
  /\ wpc \in Setup \/ Starting => booted
  /\ wpc \in Early \cup Late => osc_calibrate_val = Factory[OSCCAL]
  /\ wpc \in Setup \/ Starting => PadInv
  /\ wpc \in Early \cup Late \/ Starting => AllHeld(StaticSettings) /\ Aside({PAD})
  /\ wpc \in Early => AllHeld(ModeSettings(LONG))
  /\ wpc \in Late \/ Starting => AllHeld(ModeSettings(Chosen))
  /\ wpc \in {"mode"} \cup Late \/ Starting => Held(OffsetSetting)
  /\ Starting => Held(PeriodSetting)
  /\ wpc \notin Setup \cup {"sdram"} => Aside(ConfRegs)
  /\ regs[MODE] = 64 => Configured

TimingRegs == {"PHASECAL_CONFIG__TIMEOUT_MACROP", "MM_CONFIG__TIMEOUT_MACROP_A",
               "RANGE_CONFIG__TIMEOUT_MACROP_A", "MM_CONFIG__TIMEOUT_MACROP_B",
               "RANGE_CONFIG__TIMEOUT_MACROP_B"}
CalRegs == {"VHV_CONFIG__INIT", "VHV_CONFIG__TIMEOUT_MACROP_LOOP_BOUND",
            "PHASECAL_CONFIG__OVERRIDE", "CAL_CONFIG__VCSEL_START"}

LEMMA StaticApart ==
  ASSUME NEW c \in StaticSettings
  PROVE  /\ c[1] \notin ModeRegs \cup TimingRegs \cup CalRegs \cup ReadOnly
         /\ c[1] \notin {PAD, OFFSET, PERIOD, RESET, CLEAR, MODE, Adapted}
<1>1. PICK i \in 1 .. 21 : c = StaticConfig[i]
  BY DEF StaticSettings, items, StaticConfig
<1>2. c[1] # Adapted BY DEF StaticSettings
<1>3. c[1] \notin ModeRegs \cup TimingRegs \cup CalRegs
  BY <1>1 DEF StaticConfig, W, ModeRegs, TimingRegs, CalRegs
<1>4. c[1] \notin ReadOnly \cup {PAD, OFFSET, PERIOD, RESET, CLEAR, MODE}
  BY <1>1 DEF StaticConfig, W, ReadOnly, OSCCAL, OUTER, FREQ, PAD, OFFSET, PERIOD, RESET, CLEAR, MODE
<1> QED BY <1>2, <1>3, <1>4

LEMMA StaticOnce ==
  ASSUME NEW i \in DOMAIN StaticConfig, NEW j \in DOMAIN StaticConfig,
         StaticConfig[i][1] = StaticConfig[j][1]
  PROVE  StaticConfig[i] = StaticConfig[j]
BY DEF StaticConfig, W

LEMMA ModeOnce ==
  ASSUME NEW a, NEW b, NEW h, NEW p, NEW i \in 1 .. 7, NEW j \in 1 .. 7,
         ModeConfig(a, b, h, p)[i][1] = ModeConfig(a, b, h, p)[j][1]
  PROVE  ModeConfig(a, b, h, p)[i] = ModeConfig(a, b, h, p)[j]
BY DEF ModeConfig, W

(* One write carried out. *)
LEMMA HeldWrite ==
  ASSUME NEW c, NEW S, todo \in Seq(S), todo # <<>>, todo' = Tail(todo),
         c[1] \in DOMAIN regs, Held(c),
         \/ regs' = [regs EXCEPT ![todo[1][1]] = todo[1][2]]
         \/ regs' = regs /\ todo[1][1] # c[1]
  PROVE  Held(c)'
<1>1. regs'[c[1]] = IF todo[1][1] = c[1] THEN todo[1][2] ELSE regs[c[1]]
  OBVIOUS
<1>2. \A i \in DOMAIN Tail(todo) : i + 1 \in DOMAIN todo /\ Tail(todo)[i] = todo[i + 1]
  OBVIOUS
<1>3. \A i \in DOMAIN todo : i = 1 \/ (i - 1 \in DOMAIN Tail(todo) /\ Tail(todo)[i - 1] = todo[i])
  OBVIOUS
<1>4. 1 \in DOMAIN todo OBVIOUS
<1>5. regs'[c[1]] = c[2] \/ \E i \in DOMAIN todo' : todo'[i] = c
  <2>1. CASE regs[c[1]] = c[2]
    BY <1>1, <1>4, <2>1 DEF Held
  <2>2. CASE \E i \in DOMAIN todo : todo[i] = c
    <3>1. PICK i \in DOMAIN todo : todo[i] = c BY <2>2
    <3> QED BY <1>1, <1>3, <3>1
  <2> QED BY <2>1, <2>2 DEF Held
<1>6. \A i \in DOMAIN todo' : todo'[i][1] = c[1] => todo'[i][2] = c[2]
  BY <1>2 DEF Held
<1> QED BY <1>5, <1>6 DEF Held

LEMMA AsideWrite ==
  ASSUME NEW R, NEW S, todo \in Seq(S), todo # <<>>, todo' = Tail(todo), Aside(R)
  PROVE  Aside(R)' /\ todo[1][1] \notin R
<1>1. \A i \in DOMAIN Tail(todo) : i + 1 \in DOMAIN todo /\ Tail(todo)[i] = todo[i + 1]
  OBVIOUS
<1>2. 1 \in DOMAIN todo OBVIOUS
<1> QED BY <1>1, <1>2 DEF Aside

(* Writes that are joined. *)
LEMMA Joined ==
  ASSUME NEW S, NEW s \in Seq(S), NEW t \in Seq(S)
  PROVE  items(s \o t) = items(s) \cup items(t)
<1> DEFINE j == s \o t
<1>1. /\ DOMAIN s = 1 .. Len(s) /\ Len(s) \in Nat
      /\ DOMAIN t = 1 .. Len(t) /\ Len(t) \in Nat
      /\ DOMAIN j = 1 .. (Len(s) + Len(t))
  OBVIOUS
<1>2. \A i \in DOMAIN s : j[i] = s[i]
  OBVIOUS
<1>3. \A i \in DOMAIN j : i > Len(s) => j[i] = t[i - Len(s)]
  OBVIOUS
<1> HIDE DEF j
<1>4. ASSUME NEW i \in DOMAIN j PROVE j[i] \in items(s) \cup items(t)
  <2>1. CASE i <= Len(s)
    <3>1. i \in DOMAIN s BY <1>1, <2>1
    <3> QED BY <1>2, <3>1 DEF items
  <2>2. CASE i > Len(s)
    <3>1. i - Len(s) \in DOMAIN t BY <1>1, <2>2
    <3> QED BY <1>3, <2>2, <3>1 DEF items
  <2> QED BY <1>1, <2>1, <2>2
<1>5. ASSUME NEW i \in DOMAIN s PROVE s[i] \in items(j)
  <2>1. i \in DOMAIN j BY <1>1
  <2> QED BY <1>2, <2>1 DEF items
<1>6. ASSUME NEW i \in DOMAIN t PROVE t[i] \in items(j)
  <2>1. i + Len(s) \in DOMAIN j /\ i + Len(s) > Len(s) /\ (i + Len(s)) - Len(s) = i BY <1>1
  <2> QED BY <1>3, <2>1 DEF items
<1>7. items(j) = items(s) \cup items(t)
  BY <1>4, <1>5, <1>6 DEF items
<1> QED BY <1>7 DEF j

(* The same in terms of the set of the writes due. *)
LEMMA HeldItems ==
  ASSUME NEW c
  PROVE  Held(c) <=> /\ regs[c[1]] = c[2] \/ c \in items(todo)
                     /\ \A w \in items(todo) : w[1] = c[1] => w[2] = c[2]
BY DEF Held, items

LEMMA AsideItems ==
  ASSUME NEW R PROVE Aside(R) <=> \A w \in items(todo) : w[1] \notin R
BY DEF Aside, items

(* The settings are of registers the sensor has. *)
LEMMA Settings ==
  /\ \A c \in StaticSettings : c[1] \in DOMAIN Factory /\ c[1] \in ConfRegs
  /\ \A m : \A c \in ModeSettings(m) :
       c[1] \in ModeRegs /\ c[1] \in DOMAIN Factory /\ c[1] \in ConfRegs
  /\ ModeRegs \cup {PAD, OFFSET, PERIOD, MODE} \cup ReadOnly \subseteq DOMAIN Factory
<1>1. /\ written(StaticConfig) \subseteq DOMAIN Factory
      /\ written(setDistanceMode(LONG)) \subseteq DOMAIN Factory
      /\ {PAD, OFFSET, PERIOD, MODE} \cup ReadOnly \subseteq DOMAIN Factory
  BY FirmwareAssumption DEF PAD, OFFSET, PERIOD, MODE, ReadOnly, OSCCAL, OUTER, FREQ
<1>2. \A c \in StaticSettings : c[1] \in DOMAIN Factory
  BY <1>1 DEF StaticSettings, items, written
<1>3. \A c \in StaticSettings : c[1] \in ConfRegs BY DEF ConfRegs, StaticRegs
<1>4. ModeRegs \subseteq DOMAIN Factory
  <2> DEFINE M == ModeConfig(15, 13, 184, 14)
  <2>1. setDistanceMode(LONG) = M BY DEF setDistanceMode, SHORT, MEDIUM, LONG
  <2>2. {M[i][1] : i \in 1 .. 7} = ModeRegs BY DEF ModeConfig, W, ModeRegs
  <2>3. DOMAIN M = 1 .. 7 BY DEF ModeConfig
  <2> HIDE DEF M
  <2> QED BY <1>1, <2>1, <2>2, <2>3 DEF written
<1>5. ASSUME NEW m, NEW c \in ModeSettings(m) PROVE c[1] \in ModeRegs
  <2>1. ASSUME NEW a, NEW b, NEW h, NEW p, NEW w \in items(ModeConfig(a, b, h, p))
        PROVE  w[1] \in ModeRegs
    <3>1. PICK i \in 1 .. 7 : w = ModeConfig(a, b, h, p)[i]
      BY <2>1 DEF items, ModeConfig
    <3> QED BY <3>1 DEF ModeConfig, W, ModeRegs
  <2>2. items(<<>>) = {} BY DEF items
  <2>3. c \in items(setDistanceMode(m)) BY DEF ModeSettings
  <2> QED BY <2>1, <2>2, <2>3 DEF setDistanceMode
<1> QED BY <1>1, <1>2, <1>3, <1>4, <1>5 DEF ConfRegs
---------------------------------------------------------------------------
(* Registers a write may go to without touching the configuration.         *)
LEMMA Apart ==
  /\ \A r \in {RESET, CLEAR, Adapted} \cup CalRegs \cup TimingRegs :
       r \notin ConfRegs /\ r \notin ReadOnly
  /\ {PAD, OFFSET, PERIOD, MODE} \cap (ModeRegs \cup ReadOnly) = {}
  /\ ModeRegs \cap ReadOnly = {}
  /\ PAD # OFFSET /\ PAD # PERIOD /\ PAD # MODE /\ OFFSET # PERIOD /\ OFFSET # MODE
  /\ PERIOD # MODE /\ Adapted \notin ModeRegs \cup ReadOnly \cup {PAD, OFFSET, PERIOD, MODE}
<1> DEFINE A == {RESET, CLEAR, Adapted} \cup CalRegs \cup TimingRegs
<1>1. \A r \in A : r \notin StaticRegs
  BY StaticApart DEF StaticRegs
<1>2. \A r \in A : r \notin ModeRegs \cup {PAD, OFFSET, PERIOD, MODE} /\ r \notin ReadOnly
  BY DEF RESET, CLEAR, Adapted, CalRegs, TimingRegs, ModeRegs, PAD, OFFSET, PERIOD, MODE,
         ReadOnly, OSCCAL, OUTER, FREQ
<1>3. /\ {PAD, OFFSET, PERIOD, MODE} \cap (ModeRegs \cup ReadOnly) = {}
      /\ ModeRegs \cap ReadOnly = {}
      /\ PAD # OFFSET /\ PAD # PERIOD /\ PAD # MODE /\ OFFSET # PERIOD /\ OFFSET # MODE
      /\ PERIOD # MODE /\ Adapted \notin ModeRegs \cup ReadOnly \cup {PAD, OFFSET, PERIOD, MODE}
  BY DEF Adapted, ModeRegs, PAD, OFFSET, PERIOD, MODE, ReadOnly, OSCCAL, OUTER, FREQ
<1>4. \A r \in A : r \notin ConfRegs /\ r \notin ReadOnly
  <2> HIDE DEF A
  <2>1. ConfRegs = StaticRegs \cup (ModeRegs \cup {PAD, OFFSET, PERIOD, MODE})
    BY DEF ConfRegs
  <2> QED BY <1>1, <1>2, <2>1
<1> QED BY <1>3, <1>4

(* The configuration stays while its registers do.                         *)
LEMMA ConfigKept ==
  ASSUME ConfInv, mode' = mode, \A r \in ConfRegs : regs'[r] = regs[r]
  PROVE  regs'[MODE] = 64 => Configured'
<1> SUFFICES ASSUME regs'[MODE] = 64 PROVE Configured'
  OBVIOUS
<1>1. Configured BY DEF ConfInv, ConfRegs
<1>2. Chosen' = Chosen BY DEF Chosen
<1>3. \A c \in StaticSettings \cup ModeSettings(Chosen) \cup {OffsetSetting, PeriodSetting} :
        c[1] \in ConfRegs
  BY Settings DEF ConfRegs, OffsetSetting, PeriodSetting, W
<1>4. PAD \in ConfRegs BY DEF ConfRegs
<1> QED BY <1>1, <1>2, <1>3, <1>4 DEF Configured

(* Steps that change no register, and have no write due to one of the      *)
(* configuration.                                                          *)
LEMMA AwayStep ==
  ASSUME ConfInv, regs' = regs, mode' = mode, wpc' \notin Setup,
         wpc' = "sdram" => todo' = <<>>,
         \A w \in items(todo') : w[1] \notin ConfRegs \cup ReadOnly
  PROVE  ConfInv'
<1>1. Aside(ConfRegs)' /\ Aside(ReadOnly)'
  BY DEF Aside, items
<1>2. ~Starting' /\ wpc' \notin Setup \cup Early \cup Late \cup {"mode"}
  BY DEF Starting, Setup, Early, Late
<1>3. regs'[MODE] = 64 => Configured'
  BY ConfigKept
<1> QED BY <1>1, <1>2, <1>3 DEF ConfInv

(* A setting held stays so when the writes newly due do not undo it.       *)
LEMMA HeldOver ==
  ASSUME NEW c, Held(c), todo = <<>>, regs' = regs,
         \A w \in items(todo') : w[1] = c[1] => w[2] = c[2]
  PROVE  Held(c)'
BY DEF Held, items

LEMMA HeldNew ==
  ASSUME NEW c, c \in items(todo'),
         \A w \in items(todo') : w[1] = c[1] => w[2] = c[2]
  PROVE  Held(c)'
BY DEF Held, items

(* In every phase the writes due are a sequence.                           *)
LEMMA TodoSeq ==
  ASSUME RInv
  PROVE  \E S : todo \in Seq(S)
<1>1. \A s : Quiet(s) => \E S : s \in Seq(S) BY DEF Quiet
<1>2. ASSUME NEW a, NEW b, NEW c,
             \/ todo = <<>> \/ todo = <<a>> \/ todo = <<b, a>> \/ todo = <<c, b, a>>
      PROVE  \E S : todo \in Seq(S)
  <2> DEFINE T == {a, b, c}
  <2>1. <<>> \in Seq(T) /\ <<a>> \in Seq(T) /\ <<b, a>> \in Seq(T) /\ <<c, b, a>> \in Seq(T)
    OBVIOUS
  <2>2. todo \in Seq(T) BY <1>2, <2>1
  <2> HIDE DEF T
  <2> QED BY <2>2
<1>3. CASE wpc \in Setup \cup Evaluating BY <1>1, <1>3 DEF RInv, PhaseInv
<1>4. CASE wpc \in {"id"} \cup Waiting \cup {"results", "print"}
  <2>1. todo = <<>> BY <1>4 DEF RInv, PhaseInv, PrintInv
  <2> QED BY <1>2, <2>1
<1>5. CASE wpc = "boot"
  <2>1. \/ todo = <<W(RESET, 0), W(RESET, 1)>> \/ todo = <<W(RESET, 1)>> \/ todo = <<>>
    BY <1>5 DEF RInv, PhaseInv, BootInv
  <2> QED BY <1>2, <2>1
<1>6. CASE wpc = "sdram"
  <2>1. PICK n : \/ todo = <<W(PERIOD, n), W(CLEAR, 1), W(MODE, 64)>>
                 \/ todo = <<W(CLEAR, 1), W(MODE, 64)>>
                 \/ todo = <<W(MODE, 64)>>
                 \/ todo = <<>>
    BY <1>6 DEF RInv, PhaseInv, StartInv
  <2> QED BY <1>2, <2>1
<1>7. CASE wpc = "return"
  <2>1. todo = <<W(CLEAR, 1)>> \/ todo = <<>> BY <1>7 DEF RInv, PhaseInv, ReturnInv
  <2> QED BY <1>2, <2>1
<1> QED BY <1>3, <1>4, <1>5, <1>6, <1>7 DEF RInv, PhaseInv
---------------------------------------------------------------------------
(* Steps that write nothing of the configuration.                          *)
LEMMA ConfAway ==
  ASSUME ConfInv,
         \/ Identify \/ SdramDone \/ Blink \/ DataReady \/ TimeoutExpired \/ PollAgain
         \/ ReadResults \/ setupManualCalibration \/ Calibrated \/ updateDSS
         \/ RangingDataRead \/ Return \/ PrintValue \/ CpuReset
  PROVE  ConfInv'
<1>1. regs' = regs /\ mode' = mode
  BY DEF Identify, SdramDone, Blink, DataReady, TimeoutExpired, PollAgain, ReadResults,
         setupManualCalibration, Calibrated, updateDSS, RangingDataRead, Return, PrintValue,
         CpuReset, sensorVars, buildVars
<1>2. wpc' \notin Setup
  BY DEF Identify, SdramDone, Blink, DataReady, TimeoutExpired, PollAgain, ReadResults,
         setupManualCalibration, Calibrated, updateDSS, RangingDataRead, Return, PrintValue,
         CpuReset, Then, Setup
<1>3. \/ todo' = <<>>
      \/ /\ wpc' # "sdram"
         /\ \A w \in items(todo') : w[1] \in {RESET, CLEAR, Adapted} \cup CalRegs
  <2>1. CASE \/ SdramDone \/ Blink \/ DataReady \/ TimeoutExpired \/ PollAgain
             \/ ReadResults \/ Calibrated \/ Return \/ PrintValue \/ CpuReset
    BY <2>1 DEF SdramDone, Blink, DataReady, TimeoutExpired, PollAgain, ReadResults,
                Calibrated, Return, PrintValue, CpuReset, Then
  <2>2. CASE Identify
    BY <2>2 DEF Identify, Then, items, W, RESET
  <2>3. CASE setupManualCalibration
    BY <2>3 DEF setupManualCalibration, Then, Calibration, items, W, CalRegs
  <2>4. CASE updateDSS
    BY <2>4 DEF updateDSS, Then, items, W, Adapted
  <2>5. CASE RangingDataRead
    BY <2>5 DEF RangingDataRead, clearInterrupt, Then, items, W, CLEAR
  <2> QED BY <2>1, <2>2, <2>3, <2>4, <2>5
<1>4. \A w \in items(<<>>) : FALSE BY DEF items
<1>5. \A w \in items(todo') : w[1] \notin ConfRegs \cup ReadOnly
  BY <1>3, <1>4, Apart
<1> QED BY <1>1, <1>2, <1>3, <1>5, AwayStep

LEMMA ConfIdle ==
  ASSUME ConfInv, Boot \/ Measure \/ UNCHANGED firmwareVars
  PROVE  ConfInv'
<1>1. /\ UNCHANGED <<regs, mode, wpc, todo, osc_calibrate_val>>
      /\ booted => booted'
  BY DEF Boot, Measure, firmwareVars, buildVars, statics, ranging
<1>2. Starting' = Starting /\ Aside(ReadOnly)' = Aside(ReadOnly) /\ PadInv' = PadInv
      /\ Aside({PAD})' = Aside({PAD}) /\ Aside(ConfRegs)' = Aside(ConfRegs)
  BY <1>1 DEF Starting, Aside, PadInv
<1>3. \A c : Held(c) = Held(c)' BY <1>1 DEF Held
<1>4. Chosen' = Chosen /\ Configured' = Configured BY <1>1 DEF Chosen, Configured
<1>5. /\ \A S : AllHeld(S)' = AllHeld(S)
  BY <1>3 DEF AllHeld
<1> QED BY <1>1, <1>2, <1>3, <1>4, <1>5 DEF ConfInv

(* What is held stays so across writes to other registers.                 *)
LEMMA HeldAcross ==
  ASSUME ConfInv, todo = <<>>, regs' = regs, mode' = mode,
         NEW R, \A w \in items(todo') : w[1] \in R
  PROVE  /\ R \cap StaticRegs = {} /\ AllHeld(StaticSettings) => AllHeld(StaticSettings)'
         /\ R \cap ModeRegs = {} =>
              /\ AllHeld(ModeSettings(LONG)) => AllHeld(ModeSettings(LONG))'
              /\ AllHeld(ModeSettings(Chosen)) => AllHeld(ModeSettings(Chosen))'
         /\ OFFSET \notin R /\ Held(OffsetSetting) => Held(OffsetSetting)'
         /\ PAD \notin R => Aside({PAD})' /\ (PadInv => PadInv')
         /\ R \cap ReadOnly = {} => Aside(ReadOnly)'
<1>1. Chosen' = Chosen BY DEF Chosen
<1>2. ASSUME NEW c, c[1] \notin R, Held(c) PROVE Held(c)'
  BY <1>2, HeldOver
<1>3. R \cap StaticRegs = {} /\ AllHeld(StaticSettings) => AllHeld(StaticSettings)'
  BY <1>2 DEF AllHeld, StaticRegs
<1>4. ASSUME R \cap ModeRegs = {}
      PROVE  /\ AllHeld(ModeSettings(LONG)) => AllHeld(ModeSettings(LONG))'
             /\ AllHeld(ModeSettings(Chosen)) => AllHeld(ModeSettings(Chosen))'
  <2>1. \A m : \A c \in ModeSettings(m) : c[1] \notin R
    BY <1>4, Settings
  <2>2. AllHeld(ModeSettings(LONG)) => AllHeld(ModeSettings(LONG))'
    BY <1>2, <2>1 DEF AllHeld
  <2>3. AllHeld(ModeSettings(Chosen)) => AllHeld(ModeSettings(Chosen))'
    <3>1. SUFFICES ASSUME AllHeld(ModeSettings(Chosen)), NEW c \in ModeSettings(Chosen)
                   PROVE  Held(c)'
      BY <1>1 DEF AllHeld
    <3>2. Held(c) /\ c[1] \notin R BY <2>1, <3>1 DEF AllHeld
    <3> QED BY <1>2, <3>2
  <2> QED BY <2>2, <2>3
<1>5. OFFSET \notin R /\ Held(OffsetSetting) => Held(OffsetSetting)'
  BY <1>2 DEF OffsetSetting, W
<1>6. PAD \notin R => Aside({PAD})'
  BY DEF Aside, items
<1>7. PAD \notin R /\ PadInv => PadInv'
  <2>1. PadInv => regs[PAD] % 2 = 1 BY DEF PadInv
  <2> QED BY <1>6, <2>1 DEF PadInv
<1>8. R \cap ReadOnly = {} => Aside(ReadOnly)'
  BY DEF Aside, items
<1> QED BY <1>3, <1>4, <1>5, <1>6, <1>7, <1>8

(* The steps that configure the sensor leave its registers to the writes.  *)
LEMMA SetupKept ==
  ASSUME RInv, ConfInv,
         \/ BootPoll \/ StoreOscillator \/ InitBudget \/ WriteOffset \/ MainMode \/ MainBudget
         \/ startContinuous
  PROVE  /\ regs' = regs /\ mode' = mode /\ booted' = booted /\ todo = <<>>
         /\ regs'[MODE] # 64
         /\ wpc \in Setup => PadInv /\ booted
<1>1. /\ regs' = regs /\ mode' = mode /\ booted' = booted /\ todo = <<>>
      /\ wpc \in Setup \cup {"boot"}
  BY DEF BootPoll, StoreOscillator, InitBudget, WriteOffset, MainMode, MainBudget,
         startContinuous, SetBudget, At, sensorVars, buildVars, Setup
<1>2. Off BY <1>1, NoWriteDue DEF RInv, PhaseInv
<1> QED BY <1>1, <1>2 DEF Off, ConfInv

(* VL53L1X_init waits for the sensor to boot before it writes to it.       *)
LEMMA ConfBootPoll ==
  ASSUME RInv, ConfInv, BootPoll
  PROVE  ConfInv'
<1>1. /\ regs' = regs /\ mode' = mode /\ booted' = booted /\ regs'[MODE] # 64 /\ todo = <<>>
  BY SetupKept
<1>2. PICK v \in {regs[PAD], regs[PAD] + 1} : v % 2 = 1 /\ todo' = <<W(PAD, v)>>
  <2>1. regs[PAD] \in Nat BY DEF ConfInv
  <2>2. (regs[PAD] % 2 = 0 => (regs[PAD] + 1) % 2 = 1) /\ (regs[PAD] % 2 # 0 => regs[PAD] % 2 = 1)
    BY <2>1
  <2> QED BY <2>2 DEF BootPoll, Then, PAD
<1>3. booted /\ wpc' = "osc" BY DEF BootPoll, firmwareReady, Then
<1>4. PadInv' BY <1>1, <1>2 DEF PadInv
<1>5. \A i \in DOMAIN todo' : todo'[i][1] = PAD BY <1>2 DEF W
<1>6. Aside(ReadOnly)' BY <1>5, Apart DEF Aside
<1> QED BY <1>1, <1>3, <1>4, <1>6 DEF ConfInv, Setup, Starting, Early, Late

(* Nothing of the static configuration is set twice, nor by a mode.        *)
LEMMA ConfStoreOscillator ==
  ASSUME RInv, ConfInv, StoreOscillator
  PROVE  ConfInv'
<1>1. /\ regs' = regs /\ mode' = mode /\ booted' = booted /\ regs'[MODE] # 64 /\ todo = <<>>
      /\ PadInv /\ booted
  BY SetupKept DEF StoreOscillator, At, Setup
<1>2. /\ wpc' = "initA" /\ todo' = StaticConfig \o setDistanceMode(LONG)
      /\ osc_calibrate_val' = regs[OSCCAL]
  BY DEF StoreOscillator, Then, OSCCAL
<1>3. items(todo') = items(StaticConfig) \cup ModeSettings(LONG)
  <2> DEFINE S == {StaticConfig[i] : i \in 1 .. 21}
             m == ModeConfig(15, 13, 184, 14)
             M == {m[i] : i \in 1 .. 7}
  <2>1. StaticConfig \in Seq(S) BY DEF StaticConfig
  <2>2. m \in Seq(M) BY DEF ModeConfig
  <2>3. setDistanceMode(LONG) = m BY DEF setDistanceMode, SHORT, MEDIUM, LONG
  <2> HIDE DEF S, m, M
  <2>4. StaticConfig \in Seq(S \cup M) /\ m \in Seq(S \cup M) BY <2>1, <2>2
  <2> QED BY <1>2, <2>3, <2>4, Joined DEF ModeSettings
<1>4. \A w \in items(StaticConfig) : w \in StaticSettings \/ w[1] = Adapted
  BY DEF StaticSettings
<1>5. \A w, c \in items(StaticConfig) : w[1] = c[1] => w = c
  BY StaticOnce DEF items
<1>6. \A w, c \in ModeSettings(LONG) : w[1] = c[1] => w = c
  <2> DEFINE m == ModeConfig(15, 13, 184, 14)
  <2>1. setDistanceMode(LONG) = m BY DEF setDistanceMode, SHORT, MEDIUM, LONG
  <2>2. DOMAIN m = 1 .. 7 BY DEF ModeConfig
  <2>3. \A i, j \in 1 .. 7 : m[i][1] = m[j][1] => m[i] = m[j] BY ModeOnce
  <2> HIDE DEF m
  <2> QED BY <2>1, <2>2, <2>3 DEF ModeSettings, items
<1>7. ASSUME NEW c \in StaticSettings PROVE Held(c)'
  <2>1. c \in items(StaticConfig) BY DEF StaticSettings
  <2>2. \A w \in items(todo') : w[1] = c[1] => w[2] = c[2]
    BY <1>3, <1>5, <2>1, StaticApart, Settings
  <2> QED BY <1>3, <2>1, <2>2, HeldNew
<1>8. ASSUME NEW c \in ModeSettings(LONG) PROVE Held(c)'
  <2>1. \A w \in items(todo') : w[1] = c[1] => w[2] = c[2]
    BY <1>3, <1>4, <1>6, StaticApart, Settings, Apart
  <2> QED BY <1>3, <2>1, HeldNew
<1>9. AllHeld(StaticSettings)' /\ AllHeld(ModeSettings(LONG))'
  BY <1>7, <1>8 DEF AllHeld
<1>10. \A w \in items(todo') : w[1] # PAD /\ w[1] \notin ReadOnly
  BY <1>3, <1>4, StaticApart, Settings, Apart
<1>11. Aside({PAD})' /\ Aside(ReadOnly)'
  BY <1>10 DEF Aside, items
<1>12. PadInv'
  BY <1>1, <1>11 DEF PadInv
<1>13. osc_calibrate_val' = Factory[OSCCAL]
  BY <1>2 DEF ConfInv, ReadOnly
<1> QED BY <1>1, <1>2, <1>9, <1>11, <1>12, <1>13 DEF ConfInv, Setup, Starting, Early, Late

(* The timing budget is written to registers of its own.                   *)
LEMMA ConfBudget ==
  ASSUME RInv, ConfInv, InitBudget \/ MainBudget
  PROVE  ConfInv'
<1>1. /\ regs' = regs /\ mode' = mode /\ booted' = booted /\ regs'[MODE] # 64 /\ todo = <<>>
  BY SetupKept
<1>2. /\ \/ wpc \in {"initA", "initB"} /\ wpc' \in {"initB", "offset"}
         \/ wpc \in {"mainA", "mainB"} /\ wpc' \in {"mainB", "start"}
      /\ osc_calibrate_val' = osc_calibrate_val
  BY DEF InitBudget, MainBudget, SetBudget, At, Then, statics
<1>3. \A w \in items(todo') : w[1] \in TimingRegs
  <2>1. ASSUME NEW b, NEW m PROVE \A w \in items(TimingA(b, m)) \cup items(TimingB(b, m)) : w[1] \in TimingRegs
    BY DEF TimingA, TimingB, items, W, TimingRegs
  <2>2. \A w \in items(<<>>) : FALSE BY DEF items
  <2> QED BY <2>1, <2>2 DEF InitBudget, MainBudget, SetBudget, Then
<1>4. TimingRegs \cap ConfRegs = {} /\ TimingRegs \cap ReadOnly = {}
  BY Apart
<1>5. StaticRegs \subseteq ConfRegs /\ ModeRegs \subseteq ConfRegs /\ PAD \in ConfRegs /\ OFFSET \in ConfRegs
  BY DEF ConfRegs
<1>6. /\ AllHeld(StaticSettings) => AllHeld(StaticSettings)'
      /\ AllHeld(ModeSettings(LONG)) => AllHeld(ModeSettings(LONG))'
      /\ AllHeld(ModeSettings(Chosen)) => AllHeld(ModeSettings(Chosen))'
      /\ Held(OffsetSetting) => Held(OffsetSetting)'
      /\ Aside({PAD})' /\ (PadInv => PadInv') /\ Aside(ReadOnly)'
  <2>1. /\ TimingRegs \cap StaticRegs = {} /\ TimingRegs \cap ModeRegs = {}
        /\ OFFSET \notin TimingRegs /\ PAD \notin TimingRegs /\ TimingRegs \cap ReadOnly = {}
    BY <1>4, <1>5
  <2> QED BY <1>1, <1>3, <2>1, HeldAcross
<1> QED BY <1>1, <1>2, <1>6 DEF ConfInv, Setup, Starting, Early, Late

(* The offset is that of the sensor's calibration.                         *)
LEMMA ConfWriteOffset ==
  ASSUME RInv, ConfInv, WriteOffset
  PROVE  ConfInv'
<1>1. /\ regs' = regs /\ mode' = mode /\ booted' = booted /\ regs'[MODE] # 64 /\ todo = <<>>
  BY SetupKept
<1>2. /\ wpc = "offset" /\ wpc' = "mode" /\ osc_calibrate_val' = osc_calibrate_val
      /\ todo' = <<W(OFFSET, (regs[OUTER] * 4) % 65536)>>
  BY DEF WriteOffset, At, Then, statics, OFFSET, OUTER
<1>3. regs[OUTER] = Factory[OUTER] /\ Factory[OUTER] \in Nat
  BY FirmwareAssumption DEF ConfInv, ReadOnly, OUTER
<1>4. todo' = <<OffsetSetting>>
  BY <1>2, <1>3 DEF OffsetSetting
<1>5. items(todo') = {OffsetSetting} /\ OffsetSetting[1] = OFFSET
  BY <1>4 DEF items, OffsetSetting, W
<1>6. Held(OffsetSetting)'
  <2>1. OffsetSetting' = OffsetSetting BY DEF OffsetSetting
  <2> QED BY <1>5, <2>1, HeldNew
<1>7. /\ {OFFSET} \cap StaticRegs = {} /\ {OFFSET} \cap ModeRegs = {}
      /\ PAD \notin {OFFSET} /\ {OFFSET} \cap ReadOnly = {}
  BY StaticApart, Apart DEF StaticRegs
<1>8. \A w \in items(todo') : w[1] \in {OFFSET} BY <1>5
<1>9. /\ AllHeld(StaticSettings) => AllHeld(StaticSettings)'
      /\ AllHeld(ModeSettings(LONG)) => AllHeld(ModeSettings(LONG))'
      /\ Aside({PAD})' /\ (PadInv => PadInv') /\ Aside(ReadOnly)'
  BY <1>1, <1>7, <1>8, HeldAcross
<1> QED BY <1>1, <1>2, <1>6, <1>9 DEF ConfInv, Setup, Starting, Early, Late

(* main's mode replaces the long one that VL53L1X_init has set.            *)
LEMMA ConfMainMode ==
  ASSUME RInv, ConfInv, MainMode
  PROVE  ConfInv'
<1>1. /\ regs' = regs /\ mode' = mode /\ booted' = booted /\ regs'[MODE] # 64 /\ todo = <<>>
  BY SetupKept
<1>2. /\ wpc = "mode" /\ wpc' = "mainA" /\ osc_calibrate_val' = osc_calibrate_val
      /\ todo' = setDistanceMode(mode)
  BY DEF MainMode, At, Then, statics
<1>3. items(todo') = ModeSettings(mode) BY <1>2 DEF ModeSettings
<1>4. \A w \in items(todo') : w[1] \in ModeRegs BY <1>3, Settings
<1>5. AllHeld(ModeSettings(Chosen))'
  <2>1. CASE mode \in {SHORT, MEDIUM, LONG}
    <3>1. Chosen' = mode BY <1>1, <2>1 DEF Chosen
    <3>2. PICK a, b, h, p : setDistanceMode(mode) = ModeConfig(a, b, h, p)
      BY <2>1 DEF setDistanceMode, SHORT, MEDIUM, LONG
    <3>3. \A w, c \in ModeSettings(mode) : w[1] = c[1] => w = c
      <4> DEFINE m == ModeConfig(a, b, h, p)
      <4>1. DOMAIN m = 1 .. 7 BY DEF ModeConfig
      <4>2. \A i, j \in 1 .. 7 : m[i][1] = m[j][1] => m[i] = m[j] BY ModeOnce
      <4>3. setDistanceMode(mode) = m BY <3>2
      <4> HIDE DEF m
      <4> QED BY <4>1, <4>2, <4>3 DEF ModeSettings, items
    <3>4. ASSUME NEW c \in ModeSettings(mode) PROVE Held(c)'
      BY <1>3, <3>3, <3>4, HeldNew
    <3> QED BY <3>1, <3>4 DEF AllHeld
  <2>2. CASE mode \notin {SHORT, MEDIUM, LONG}
    <3>1. setDistanceMode(mode) = <<>> BY <2>2 DEF setDistanceMode
    <3>2. \A w \in items(todo') : FALSE BY <1>2, <3>1 DEF items
    <3>3. Chosen' = LONG BY <1>1, <2>2 DEF Chosen
    <3>4. AllHeld(ModeSettings(LONG)) BY <1>2 DEF ConfInv, Early
    <3>5. ASSUME NEW c \in ModeSettings(LONG) PROVE Held(c)'
      BY <1>1, <3>2, <3>4, HeldOver DEF AllHeld
    <3> QED BY <3>3, <3>5 DEF AllHeld
  <2> QED BY <2>1, <2>2
<1>6. /\ ModeRegs \cap StaticRegs = {} /\ OFFSET \notin ModeRegs
      /\ PAD \notin ModeRegs /\ ModeRegs \cap ReadOnly = {}
  BY StaticApart, Apart DEF StaticRegs
<1>7. /\ AllHeld(StaticSettings) => AllHeld(StaticSettings)'
      /\ Held(OffsetSetting) => Held(OffsetSetting)'
      /\ Aside({PAD})' /\ (PadInv => PadInv') /\ Aside(ReadOnly)'
  BY <1>1, <1>4, <1>6, HeldAcross
<1> QED BY <1>1, <1>2, <1>5, <1>7 DEF ConfInv, Setup, Starting, Early, Late

(* The sensor is started once everything else is set.                      *)
LEMMA ConfStart ==
  ASSUME RInv, ConfInv, startContinuous
  PROVE  ConfInv'
<1>1. /\ regs' = regs /\ mode' = mode /\ booted' = booted /\ regs'[MODE] # 64 /\ todo = <<>>
      /\ booted
  BY SetupKept DEF startContinuous, At, Setup
<1>2. /\ wpc = "start" /\ wpc' = "sdram"
      /\ todo' = <<W(PERIOD, 50 * osc_calibrate_val), W(CLEAR, 1), W(MODE, 64)>>
  BY DEF startContinuous, At, Then, PERIOD, CLEAR, MODE
<1>3. W(PERIOD, 50 * osc_calibrate_val) = PeriodSetting
  BY <1>2 DEF ConfInv, Late, PeriodSetting
<1>4. /\ PeriodSetting \in items(todo')
      /\ \A w \in items(todo') : w = PeriodSetting \/ w[1] = CLEAR \/ w[1] = MODE
  BY <1>2, <1>3 DEF items, W
<1>5. PeriodSetting[1] = PERIOD /\ PERIOD # CLEAR /\ PERIOD # MODE
  BY DEF PeriodSetting, W, PERIOD, CLEAR, MODE
<1>6. Held(PeriodSetting)'
  <2>1. PeriodSetting' = PeriodSetting BY DEF PeriodSetting
  <2> QED BY <1>4, <1>5, <2>1, HeldNew
<1>7. /\ {PERIOD, CLEAR, MODE} \cap StaticRegs = {} /\ {PERIOD, CLEAR, MODE} \cap ModeRegs = {}
      /\ OFFSET \notin {PERIOD, CLEAR, MODE} /\ PAD \notin {PERIOD, CLEAR, MODE}
      /\ {PERIOD, CLEAR, MODE} \cap ReadOnly = {}
  <2>1. StaticRegs \cap {PERIOD, CLEAR, MODE} = {} BY StaticApart DEF StaticRegs
  <2>2. CLEAR \notin ConfRegs /\ CLEAR \notin ReadOnly BY Apart
  <2> QED BY <2>1, <2>2, Apart DEF ConfRegs
<1>8. \A w \in items(todo') : w[1] \in {PERIOD, CLEAR, MODE} BY <1>4, <1>5
<1>9. /\ AllHeld(StaticSettings) => AllHeld(StaticSettings)'
      /\ AllHeld(ModeSettings(Chosen)) => AllHeld(ModeSettings(Chosen))'
      /\ Held(OffsetSetting) => Held(OffsetSetting)'
      /\ Aside({PAD})' /\ (PadInv => PadInv') /\ Aside(ReadOnly)'
  BY <1>1, <1>7, <1>8, HeldAcross
<1>10. todo' # <<>> BY <1>2
<1>11. /\ AllHeld(StaticSettings) /\ AllHeld(ModeSettings(Chosen)) /\ Held(OffsetSetting) /\ PadInv
  BY <1>2 DEF ConfInv, Late, Setup
<1> QED BY <1>1, <1>2, <1>6, <1>9, <1>10, <1>11 DEF ConfInv, Setup, Starting, Early, Late
---------------------------------------------------------------------------
(* What a write leaves in the registers.                                   *)
LEMMA WriteRegs ==
  ASSUME NEW reg, NEW value, SensorWrite(reg, value)
  PROVE  /\ reg \notin {RESET, CLEAR} /\ genuine /\ booted => regs' = [regs EXCEPT ![reg] = value]
         /\ reg = CLEAR => regs' = regs
         /\ reg = RESET /\ value = 0 =>
              regs' = regs \/ regs' = [Factory EXCEPT ![RESET] = 0]
         /\ reg # RESET \/ value # 0 =>
              regs' = regs \/ \E v : regs' = [regs EXCEPT ![reg] = v]
<1>1. RESET # CLEAR BY DEF RESET, CLEAR
<1>2. CASE ~genuine BY <1>1, <1>2 DEF SensorWrite
<1>3. CASE genuine /\ reg = RESET /\ value = 0 /\ SensorReset
  BY <1>1, <1>3 DEF SensorReset, RESET
<1>4. CASE genuine /\ reg = RESET /\ value # 0 /\ SensorRelease
  BY <1>1, <1>4 DEF SensorRelease, RESET
<1>5. CASE genuine /\ reg = CLEAR /\ ClearInterrupt
  BY <1>1, <1>5 DEF ClearInterrupt
<1>6. CASE genuine /\ reg \notin {RESET, CLEAR} /\ Set(reg, value)
  BY <1>1, <1>6 DEF Set
<1> QED BY <1>2, <1>3, <1>4, <1>5, <1>6 DEF SensorWrite, RESET, CLEAR

(* A write outside the configuration.                                      *)
LEMMA ConfWriteAway ==
  ASSUME ConfInv, mode' = mode, wpc' = wpc, wpc \notin Setup \cup {"sdram"},
         NEW S, todo \in Seq(S), todo # <<>>, todo' = Tail(todo),
         regs' = regs \/ \E r, v : r \notin ConfRegs \cup ReadOnly /\ regs' = [regs EXCEPT ![r] = v]
  PROVE  ConfInv'
<1>1. Aside(ConfRegs)' /\ Aside(ReadOnly)'
  BY AsideWrite DEF ConfInv
<1>2. ~Starting' /\ wpc' \notin Setup \cup Early \cup Late \cup {"mode"}
  BY DEF Starting, Setup, Early, Late
<1>3. /\ DOMAIN regs' = DOMAIN regs
      /\ \A q \in ConfRegs \cup ReadOnly : regs'[q] = regs[q]
  <2>1. CASE regs' = regs BY <2>1
  <2>2. ASSUME NEW r, NEW v, r \notin ConfRegs \cup ReadOnly, regs' = [regs EXCEPT ![r] = v]
        PROVE  /\ DOMAIN regs' = DOMAIN regs
               /\ \A q \in ConfRegs \cup ReadOnly : regs'[q] = regs[q]
    <3>1. ConfRegs \cup ReadOnly \subseteq DOMAIN regs
      BY Settings DEF ConfRegs, StaticRegs, ConfInv
    <3> QED BY <2>2, <3>1
  <2> QED BY <2>1, <2>2
<1>4. regs'[MODE] = 64 => Configured'
  BY <1>3, ConfigKept
<1>5. PAD \in ConfRegs BY DEF ConfRegs
<1> QED BY <1>1, <1>2, <1>3, <1>4, <1>5 DEF ConfInv

(* A write of the configuration, to a sensor that has booted.              *)
LEMMA HeldThrough ==
  ASSUME ConfInv, mode' = mode, NEW S, todo \in Seq(S), todo # <<>>, todo' = Tail(todo),
         \/ regs' = [regs EXCEPT ![todo[1][1]] = todo[1][2]]
         \/ regs' = regs /\ todo[1][1] = CLEAR
  PROVE  /\ AllHeld(StaticSettings) => AllHeld(StaticSettings)'
         /\ AllHeld(ModeSettings(LONG)) => AllHeld(ModeSettings(LONG))'
         /\ AllHeld(ModeSettings(Chosen)) => AllHeld(ModeSettings(Chosen))'
         /\ Held(OffsetSetting) => Held(OffsetSetting)'
         /\ Held(PeriodSetting) => Held(PeriodSetting)'
         /\ Aside({PAD}) => Aside({PAD})' /\ regs'[PAD] = regs[PAD]
         /\ Aside(ReadOnly)'
         /\ DOMAIN regs' = DOMAIN regs
         /\ \A r \in ReadOnly : regs'[r] = regs[r]
<1>1. CLEAR \notin ConfRegs BY Apart
<1>2. ASSUME NEW c, c[1] \in ConfRegs, Held(c) PROVE Held(c)'
  <2>1. c[1] \in DOMAIN regs
    BY <1>2, Settings DEF ConfRegs, StaticRegs, ConfInv
  <2>2. todo[1][1] = CLEAR => todo[1][1] # c[1] BY <1>1, <1>2
  <2> QED BY <1>2, <2>1, <2>2, HeldWrite
<1>3. Chosen' = Chosen BY DEF Chosen
<1>4. AllHeld(StaticSettings) => AllHeld(StaticSettings)'
  BY <1>2, Settings DEF AllHeld
<1>5. AllHeld(ModeSettings(LONG)) => AllHeld(ModeSettings(LONG))'
  BY <1>2, Settings DEF AllHeld
<1>6. AllHeld(ModeSettings(Chosen)) => AllHeld(ModeSettings(Chosen))'
  <2>1. SUFFICES ASSUME AllHeld(ModeSettings(Chosen)), NEW c \in ModeSettings(Chosen)
                 PROVE  Held(c)'
    BY <1>3 DEF AllHeld
  <2>2. Held(c) /\ c[1] \in ConfRegs BY <2>1, Settings DEF AllHeld
  <2> QED BY <1>2, <2>2
<1>7. /\ OffsetSetting[1] \in ConfRegs /\ PeriodSetting[1] \in ConfRegs
      /\ OffsetSetting' = OffsetSetting /\ PeriodSetting' = PeriodSetting
  BY DEF OffsetSetting, PeriodSetting, W, ConfRegs
<1>8. Held(OffsetSetting) => Held(OffsetSetting)'
  BY <1>2, <1>7
<1>9. Held(PeriodSetting) => Held(PeriodSetting)'
  BY <1>2, <1>7
<1>10. Aside({PAD}) => Aside({PAD})' /\ regs'[PAD] = regs[PAD]
  <2>1. Aside({PAD}) => Aside({PAD})' /\ todo[1][1] \notin {PAD} BY AsideWrite
  <2>2. PAD \in DOMAIN regs BY Settings DEF ConfInv
  <2>3. todo[1][1] # PAD => regs'[PAD] = regs[PAD] BY <2>2
  <2> QED BY <2>1, <2>3
<1>11. Aside(ReadOnly)' /\ todo[1][1] \notin ReadOnly
  BY AsideWrite DEF ConfInv
<1>12. DOMAIN regs' = DOMAIN regs
  OBVIOUS
<1>13. \A r \in ReadOnly : regs'[r] = regs[r]
  <2>1. ReadOnly \subseteq DOMAIN regs BY Settings DEF ConfInv
  <2> QED BY <1>11, <2>1
<1> QED BY <1>4, <1>5, <1>6, <1>8, <1>9, <1>10, <1>11, <1>12, <1>13

LEMMA ConfSetupWrite ==
  ASSUME RInv, ConfInv, WriteReg, wpc \in Setup
  PROVE  ConfInv'
<1> DEFINE reg == todo[1][1]
           value == todo[1][2]
<1>1. /\ todo # <<>> /\ todo' = Tail(todo) /\ SensorWrite(reg, value)
      /\ UNCHANGED <<genuine, sample, wpc, mode, osc_calibrate_val>>
  BY DEF WriteReg, buildVars, statics
<1>2. booted /\ genuine /\ Quiet(todo) /\ Off
  BY DEF ConfInv, RInv, PhaseInv, SensorInv
<1>3. reg \notin {RESET, CLEAR, MODE}
  BY <1>1, <1>2, QuietStep
<1>4. regs' = [regs EXCEPT ![reg] = value] /\ booted' = booted
  BY <1>1, <1>2, <1>3, WriteRegs, WriteEffect DEF RInv
<1>5. PICK S : todo \in Seq(S) BY TodoSeq
<1>6. /\ AllHeld(StaticSettings) => AllHeld(StaticSettings)'
      /\ AllHeld(ModeSettings(LONG)) => AllHeld(ModeSettings(LONG))'
      /\ AllHeld(ModeSettings(Chosen)) => AllHeld(ModeSettings(Chosen))'
      /\ Held(OffsetSetting) => Held(OffsetSetting)'
      /\ Aside({PAD}) => Aside({PAD})' /\ regs'[PAD] = regs[PAD]
      /\ Aside(ReadOnly)'
      /\ DOMAIN regs' = DOMAIN regs
      /\ \A r \in ReadOnly : regs'[r] = regs[r]
  BY <1>1, <1>4, <1>5, HeldThrough
<1>7. regs'[MODE] # 64
  BY <1>2, <1>3, <1>4 DEF Off, RInv, SensorInv
<1>8. PadInv' /\ regs'[PAD] \in Nat
  <2>1. CASE regs[PAD] % 2 = 1 /\ Aside({PAD})
    BY <1>6, <2>1 DEF PadInv, ConfInv
  <2>2. ASSUME NEW v \in {regs[PAD], regs[PAD] + 1}, v % 2 = 1, todo = <<W(PAD, v)>>
        PROVE  PadInv' /\ regs'[PAD] \in Nat
    <3>1. reg = PAD /\ value = v /\ todo' = <<>> BY <1>1, <2>2 DEF W
    <3>2. PAD \in DOMAIN regs /\ regs[PAD] \in Nat BY Settings DEF ConfInv
    <3>3. v \in Nat BY <2>2, <3>2
    <3>4. regs'[PAD] = v BY <1>4, <3>1, <3>2
    <3>5. Aside({PAD})' BY <3>1 DEF Aside
    <3> QED BY <2>2, <3>3, <3>4, <3>5 DEF PadInv
  <2> QED BY <2>1, <2>2 DEF ConfInv, PadInv
<1> HIDE DEF reg, value
<1> QED BY <1>1, <1>2, <1>4, <1>6, <1>7, <1>8 DEF ConfInv, Setup, Starting, Early, Late

LEMMA ConfStartWrite ==
  ASSUME RInv, ConfInv, WriteReg, wpc = "sdram"
  PROVE  ConfInv'
<1> DEFINE reg == todo[1][1]
           value == todo[1][2]
<1>1. /\ todo # <<>> /\ todo' = Tail(todo) /\ SensorWrite(reg, value)
      /\ UNCHANGED <<genuine, sample, wpc, mode, osc_calibrate_val>>
  BY DEF WriteReg, buildVars, statics
<1>2. Starting /\ booted /\ genuine /\ Off
  BY <1>1 DEF Starting, ConfInv, RInv, PhaseInv, SensorInv, StartInv
<1>3. RESET # MODE /\ CLEAR # MODE /\ RESET # CLEAR /\ PERIOD \notin {RESET, CLEAR, MODE}
  BY DEF RESET, CLEAR, MODE, PERIOD
<1>4. /\ reg \in {PERIOD, CLEAR, MODE}
      /\ reg = MODE => todo' = <<>>
  <2>1. PICK n : \/ todo = <<W(PERIOD, n), W(CLEAR, 1), W(MODE, 64)>>
                 \/ todo = <<W(CLEAR, 1), W(MODE, 64)>>
                 \/ todo = <<W(MODE, 64)>>
    BY <1>1 DEF RInv, PhaseInv, StartInv
  <2>2. CASE todo = <<W(PERIOD, n), W(CLEAR, 1), W(MODE, 64)>>
    BY <1>3, <2>2 DEF W
  <2>3. CASE todo = <<W(CLEAR, 1), W(MODE, 64)>>
    BY <1>3, <2>3 DEF W
  <2>4. CASE todo = <<W(MODE, 64)>>
    BY <1>1, <2>4 DEF W
  <2> QED BY <2>1, <2>2, <2>3, <2>4
<1>5. /\ \/ regs' = [regs EXCEPT ![reg] = value]
         \/ regs' = regs /\ reg = CLEAR
      /\ booted' = booted
  BY <1>1, <1>2, <1>3, <1>4, WriteRegs, WriteEffect DEF RInv
<1>6. PICK S : todo \in Seq(S) BY TodoSeq
<1>7. /\ AllHeld(StaticSettings) /\ AllHeld(ModeSettings(Chosen)) /\ Held(OffsetSetting)
      /\ Held(PeriodSetting) /\ Aside({PAD}) /\ regs[PAD] % 2 = 1 /\ regs[PAD] \in Nat
  <2>1. Aside({PAD}) /\ PadInv BY <1>2 DEF ConfInv
  <2>2. regs[PAD] % 2 = 1
    <3>1. ASSUME NEW v, todo = <<W(PAD, v)>> PROVE FALSE
      <4>1. 1 \in DOMAIN todo /\ todo[1][1] = PAD BY <3>1 DEF W
      <4> QED BY <2>1, <4>1 DEF Aside
    <3> QED BY <2>1, <3>1 DEF PadInv
  <2> QED BY <1>2, <2>1, <2>2 DEF ConfInv
<1>8. /\ AllHeld(StaticSettings)' /\ AllHeld(ModeSettings(Chosen))'
      /\ Held(OffsetSetting)' /\ Held(PeriodSetting)'
      /\ Aside({PAD})' /\ regs'[PAD] = regs[PAD]
      /\ Aside(ReadOnly)'
      /\ DOMAIN regs' = DOMAIN regs
      /\ \A r \in ReadOnly : regs'[r] = regs[r]
  BY <1>1, <1>5, <1>6, <1>7, HeldThrough
<1> HIDE DEF reg, value
<1>9. regs'[MODE] = 64 => Configured'
  <2>1. CASE reg # MODE
    BY <1>2, <1>5, <2>1 DEF Off, RInv, SensorInv
  <2>2. CASE reg = MODE
    <3>1. todo' = <<>> BY <1>4, <2>2
    <3>2. \A c : Held(c)' => regs'[c[1]] = c[2] BY <3>1 DEF Held
    <3>3. OffsetSetting' = OffsetSetting /\ PeriodSetting' = PeriodSetting
      BY DEF OffsetSetting, PeriodSetting
    <3>4. \A c \in StaticSettings : regs'[c[1]] = c[2] BY <1>8, <3>2 DEF AllHeld
    <3>5. \A c \in ModeSettings(Chosen') : regs'[c[1]] = c[2] BY <1>8, <3>2 DEF AllHeld
    <3>6. \A c \in {OffsetSetting, PeriodSetting} : regs'[c[1]] = c[2]
      BY <1>8, <3>2, <3>3
    <3> QED BY <1>7, <1>8, <3>3, <3>4, <3>5, <3>6 DEF Configured
  <2> QED BY <2>1, <2>2
<1>10. PadInv' BY <1>7, <1>8 DEF PadInv
<1> QED BY <1>1, <1>2, <1>5, <1>7, <1>8, <1>9, <1>10 DEF ConfInv, Setup, Starting, Early, Late

(* Writes while the sensor is reset or a measurement evaluated.            *)
LEMMA ConfWrite ==
  ASSUME RInv, ConfInv, WriteReg
  PROVE  ConfInv'
<1> DEFINE reg == todo[1][1]
           value == todo[1][2]
<1>1. /\ todo # <<>> /\ todo' = Tail(todo) /\ SensorWrite(reg, value)
      /\ UNCHANGED <<genuine, sample, wpc, mode>>
  BY DEF WriteReg, buildVars
<1>2. PICK S : todo \in Seq(S) BY TodoSeq
<1>3. RESET \notin ConfRegs \cup ReadOnly /\ CLEAR \notin ConfRegs \cup ReadOnly BY Apart
<1>4. CASE wpc \in Evaluating
  <2>1. Quiet(todo) /\ Aside(ConfRegs) /\ Aside(ReadOnly) /\ wpc \notin Setup \cup {"sdram"}
    BY <1>4 DEF RInv, PhaseInv, ConfInv, Evaluating, Setup
  <2>2. reg \notin {RESET, CLEAR, MODE} BY <1>1, <2>1, QuietStep
  <2>3. reg \notin ConfRegs /\ reg \notin ReadOnly BY <1>1, <1>2, <2>1, AsideWrite
  <2> HIDE DEF reg, value
  <2>4. regs' = regs \/ \E v : regs' = [regs EXCEPT ![reg] = v]
    BY <1>1, <2>2, WriteRegs
  <2> QED BY <1>1, <1>2, <2>1, <2>3, <2>4, ConfWriteAway
<1>5. CASE wpc = "return"
  <2>1. reg = CLEAR BY <1>1, <1>5 DEF RInv, PhaseInv, ReturnInv, W
  <2>2. regs' = regs BY <1>1, <2>1, WriteRegs
  <2> QED BY <1>1, <1>2, <1>5, <2>2, ConfWriteAway DEF Setup
<1>6. CASE wpc = "boot"
  <2>1. CASE todo = <<W(RESET, 0), W(RESET, 1)>> /\ genuine
    <3>1. reg = RESET /\ value = 0 /\ todo' = <<W(RESET, 1)>>
      BY <1>1, <2>1 DEF W
    <3> HIDE DEF reg, value
    <3>2. CASE regs' = regs
      BY <1>1, <1>2, <1>6, <3>2, ConfWriteAway DEF Setup
    <3>3. CASE regs' = [Factory EXCEPT ![RESET] = 0]
      <4>1. DOMAIN regs' = DOMAIN Factory /\ \A r \in DOMAIN Factory : r # RESET => regs'[r] = Factory[r]
        BY <3>3
      <4>2. /\ \A r \in ReadOnly : regs'[r] = Factory[r]
            /\ regs'[PAD] \in Nat /\ regs'[MODE] # 64
        <5>1. ReadOnly \subseteq DOMAIN Factory /\ PAD \in DOMAIN Factory /\ MODE \in DOMAIN Factory
              /\ RESET \notin ReadOnly /\ RESET # PAD /\ RESET # MODE
          BY <1>3, Settings DEF ConfRegs
        <5>2. Factory[PAD] \in Nat /\ Factory[MODE] # 64
          BY <5>1, FirmwareAssumption DEF MODE
        <5> QED BY <4>1, <5>1, <5>2
      <4>3. Aside(ConfRegs)' /\ Aside(ReadOnly)'
        BY <1>1, <1>2, <1>6, AsideWrite DEF ConfInv, Setup
      <4>4. ~Starting' /\ wpc' \notin Setup \cup Early \cup Late \cup {"mode"}
        BY <1>1, <1>6 DEF Starting, Setup, Early, Late
      <4> QED BY <1>1, <1>6, <4>1, <4>2, <4>3, <4>4 DEF ConfInv
    <3> QED BY <1>1, <3>1, <3>2, <3>3, WriteRegs
  <2>2. CASE todo = <<W(RESET, 1)>>
    <3>1. reg = RESET /\ value = 1 BY <2>2 DEF W
    <3> HIDE DEF reg, value
    <3>2. regs' = regs \/ \E v : regs' = [regs EXCEPT ![reg] = v]
      BY <1>1, <3>1, WriteRegs
    <3> QED BY <1>1, <1>2, <1>3, <1>6, <3>1, <3>2, ConfWriteAway DEF Setup
  <2> QED BY <1>1, <1>6, <2>1, <2>2 DEF RInv, PhaseInv, BootInv
<1> QED BY <1>1, <1>4, <1>5, <1>6, ConfSetupWrite, ConfStartWrite
        DEF RInv, PhaseInv, PrintInv

LEMMA ConfStep == RInv /\ ConfInv /\ [FirmwareNext]_firmwareVars => ConfInv'
BY ConfWrite, ConfAway, ConfIdle, ConfBootPoll, ConfStoreOscillator, ConfBudget,
   ConfWriteOffset, ConfMainMode, ConfStart, Zenon DEF FirmwareNext, Main

LEMMA ConfInitially ==
  ASSUME FirmwareInit
  PROVE  ConfInv
<1>1. /\ regs = Factory /\ todo = <<>> /\ wpc = "id"
  BY DEF FirmwareInit
<1>2. \A R : Aside(R) BY <1>1 DEF Aside
<1>3. Factory[PAD] \in Nat /\ Factory[MODE] # 64
  BY Settings, FirmwareAssumption DEF MODE
<1> QED BY <1>1, <1>2, <1>3 DEF ConfInv, Starting, Setup, Early, Late

LEMMA ConfiguredRanging ==
  ASSUME ConfInv
  PROVE  RangesConfigured
<1> SUFFICES ASSUME regs[MODE] = 64 PROVE RangesConfigured
  BY DEF RangesConfigured, ranging, MODE
<1>1. Configured BY DEF ConfInv
<1>2. \A i \in DOMAIN StaticConfig :
        StaticConfig[i][1] # Adapted => StaticConfig[i] \in StaticSettings
  BY DEF StaticSettings, items
<1>3. inForce(StaticConfig)
  BY <1>1, <1>2, Zenon DEF Configured, inForce
<1>4. \A i \in DOMAIN setDistanceMode(Chosen) : setDistanceMode(Chosen)[i] \in ModeSettings(Chosen)
  BY DEF ModeSettings, items
<1>5. inForce(setDistanceMode(Chosen))
  BY <1>1, <1>4, Zenon DEF Configured, inForce
<1>6. /\ regs[OFFSET] = (4 * Factory[OUTER]) % 65536 /\ regs[PERIOD] = 50 * Factory[OSCCAL]
      /\ regs[PAD] % 2 = 1
  <2>1. /\ regs[OffsetSetting[1]] = OffsetSetting[2] /\ regs[PeriodSetting[1]] = PeriodSetting[2]
        /\ regs[PAD] % 2 = 1
    BY <1>1 DEF Configured
  <2> QED BY <2>1 DEF OffsetSetting, PeriodSetting, W
<1> QED BY <1>3, <1>5, <1>6 DEF RangesConfigured, Chosen, PAD, OFFSET, PERIOD, OSCCAL, OUTER

(***************************************************************************)
(* Whenever the sensor measures it does so as VL53L1X_init and main have   *)
(* configured it, for every build, every content of its registers after a  *)
(* reset, and every moment the processor is reset at (VL53L1X.c 127-279,   *)
(* 388-396).                                                               *)
(***************************************************************************)
THEOREM AlwaysRangesConfigured == FirmwareSpec => []RangesConfigured
<1>1. FirmwareInit => RInv /\ ConfInv
  BY Initially, ConfInitially
<1>2. RInv /\ [FirmwareNext]_firmwareVars => RInv'
  BY RInvStep
<1>3. RInv /\ ConfInv /\ [FirmwareNext]_firmwareVars => ConfInv'
  BY ConfStep
<1>4. ConfInv => RangesConfigured
  BY ConfiguredRanging
<1> QED BY <1>1, <1>2, <1>3, <1>4, PTL DEF FirmwareSpec
---------------------------------------------------------------------------
(* Products of natural numbers grow with their factors. *)
LEMMA ProductGrows ==
  ASSUME NEW a \in Nat, NEW b \in Nat, NEW c \in Nat, a <= b
  PROVE  a * c <= b * c
<1>1. b - a \in Nat OBVIOUS
<1>2. (b - a) * c >= 0 BY <1>1
<1>3. (b - a) * c = b * c - a * c OBVIOUS
<1> QED BY <1>2, <1>3

LEMMA FactorCancelled ==
  ASSUME NEW a \in Nat, NEW b \in Nat, NEW c \in Nat, a * c < b * c
  PROVE  a < b
<1> SUFFICES ASSUME b <= a PROVE FALSE OBVIOUS
<1>1. b * c <= a * c BY ProductGrows
<1>2. a * c \in Nat /\ b * c \in Nat OBVIOUS
<1> QED BY <1>1, <1>2

LEMMA Quotient ==
  ASSUME NEW x \in Nat, NEW d \in Nat \ {0}
  PROVE  /\ x \div d \in Nat
         /\ (x \div d) * d <= x /\ x < (x \div d + 1) * d
         /\ x \div d = 0 <=> x < d
<1> DEFINE q == x \div d
           r == x % d
<1>1. q \in Int /\ q >= 0 OBVIOUS
<1>2. r \in 0 .. d - 1 OBVIOUS
<1>3. x = d * q + r OBVIOUS
<1> HIDE DEF q, r
<1>4. d * q = q * d /\ (q + 1) * d = q * d + d BY <1>1
<1>5. q \in Nat BY <1>1
<1>6. q * d <= x /\ x < (q + 1) * d
  <2>1. q * d \in Nat BY <1>5
  <2> QED BY <1>2, <1>3, <1>4, <2>1
<1>7. q = 0 => x < d BY <1>2, <1>3, <1>5
<1>8. q # 0 => d <= x
  <2>1. q # 0 => 1 * d <= q * d BY <1>5, ProductGrows
  <2>2. q * d \in Nat BY <1>5
  <2> QED BY <1>6, <2>1, <2>2
<1> QED BY <1>5, <1>6, <1>7, <1>8 DEF q

(* updateDSS: the largest number of SPADs whose rate is within the target. *)
LEMMA SpadsRequired ==
  ASSUME NEW m, m.spads \in Nat, m.peak \in Nat, m.ambient \in Nat
  PROVE  LET n == requiredSpads(m)
             rate == clip(m.peak + m.ambient)
         IN IF m.spads = 0 \/ rate * HALFWORD < m.spads THEN n = HALFWORD \div 2
            ELSE /\ n < HALFWORD - 1 => (n + 1) * rate > TargetRate * m.spads
                 /\ n * rate * HALFWORD <= TargetRate * m.spads * HALFWORD + n * m.spads
<1> DEFINE H == HALFWORD
           T == TargetRate
           s == m.spads
           r == clip(m.peak + m.ambient)
           q == (r * H) \div s
           k == (T * H) \div q
           n == requiredSpads(m)
           Goal == IF s = 0 \/ r * H < s THEN n = H \div 2
                   ELSE /\ n < H - 1 => (n + 1) * r > T * s
                        /\ n * r * H <= T * s * H + n * s
<1> SUFFICES Goal OBVIOUS
<1>1. H \in Nat /\ H > 1
  <2>1. BYTE \in Nat /\ BYTE > 1 BY VL53L1XAssumption
  <2>2. 1 * BYTE <= BYTE * BYTE BY <2>1, ProductGrows
  <2> QED BY <2>1, <2>2 DEF HALFWORD
<1>2. r \in Nat BY <1>1 DEF clip
<1>3. T \in Nat BY VL53L1XAssumption
<1>4. n = IF s = 0 \/ q = 0 THEN H \div 2 ELSE clip(k)
  BY DEF requiredSpads
<1>5. s \in Nat OBVIOUS
<1>6. clip(k) = IF k > H - 1 THEN H - 1 ELSE k BY DEF clip
<1> HIDE DEF H, T, s, r, n
<1>7. r * H \in Nat /\ T * H \in Nat BY <1>1, <1>2, <1>3
<1>8. CASE s = 0 BY <1>4, <1>8
<1>9. CASE s # 0
  <2>1. /\ q \in Nat /\ q * s <= r * H /\ r * H < (q + 1) * s
        /\ q = 0 <=> r * H < s
    BY <1>5, <1>7, <1>9, Quotient
  <2> HIDE DEF q
  <2>2. CASE q = 0 BY <1>4, <2>1, <2>2
  <2>3. CASE q # 0
    <3>1. k \in Nat /\ k * q <= T * H /\ T * H < (k + 1) * q
      BY <1>7, <2>1, <2>3, Quotient
    <3>2. n = IF k > H - 1 THEN H - 1 ELSE k
      BY <1>4, <1>6, <1>9, <2>3
    <3> HIDE DEF k
    <3>3. n \in Nat /\ n <= k BY <1>1, <3>1, <3>2
    <3>4. ASSUME n < H - 1 PROVE (n + 1) * r > T * s
      <4>1. n = k BY <1>1, <3>1, <3>2, <3>4
      <4>2. (T * H + 1) * s <= ((n + 1) * q) * s
        BY <1>5, <1>7, <2>1, <3>1, <3>3, <4>1, ProductGrows
      <4>3. (q * s) * (n + 1) <= (r * H) * (n + 1)
        BY <1>5, <1>7, <2>1, <3>3, ProductGrows
      <4>4. ((n + 1) * q) * s = (q * s) * (n + 1) /\ (r * H) * (n + 1) = ((n + 1) * r) * H
        BY <1>1, <1>2, <1>5, <2>1, <3>3
      <4>5. (T * H + 1) * s = (T * s) * H + s
        BY <1>1, <1>3, <1>5
      <4>6. (T * s) * H < ((n + 1) * r) * H
        <5>1. (T * s) * H \in Nat /\ ((n + 1) * r) * H \in Nat /\ ((n + 1) * q) * s \in Nat
          BY <1>1, <1>2, <1>3, <1>5, <2>1, <3>3
        <5> QED BY <1>5, <1>9, <4>2, <4>3, <4>4, <4>5, <5>1
      <4>7. T * s \in Nat /\ (n + 1) * r \in Nat BY <1>2, <1>3, <1>5, <3>3
      <4> QED BY <1>1, <4>6, <4>7, FactorCancelled
    <3>5. n * r * H <= T * s * H + n * s
      <4>1. (r * H) * n <= ((q + 1) * s) * n
        BY <1>5, <1>7, <2>1, <3>3, ProductGrows
      <4>2. n * q <= k * q BY <2>1, <3>1, <3>3, ProductGrows
      <4>3. (n * q) * s <= (T * H) * s
        <5>1. n * q \in Nat /\ k * q \in Nat BY <2>1, <3>1, <3>3
        <5>2. n * q <= T * H BY <1>7, <3>1, <4>2, <5>1
        <5> QED BY <1>5, <1>7, <5>1, <5>2, ProductGrows
      <4>4. /\ (r * H) * n = n * r * H
            /\ ((q + 1) * s) * n = (n * q) * s + n * s
            /\ (T * H) * s = T * s * H
        BY <1>1, <1>2, <1>3, <1>5, <2>1, <3>3
      <4>5. n * r * H \in Nat /\ (n * q) * s \in Nat /\ n * s \in Nat /\ T * s * H \in Nat
        BY <1>1, <1>2, <1>3, <1>5, <2>1, <3>3
      <4> QED BY <4>1, <4>3, <4>4, <4>5
    <3>6. ~(s = 0 \/ r * H < s) BY <1>9, <2>1, <2>3
    <3> QED BY <3>4, <3>5, <3>6
  <2> QED BY <2>2, <2>3
<1> QED BY <1>8, <1>9
---------------------------------------------------------------------------
(* The rates of a measurement are numbers once it is read.                 *)
LEMMA RatesRead ==
  ASSUME NEW m \in ResultBuffer
  PROVE  LET r == readResults(ResultBytes(m))
         IN r.spads \in Nat /\ r.peak \in Nat /\ r.ambient \in Nat
<1>1. m.spads \in Nat /\ m.peak \in Nat /\ m.ambient \in Nat
  BY VL53L1XAssumption DEF ResultBuffer, HALFWORD
<1> DEFINE x == BYTE - 1
           hi(n) == n \div BYTE
           lo(n) == n % BYTE
           b == ResultBytes(m)
<1>2. ASSUME NEW v \in Nat PROVE hi(v) \in Nat /\ lo(v) \in Nat
  BY VL53L1XAssumption
<1>3. b = <<m.range_status, x, m.stream_count>> \o <<hi(m.spads), lo(m.spads)>>
          \o <<x, x>> \o <<hi(m.ambient), lo(m.ambient)>> \o <<x, x, x, x>>
          \o <<hi(m.range), lo(m.range)>> \o <<hi(m.peak), lo(m.peak)>>
  BY Zenon DEF ResultBytes, Bytes
<1> HIDE DEF x, hi, lo, b
<1>4. /\ b[4] = hi(m.spads) /\ b[5] = lo(m.spads) /\ b[8] = hi(m.ambient) /\ b[9] = lo(m.ambient)
      /\ b[16] = hi(m.peak) /\ b[17] = lo(m.peak)
  BY <1>3
<1>5. \A u, v \in Nat : BYTE * u + v \in Nat BY VL53L1XAssumption
<1>6. BYTE * b[4] + b[5] \in Nat /\ BYTE * b[8] + b[9] \in Nat /\ BYTE * b[16] + b[17] \in Nat
  BY <1>1, <1>2, <1>4, <1>5
<1>7. /\ readResults(b).spads = BYTE * b[4] + b[5]
      /\ readResults(b).ambient = BYTE * b[8] + b[9]
      /\ readResults(b).peak = BYTE * b[16] + b[17]
  BY DEF readResults
<1> QED BY <1>6, <1>7 DEF b

Rates == results.spads \in Nat /\ results.peak \in Nat /\ results.ambient \in Nat

(* What updateDSS has computed is in the sensor's register, or the one     *)
(* write due.                                                              *)
SpadInv ==
  /\ wpc \in Evaluating => Rates
  /\ wpc = "ranging" => \/ todo = <<>> /\ regs[Adapted] = requiredSpads(results)
                        \/ todo = <<W(Adapted, requiredSpads(results))>>

LEMMA SpadWrite ==
  ASSUME RInv, ConfInv, SpadInv, WriteReg
  PROVE  SpadInv'
<1> DEFINE reg == todo[1][1]
           value == todo[1][2]
<1>1. /\ todo # <<>> /\ todo' = Tail(todo) /\ SensorWrite(reg, value)
      /\ wpc' = wpc /\ results' = results
  BY DEF WriteReg, statics
<1>2. Rates' = Rates BY <1>1 DEF Rates
<1>3. ASSUME wpc = "ranging" PROVE todo' = <<>> /\ regs'[Adapted] = requiredSpads(results')
  <2>1. todo = <<W(Adapted, requiredSpads(results))>> BY <1>1, <1>3 DEF SpadInv
  <2>2. reg = Adapted /\ value = requiredSpads(results) /\ todo' = <<>> BY <1>1, <2>1 DEF W
  <2> HIDE DEF reg, value
  <2>3. genuine /\ booted
    BY <1>3 DEF RInv, PhaseInv, SensorInv, Evaluating, One, None
  <2>4. Adapted \notin {RESET, CLEAR} /\ Adapted \in DOMAIN regs
    <3>1. Adapted \in DOMAIN Factory
      <4>1. 20 \in DOMAIN StaticConfig /\ StaticConfig[20][1] = Adapted
        BY DEF StaticConfig, W, Adapted
      <4>2. Adapted \in written(StaticConfig) BY <4>1 DEF written
      <4> QED BY <4>2, FirmwareAssumption
    <3> QED BY <3>1 DEF ConfInv, Adapted, RESET, CLEAR
  <2>5. regs' = [regs EXCEPT ![Adapted] = value]
    BY <1>1, <2>2, <2>3, <2>4, WriteRegs
  <2> QED BY <1>1, <2>2, <2>4, <2>5
<1> QED BY <1>1, <1>2, <1>3 DEF SpadInv

LEMMA SpadStep ==
  ASSUME RInv, ConfInv, SpadInv, [FirmwareNext]_firmwareVars
  PROVE  SpadInv'
<1>1. CASE WriteReg BY <1>1, SpadWrite
<1>2. CASE ReadResults
  <2>1. /\ wpc' \in {"dss", "calibrate"} /\ results' = readResults(ResultBytes(sample))
        /\ One
    BY <1>2 DEF ReadResults, At, Then, RInv, PhaseInv
  <2>2. sample \in ResultBuffer
    BY <2>1, FirmwareAssumption DEF RInv, SensorInv, One
  <2> QED BY <2>1, <2>2, RatesRead DEF SpadInv, Rates
<1>3. CASE setupManualCalibration \/ Calibrated
  BY <1>3 DEF setupManualCalibration, Calibrated, At, Then, statics, SpadInv, Rates, Evaluating
<1>4. CASE updateDSS
  <2>1. /\ wpc = "dss" /\ wpc' = "ranging" /\ results' = results
        /\ todo' = <<W(Adapted, requiredSpads(results))>>
    BY <1>4 DEF updateDSS, At, Then, statics, Adapted
  <2> QED BY <2>1 DEF SpadInv, Rates, Evaluating
<1>5. CASE Boot \/ Measure \/ UNCHANGED firmwareVars
  BY <1>5 DEF Boot, Measure, ranging, firmwareVars, statics, SpadInv, Rates
<1>6. CASE \/ Identify \/ BootPoll \/ StoreOscillator \/ InitBudget \/ WriteOffset
           \/ MainMode \/ MainBudget \/ startContinuous \/ SdramDone \/ Blink \/ DataReady
           \/ TimeoutExpired \/ PollAgain \/ RangingDataRead \/ Return \/ PrintValue \/ CpuReset
  <2>1. wpc' \notin Evaluating
    BY <1>6 DEF Identify, BootPoll, StoreOscillator, InitBudget, WriteOffset, MainMode,
                MainBudget, SetBudget, startContinuous, SdramDone, Blink, DataReady,
                TimeoutExpired, PollAgain, RangingDataRead, Return, PrintValue, CpuReset,
                Then, Evaluating
  <2> QED BY <2>1 DEF SpadInv, Evaluating
<1> QED BY <1>1, <1>2, <1>3, <1>4, <1>5, <1>6, Zenon DEF FirmwareNext, Main

(***************************************************************************)
(* The number of SPADs asked of the sensor after every measurement is the  *)
(* largest that keeps the rate within the target, for every measurement    *)
(* and every target (VL53L1X.c 560-599).                                   *)
(***************************************************************************)
THEOREM SpadsAlwaysMeetTarget == FirmwareSpec => []SpadsMeetTarget
<1>1. FirmwareInit => RInv /\ ConfInv /\ SpadInv
  BY Initially, ConfInitially DEF FirmwareInit, SpadInv, Evaluating
<1>2. RInv /\ [FirmwareNext]_firmwareVars => RInv'
  BY RInvStep
<1>3. RInv /\ ConfInv /\ [FirmwareNext]_firmwareVars => ConfInv'
  BY ConfStep
<1>4. RInv /\ ConfInv /\ SpadInv /\ [FirmwareNext]_firmwareVars => SpadInv'
  BY SpadStep
<1>5. SpadInv => SpadsMeetTarget
  <2> SUFFICES ASSUME SpadInv, At("ranging") PROVE SpadsMeetTarget
    BY DEF SpadsMeetTarget
  <2>1. regs[Adapted] = requiredSpads(results) /\ Rates
    BY DEF SpadInv, At, Evaluating
  <2> QED BY <2>1, SpadsRequired DEF SpadsMeetTarget, Rates
<1> QED BY <1>1, <1>2, <1>3, <1>4, <1>5, PTL DEF FirmwareSpec
---------------------------------------------------------------------------
(* The time-outs of the two ranges.  The VCSEL periods of the modes.       *)
Periods == {5, 7, 9, 11, 13, 15}

(* A macro period is positive and grows with the VCSEL period.             *)
LEMMA MacroPeriods ==
  ASSUME NEW f \in Nat, f >= 1152, f <= 65535
  PROVE  /\ \A p \in Periods : calcMacroPeriod(p, f) \in Nat /\ calcMacroPeriod(p, f) >= 4096
         /\ \A p, q \in Periods : p <= q => calcMacroPeriod(p, f) <= calcMacroPeriod(q, f)
<1> DEFINE pll == 2^30 \div f
           u(p) == ((((2304 * pll) \div 64) * (2 * (p + 1))) \div 64)
<1>1. pll \in Nat /\ pll >= 16384
  <2> DEFINE top == 2^30
  <2>1. top \in Nat /\ 16384 * 65536 <= top OBVIOUS
  <2> HIDE DEF top
  <2>2. top \div f \in Nat /\ top < (top \div f + 1) * f BY <2>1, Quotient
  <2>3. ASSUME NEW n \in Nat, top < (n + 1) * f PROVE n >= 16384
    <3>1. SUFFICES ASSUME n + 1 <= 16384 PROVE FALSE BY <2>3
    <3>2. (n + 1) * f <= 16384 * f BY <3>1, ProductGrows
    <3>3. (n + 1) * f \in Nat OBVIOUS
    <3> QED BY <2>1, <2>3, <3>2, <3>3
  <2> QED BY <2>2, <2>3 DEF top
<1>2. \A p : calcMacroPeriod(p, f) = u(p) BY DEF calcMacroPeriod
<1> HIDE DEF pll
<1>3. (2304 * pll) \div 64 = 36 * pll BY <1>1
<1>4. /\ \A p \in Periods : u(p) \in Nat /\ u(p) >= 4096
      /\ \A p, q \in Periods : p <= q => u(p) <= u(q)
  BY <1>1, <1>3 DEF Periods
<1> QED BY <1>2, <1>4

(* What the code of a time-out is worth: no more than the time-out unless  *)
(* that is 0, and less by no more than one part in LSB / 2.                *)
Decoded(code) == (code % LSB) * 2^(code \div LSB) + 1

LEMMA Powers ==
  ASSUME NEW n \in 0 .. 30
  PROVE  2^n \in Nat \ {0} /\ (n > 0 => 2^n = 2 * 2^(n - 1))
<1>0. CASE n = 0 BY <1>0
<1>1. CASE n = 1 BY <1>1
<1>2. CASE n = 2 BY <1>2
<1>3. CASE n = 3 BY <1>3
<1>4. CASE n = 4 BY <1>4
<1>5. CASE n = 5 BY <1>5
<1>6. CASE n = 6 BY <1>6
<1>7. CASE n = 7 BY <1>7
<1>8. CASE n = 8 BY <1>8
<1>9. CASE n = 9 BY <1>9
<1>10. CASE n = 10 BY <1>10
<1>11. CASE n = 11 BY <1>11
<1>12. CASE n = 12 BY <1>12
<1>13. CASE n = 13 BY <1>13
<1>14. CASE n = 14 BY <1>14
<1>15. CASE n = 15 BY <1>15
<1>16. CASE n = 16 BY <1>16
<1>17. CASE n = 17 BY <1>17
<1>18. CASE n = 18 BY <1>18
<1>19. CASE n = 19 BY <1>19
<1>20. CASE n = 20 BY <1>20
<1>21. CASE n = 21 BY <1>21
<1>22. CASE n = 22 BY <1>22
<1>23. CASE n = 23 BY <1>23
<1>24. CASE n = 24 BY <1>24
<1>25. CASE n = 25 BY <1>25
<1>26. CASE n = 26 BY <1>26
<1>27. CASE n = 27 BY <1>27
<1>28. CASE n = 28 BY <1>28
<1>29. CASE n = 29 BY <1>29
<1>30. CASE n = 30 BY <1>30
<1> QED BY <1>0, <1>1, <1>2, <1>3, <1>4, <1>5, <1>6, <1>7, <1>8, <1>9, <1>10, <1>11, <1>12,
           <1>13, <1>14, <1>15, <1>16, <1>17, <1>18, <1>19, <1>20, <1>21, <1>22, <1>23,
           <1>24, <1>25, <1>26, <1>27, <1>28, <1>29, <1>30

LEMMA Halved ==
  ASSUME NEW x \in Nat, NEW w \in Nat \ {0}
  PROVE  x \div w <= 2 * (x \div (2 * w)) + 1
<1> DEFINE a == x \div w
           b == x \div (2 * w)
<1>1. 2 * w \in Nat \ {0} OBVIOUS
<1>2. a \in Nat /\ a * w <= x BY Quotient
<1>3. b \in Nat /\ x < (b + 1) * (2 * w) BY <1>1, Quotient
<1> HIDE DEF a, b
<1>4. (b + 1) * (2 * w) = (2 * b + 2) * w BY <1>3
<1>5. a * w < (2 * b + 2) * w
  <2>1. a * w \in Nat /\ (2 * b + 2) * w \in Nat BY <1>2, <1>3
  <2> QED BY <1>2, <1>3, <1>4, <2>1
<1>6. a < 2 * b + 2 BY <1>2, <1>3, <1>5, FactorCancelled
<1> QED BY <1>2, <1>3, <1>6 DEF a, b

LEMMA LeastHalving ==
  ASSUME NEW S, S \subseteq 0 .. 30, 30 \in S
  PROVE  \E n \in S : \A m \in 0 .. n - 1 : m \notin S
OBVIOUS

LEMMA CodeParts ==
  ASSUME NEW n \in Nat, NEW h \in Nat, h < LSB
  PROVE  (LSB * n + h) \div LSB = n /\ (LSB * n + h) % LSB = h
<1>1. LSB \in Nat /\ LSB > 1 BY VL53L1XAssumption
<1> DEFINE x == LSB * n + h
           q == x \div LSB
           r == x % LSB
<1>2. x \in Nat /\ LSB * n \in Nat BY <1>1
<1>3. q \in Int /\ r \in 0 .. LSB - 1 /\ x = LSB * q + r BY <1>1, <1>2
<1>4. x = LSB * n + h OBVIOUS
<1> HIDE DEF q, r, x
<1>5. LSB * (q - n) = LSB * q - LSB * n BY <1>1, <1>3
<1>6. LSB * (q - n) = h - r
  <2>1. LSB * q \in Int BY <1>1, <1>3
  <2> QED BY <1>1, <1>2, <1>3, <1>4, <1>5, <2>1
<1>7. \A k \in Int : (k >= 1 => LSB * k >= LSB) /\ (k <= -1 => LSB * k <= -LSB)
  <2>1. \A k \in Int : k >= 0 => LSB * k >= 0 BY <1>1
  <2> SUFFICES ASSUME NEW k \in Int
               PROVE  (k >= 1 => LSB * k >= LSB) /\ (k <= -1 => LSB * k <= -LSB)
    OBVIOUS
  <2>2. k >= 1 => LSB * (k - 1) >= 0 BY <2>1
  <2>3. k <= -1 => LSB * (-k - 1) >= 0 BY <2>1
  <2>4. LSB * (k - 1) = LSB * k - LSB /\ LSB * (-k - 1) = -(LSB * k) - LSB BY <1>1
  <2>5. LSB * k \in Int BY <1>1
  <2> QED BY <1>1, <2>2, <2>3, <2>4, <2>5
<1>8. q = n BY <1>1, <1>3, <1>6, <1>7
<1>9. r = h BY <1>1, <1>2, <1>3, <1>4, <1>8
<1> QED BY <1>8, <1>9 DEF q, r, x

LEMMA TimeoutDecoded ==
  ASSUME NEW m \in Nat, m < 2^30
  PROVE  LET dec == Decoded(encodeTimeout(m))
         IN /\ dec \in Nat
            /\ m > 0 => dec <= m
            /\ m = 0 => dec = 1
            /\ (m - dec) * (LSB \div 2) <= dec
<1>0. LSB \in Nat /\ LSB > 1 /\ LSB \div 2 \in Nat BY VL53L1XAssumption
<1>1. CASE m = 0
  <2>1. encodeTimeout(m) = 0 BY <1>1 DEF encodeTimeout
  <2>2. 0 % LSB = 0 /\ 0 \div LSB = 0 BY <1>0
  <2>3. Decoded(0) = 1 BY <2>2 DEF Decoded
  <2>4. (0 - 1) * (LSB \div 2) <= 1 BY <1>0
  <2> QED BY <1>1, <2>1, <2>3, <2>4
<1>2. CASE m > 0
  <2> DEFINE x == m - 1
             halved(n) == x \div 2^n
             S == {n \in 0 .. 30 : halved(n) < LSB}
             ms == CHOOSE n \in 0 .. 30 : halved(n) < LSB /\ \A k \in 0 .. n - 1 : halved(k) >= LSB
             h == halved(ms)
             w == 2^ms
  <2>1. x \in Nat /\ x < 2^30 BY <1>2
  <2>2. \A n \in 0 .. 30 : halved(n) \in Nat
    BY <2>1, Powers, Quotient
  <2>3. halved(30) = 0
    <3>1. 2^30 \in Nat \ {0} OBVIOUS
    <3> QED BY <2>1, <3>1, Quotient
  <2>4. \E n \in 0 .. 30 : halved(n) < LSB /\ \A k \in 0 .. n - 1 : halved(k) >= LSB
    <3> HIDE DEF halved
    <3>1. S \subseteq 0 .. 30 /\ 30 \in S BY <1>0, <2>3
    <3>2. PICK n \in S : \A k \in 0 .. n - 1 : k \notin S BY <3>1, LeastHalving
    <3> QED BY <1>0, <2>2, <3>2
  <2>5. ms \in 0 .. 30 /\ h < LSB /\ \A k \in 0 .. ms - 1 : halved(k) >= LSB
    <3> HIDE DEF halved
    <3> QED BY <2>4
  <2>6. encodeTimeout(m) = LSB * ms + h
    <3>1. m # 0 BY <1>2
    <3> QED BY <3>1 DEF encodeTimeout
  <2>7. h \in Nat /\ w \in Nat \ {0} /\ (ms > 0 => w = 2 * 2^(ms - 1) /\ 2^(ms - 1) \in Nat \ {0})
    <3> HIDE DEF ms
    <3>1. ms \in 0 .. 30 BY <2>5
    <3>2. w \in Nat \ {0} /\ (ms > 0 => w = 2 * 2^(ms - 1)) BY <3>1, Powers
    <3>3. ASSUME ms > 0 PROVE 2^(ms - 1) \in Nat \ {0}
      <4>1. ms - 1 \in 0 .. 30 BY <3>1, <3>3
      <4> QED BY <4>1, Powers
    <3>4. h \in Nat
      <4> HIDE DEF halved
      <4> QED BY <2>2, <3>1
    <3> HIDE DEF h, w
    <3> QED BY <3>2, <3>3, <3>4
  <2>8. h * w <= x /\ x < (h + 1) * w BY <2>1, <2>7, Quotient
  <2>9. ms > 0 => LSB \div 2 <= h
    <3> SUFFICES ASSUME ms > 0 PROVE LSB \div 2 <= h OBVIOUS
    <3>1. halved(ms - 1) >= LSB
      <4> HIDE DEF halved, ms
      <4> QED BY <2>5
    <3>2. halved(ms - 1) <= 2 * h + 1
      <4> DEFINE v == 2^(ms - 1)
      <4>1. v \in Nat \ {0} /\ w = 2 * v BY <2>7
      <4> HIDE DEF v, w
      <4>2. x \div v <= 2 * (x \div (2 * v)) + 1 BY <2>1, <4>1, Halved
      <4>3. halved(ms - 1) = x \div v /\ h = x \div (2 * v)
        <5> HIDE DEF ms, x
        <5> QED BY <4>1 DEF v, w
      <4> HIDE DEF h, halved
      <4> QED BY <4>2, <4>3
    <3>3. halved(ms - 1) \in Nat
      <4>1. ms - 1 \in 0 .. 30
        <5> HIDE DEF ms
        <5> QED BY <2>5
      <4> HIDE DEF halved, ms
      <4> QED BY <2>2, <4>1
    <3> HIDE DEF halved, h
    <3> QED BY <1>0, <2>7, <3>1, <3>2, <3>3
  <2>10. ms = 0 => w = 1
    <3>1. 2^0 = 1 OBVIOUS
    <3> HIDE DEF ms
    <3> QED BY <3>1
  <2>11. Decoded(encodeTimeout(m)) = h * w + 1
    <3> HIDE DEF ms, h
    <3>1. ms \in Nat BY <2>5
    <3> QED BY <2>5, <2>6, <2>7, <3>1, CodeParts DEF Decoded
  <2> HIDE DEF ms, h, w, halved
  <2>12. h * w \in Nat /\ (h + 1) * w = h * w + w BY <2>7
  <2>13. (m - (h * w + 1)) * (LSB \div 2) <= h * w + 1
    <3>1. m - (h * w + 1) <= w - 1 /\ m - (h * w + 1) \in Nat BY <2>7, <2>8, <2>12
    <3>2. CASE ms = 0
      <4>1. m - (h * w + 1) = 0 BY <2>10, <3>1, <3>2
      <4>2. 0 * (LSB \div 2) = 0 BY <1>0
      <4> QED BY <2>12, <4>1, <4>2
    <3>3. CASE ms > 0
      <4>1. (m - (h * w + 1)) * (LSB \div 2) <= w * (LSB \div 2)
        BY <1>0, <2>7, <3>1, ProductGrows
      <4>2. (LSB \div 2) * w <= h * w BY <1>0, <2>7, <2>9, <3>3, ProductGrows
      <4>3. (LSB \div 2) * w = w * (LSB \div 2) /\ w * (LSB \div 2) \in Nat BY <1>0, <2>7
      <4>4. (m - (h * w + 1)) * (LSB \div 2) \in Nat BY <1>0, <3>1
      <4> QED BY <2>12, <4>1, <4>2, <4>3, <4>4
    <3> QED BY <2>5, <3>2, <3>3
  <2>14. h * w + 1 \in Nat /\ h * w + 1 <= m BY <2>8, <2>12
  <2> QED BY <1>2, <2>11, <2>13, <2>14
<1> QED BY <1>1, <1>2

(* The longest time a budget accepted leaves a range, in microseconds.     *)
LongestRange == 550000

(* Microseconds in macro periods, rounded.                                 *)
LEMMA Mclks ==
  ASSUME NEW t \in Nat, t <= LongestRange, NEW u \in Nat, u >= 4096
  PROVE  LET m == timeoutMicrosecondsToMclks(t, u)
         IN /\ m \in Nat /\ m < 2^30
            /\ m > 0 => (m - 1) * u <= t * 2^12
            /\ t * 2^12 <= m * u + u
<1> DEFINE s == t * 2^12
           x == s + u \div 2
           m == x \div u
<1>1. s \in Nat /\ s = 4096 * t OBVIOUS
<1>2. x \in Nat /\ u \in Nat \ {0} /\ u \div 2 <= u /\ u \div 2 \in Nat BY <1>1
<1>3. m \in Nat /\ m * u <= x /\ x < (m + 1) * u BY <1>2, Quotient
<1>4. timeoutMicrosecondsToMclks(t, u) = m BY DEF timeoutMicrosecondsToMclks
<1>5. x = s + u \div 2 OBVIOUS
<1> HIDE DEF m, x, s
<1>6. (m + 1) * u = m * u + u /\ (m - 1) * u = m * u - u /\ m * u \in Nat BY <1>3
<1>7. (m - 1) * u <= s /\ s <= m * u + u
  BY <1>1, <1>2, <1>3, <1>5, <1>6
<1>8. m <= t + 1
  <2> SUFFICES ASSUME m > t + 1 PROVE FALSE BY <1>3
  <2>1. (m - 1) * 4096 <= (m - 1) * u
    <3>1. m - 1 \in Nat BY <1>3
    <3>2. 4096 * (m - 1) <= u * (m - 1) BY <3>1, ProductGrows
    <3> QED BY <3>1, <3>2
  <2>2. (m - 1) * u \in Int BY <1>3
  <2> QED BY <1>1, <1>3, <1>7, <2>1, <2>2
<1>9. m < 2^30
  <2>1. 550001 < 2^30 /\ 2^30 \in Nat OBVIOUS
  <2> QED BY <1>3, <1>8, <2>1 DEF LongestRange
<1> QED BY <1>3, <1>4, <1>7, <1>9 DEF s

(* A time-out coded for a macro period c, and in force with a macro period *)
(* u: the budget of a mode may stay in force in a mode of shorter periods. *)
LEMMA Fits ==
  ASSUME NEW t \in Nat, t <= LongestRange, NEW c \in Nat, NEW u \in Nat, u >= 4096, u <= c,
         NEW code, code = encodeTimeout(timeoutMicrosecondsToMclks(t, c))
  PROVE  /\ Decoded(code) * u <= t * 2^12 + u
         /\ c = u => t * 2^12 <= Decoded(code) * u + ((Decoded(code) * u) \div (LSB \div 2)) + u
<1> DEFINE s == t * 2^12
           m == timeoutMicrosecondsToMclks(t, c)
           d == Decoded(code)
           l == LSB \div 2
<1>1. s \in Nat /\ l \in Nat \ {0} BY VL53L1XAssumption
<1>2. /\ m \in Nat /\ m < 2^30
      /\ m > 0 => (m - 1) * c <= s
      /\ s <= m * c + c
  BY Mclks
<1>3. /\ d \in Nat /\ (m > 0 => d <= m) /\ (m = 0 => d = 1) /\ (m - d) * l <= d
  BY <1>2, TimeoutDecoded
<1> HIDE DEF s, m, d, l
<1>4. d * u <= s + u
  <2>1. CASE m = 0 BY <1>1, <1>3, <2>1
  <2>2. CASE m > 0
    <3>1. m - 1 \in Nat BY <1>2, <2>2
    <3>2. (m - 1) * u <= (m - 1) * c
      <4>1. u * (m - 1) <= c * (m - 1) BY <3>1, ProductGrows
      <4> QED BY <3>1, <4>1
    <3>3. d * u <= m * u BY <1>2, <1>3, <2>2, ProductGrows
    <3>4. (m - 1) * u = m * u - u /\ m * u \in Nat /\ d * u \in Nat /\ (m - 1) * c \in Int
      BY <1>2, <1>3
    <3> QED BY <1>1, <1>2, <2>2, <3>2, <3>3, <3>4
  <2> QED BY <1>2, <2>1, <2>2
<1>5. ASSUME c = u PROVE s <= d * u + ((d * u) \div l) + u
  <2> DEFINE q == (d * u) \div l
  <2>1. d * u \in Nat BY <1>3
  <2>2. q \in Nat /\ d * u < (q + 1) * l BY <1>1, <2>1, Quotient
  <2> HIDE DEF q
  <2>3. CASE m = 0
    <3>1. m * u + u = u BY <2>3
    <3> QED BY <1>1, <1>2, <1>5, <2>1, <2>2, <3>1 DEF q
  <2>4. CASE m > 0
    <3> DEFINE y == (m - d) * u
    <3>1. m - d \in Nat BY <1>2, <1>3, <2>4
    <3>2. ((m - d) * l) * u <= d * u
      <4>1. (m - d) * l \in Nat BY <1>1, <3>1
      <4> QED BY <1>3, <4>1, ProductGrows
    <3>3. ((m - d) * l) * u = y * l BY <1>1, <3>1
    <3>4. y \in Nat BY <3>1
    <3>5. m * u = d * u + y /\ m * u \in Nat BY <1>2, <1>3
    <3> HIDE DEF y
    <3>6. y * l < (q + 1) * l
      <4>1. y * l \in Nat /\ (q + 1) * l \in Nat BY <1>1, <2>2, <3>4
      <4> QED BY <2>1, <2>2, <3>2, <3>3, <4>1
    <3>7. y < q + 1 BY <1>1, <2>2, <3>4, <3>6, FactorCancelled
    <3> QED BY <1>1, <1>2, <1>5, <2>1, <2>2, <3>4, <3>5, <3>7 DEF q
  <2> QED BY <1>2, <2>3, <2>4
<1> QED BY <1>4, <1>5 DEF s, d, l
---------------------------------------------------------------------------
(***************************************************************************)
(* Where the time-outs come from.  Each half of setMeasurementTimingBudget *)
(* reads back a VCSEL period, computes a macro period from it and writes a *)
(* code for it; the invariant says which code is held, in terms of the     *)
(* budget, the mode and the sensor's frequency, at each place of the       *)
(* program.                                                                *)
(***************************************************************************)
VA == "RANGE_CONFIG__VCSEL_PERIOD_A"
VB == "RANGE_CONFIG__VCSEL_PERIOD_B"
TA == "RANGE_CONFIG__TIMEOUT_MACROP_A"
TB == "RANGE_CONFIG__TIMEOUT_MACROP_B"

PeriodA(m) == IF m = SHORT THEN 7 ELSE IF m = MEDIUM THEN 11 ELSE 15
PeriodB(m) == IF m = SHORT THEN 5 ELSE IF m = MEDIUM THEN 9 ELSE 13
Macro(p) == calcMacroPeriod(p, Factory[FREQ])
Code(budget, p) == encodeTimeout(timeoutMicrosecondsToMclks(rangeTimeout(budget), Macro(p)))

InitA == W(TA, Code(50000, PeriodA(LONG)))
InitB == W(TB, Code(50000, PeriodB(LONG)))
LastA == IF budgetRefused(budget_us) THEN InitA ELSE W(TA, Code(budget_us, PeriodA(Chosen)))
LastB == IF budgetRefused(budget_us) THEN InitB ELSE W(TB, Code(budget_us, PeriodB(Chosen)))

BudgetInv ==
  /\ budget_us \in Nat
  /\ wpc \in Early \cup Late => fast_osc_frequency = Factory[FREQ]
  /\ wpc \in {"initB", "offset", "mode", "mainA"} => Held(InitA)
  /\ wpc \in {"offset", "mode", "mainA"} => Held(InitB)
  /\ wpc = "mainB" => Held(LastA) /\ ~budgetRefused(budget_us)
  /\ wpc = "start" \/ Starting => Held(LastA) /\ Held(LastB)
  /\ wpc \notin Setup \cup {"sdram"} => Aside({TA, TB})
  /\ regs[MODE] = 64 => regs[TA] = LastA[2] /\ regs[TB] = LastB[2]

LEMMA TimingApart ==
  /\ TA # TB
  /\ {TA, TB} \subseteq TimingRegs /\ {TA, TB} \subseteq DOMAIN Factory
  /\ {TA, TB} \cap (ConfRegs \cup ReadOnly) = {}
  /\ {TA, TB} \cap {RESET, CLEAR, MODE, PERIOD, PAD, OFFSET, Adapted} = {}
  /\ {TA, TB} \cap CalRegs = {}
<1>1. /\ TA # TB /\ {TA, TB} \subseteq TimingRegs
      /\ {TA, TB} \cap {RESET, CLEAR, MODE, PERIOD, PAD, OFFSET, Adapted} = {}
      /\ {TA, TB} \cap CalRegs = {}
  BY DEF TA, TB, TimingRegs, RESET, CLEAR, MODE, PERIOD, PAD, OFFSET, Adapted, CalRegs
<1>2. {TA, TB} \subseteq DOMAIN Factory BY FirmwareAssumption DEF TA, TB
<1> QED BY <1>1, <1>2, Apart

LEMMA LastSettings ==
  /\ InitA[1] = TA /\ InitB[1] = TB /\ LastA[1] = TA /\ LastB[1] = TB
  /\ InitA' = InitA /\ InitB' = InitB
  /\ mode' = mode /\ budget_us' = budget_us => LastA' = LastA /\ LastB' = LastB
<1>1. InitA' = InitA /\ InitB' = InitB
  BY DEF InitA, InitB, Code, Macro
<1>2. mode' = mode /\ budget_us' = budget_us => LastA' = LastA /\ LastB' = LastB
  BY <1>1 DEF LastA, LastB, Chosen, Code, Macro
<1>3. InitA[1] = TA /\ InitB[1] = TB /\ LastA[1] = TA /\ LastB[1] = TB
  BY DEF InitA, InitB, LastA, LastB, W
<1> QED BY <1>1, <1>2, <1>3

(* The time-outs in force stay while their registers do.                   *)
LEMMA BudgetKept ==
  ASSUME BudgetInv, mode' = mode, budget_us' = budget_us,
         regs'[TA] = regs[TA], regs'[TB] = regs[TB], regs'[MODE] = regs[MODE]
  PROVE  (regs[MODE] = 64 => regs[TA] = LastA[2] /\ regs[TB] = LastB[2])'
<1>1. LastA' = LastA /\ LastB' = LastB BY LastSettings
<1>2. (regs')[MODE'] = regs[MODE] BY DEF MODE
<1> QED BY <1>1, <1>2 DEF BudgetInv

(* Steps that have no write to the time-outs.                              *)
LEMMA BudgetAway ==
  ASSUME BudgetInv,
         \/ Identify \/ SdramDone \/ Blink \/ DataReady \/ TimeoutExpired \/ PollAgain
         \/ ReadResults \/ setupManualCalibration \/ Calibrated \/ updateDSS
         \/ RangingDataRead \/ Return \/ PrintValue \/ CpuReset
  PROVE  BudgetInv'
<1>1. regs' = regs /\ mode' = mode /\ budget_us' = budget_us
  BY DEF Identify, SdramDone, Blink, DataReady, TimeoutExpired, PollAgain, ReadResults,
         setupManualCalibration, Calibrated, updateDSS, RangingDataRead, Return, PrintValue,
         CpuReset, sensorVars, buildVars
<1>2. wpc' \notin Setup
  BY DEF Identify, SdramDone, Blink, DataReady, TimeoutExpired, PollAgain, ReadResults,
         setupManualCalibration, Calibrated, updateDSS, RangingDataRead, Return, PrintValue,
         CpuReset, Then, Setup
<1>3. \/ todo' = <<>>
      \/ /\ wpc' # "sdram"
         /\ \A w \in items(todo') : w[1] \in {RESET, CLEAR, Adapted} \cup CalRegs
  <2>1. CASE \/ SdramDone \/ Blink \/ DataReady \/ TimeoutExpired \/ PollAgain
             \/ ReadResults \/ Calibrated \/ Return \/ PrintValue \/ CpuReset
    BY <2>1 DEF SdramDone, Blink, DataReady, TimeoutExpired, PollAgain, ReadResults,
                Calibrated, Return, PrintValue, CpuReset, Then
  <2>2. CASE Identify
    BY <2>2 DEF Identify, Then, items, W, RESET
  <2>3. CASE setupManualCalibration
    BY <2>3 DEF setupManualCalibration, Then, Calibration, items, W, CalRegs
  <2>4. CASE updateDSS
    BY <2>4 DEF updateDSS, Then, items, W, Adapted
  <2>5. CASE RangingDataRead
    BY <2>5 DEF RangingDataRead, clearInterrupt, Then, items, W, CLEAR
  <2> QED BY <2>1, <2>2, <2>3, <2>4, <2>5
<1>4. \A w \in items(<<>>) : FALSE BY DEF items
<1>5. \A w \in items(todo') : w[1] \notin {TA, TB}
  BY <1>3, <1>4, TimingApart
<1>6. Aside({TA, TB})' BY <1>5 DEF Aside, items
<1>7. ~Starting' /\ wpc' \notin Early \cup Late
  BY <1>2, <1>3 DEF Starting, Setup, Early, Late
<1>8. (regs[MODE] = 64 => regs[TA] = LastA[2] /\ regs[TB] = LastB[2])'
  BY <1>1, BudgetKept
<1> QED BY <1>1, <1>6, <1>7, <1>8 DEF BudgetInv, Early, Late

LEMMA BudgetIdle ==
  ASSUME BudgetInv, Boot \/ Measure \/ UNCHANGED firmwareVars
  PROVE  BudgetInv'
<1>1. UNCHANGED <<regs, mode, budget_us, wpc, todo, fast_osc_frequency>>
  BY DEF Boot, Measure, firmwareVars, buildVars, statics, ranging
<1>2. Starting' = Starting /\ Aside({TA, TB})' = Aside({TA, TB})
  BY <1>1 DEF Starting, Aside
<1>3. /\ Held(InitA)' = Held(InitA) /\ Held(InitB)' = Held(InitB)
      /\ Held(LastA)' = Held(LastA) /\ Held(LastB)' = Held(LastB)
  BY <1>1, LastSettings DEF Held
<1>4. budgetRefused(budget_us)' = budgetRefused(budget_us) BY <1>1 DEF budgetRefused
<1>5. (regs[MODE] = 64 => regs[TA] = LastA[2] /\ regs[TB] = LastB[2])'
  BY <1>1, BudgetKept
<1> QED BY <1>1, <1>2, <1>3, <1>4, <1>5 DEF BudgetInv

(* The other steps that configure the sensor.                              *)
LEMMA BudgetOver ==
  ASSUME RInv, ConfInv, BudgetInv,
         BootPoll \/ StoreOscillator \/ WriteOffset \/ MainMode \/ startContinuous
  PROVE  BudgetInv'
<1>1. /\ regs' = regs /\ mode' = mode /\ regs'[MODE] # 64 /\ todo = <<>>
  BY SetupKept
<1>2. /\ budget_us' = budget_us
      /\ \/ wpc = "boot" /\ wpc' = "osc" /\ fast_osc_frequency' = fast_osc_frequency
         \/ wpc = "osc" /\ wpc' = "initA" /\ fast_osc_frequency' = regs[FREQ]
         \/ wpc = "offset" /\ wpc' = "mode" /\ fast_osc_frequency' = fast_osc_frequency
         \/ wpc = "mode" /\ wpc' = "mainA" /\ fast_osc_frequency' = fast_osc_frequency
         \/ wpc = "start" /\ wpc' = "sdram" /\ fast_osc_frequency' = fast_osc_frequency
  BY DEF BootPoll, StoreOscillator, WriteOffset, MainMode, startContinuous, At, Then,
         buildVars, statics, FREQ
<1>3. regs[FREQ] = Factory[FREQ] BY DEF ConfInv, ReadOnly
<1>4. ASSUME wpc \in {"offset", "mode", "start"}
      PROVE  \A w \in items(todo') : w[1] \notin {TA, TB}
  <2>1. CASE WriteOffset
    <3>1. \A w \in items(todo') : w[1] = OFFSET
      BY <2>1 DEF WriteOffset, Then, items, W, OFFSET
    <3> QED BY <3>1, TimingApart
  <2>2. CASE MainMode
    <3>1. items(todo') = ModeSettings(mode) BY <2>2 DEF MainMode, Then, ModeSettings
    <3> QED BY <3>1, Settings, TimingApart
  <2>3. CASE startContinuous
    <3>1. todo' = <<W(PERIOD, 50 * osc_calibrate_val), W(CLEAR, 1), W(MODE, 64)>>
      BY <2>3 DEF startContinuous, Then, PERIOD, CLEAR, MODE
    <3>2. \A w \in items(todo') : w[1] \in {PERIOD, CLEAR, MODE}
      BY <3>1 DEF items, W
    <3> QED BY <3>2, TimingApart
  <2> QED BY <1>2, <1>4, <2>1, <2>2, <2>3 DEF BootPoll, StoreOscillator, At
<1>5. ASSUME wpc \in {"offset", "mode", "start"}, NEW c, c[1] \in {TA, TB}, Held(c)
      PROVE  Held(c)'
  BY <1>1, <1>4, <1>5, HeldOver
<1>6. ASSUME wpc \in {"offset", "mode"} PROVE Held(InitA)' /\ Held(InitB)'
  BY <1>5, <1>6, LastSettings DEF BudgetInv
<1>7. ASSUME wpc = "start" PROVE Held(LastA)' /\ Held(LastB)'
  BY <1>1, <1>2, <1>5, <1>7, LastSettings DEF BudgetInv
<1>8. (regs[MODE] = 64)' <=> regs'[MODE] = 64 BY DEF MODE
<1> QED BY <1>1, <1>2, <1>3, <1>6, <1>7, <1>8 DEF BudgetInv, Setup, Starting, Early, Late

(* Each mode sets the two periods.                                         *)
LEMMA PeriodsSet ==
  ASSUME NEW m \in {SHORT, MEDIUM, LONG}
  PROVE  W(VA, PeriodA(m)) \in ModeSettings(m) /\ W(VB, PeriodB(m)) \in ModeSettings(m)
<1>1. ASSUME NEW a, NEW b, NEW h, NEW p
      PROVE  /\ W(VA, a) \in items(ModeConfig(a, b, h, p))
             /\ W(VB, b) \in items(ModeConfig(a, b, h, p))
  <2>1. /\ 1 \in DOMAIN ModeConfig(a, b, h, p) /\ 2 \in DOMAIN ModeConfig(a, b, h, p)
        /\ ModeConfig(a, b, h, p)[1] = W(VA, a) /\ ModeConfig(a, b, h, p)[2] = W(VB, b)
    BY DEF ModeConfig, VA, VB
  <2> QED BY <2>1 DEF items
<1>2. \E h, p : setDistanceMode(m) = ModeConfig(PeriodA(m), PeriodB(m), h, p)
  BY DEF setDistanceMode, PeriodA, PeriodB, SHORT, MEDIUM, LONG
<1> QED BY <1>1, <1>2 DEF ModeSettings

(* The budget: each half reads back the period that the mode has set.      *)
LEMMA PeriodsHeld ==
  ASSUME ConfInv, BudgetInv, todo = <<>>
  PROVE  /\ wpc \in Early => /\ macroPeriod(VA) = Macro(PeriodA(LONG))
                             /\ macroPeriod(VB) = Macro(PeriodB(LONG))
         /\ wpc \in Late => /\ macroPeriod(VA) = Macro(PeriodA(Chosen))
                            /\ macroPeriod(VB) = Macro(PeriodB(Chosen))
<1>1. \A c : Held(c) => regs[c[1]] = c[2] BY DEF Held
<1>2. ASSUME NEW m \in {SHORT, MEDIUM, LONG}, AllHeld(ModeSettings(m))
      PROVE  regs[VA] = PeriodA(m) /\ regs[VB] = PeriodB(m)
  <2>1. W(VA, PeriodA(m)) \in ModeSettings(m) /\ W(VB, PeriodB(m)) \in ModeSettings(m)
    BY PeriodsSet
  <2>2. Held(W(VA, PeriodA(m))) /\ Held(W(VB, PeriodB(m)))
    BY <1>2, <2>1 DEF AllHeld
  <2> QED BY <1>1, <2>2 DEF W
<1>3. Chosen \in {SHORT, MEDIUM, LONG} BY DEF Chosen
<1>4. wpc \in Early \cup Late => \A r : macroPeriod(r) = Macro(regs[r])
  BY DEF BudgetInv, macroPeriod, Macro
<1>5. wpc \in Early => regs[VA] = PeriodA(LONG) /\ regs[VB] = PeriodB(LONG)
  BY <1>2 DEF ConfInv
<1>6. wpc \in Late => regs[VA] = PeriodA(Chosen) /\ regs[VB] = PeriodB(Chosen)
  BY <1>2, <1>3 DEF ConfInv
<1> QED BY <1>4, <1>5, <1>6

(* What the two halves write.                                              *)
LEMMA TimingsDue ==
  ASSUME NEW b, NEW p
  PROVE  /\ todo' = TimingA(b, Macro(p)) =>
              /\ W(TA, Code(b, p)) \in items(todo')
              /\ \A w \in items(todo') : w[1] # TB /\ (w[1] = TA => w = W(TA, Code(b, p)))
         /\ todo' = TimingB(b, Macro(p)) =>
              /\ W(TB, Code(b, p)) \in items(todo')
              /\ \A w \in items(todo') : w[1] # TA /\ (w[1] = TB => w = W(TB, Code(b, p)))
<1> DEFINE a == W(TA, Code(b, p))
           z == W(TB, Code(b, p))
           mclks(us) == timeoutMicrosecondsToMclks(us, Macro(p))
           x == IF mclks(1000) > 255 THEN 255 ELSE mclks(1000)
           y == encodeTimeout(mclks(1))
<1>1. a[1] = TA /\ z[1] = TB BY DEF W
<1>2. ASSUME todo' = TimingA(b, Macro(p))
      PROVE  a \in items(todo') /\ \A w \in items(todo') : w[1] # TB /\ (w[1] = TA => w = a)
  <2>1. todo' = <<W("PHASECAL_CONFIG__TIMEOUT_MACROP", x), W("MM_CONFIG__TIMEOUT_MACROP_A", y), a>>
    BY <1>2 DEF TimingA, Code, TA
  <2> HIDE DEF a, x, y
  <2>2. items(todo') = {W("PHASECAL_CONFIG__TIMEOUT_MACROP", x), W("MM_CONFIG__TIMEOUT_MACROP_A", y), a}
    BY <2>1 DEF items
  <2> QED BY <1>1, <2>2 DEF W, TA, TB
<1>3. ASSUME todo' = TimingB(b, Macro(p))
      PROVE  z \in items(todo') /\ \A w \in items(todo') : w[1] # TA /\ (w[1] = TB => w = z)
  <2>1. todo' = <<W("MM_CONFIG__TIMEOUT_MACROP_B", y), z>>
    BY <1>3 DEF TimingB, Code, TB
  <2> HIDE DEF z, y
  <2>2. items(todo') = {W("MM_CONFIG__TIMEOUT_MACROP_B", y), z}
    BY <2>1 DEF items
  <2> QED BY <1>1, <2>2 DEF W, TA, TB
<1> QED BY <1>2, <1>3

LEMMA BudgetSet ==
  ASSUME RInv, ConfInv, BudgetInv, InitBudget \/ MainBudget
  PROVE  BudgetInv'
<1>1. /\ regs' = regs /\ mode' = mode /\ regs'[MODE] # 64 /\ todo = <<>>
  BY SetupKept
<1>2. budget_us' = budget_us /\ fast_osc_frequency' = fast_osc_frequency
  BY DEF InitBudget, MainBudget, buildVars, statics
<1>3. ~budgetRefused(50000) BY DEF budgetRefused, TimingGuard
<1>4. \/ /\ wpc = "initA" /\ wpc' = "initB" /\ todo' = TimingA(50000, macroPeriod(VA))
      \/ /\ wpc = "initB" /\ wpc' = "offset" /\ todo' = TimingB(50000, macroPeriod(VB))
      \/ /\ wpc = "mainA" /\ wpc' = "start" /\ todo' = <<>> /\ budgetRefused(budget_us)
      \/ /\ wpc = "mainA" /\ wpc' = "mainB" /\ todo' = TimingA(budget_us, macroPeriod(VA))
         /\ ~budgetRefused(budget_us)
      \/ /\ wpc = "mainB" /\ wpc' = "start" /\ todo' = TimingB(budget_us, macroPeriod(VB))
  <2>1. CASE InitBudget
    BY <1>3, <2>1 DEF InitBudget, SetBudget, At, Then, VA, VB
  <2>2. CASE MainBudget
    BY <2>2 DEF MainBudget, SetBudget, At, Then, VA, VB
  <2> QED BY <2>1, <2>2
<1>5. LastA' = LastA /\ LastB' = LastB /\ InitA' = InitA /\ InitB' = InitB
  BY <1>1, <1>2, LastSettings
<1>6. budgetRefused(budget_us)' = budgetRefused(budget_us)
  BY <1>2 DEF budgetRefused
<1>7. ~Starting' /\ (regs[MODE] # 64)' /\ wpc' \in Setup /\ budget_us' \in Nat
      /\ (wpc' \in Early \cup Late => fast_osc_frequency' = Factory[FREQ])
  BY <1>1, <1>2, <1>4 DEF Starting, MODE, Setup, BudgetInv, Early, Late
<1>8. CASE wpc = "initA"
  <2>1. todo' = TimingA(50000, Macro(PeriodA(LONG))) /\ wpc' = "initB"
    BY <1>1, <1>4, <1>8, PeriodsHeld DEF Early
  <2>2. InitA \in items(todo') /\ \A w \in items(todo') : w[1] = TA => w = InitA
    BY <2>1, TimingsDue DEF InitA
  <2>3. Held(InitA)' BY <1>5, <2>2, LastSettings DEF Held, items
  <2> QED BY <1>7, <2>1, <2>3 DEF BudgetInv
<1>9. CASE wpc = "initB"
  <2>1. todo' = TimingB(50000, Macro(PeriodB(LONG))) /\ wpc' = "offset"
    BY <1>1, <1>4, <1>9, PeriodsHeld DEF Early
  <2>2. /\ InitB \in items(todo') /\ \A w \in items(todo') : w[1] = TB => w = InitB
        /\ \A w \in items(todo') : w[1] # TA
    BY <2>1, TimingsDue DEF InitB
  <2>3. Held(InitB)' BY <1>5, <2>2, LastSettings DEF Held, items
  <2>4. Held(InitA) BY <1>9 DEF BudgetInv
  <2>5. Held(InitA)' BY <1>1, <1>5, <2>2, <2>4, LastSettings DEF Held, items
  <2> QED BY <1>7, <2>1, <2>3, <2>5 DEF BudgetInv
<1>10. CASE wpc = "mainA" /\ wpc' = "start"
  <2>1. todo' = <<>> /\ budgetRefused(budget_us) BY <1>4, <1>10
  <2>2. LastA = InitA /\ LastB = InitB BY <2>1 DEF LastA, LastB
  <2>3. \A w \in items(todo') : FALSE BY <2>1 DEF items
  <2>4. Held(InitA) /\ Held(InitB) BY <1>10 DEF BudgetInv
  <2>5. Held(LastA)' /\ Held(LastB)'
    <3>1. Held(LastA) /\ Held(LastB) BY <2>2, <2>4
    <3>2. \A i \in DOMAIN todo' : FALSE BY <2>1
    <3>3. regs[LastA[1]] = LastA[2] /\ regs[LastB[1]] = LastB[2]
      BY <1>1, <3>1 DEF Held
    <3> QED BY <1>1, <1>5, <3>2, <3>3 DEF Held
  <2> QED BY <1>7, <1>10, <2>5 DEF BudgetInv
<1>11. CASE wpc = "mainA" /\ wpc' = "mainB"
  <2>1. todo' = TimingA(budget_us, Macro(PeriodA(Chosen))) /\ ~budgetRefused(budget_us)
    BY <1>1, <1>4, <1>11, PeriodsHeld DEF Late
  <2>2. LastA \in items(todo') /\ \A w \in items(todo') : w[1] = TA => w = LastA
    BY <2>1, TimingsDue DEF LastA
  <2>3. Held(LastA)' BY <1>5, <2>2, LastSettings DEF Held, items
  <2> QED BY <1>6, <1>7, <1>11, <2>1, <2>3 DEF BudgetInv
<1>12. CASE wpc = "mainB"
  <2>1. /\ todo' = TimingB(budget_us, Macro(PeriodB(Chosen))) /\ wpc' = "start"
        /\ ~budgetRefused(budget_us) /\ Held(LastA)
    BY <1>1, <1>4, <1>12, PeriodsHeld DEF Late, BudgetInv
  <2>2. /\ LastB \in items(todo') /\ \A w \in items(todo') : w[1] = TB => w = LastB
        /\ \A w \in items(todo') : w[1] # TA
    BY <2>1, TimingsDue DEF LastB
  <2>3. Held(LastB)' BY <1>5, <2>2, LastSettings DEF Held, items
  <2>4. Held(LastA)' BY <1>1, <1>5, <2>1, <2>2, LastSettings DEF Held, items
  <2> QED BY <1>7, <2>1, <2>3, <2>4 DEF BudgetInv
<1> QED BY <1>4, <1>8, <1>9, <1>10, <1>11, <1>12

(* One write of the configuration.                                         *)
LEMMA SetupWrite ==
  ASSUME RInv, ConfInv, WriteReg, wpc \in Setup \cup {"sdram"}
  PROVE  /\ \/ regs' = [regs EXCEPT ![todo[1][1]] = todo[1][2]]
            \/ regs' = regs /\ todo[1][1] = CLEAR
         /\ regs'[MODE] = 64 => wpc = "sdram" /\ todo' = <<>>
<1> DEFINE reg == todo[1][1]
           value == todo[1][2]
<1>1. todo # <<>> /\ todo' = Tail(todo) /\ SensorWrite(reg, value)
  BY DEF WriteReg
<1>2. booted /\ genuine /\ Off
  BY <1>1 DEF Starting, ConfInv, RInv, PhaseInv, SensorInv, StartInv
<1>3. RESET # MODE /\ CLEAR # MODE /\ RESET # CLEAR /\ PERIOD \notin {RESET, CLEAR, MODE}
  BY DEF RESET, CLEAR, MODE, PERIOD
<1>4. /\ reg # RESET
      /\ reg = MODE => wpc = "sdram" /\ todo' = <<>>
  <2>1. CASE wpc \in Setup
    <3>1. Quiet(todo) BY <2>1 DEF RInv, PhaseInv
    <3> QED BY <1>1, <3>1, QuietStep
  <2>2. CASE wpc = "sdram"
    <3>1. PICK n : \/ todo = <<W(PERIOD, n), W(CLEAR, 1), W(MODE, 64)>>
                   \/ todo = <<W(CLEAR, 1), W(MODE, 64)>>
                   \/ todo = <<W(MODE, 64)>>
      BY <1>1, <2>2 DEF RInv, PhaseInv, StartInv
    <3>2. CASE todo = <<W(PERIOD, n), W(CLEAR, 1), W(MODE, 64)>>
      BY <1>3, <3>2 DEF W
    <3>3. CASE todo = <<W(CLEAR, 1), W(MODE, 64)>>
      BY <1>3, <3>3 DEF W
    <3>4. CASE todo = <<W(MODE, 64)>>
      BY <1>1, <1>3, <2>2, <3>4 DEF W
    <3> QED BY <3>1, <3>2, <3>3, <3>4
  <2> QED BY <2>1, <2>2
<1>5. \/ regs' = [regs EXCEPT ![reg] = value]
      \/ regs' = regs /\ reg = CLEAR
  BY <1>1, <1>2, <1>4, WriteRegs
<1> HIDE DEF reg, value
<1>6. regs[MODE] # 64 /\ MODE \in DOMAIN regs BY <1>2 DEF Off, RInv, SensorInv
<1>7. reg # MODE => regs'[MODE] # 64 BY <1>5, <1>6
<1>8. regs'[MODE] = 64 => wpc = "sdram" /\ todo' = <<>> BY <1>4, <1>7
<1> QED BY <1>5, <1>8, Zenon DEF reg, value

LEMMA BudgetWrite ==
  ASSUME RInv, ConfInv, BudgetInv, WriteReg
  PROVE  BudgetInv'
<1> DEFINE reg == todo[1][1]
           value == todo[1][2]
<1>1. /\ todo # <<>> /\ todo' = Tail(todo) /\ SensorWrite(reg, value)
      /\ UNCHANGED <<wpc, mode, budget_us, fast_osc_frequency>>
  BY DEF WriteReg, buildVars, statics
<1>2. PICK S : todo \in Seq(S) BY TodoSeq
<1>3. LastA' = LastA /\ LastB' = LastB /\ InitA' = InitA /\ InitB' = InitB
  BY <1>1, LastSettings
<1>4. budgetRefused(budget_us)' = budgetRefused(budget_us)
  BY <1>1 DEF budgetRefused
<1>5. (regs[MODE])' = regs'[MODE] BY DEF MODE
<1>6. CASE wpc \in Setup \cup {"sdram"}
  <2>1. /\ \/ regs' = [regs EXCEPT ![todo[1][1]] = todo[1][2]]
           \/ regs' = regs /\ todo[1][1] = CLEAR
        /\ regs'[MODE] = 64 => wpc = "sdram" /\ todo' = <<>>
    BY <1>6, SetupWrite
  <2>2. ASSUME NEW c, c[1] \in {TA, TB}, Held(c)
        PROVE  /\ regs'[c[1]] = c[2] \/ \E i \in DOMAIN todo' : todo'[i] = c
               /\ \A i \in DOMAIN todo' : todo'[i][1] = c[1] => todo'[i][2] = c[2]
    <3>1. c[1] \in DOMAIN regs BY <2>2, TimingApart DEF ConfInv
    <3>2. todo[1][1] = CLEAR => todo[1][1] # c[1] BY <2>2, TimingApart
    <3> QED BY <1>1, <1>2, <2>1, <2>2, <3>1, <3>2, HeldWrite DEF Held
  <2>3. /\ Held(InitA) => Held(InitA)'
        /\ Held(InitB) => Held(InitB)'
        /\ Held(LastA) => Held(LastA)'
        /\ Held(LastB) => Held(LastB)'
    <3>1. InitA[1] = TA /\ InitB[1] = TB /\ LastA[1] = TA /\ LastB[1] = TB BY LastSettings
    <3>2. Held(InitA) => Held(InitA)' BY <1>3, <2>2, <3>1 DEF Held
    <3>3. Held(InitB) => Held(InitB)' BY <1>3, <2>2, <3>1 DEF Held
    <3>4. Held(LastA) => Held(LastA)' BY <1>3, <2>2, <3>1 DEF Held
    <3>5. Held(LastB) => Held(LastB)' BY <1>3, <2>2, <3>1 DEF Held
    <3> QED BY <3>2, <3>3, <3>4, <3>5
  <2>4. Starting' => Starting BY <1>1 DEF Starting
  <2>5. (regs[MODE] = 64 => regs[TA] = LastA[2] /\ regs[TB] = LastB[2])'
    <3> SUFFICES ASSUME regs'[MODE] = 64
                 PROVE  (regs[TA] = LastA[2] /\ regs[TB] = LastB[2])'
      BY <1>5
    <3>1. todo' = <<>> /\ Starting BY <1>1, <2>1 DEF Starting
    <3>2. Held(LastA)' /\ Held(LastB)' BY <2>3, <3>1 DEF BudgetInv
    <3>3. regs'[LastA'[1]] = LastA'[2] /\ regs'[LastB'[1]] = LastB'[2]
      BY <3>1, <3>2 DEF Held
    <3> QED BY <1>3, <3>3, LastSettings DEF TA, TB
  <2> QED BY <1>1, <1>4, <1>6, <2>3, <2>4, <2>5 DEF BudgetInv
<1>7. CASE wpc \notin Setup \cup {"sdram"}
  <2>1. Aside({TA, TB})' /\ reg \notin {TA, TB}
    BY <1>1, <1>2, <1>7, AsideWrite DEF BudgetInv
  <2>2. ~Starting' /\ wpc' \notin Early \cup Late
    BY <1>1, <1>7 DEF Starting, Setup, Early, Late
  <2>3. RESET \notin {MODE, CLEAR} /\ CLEAR # MODE BY DEF RESET, MODE, CLEAR
  <2>4. /\ MODE \in DOMAIN Factory /\ DOMAIN regs = DOMAIN Factory
        /\ {TA, TB} \subseteq DOMAIN Factory /\ RESET \notin {TA, TB} /\ Factory[MODE] # 64
    <3>1. Factory[MODE] # 64 BY FirmwareAssumption DEF MODE
    <3> QED BY <3>1, Settings, TimingApart DEF ConfInv
  <2>5. \/ regs'[MODE] # 64
        \/ regs'[TA] = regs[TA] /\ regs'[TB] = regs[TB] /\ regs'[MODE] = regs[MODE]
    <3>1. ASSUME NEW r, NEW v, r \notin {TA, TB, MODE}, regs' = [regs EXCEPT ![r] = v]
          PROVE  regs'[TA] = regs[TA] /\ regs'[TB] = regs[TB] /\ regs'[MODE] = regs[MODE]
      BY <2>4, <3>1
    <3>2. CASE wpc \in Evaluating
      <4>1. Quiet(todo) BY <3>2 DEF RInv, PhaseInv
      <4>2. reg \notin {RESET, CLEAR, MODE} BY <1>1, <4>1, QuietStep
      <4> HIDE DEF reg, value
      <4>3. regs' = regs \/ \E v : regs' = [regs EXCEPT ![reg] = v]
        BY <1>1, <4>2, WriteRegs
      <4> QED BY <2>1, <3>1, <4>2, <4>3
    <3>3. CASE wpc = "return"
      <4>1. reg = CLEAR BY <1>1, <3>3 DEF RInv, PhaseInv, ReturnInv, W
      <4>2. regs' = regs BY <1>1, <4>1, WriteRegs
      <4> QED BY <4>2
    <3>4. CASE wpc = "boot"
      <4>1. reg = RESET BY <1>1, <3>4 DEF RInv, PhaseInv, BootInv, W
      <4> HIDE DEF reg, value
      <4>2. \/ regs' = regs \/ regs' = [Factory EXCEPT ![RESET] = 0]
            \/ \E v : regs' = [regs EXCEPT ![reg] = v]
        BY <1>1, <4>1, WriteRegs
      <4>3. regs' = [Factory EXCEPT ![RESET] = 0] => regs'[MODE] # 64
        BY <2>3, <2>4
      <4> QED BY <2>3, <2>4, <3>1, <4>1, <4>2, <4>3
    <3> QED BY <1>1, <1>7, <3>2, <3>3, <3>4 DEF RInv, PhaseInv, PrintInv
  <2>6. (regs[MODE] = 64 => regs[TA] = LastA[2] /\ regs[TB] = LastB[2])'
    <3>1. CASE regs'[MODE] # 64 BY <1>5, <3>1
    <3>2. CASE regs'[TA] = regs[TA] /\ regs'[TB] = regs[TB] /\ regs'[MODE] = regs[MODE]
      BY <1>1, <3>2, BudgetKept
    <3> QED BY <2>5, <3>1, <3>2
  <2> HIDE DEF reg, value
  <2> QED BY <1>1, <1>7, <2>1, <2>2, <2>6 DEF BudgetInv, Early, Late
<1> QED BY <1>6, <1>7

LEMMA BudgetStep == RInv /\ ConfInv /\ BudgetInv /\ [FirmwareNext]_firmwareVars => BudgetInv'
BY BudgetWrite, BudgetAway, BudgetIdle, BudgetOver, BudgetSet, Zenon DEF FirmwareNext, Main

LEMMA BudgetInitially ==
  ASSUME FirmwareInit
  PROVE  BudgetInv
<1>1. /\ regs = Factory /\ todo = <<>> /\ wpc = "id"
      /\ \E build \in Builds : budget_us = build[2]
  BY DEF FirmwareInit
<1>2. budget_us \in Nat BY <1>1, FirmwareAssumption
<1>3. Aside({TA, TB}) BY <1>1 DEF Aside
<1>4. Factory[MODE] # 64 BY FirmwareAssumption DEF MODE
<1> QED BY <1>1, <1>2, <1>3, <1>4 DEF BudgetInv, Starting, Setup, Early, Late

(* A budget accepted leaves the ranges half of what the guard does not     *)
(* take.                                                                   *)
LEMMA Shares ==
  ASSUME NEW b \in Nat, ~budgetRefused(b)
  PROVE  rangeTimeout(b) \in Nat /\ rangeTimeout(b) <= LongestRange
BY DEF budgetRefused, rangeTimeout, TimingGuard, LongestRange

LEMMA RangesFit ==
  ASSUME ConfInv, BudgetInv
  PROVE  RangesWithinBudget
<1> DEFINE refused == budgetRefused(budget_us)
           b == IF refused THEN 50000 ELSE budget_us
           share == 2^12 * ((b - TimingGuard) \div 2)
           unit(reg) == calcMacroPeriod(regs[reg], Factory[FREQ])
           fits(duration, u) ==
             /\ duration <= share + u
             /\ ~refused => share <= duration + (duration \div (LSB \div 2)) + u
<1> SUFFICES ASSUME regs[MODE] = 64
             PROVE  fits(durationA, unit(VA)) /\ fits(durationB, unit(VB))
  BY DEF RangesWithinBudget, ranging, MODE, VA, VB, FREQ
<1>1. b \in Nat /\ ~budgetRefused(b)
  BY DEF BudgetInv, budgetRefused, TimingGuard
<1>2. Chosen \in {SHORT, MEDIUM, LONG} BY DEF Chosen
<1>3. /\ regs[VA] = PeriodA(Chosen) /\ regs[VB] = PeriodB(Chosen)
      /\ regs[TA] = LastA[2] /\ regs[TB] = LastB[2]
  <2>1. Configured BY DEF ConfInv
  <2>2. \A c \in ModeSettings(Chosen) : regs[c[1]] = c[2] BY <2>1 DEF Configured
  <2>3. /\ W(VA, PeriodA(Chosen)) \in ModeSettings(Chosen)
        /\ W(VB, PeriodB(Chosen)) \in ModeSettings(Chosen)
    BY <1>2, PeriodsSet
  <2> QED BY <2>2, <2>3 DEF BudgetInv, W
<1>4. /\ Factory[FREQ] \in Nat /\ Factory[FREQ] >= 1152 /\ Factory[FREQ] <= 65535
  BY FirmwareAssumption DEF FREQ
<1>5. \A p \in Periods : Macro(p) \in Nat /\ Macro(p) >= 4096
  BY <1>4, MacroPeriods DEF Macro
<1>6. \A p, q \in Periods : p <= q => Macro(p) <= Macro(q)
  BY <1>4, MacroPeriods DEF Macro
<1>7. /\ PeriodA(Chosen) \in Periods /\ PeriodB(Chosen) \in Periods
      /\ PeriodA(LONG) \in Periods /\ PeriodB(LONG) \in Periods
      /\ PeriodA(Chosen) <= PeriodA(LONG) /\ PeriodB(Chosen) <= PeriodB(LONG)
  BY <1>2 DEF PeriodA, PeriodB, Periods, SHORT, MEDIUM, LONG
<1>8. ASSUME NEW p \in Periods, NEW q \in Periods, p <= q, ~refused => q = p,
             NEW d, d = Decoded(Code(b, q)) * Macro(p)
      PROVE  fits(d, Macro(p))
  <2> DEFINE t == rangeTimeout(b)
             code == encodeTimeout(timeoutMicrosecondsToMclks(t, Macro(q)))
             l == LSB \div 2
  <2>1. t \in Nat /\ t <= LongestRange BY <1>1, Shares
  <2>2. share = t * 2^12
    <3>1. share = 2^12 * t BY DEF rangeTimeout
    <3> HIDE DEF t, share
    <3> QED BY <2>1, <3>1
  <2>3. Code(b, q) = code BY DEF Code
  <2>4. Macro(p) \in Nat /\ Macro(q) \in Nat /\ Macro(p) >= 4096 /\ Macro(p) <= Macro(q)
    BY <1>5, <1>6, <1>8
  <2>5. /\ Decoded(code) * Macro(p) <= t * 2^12 + Macro(p)
        /\ Macro(q) = Macro(p) =>
             t * 2^12 <= Decoded(code) * Macro(p) + ((Decoded(code) * Macro(p)) \div l) + Macro(p)
    <3> HIDE DEF t, l
    <3>1. code = encodeTimeout(timeoutMicrosecondsToMclks(t, Macro(q))) OBVIOUS
    <3> HIDE DEF code, b, share, refused
    <3> DEFINE u == Macro(p)
               c == Macro(q)
    <3>2. u \in Nat /\ c \in Nat /\ u >= 4096 /\ u <= c BY <2>4
    <3>3. code = encodeTimeout(timeoutMicrosecondsToMclks(t, c)) BY <3>1
    <3> HIDE DEF u, c
    <3>4. /\ Decoded(code) * u <= t * 2^12 + u
          /\ c = u => t * 2^12 <= Decoded(code) * u + ((Decoded(code) * u) \div (LSB \div 2)) + u
      BY <2>1, <3>2, <3>3, Fits, SMTT(30)
    <3> QED BY <3>4 DEF u, c, l
  <2> HIDE DEF t, code, share, b, refused, l
  <2>6. d = Decoded(code) * Macro(p) BY <1>8, <2>3
  <2>7. d <= share + Macro(p) BY <2>2, <2>5, <2>6
  <2>8. ~refused => share <= d + (d \div l) + Macro(p)
    BY <1>8, <2>2, <2>5, <2>6
  <2> QED BY <2>7, <2>8 DEF l
<1> HIDE DEF b, share
<1>9. /\ durationA = Decoded(regs[TA]) * Macro(regs[VA])
      /\ durationB = Decoded(regs[TB]) * Macro(regs[VB])
  BY DEF durationA, durationB, Duration, Decoded, Macro, TA, TB, VA, VB, FREQ
<1>10. unit(VA) = Macro(PeriodA(Chosen)) /\ unit(VB) = Macro(PeriodB(Chosen))
  BY <1>3 DEF Macro
<1>11. CASE refused
  <2>1. LastA[2] = Code(b, PeriodA(LONG)) /\ LastB[2] = Code(b, PeriodB(LONG))
    BY <1>11 DEF LastA, LastB, InitA, InitB, W, b
  <2>2. /\ durationA = Decoded(Code(b, PeriodA(LONG))) * Macro(PeriodA(Chosen))
        /\ durationB = Decoded(Code(b, PeriodB(LONG))) * Macro(PeriodB(Chosen))
    BY <1>3, <1>9, <2>1
  <2> HIDE DEF refused, fits
  <2> QED BY <1>7, <1>8, <1>10, <1>11, <2>2
<1>12. CASE ~refused
  <2>1. LastA[2] = Code(b, PeriodA(Chosen)) /\ LastB[2] = Code(b, PeriodB(Chosen))
    BY <1>12 DEF LastA, LastB, W, b
  <2>2. /\ durationA = Decoded(Code(b, PeriodA(Chosen))) * Macro(PeriodA(Chosen))
        /\ durationB = Decoded(Code(b, PeriodB(Chosen))) * Macro(PeriodB(Chosen))
    BY <1>3, <1>9, <2>1
  <2>3. \A p \in Periods : p <= p BY DEF Periods
  <2> HIDE DEF refused, fits
  <2> QED BY <1>7, <1>8, <1>10, <2>2, <2>3
<1> QED BY <1>11, <1>12

(***************************************************************************)
(* Whenever the sensor measures, its two ranges keep to the last budget    *)
(* accepted, for every budget and mode main may be built with, every       *)
(* frequency of the sensor's oscillator, and every moment the processor is *)
(* reset at (VL53L1X.c 285-386).                                           *)
(***************************************************************************)
THEOREM AlwaysWithinBudget == FirmwareSpec => []RangesWithinBudget
<1>1. FirmwareInit => RInv /\ ConfInv /\ BudgetInv
  BY Initially, ConfInitially, BudgetInitially
<1>2. RInv /\ [FirmwareNext]_firmwareVars => RInv'
  BY RInvStep
<1>3. RInv /\ ConfInv /\ [FirmwareNext]_firmwareVars => ConfInv'
  BY ConfStep
<1>4. RInv /\ ConfInv /\ BudgetInv /\ [FirmwareNext]_firmwareVars => BudgetInv'
  BY BudgetStep
<1>5. ConfInv /\ BudgetInv => RangesWithinBudget
  BY RangesFit
<1> QED BY <1>1, <1>2, <1>3, <1>4, <1>5, PTL DEF FirmwareSpec
=============================================================================
