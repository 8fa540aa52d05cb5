----------------------------- MODULE MCFirmware -----------------------------
(***************************************************************************)
(* The firmware with every mode of the driver's interface, budgets it      *)
(* accepts and refuses, and five measurements: an ordinary one, one        *)
(* without a SPAD, one without a signal, one with so little that the SPADs *)
(* asked for are clipped, and one whose rate is clipped.                   *)
(***************************************************************************)
EXTENDS Firmware

SomeBuilds == { <<LONG, 50000>>, <<LONG, 4528>>, <<MEDIUM, 50000>>, <<MEDIUM, 4529>>,
                <<SHORT, 4528>>, <<SHORT, 1000000>>, <<SHORT, 50000>>,
                <<"unrecognized", 1200000>> }
MainBuild == { <<LONG, 50000>> }

Result(status, stream, spads, ambient, range, peak) ==
  [range_status |-> status, stream_count |-> stream, spads |-> spads,
   ambient |-> ambient, range |-> range, peak |-> peak]

FiveSamples == {
  Result(9, 1, 40, 3, 100, 20), Result(4, 2, 0, 5, 7, 1), Result(9, 0, 200, 0, 250, 0),
  Result(2, 3, 255, 1, 31, 2), Result(18, 4, 1, 200, 255, 100) }

OneSample == { Result(9, 1, 40, 3, 100, 20) }

Written == {w[1] : w \in { StaticConfig[i] : i \in DOMAIN StaticConfig }
                          \cup { setDistanceMode(LONG)[i] : i \in 1 .. 7 }
                          \cup { TimingA(50000, 4096)[i] : i \in 1 .. 3 }
                          \cup { TimingB(50000, 4096)[i] : i \in 1 .. 2 }
                          \cup { Calibration(0, 0)[i] : i \in 1 .. 3 } }
           \cup { "CAL_CONFIG__VCSEL_START" }

FactoryValue == [
  SOFT_RESET |-> 1, OSC_MEASURED__FAST_OSC__FREQUENCY |-> 48332,
  RESULT__OSC_CALIBRATE_VAL |-> 1500, MM_CONFIG__OUTER_OFFSET_MM |-> 65533,
  PHASECAL_RESULT__VCSEL_START |-> 11, VHV_CONFIG__INIT |-> 160,
  VHV_CONFIG__TIMEOUT_MACROP_LOOP_BOUND |-> 17, PAD_I2C_HV__EXTSUP_CONFIG |-> 0,
  SYSTEM__MODE_START |-> 0, SYSTEM__INTERMEASUREMENT_PERIOD |-> 0,
  ALGO__PART_TO_PART_RANGE_OFFSET_MM |-> 0 ]

FactorySettings == [reg \in Written \cup DOMAIN FactoryValue |->
                      IF reg \in DOMAIN FactoryValue THEN FactoryValue[reg] ELSE 0]
=============================================================================
