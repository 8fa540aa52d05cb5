------------------------------ MODULE MCUnits ------------------------------
(***************************************************************************)
(* Parts that run to completion on their own, checked side by side: a      *)
(* behaviour exercises one of them and leaves the others at rest.          *)
(***************************************************************************)
EXTENDS ALUSpec, DMemLanes, KrvTime, Xprintf, SdramTest, TimeoutCode, QsysI2c

ASSUME TimelyHolds == Timely

VARIABLE unit   \* the part exercised

Conversion(f, w, p, z, t, b, s) ==
  [flag |-> f, width |-> w, prec |-> p, size |-> z, type |-> t, bits |-> b, text |-> s]
Plain(c) == Conversion("", 0, -1, "", "plain", 0, <<c>>)

NumberFormats ==
  { <<Conversion(f, w, -1, z, t, b, <<>>), Plain(LF)>> :
      f \in {"", "0", "-"}, w \in {-3, 0, 3}, z \in {"", "l"},
      t \in {"d", "u", "x", "b"}, b \in {0, 1, 9, 11, 16, 31} }

LongFormats ==
  { <<Conversion("", 0, -1, "ll", t, b, <<>>), Plain(LF)>> :
      t \in {"d", "X", "b", "o"}, b \in {0, 15, 16, 31, 64, 100, 127} }

StringFormats ==
  { <<Conversion(f, w, p, "", "s", 0, s), Plain("%")>> :
      f \in {"", "0", "-"}, w \in {-3, 0, 3}, p \in {-1, 0, 1, 2},
      s \in {<<>>, <<"a", "b">>, <<"a", LF, "c", "d">>} }

AllFormats == NumberFormats \cup LongFormats \cup StringFormats

SomeTimeouts == 0 .. 600 \cup {1023, 1024, 1025, 65535, 65536, 65537, 16711680, 16711681}

(* A part at rest. *)
AluRest == alu_op = "ADD" /\ in1 = 0 /\ in2 = 0
LanesRest == lanes = [l \in Lane |-> [i \in Index |-> 0]] /\ reg = [l \in Lane |-> 0]
TimeRest == /\ time = 0 /\ timeh = 0 /\ tpc = "idle" /\ hi = 0 /\ start = 0 /\ limit = 0
            /\ gap = 0 /\ elapsed = 0 /\ torn = FALSE
ConsoleRest == /\ fmt = <<>> /\ call = <<>> /\ xpc = "item" /\ v = 0 /\ radix = 10
               /\ neg = FALSE /\ str = <<>> /\ value = 0 /\ weight = 1 /\ done = 0
               /\ todo = <<>> /\ txdata = <<>> /\ shifter = <<>> /\ line = <<>>
SdramRest == /\ spc = "write" /\ k = 0 /\ verdict = 0 /\ stuck = {}
             /\ contents = [c \in Cells |-> 0]
             /\ wired = [i \in Offsets |-> CHOOSE c \in Cells : TRUE]
CodeRest == epc = "shift" /\ timeout_mclks = 0 /\ ls_byte = 0 /\ ms_byte = 0 /\ weight2 = 1
I2cRest == I2cInit /\ ~enabled

UnitsInit ==
  \/ unit = "alu" /\ AluInit /\ LanesRest /\ TimeRest /\ ConsoleRest /\ SdramRest /\ CodeRest /\ I2cRest
  \/ unit = "lanes" /\ LanesInit /\ AluRest /\ TimeRest /\ ConsoleRest /\ SdramRest /\ CodeRest /\ I2cRest
  \/ unit = "time" /\ TimeInit /\ AluRest /\ LanesRest /\ ConsoleRest /\ SdramRest /\ CodeRest /\ I2cRest
  \/ unit = "console" /\ ConsoleInit /\ AluRest /\ LanesRest /\ TimeRest /\ SdramRest /\ CodeRest /\ I2cRest
  \/ unit = "sdram" /\ SdramInit /\ AluRest /\ LanesRest /\ TimeRest /\ ConsoleRest /\ CodeRest /\ I2cRest
  \/ unit = "code" /\ CodeInit /\ AluRest /\ LanesRest /\ TimeRest /\ ConsoleRest /\ SdramRest /\ I2cRest
  \/ unit = "i2c" /\ I2cInit /\ AluRest /\ LanesRest /\ TimeRest /\ ConsoleRest /\ SdramRest /\ CodeRest

UnitsNext ==
  /\ UNCHANGED unit
  /\ \/ unit = "alu" /\ AluNext
        /\ UNCHANGED <<laneVars, timeVars, consoleVars, sdramVars, codeVars, i2cVars>>
     \/ unit = "lanes" /\ LanesNext
        /\ UNCHANGED <<aluVars, timeVars, consoleVars, sdramVars, codeVars, i2cVars>>
     \/ unit = "time" /\ TimeNext
        /\ UNCHANGED <<aluVars, laneVars, consoleVars, sdramVars, codeVars, i2cVars>>
     \/ unit = "console" /\ ConsoleNext
        /\ UNCHANGED <<aluVars, laneVars, timeVars, sdramVars, codeVars, i2cVars>>
     \/ unit = "sdram" /\ SdramNext
        /\ UNCHANGED <<aluVars, laneVars, timeVars, consoleVars, codeVars, i2cVars>>
     \/ unit = "code" /\ CodeNext
        /\ UNCHANGED <<aluVars, laneVars, timeVars, consoleVars, sdramVars, i2cVars>>
     \/ unit = "i2c" /\ I2cNext
        /\ UNCHANGED <<aluVars, laneVars, timeVars, consoleVars, sdramVars, codeVars>>

unitsVars == <<unit, aluVars, laneVars, timeVars, consoleVars, sdramVars, codeVars, i2cVars>>

Others == <<aluVars, laneVars, timeVars, consoleVars, sdramVars, codeVars, unit>>

(* The fairness of the I2C driver and of its core, in the part exercised.  *)
UnitsFairness ==
  /\ WF_unitsVars(unit = "i2c" /\ I2cDriver /\ UNCHANGED Others)
  /\ WF_unitsVars(unit = "i2c" /\ I2cCore /\ UNCHANGED Others)

UnitsSpec == UnitsInit /\ [][UnitsNext]_unitsVars /\ UnitsFairness
=============================================================================
