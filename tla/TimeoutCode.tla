----------------------------- MODULE TimeoutCode -----------------------------
(***************************************************************************)
(* The sensor's time-outs are written as a byte and an exponent: ls_byte * *)
(* 2^ms_byte + 1 macro periods.  VL53L1X_encodeTimeout shifts the number   *)
(* right until it fits the byte.                                           *)
(***************************************************************************)
EXTENDS Integers

CONSTANTS
  LSB,        \* number of values of the byte (256)
  Timeouts    \* the time-outs encoded, in macro periods

ASSUME CodeAssumption == LSB \in Nat /\ LSB % 2 = 0 /\ LSB > 0 /\ Timeouts \subseteq Nat

VARIABLES
  epc,              \* "shift" or "encoded"
  timeout_mclks,    \* the argument
  ls_byte, ms_byte, \* as in the source
  weight2           \* history: 2^ms_byte

codeVars == <<epc, timeout_mclks, ls_byte, ms_byte, weight2>>

CodeInit ==
  /\ timeout_mclks \in Timeouts
  /\ epc = "shift"
  /\ ls_byte = IF timeout_mclks > 0 THEN timeout_mclks - 1 ELSE 0
  /\ ms_byte = 0 /\ weight2 = 1

(* Mutant: the loop ends one value late. *)
tooWideLate == ls_byte > LSB

tooWide == ls_byte >= LSB

Shift ==
  /\ epc = "shift" /\ tooWide
  /\ ls_byte' = ls_byte \div 2
  /\ ms_byte' = ms_byte + 1 /\ weight2' = 2 * weight2
  /\ UNCHANGED <<epc, timeout_mclks>>

Encoded ==
  /\ epc = "shift" /\ ~tooWide
  /\ epc' = "encoded"
  /\ UNCHANGED <<timeout_mclks, ls_byte, ms_byte, weight2>>

CodeNext == Shift \/ Encoded

CodeSpec == CodeInit /\ [][CodeNext]_codeVars
---------------------------------------------------------------------------
(* What the two fields mean to the sensor. *)
Decoded(ls, w) == ls * w + 1

(***************************************************************************)
(* CodeCorrect: the code decodes to at most the time-out that was asked    *)
(* for and misses it by less than one unit of its exponent; the byte is    *)
(* never cut, and keeps all its bits when the exponent is used             *)
(* (VL53L1X.c 349-366).                                                    *)
(***************************************************************************)
CodeCorrect ==
  epc = "encoded" =>
    /\ ls_byte \in 0 .. LSB - 1
    /\ timeout_mclks > 0 => /\ Decoded(ls_byte, weight2) <= timeout_mclks
                            /\ timeout_mclks < Decoded(ls_byte, weight2) + weight2
    /\ ms_byte > 0 => 2 * ls_byte >= LSB
=============================================================================
