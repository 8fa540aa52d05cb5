------------------------------- MODULE Words -------------------------------
(***************************************************************************)
(* Machine words.  KyogenRV computes on UInt(32.W); the width is a         *)
(* parameter here so that TLC can use short words (its integers are        *)
(* 32-bit signed) and the proofs can cover every width.                    *)
(***************************************************************************)
EXTENDS Integers, FiniteSetsExt

CONSTANTS
  XLEN,   \* number of bits in a word (32 in the source)
  HALF    \* the weight of the sign bit, 2^(XLEN-1)

ASSUME WordsAssumption == XLEN \in Nat /\ HALF \in Nat \ {0}
ASSUME SignBitAssumption == XLEN # 0 /\ HALF = 2^(XLEN - 1)

WORD == 2 * HALF
Word == 0 .. WORD - 1

(* A 32-bit adder drops the carry. *)
Add(a, b) == (a + b) % WORD

(* op1 + ~op2 + 1: what an adder computes for a subtraction. *)
Sub(a, b) == (a + (WORD - 1 - b) + 1) % WORD

SignBit(a) == a >= HALF

(* The integer a word stands for in two's complement: a reference, not code. *)
Signed(a) == IF SignBit(a) THEN a - WORD ELSE a

Bit(a, k) == (a \div 2^k) % 2 = 1

BitsOf(a)   == {k \in 0 .. XLEN - 1 : Bit(a, k)}
FromBits(S) == FoldSet(LAMBDA k, acc : acc + 2^k, 0, S)

(* A Boolean placed at the bit of weight w (Cat in Chisel). *)
Weight(v, w) == IF v THEN w ELSE 0

(* x >> 2 << 2 *)
AlignDown(a) == a - (a % 4)

(* x(1,0).orR *)
Misaligned(a) == a % 4 # 0
=============================================================================
