---------------------------- MODULE RegisterFile ----------------------------
(***************************************************************************)
(* What the register access functions of the sensor driver promise: a file *)
(* of byte registers, written and read in calls of several bytes, highest  *)
(* byte first, at consecutive addresses.                                   *)
(***************************************************************************)
EXTENDS Integers, Sequences

CONSTANTS
  BYTES,      \* number of values of a byte (256)
  Lengths     \* bytes a call transfers: {1, 2, 4}

VARIABLES regs,    \* the registers
          answer   \* of a read that has returned: address, length, value

Reg == 0 .. BYTES * BYTES - 1
Octet == 0 .. BYTES - 1

(* The address of the i-th byte of a call; addresses wrap. *)
At(reg, i) == (reg + i - 1) % (BYTES * BYTES)

(* The number that n bytes make, highest byte first. *)
NumberOf(byte(_), n) ==
  LET upTo[i \in 0 .. n] == IF i = 0 THEN 0 ELSE BYTES * upTo[i - 1] + byte(i)
  IN upTo[n]

(* Byte i of the n of value. *)
ByteOf(value, i, n) == (value \div BYTES^(n - i)) % BYTES

RegInit == regs \in [Reg -> Octet] /\ answer = <<>>

Write(reg, n, value) ==
  /\ regs' = [r \in Reg |-> IF \E i \in 1 .. n : r = At(reg, i)
                            THEN ByteOf(value, CHOOSE i \in 1 .. n : r = At(reg, i), n)
                            ELSE regs[r]]
  /\ answer' = <<>>

(* A read is called, and returns. *)
Ask == answer' = <<>> /\ UNCHANGED regs

Read(reg, n) ==
  /\ answer' = <<reg, n, NumberOf(LAMBDA i : regs[At(reg, i)], n)>>
  /\ UNCHANGED regs

RegNext == \/ Ask
           \/ \E reg \in Reg, n \in Lengths :
                \/ Read(reg, n)
                \/ \E value \in 0 .. BYTES^n - 1 : Write(reg, n, value)

RegSpec == RegInit /\ [][RegNext]_<<regs, answer>>
=============================================================================
