------------------------------ MODULE ALUSpec ------------------------------
(***************************************************************************)
(* What the ALU's functions mean, and a driver that applies every function *)
(* to every pair of operands.                                              *)
(***************************************************************************)
EXTENDS ALU

VARIABLES alu_op, in1, in2

aluVars == <<alu_op, in1, in2>>

Comparisons == {"SEQ", "SNE", "SLT", "SGE", "SLTU", "SGEU"}

Compares(f, a, b) ==
  CASE f = "SEQ"  -> a = b
    [] f = "SNE"  -> a # b
    [] f = "SLT"  -> Signed(a) < Signed(b)
    [] f = "SGE"  -> Signed(a) >= Signed(b)
    [] f = "SLTU" -> a < b
    [] f = "SGEU" -> a >= b

(***************************************************************************)
(* AluCorrect: the comparison output, which decides every branch, and the  *)
(* data output of SUB, SLT and SLTU are right for every pair of operands,  *)
(* those included whose difference overflows (ALU.scala 51-60).            *)
(***************************************************************************)
AluCorrect ==
  /\ alu_op \in Comparisons =>
       (cmp(alu_op, in1, in2) <=> Compares(alu_op, in1, in2))
  /\ alu_op \in {"SLT", "SLTU"} =>
       AluOut(alu_op, in1, in2) = IF Compares(alu_op, in1, in2) THEN 1 ELSE 0
  /\ alu_op = "SUB" => AluOut(alu_op, in1, in2) = (in1 - in2) % WORD

(***************************************************************************)
(* ShiftsCorrect: the one right shifter shifts left, right and right with  *)
(* the sign, by any amount; and the logical functions work bit by bit      *)
(* (ALU.scala 52-55, 63-67).                                               *)
(***************************************************************************)
ShiftsCorrect ==
  LET out == AluOut(alu_op, in1, in2)
      n == in2 % XLEN
      bitwise(op(_, _)) == \A k \in 0 .. XLEN - 1 : Bit(out, k) <=> op(Bit(in1, k), Bit(in2, k))
  IN /\ alu_op = "SLL" => out = (in1 * 2^n) % WORD
     /\ alu_op = "SRL" => out = in1 \div 2^n
     /\ alu_op = "SRA" => out = (Signed(in1) \div 2^n) % WORD
     /\ alu_op = "AND" => bitwise(LAMBDA p, q : p /\ q)
     /\ alu_op = "OR"  => bitwise(LAMBDA p, q : p \/ q)
     /\ alu_op = "XOR" => bitwise(LAMBDA p, q : p # q)

AluInit == alu_op \in AluFns /\ in1 \in Word /\ in2 = 0

(* The next pair of operands. *)
AluNext == in2' = Add(in2, 1) /\ UNCHANGED <<alu_op, in1>>

AluSpec == AluInit /\ [][AluNext]_aluVars
=============================================================================
