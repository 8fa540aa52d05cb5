---------------------------- MODULE RV32Meaning ----------------------------
(***************************************************************************)
(* What the instructions mean: the value each computes, where the program  *)
(* goes behind it and the exceptions it raises, written from the meaning   *)
(* of the instructions and not from the decoder or the ALU.                *)
(***************************************************************************)
EXTENDS RV32I

x0Reads(f, r) == IF r = 0 THEN 0 ELSE f[r]

Taken(i, a, b) ==
  \/ i.op = "BEQ"  /\ a = b
  \/ i.op = "BNE"  /\ a # b
  \/ i.op = "BLT"  /\ Signed(a) < Signed(b)
  \/ i.op = "BGE"  /\ Signed(a) >= Signed(b)
  \/ i.op = "BLTU" /\ a < b
  \/ i.op = "BGEU" /\ a >= b

isBranch(i) == i.op \in CondBranches
isJump(i)   == i.op \in {"JAL", "JALR"}
isCsr(i)    == i.op \in CsrOps
isMem(i)    == i.op \in {"LW", "SW"}

(* JALR sets the least significant bit of its target to zero. *)
Target(i, a, at) ==
  IF i.op = "JALR" THEN Add(a, i.imm) - (Add(a, i.imm) % 2) ELSE Add(at, i.imm)

(* The value written to rd. *)
Result(i, a, b, at, old, data) ==
  CASE i.op = "LUI"   -> i.imm
    [] i.op = "AUIPC" -> Add(at, i.imm)
    [] isJump(i)      -> Add(at, 4)
    [] i.op = "LW"    -> data[Add(a, i.imm) \div 4]
    [] i.op = "ADDI"  -> Add(a, i.imm)
    [] i.op = "ADD"   -> Add(a, b)
    [] i.op = "SUB"   -> (a - b) % WORD
    [] i.op = "SLTU"  -> IF a < b THEN 1 ELSE 0
    [] isCsr(i)       -> old

NextPc(i, a, b, at, epc) ==
  CASE isBranch(i) /\ Taken(i, a, b) -> Target(i, a, at)
    [] isJump(i)                     -> Target(i, a, at)
    [] i.op = "MRET"                 -> epc
    [] OTHER                         -> Add(at, 4)

WritesRd(i) == i.op \in {"LUI", "AUIPC", "JAL", "JALR", "LW", "ADDI", "ADD",
                         "SUB", "SLTU"} \cup CsrOps

(* The cause of the exception an instruction raises, if it raises one. *)
NoCause == -1
CauseOf(i, a, at) ==
  CASE i.op = "ILLEGAL" -> 2
    [] i.op = "EBREAK"  -> 3
    [] i.op = "ECALL"   -> 11
    [] isJump(i) /\ Misaligned(Target(i, a, at))   -> 0
    [] i.op = "LW"   /\ Misaligned(Add(a, i.imm))  -> 4
    [] i.op = "SW"   /\ Misaligned(Add(a, i.imm))  -> 6
    [] OTHER -> NoCause

TvalOf(i, a, at) ==
  CASE isMem(i)        -> Add(a, i.imm)
    [] isJump(i)       -> Target(i, a, at)
    [] OTHER           -> i.bits

(* cs is a record of the machine CSRs a program can read and write. *)
ReadCsr(cs, n) == IF n \in DOMAIN cs THEN cs[n] ELSE 0

(* A CSRRS or CSRRC with rs1 = x0 only reads. *)
CsrWrites(i) == i.op \in {"CSRRW", "CSRRWI"}
Kept(n, v) == CASE n = "mepc"   -> AlignDown(v)
                [] n = "mcause" -> HALF * (v \div HALF) + (v % 16)
                [] OTHER        -> v
=============================================================================
