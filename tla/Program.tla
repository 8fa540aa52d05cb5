------------------------------ MODULE Program ------------------------------
(***************************************************************************)
(* Assembler for the small programs the model-checking modules put into    *)
(* IMem.  A program is a sequence of instructions loaded from address 0;   *)
(* the rest of the memory holds NOPs.                                      *)
(***************************************************************************)
EXTENDS KyogenArch, Sequences

I(op, rd, rs1, rs2, imm) ==
  [op |-> op, rd |-> rd, rs1 |-> rs1, rs2 |-> rs2, imm |-> imm,
   csr |-> "unmapped", bits |-> 1]

addi(rd, rs1, imm)    == I("ADDI", rd, rs1, 0, imm)
add(rd, rs1, rs2)     == I("ADD", rd, rs1, rs2, 0)
sub(rd, rs1, rs2)     == I("SUB", rd, rs1, rs2, 0)
jal(rd, off)          == I("JAL", rd, 0, 0, off)
jalr(rd, rs1, off)    == I("JALR", rd, rs1, 0, off)
lw(rd, off, rs1)      == I("LW", rd, rs1, 0, off)
(* The offset of a store or a branch lies where rd is read from. *)
sw(rs2, off, rs1)     == I("SW", off, rs1, rs2, off)
b(op, rs1, rs2, off)  == I(op, off % 32, rs1, rs2, off)
csrw(name, rs1)       == [I("CSRRW", 0, rs1, 0, 0) EXCEPT !.csr = name]
csrrw(rd, name, rs1)  == [I("CSRRW", rd, rs1, 0, 0) EXCEPT !.csr = name]
csrr(rd, name)        == [I("CSRRS", rd, 0, 0, 0) EXCEPT !.csr = name]
sys(op, name)         == [I(op, 0, 0, 0, 0) EXCEPT !.csr = name]
ecall   == sys("ECALL", "ecall")
ebreak  == [sys("EBREAK", "ebreak") EXCEPT !.rs2 = 1]
mret    == [sys("MRET", "mret") EXCEPT !.rs2 = 2]
illegal == [I("ILLEGAL", 0, 0, 0, 0) EXCEPT !.bits = 0]

(* loop: j loop *)
END == jal(0, 0)

nops(n) == [k \in 1 .. n |-> NOP]

Load(s) == [k \in ImemIndex |-> IF k + 1 \in DOMAIN s THEN s[k + 1] ELSE NOP]

ZeroData == [k \in DmemIndex |-> 0]
=============================================================================
