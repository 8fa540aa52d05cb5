------------------------------- MODULE RV32I -------------------------------
(***************************************************************************)
(* Instructions as the pipeline sees them, and the control signals the     *)
(* decoder derives from them (control.scala, Instructions.scala).          *)
(*                                                                         *)
(* An instruction is a record of the bit fields CDecoder extracts, with    *)
(* the immediate already assembled.  The fields rd, rs1, rs2 are raw: the  *)
(* pipeline reads inst(11,7), inst(19,15) and inst(24,20) of every         *)
(* instruction, also of those whose format puts immediate bits there, so a *)
(* store or a branch carries such bits in "rd".  "bits" names the encoding *)
(* itself, which reaches mtval.                                            *)
(***************************************************************************)
EXTENDS ALU

CondBranches == {"BEQ", "BNE", "BLT", "BGE", "BLTU", "BGEU"}
CsrOps       == {"CSRRW", "CSRRS", "CSRRC", "CSRRWI"}
SystemOps    == {"ECALL", "EBREAK", "MRET"}

Ops == {"LUI", "AUIPC", "JAL", "JALR", "LW", "SW",
        "ADDI", "ADD", "SUB", "SLTU", "FENCE", "ILLEGAL"}
         \cup CondBranches \cup CsrOps \cup SystemOps

RegField == 0 .. 31

(* CSR numbers; the three SYSTEM instructions are told apart by bits (8)   *)
(* and (0) of the same field.                                              *)
SystemFunct == {"ecall", "ebreak", "mret"}
CsrNames == {"mtvec", "mscratch", "mepc", "mcause", "mtval", "mie", "mip",
             "mstatus", "unmapped"}

Inst == [op : Ops, rd : RegField, rs1 : RegField, rs2 : RegField,
         imm : Word, csr : CsrNames \cup SystemFunct, bits : Word]

(* ECALL, EBREAK and MRET are single encodings, with zeros for rd and rs1. *)
WellFormed(i) == i.op \in SystemOps => i.rd = 0 /\ i.rs1 = 0

(* addi x0, x0, 0 *)
NOP == [op |-> "ADDI", rd |-> 0, rs1 |-> 0, rs2 |-> 0, imm |-> 0,
        csr |-> "unmapped", bits |-> 19]

(* The first instruction of program p, at or after address a, that is not  *)
(* a NOP: the pipeline's bubbles are NOPs too, so only this one can be     *)
(* told apart from outside.                                                *)
NextReal(p, a) ==
  LET later == {k \in DOMAIN p : 4 * k >= a /\ p[k] # NOP}
  IN  IF a % 4 = 0 /\ later # {} THEN 4 * Min(later) ELSE a

---------------------------------------------------------------------------
(* The decode table, one operator per column.                              *)
legal(i) == i.op # "ILLEGAL"

br_type(i) ==
  CASE i.op \in CondBranches -> "COND"
    [] i.op = "JAL"          -> "J"
    [] i.op = "JALR"         -> "JR"
    [] i.op = "MRET"         -> "RET"
    [] OTHER                 -> "N"

alu_op1(i) ==
  CASE i.op \in {"AUIPC", "JAL"} -> "PC"
    [] i.op \in {"LUI", "CSRRWI", "FENCE", "ILLEGAL"} \cup SystemOps -> "X"
    [] OTHER -> "RS1"

alu_op2(i) ==
  CASE i.op \in {"LUI", "AUIPC", "JAL", "JALR", "LW", "SW", "ADDI", "CSRRWI"}
         -> "IMM"
    [] i.op \in {"ADD", "SUB", "SLTU"} \cup CondBranches -> "RS2"
    [] OTHER -> "X"

alu_func(i) ==
  CASE i.op = "LUI"  -> "COPY2"
    [] i.op = "BEQ"  -> "SEQ"
    [] i.op = "BNE"  -> "SNE"
    [] i.op = "BLT"  -> "SLT"
    [] i.op = "BGE"  -> "SGE"
    [] i.op \in {"BLTU", "SLTU"} -> "SLTU"
    [] i.op = "BGEU" -> "SGEU"
    [] i.op = "SUB"  -> "SUB"
    [] i.op \in {"CSRRW", "CSRRS", "CSRRC"} -> "COPY1"
    [] OTHER         -> "ADD"

wb_sel(i) ==
  CASE i.op \in {"JAL", "JALR"} -> "PC4"      \* WB_X: rf_wen is off
    [] i.op = "LW"              -> "MEM"
    [] i.op \in CsrOps          -> "CSR"
    [] OTHER                    -> "ALU"

rf_wen(i) == i.op \in {"LUI", "AUIPC", "JAL", "JALR", "LW",
                       "ADDI", "ADD", "SUB", "SLTU"} \cup CsrOps

mem_en(i) == i.op \in {"LW", "SW", "FENCE"}

mem_wr(i) == CASE i.op = "LW" -> "XRD" [] i.op = "SW" -> "XWR" [] OTHER -> "X"

csr_cmd(i) ==
  CASE i.op \in {"CSRRW", "CSRRWI"} -> "W"
    [] i.op = "CSRRS"               -> "S"
    [] i.op = "CSRRC"               -> "C"
    [] i.op \in SystemOps           -> "P"
    [] OTHER                        -> "N"

isImmZ(i) == i.op = "CSRRWI"
=============================================================================
