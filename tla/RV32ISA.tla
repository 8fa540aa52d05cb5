------------------------------ MODULE RV32ISA ------------------------------
(***************************************************************************)
(* What KyogenRV promises ("Arch:RV32I, Privileged ISA Version 1.11",      *)
(* README.md): the instruction set, one instruction per step, written from *)
(* the meaning of the instructions and not from the decoder or the ALU.    *)
(*                                                                         *)
(* A NOP has no architectural effect, so the program counter is kept on    *)
(* the next instruction that is not one: that way the pipeline's bubbles   *)
(* and the program's NOPs are the same to this specification.              *)
(***************************************************************************)
EXTENDS RV32Meaning

VARIABLES prog, pc, x, m, c

isaVars == <<prog, pc, x, m, c>>

---------------------------------------------------------------------------
Step ==
  LET i == prog[pc \div 4]
      a == x0Reads(x, i.rs1)
      b == x0Reads(x, i.rs2)
      cause == CauseOf(i, a, pc)
      v == IF i.op = "CSRRWI" THEN i.imm ELSE a
  IN
  /\ UNCHANGED prog
  /\ \/ /\ cause = NoCause
        /\ pc' = NextReal(prog, NextPc(i, a, b, pc, c.mepc))
        /\ x' = IF WritesRd(i) /\ i.rd # 0
                THEN [x EXCEPT ![i.rd] = Result(i, a, b, pc, ReadCsr(c, i.csr), m)]
                ELSE x
        /\ m' = IF i.op = "SW" THEN [m EXCEPT ![Add(a, i.imm) \div 4] = b] ELSE m
        /\ c' = IF CsrWrites(i) /\ i.csr \in DOMAIN c \ {"mtval"}
                THEN [c EXCEPT ![i.csr] = Kept(i.csr, v)] ELSE c
     \/ /\ cause # NoCause
        /\ pc' = NextReal(prog, c.mtvec)
        /\ c' = [c EXCEPT !.mepc = pc, !.mcause = cause, !.mtval = TvalOf(i, a, pc)]
        /\ UNCHANGED <<x, m>>

IsaInit ==
  /\ pc = NextReal(prog, 0)
  /\ x = [r \in RegField |-> 0]

IsaSpec == IsaInit /\ [][Step]_isaVars
=============================================================================
