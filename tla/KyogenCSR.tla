----------------------------- MODULE KyogenCSR -----------------------------
(***************************************************************************)
(* Class CSR (csr.scala): the control and status registers, exception and  *)
(* interrupt detection, and trap entry.  The unit is combinational on the  *)
(* instruction in the EX stage; its registers move once per clock.  The    *)
(* free-running counters are left out.                                     *)
(***************************************************************************)
EXTENDS RV32I

CONSTANTS
  EvecReset,     \* PC_INITS.PC_EVEC, the value of mtvec out of reset
  Uninit         \* values a register without a reset value may power up with

(* Bit 11 (MEIP, MEIE) lies below the sign bit. *)
ASSUME CsrAssumption == /\ HALF = 2^(XLEN - 1) /\ HALF > 2048
                        /\ EvecReset \in Word /\ Uninit \subseteq Word

VARIABLE csr     \* the registers of the unit, a record

PRIV_M == 3      \* the only privilege mode PRV ever holds

Cause == [InstAddrMisaligned |-> 0, IllegalInst |-> 2, Breakpoint |-> 3,
          LoadAddrMisaligned |-> 4, StoreAddrMisaligned |-> 6,
          Ecall |-> 8, ExtInterrupt |-> 8]

CsrType ==
  [mtvec : Word, mepc : Word, mcause : Word, mtval : Word, mscratch : Word,
   IE : BOOLEAN, IE1 : BOOLEAN, PRV1 : 0 .. 3,
   MEIE : BOOLEAN, MTIE : BOOLEAN, MSIE : BOOLEAN,
   MEIP : BOOLEAN, MTIP : BOOLEAN, MSIP : BOOLEAN,
   valid_pc : Word, pre_mepc : Word, pre_mtval : Word, pre_calc : Word]

CsrInit ==
  \E epc, cause, scratch \in Uninit :
    csr = [mtvec |-> EvecReset, mepc |-> epc, mcause |-> cause,
           mtval |-> NOP.bits, mscratch |-> scratch,
           IE |-> FALSE, IE1 |-> FALSE, PRV1 |-> PRIV_M,
           MEIE |-> FALSE, MTIE |-> FALSE, MSIE |-> FALSE,
           MEIP |-> FALSE, MTIP |-> FALSE, MSIP |-> FALSE,
           valid_pc |-> 0, pre_mepc |-> 0, pre_mtval |-> NOP.bits,
           pre_calc |-> 0]

(***************************************************************************)
(* The unit's inputs in one clock: x.inst and x.pc are the EX stage's      *)
(* instruction and address, x.in its csr operand, x.calc the sum of the    *)
(* ALU operands (alu_calc_addr), x.stall and x.pc_invalid the pipeline's   *)
(* wires, x.irq the synchronised external interrupt line.                  *)
(***************************************************************************)
CsrInput == [inst : Inst, pc : Word, in : Word, calc : Word,
             stall : BOOLEAN, pc_invalid : BOOLEAN, irq : BOOLEAN]

mstatus(c) == Weight(c.IE, 1) + 2 * PRIV_M + Weight(c.IE1, 8) + 16 * c.PRV1
mip(c)     == Weight(c.MEIP, 2048) + Weight(c.MTIP, 128) + Weight(c.MSIP, 8)
mie(c)     == Weight(c.MEIE, 2048) + Weight(c.MTIE, 128) + Weight(c.MSIE, 8)

(* csrFile: what a read of the addressed register returns. *)
CsrOut(c, addr) ==
  CASE addr = "mtvec"    -> c.mtvec
    [] addr = "mscratch" -> c.mscratch
    [] addr = "mepc"     -> c.mepc
    [] addr = "mcause"   -> c.mcause
    [] addr = "mtval"    -> c.mtval
    [] addr = "mie"      -> mie(c)
    [] addr = "mip"      -> mip(c)
    [] addr = "mstatus"  -> mstatus(c)
    [] OTHER             -> 0

wdata(c, x) ==
  LET out == CsrOut(c, x.inst.csr) IN
  CASE csr_cmd(x.inst) = "W" -> x.in
    [] csr_cmd(x.inst) = "S" -> FromBits(BitsOf(out) \cup BitsOf(x.in))
    [] csr_cmd(x.inst) = "C" -> FromBits(BitsOf(out) \ BitsOf(x.in))
    [] OTHER                 -> 0

wen(x) == \/ csr_cmd(x.inst) = "W"
          \/ csr_cmd(x.inst) \in {"S", "C"} /\ x.inst.rs1 # 0
---------------------------------------------------------------------------
(* Exceptions.  Only the illegal-instruction check looks at pc_invalid.    *)
isExtInt(c)  == c.MEIP /\ c.MEIE
isEcall(x)   == csr_cmd(x.inst) = "P" /\ x.inst.csr = "ecall"
isEbreak(x)  == csr_cmd(x.inst) = "P" /\ x.inst.csr = "ebreak"
isIllegal(x) == ~legal(x.inst) /\ ~x.pc_invalid

j_check(i) == br_type(i) \in {"J", "JR"}
b_check(i) == br_type(i) = "COND"

iaddrInvalid_b(x) == Misaligned(x.pc)
iaddrInvalid_j(x) == j_check(x.inst) /\ Misaligned(x.calc)
laddrInvalid(x)   == mem_wr(x.inst) = "XRD" /\ Misaligned(x.calc)
saddrInvalid(x)   == mem_wr(x.inst) = "XWR" /\ Misaligned(x.calc)

expt(c, x) ==
  \/ isEcall(x) \/ isEbreak(x) \/ isIllegal(x) \/ isExtInt(c)
  \/ iaddrInvalid_j(x) \/ iaddrInvalid_b(x)
  \/ laddrInvalid(x) \/ saddrInvalid(x)

TrapCause(c, x) ==
  IF isEcall(x) THEN Cause.Ecall + PRIV_M
  ELSE IF isExtInt(c)     THEN HALF + Cause.ExtInterrupt + PRIV_M
  ELSE IF isEbreak(x)     THEN Cause.Breakpoint
  ELSE IF iaddrInvalid_j(x) \/ iaddrInvalid_b(x) THEN Cause.InstAddrMisaligned
  ELSE IF isIllegal(x)    THEN Cause.IllegalInst
  ELSE IF laddrInvalid(x) THEN Cause.LoadAddrMisaligned
  ELSE IF saddrInvalid(x) THEN Cause.StoreAddrMisaligned
  ELSE Cause.InstAddrMisaligned

(* mepc and mtval: the external interrupt takes the last valid address, a  *)
(* misaligned target blames the branch that produced it.                   *)
TrapEpc(c, x) ==
  IF isExtInt(c) THEN c.valid_pc
  ELSE IF iaddrInvalid_b(x) THEN c.pre_mepc ELSE x.pc

TrapVal(c, x) ==
  LET target == x.calc - (x.calc % 2) IN      \* >> 1 << 1
  IF isExtInt(c) THEN x.inst.bits
  ELSE IF iaddrInvalid_b(x) THEN c.pre_calc
  ELSE IF laddrInvalid(x) \/ saddrInvalid(x) THEN x.calc
  ELSE IF iaddrInvalid_j(x)
       THEN IF x.calc % 4 = 1 THEN Add(target, 2) ELSE target
  ELSE x.inst.bits

TakeTrap(c, x) ==
  [c EXCEPT !.mepc = TrapEpc(c, x), !.mtval = TrapVal(c, x),
            !.mcause = TrapCause(c, x),
            !.IE = FALSE, !.IE1 = c.IE, !.PRV1 = PRIV_M]

(* A CSR instruction's write; read-only and unmapped registers keep. *)
WriteCsr(c, x) ==
  LET d == wdata(c, x) IN
  CASE x.inst.csr = "mstatus"  -> [c EXCEPT !.PRV1 = (d \div 16) % 4,
                                            !.IE1 = Bit(d, 3), !.IE = Bit(d, 0)]
    [] x.inst.csr = "mip"      -> [c EXCEPT !.MTIP = Bit(d, 7), !.MSIP = Bit(d, 3)]
    [] x.inst.csr = "mie"      -> [c EXCEPT !.MEIE = Bit(d, 11), !.MTIE = Bit(d, 7),
                                            !.MSIE = Bit(d, 3)]
    [] x.inst.csr = "mtvec"    -> [c EXCEPT !.mtvec = d]
    [] x.inst.csr = "mscratch" -> [c EXCEPT !.mscratch = d]
    [] x.inst.csr = "mepc"     -> [c EXCEPT !.mepc = AlignDown(d)]
    [] x.inst.csr = "mcause"   -> [c EXCEPT !.mcause = HALF * (d \div HALF) + (d % 16)]
    [] OTHER                   -> c

(* Registers that follow the pipeline in every clock, stalled or not. *)
Track(c, x) ==
  [c EXCEPT !.MEIP = x.irq,
            !.valid_pc = IF x.pc_invalid THEN @ ELSE AlignDown(x.pc),
            !.pre_mepc  = IF b_check(x.inst) \/ j_check(x.inst) THEN x.pc ELSE @,
            !.pre_mtval = IF b_check(x.inst) \/ j_check(x.inst) THEN x.inst.bits ELSE @,
            !.pre_calc  = IF b_check(x.inst) \/ j_check(x.inst) THEN x.calc ELSE @]

(* The unit's next state: trap entry wins over a CSR write, both wait for  *)
(* the pipeline not to stall.                                              *)
Effect(c, x) ==
  IF x.stall THEN c
  ELSE IF expt(c, x) THEN TakeTrap(c, x)
  ELSE IF wen(x) THEN WriteCsr(c, x)
  ELSE c

Updated(c, x) == Track(Effect(c, x), x)

CsrClock(x) == csr' = Updated(csr, x)
=============================================================================
